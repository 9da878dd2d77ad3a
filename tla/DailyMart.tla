------------------------------- MODULE DailyMart -------------------------------
(***************************************************************************)
(* dbt's two models over the canonical raw files: the staging view         *)
(* stg_psx_eod.sql and the mart fact_daily_analytics.py, which fits SARIMA *)
(* symbol by symbol and merges the file that Settlement writes.            *)
(*                                                                         *)
(* dbt replaces the mart in one transaction, once the model has returned.  *)
(* The measures are kept as the numbers they are computed from.            *)
(***************************************************************************)
EXTENDS Settlement, FiniteSetsExt

CONSTANTS
    Stagings,        \* sets of rows the canonical raw files may hold
    DimSymbol,       \* symbol keys in dim_symbol
    DimSession,      \* session keys in dim_session
    Today,           \* current_date
    MinRows,         \* sessions below which SARIMA is not tried, 10 in the code
    Statsmodels,     \* whether statsmodels can be imported
    Columns,         \* the columns of dim_session and of the staging view
    Null

\* tick numbers the rows of a key in the order of the file; a file has an end.
ASSUME StagingsAssumption ==
    \A rows \in Stagings :
        /\ IsFiniteSet(rows)
        /\ rows \subseteq
             [symbol : Nat, session : Nat, tick : Nat, price : Int, volume : Int]
ASSUME MartAssumption ==
    /\ Statsmodels \in BOOLEAN
    /\ Columns \subseteq STRING
    /\ Dates \subseteq Nat   \* a session key stands for its date
    /\ MinRows \in Nat /\ Today \in Nat
    /\ Null \notin Nat \cup [close : Nat, prior : Nat, volume : Nat]

VARIABLES
    mart,     \* fact_daily_analytics
    build,    \* the call of model() under way
    staged,   \* history: what the staging view held at the build the mart is of
    raised    \* history: whether the last build to end raised an exception

martVars == <<mart, build, staged, raised>>
allVars == <<vars, martVars>>

Statuses == {"SKIPPED_NO_STATSMODELS", "INSUFFICIENT_DATA", "OK", "FAILED_CONVERGENCE"}

\* todo: the symbols the loop has not come to; results: trend_results.
NoBuild == [pc |-> "idle", stg |-> {}, todo |-> {}, results |-> {}]

SymbolRowOK(row) ==
    /\ row.symbol \in DimSymbol /\ row.session \in DimSession
    /\ row.volume \in Nat /\ row.close \in Nat
    /\ row.sarima_status \in Statuses

MartTypeOK ==
    /\ TypeOK
    /\ staged \subseteq UNION Stagings
    /\ \A row \in mart :
         SymbolRowOK(row) /\ row.settlement_php_flow \in Flows \cup {NoFlow}
    /\ build.pc \in {"idle", "fit"}
    /\ build.stg \subseteq UNION Stagings /\ build.todo \subseteq DimSymbol
    /\ \A row \in build.results : SymbolRowOK(row)
    /\ raised \in BOOLEAN

MartInit == Init /\ staged = {} /\ mart = {} /\ build = NoBuild /\ raised = FALSE

-----------------------------------------------------------------------------
(* stg_psx_eod *)

\* Mutant: zero prices pass.
ValidatedLax(row) == row.price >= 0 /\ row.volume >= 0 /\ row.session <= Today + 1

\* Mutant: any volume passes.
ValidatedAnyVolume(row) == row.price > 0 /\ row.session <= Today + 1

\* No price that is not positive, no negative volume, no future session.
Validated(row) == row.price > 0 /\ row.volume >= 0 /\ row.session <= Today + 1

\* Rows without a surrogate key are dropped.
Staging(raw) ==
    {row \in raw : Validated(row) /\ row.symbol \in DimSymbol /\ row.session \in DimSession}

-----------------------------------------------------------------------------
(* fact_daily_analytics *)

\* The close and the volume of a session; open, high and low are likewise.
SessionRow(stg, symbol, session) ==
    LET rows == {row \in stg : row.symbol = symbol /\ row.session = session}
    IN  [symbol |-> symbol, session |-> session,
         close |-> (CHOOSE row \in rows : \A o \in rows : o.tick <= row.tick).price,
         volume |-> MapThenSumSet(LAMBDA row : row.volume, rows)]

Daily(stg) == {SessionRow(stg, r.symbol, r.session) : r \in stg}

Group(daily, symbol) == {r \in daily : r.symbol = symbol}

\* Mutant: the latest session first.
PlaceDescending(group, r) == Cardinality({o \in group : o.session >= r.session})

\* sort_values and shift(1): the close of the row one place before.
Place(group, r) == Cardinality({o \in group : o.session <= r.session})
PriorClose(group, r) ==
    IF Place(group, r) = 1 THEN Null
    ELSE (CHOOSE o \in group : Place(group, o) = Place(group, r) - 1).close

\* The numbers daily_return / volume is computed from; NULL without a prior
\* close or with a volume of 0.
Amihud(group, r) ==
    IF PriorClose(group, r) = Null \/ r.volume = 0 THEN Null
    ELSE [close |-> r.close, prior |-> PriorClose(group, r), volume |-> r.volume]

\* A fit that raises is caught.
SarimaStatus(group, converges) ==
    IF ~Statsmodels THEN "SKIPPED_NO_STATSMODELS"
    ELSE IF Cardinality(group) < MinRows THEN "INSUFFICIENT_DATA"
    ELSE IF converges THEN "OK" ELSE "FAILED_CONVERGENCE"

\* _load_settlement_enrichment: no rows unless the file can be read, and none
\* without a date.
Loaded(date) == IF date \in Dates /\ file[date].st = "whole" THEN file[date].rows ELSE {}

\* Mutant: the file's amount is taken to be for the date of its name.
MergedByName(date, session) ==
    IF session # date \/ Loaded(date) = {} THEN NoFlow
    ELSE (CHOOSE row \in Loaded(date) : TRUE).flow

\* The left join on the session's date with the date inside the file.
Merged(date, session) ==
    LET rows == {row \in Loaded(date) : row.date = session}
    IN  IF rows = {} THEN NoFlow ELSE (CHOOSE row \in rows : TRUE).flow

SymbolRow(group, r, converges) ==
    [symbol |-> r.symbol, session |-> r.session, close |-> r.close, volume |-> r.volume,
     amihud |-> Amihud(group, r),
     sarima_status |-> SarimaStatus(group, converges)]

FinalRow(row, date) ==
    [symbol |-> row.symbol, session |-> row.session, close |-> row.close,
     volume |-> row.volume, amihud |-> row.amihud, sarima_status |-> row.sarima_status,
     settlement_php_flow |-> Merged(date, row.session)]

EndBuild(raises) == build' = NoBuild /\ raised' = raises

(***************************************************************************)
(* model() begins.  The view, and with it everything after, needs          *)
(* session_date_key of dim_session; without rows the mart is left empty;   *)
(* the aggregation reads price.                                            *)
(***************************************************************************)
BeginBuild ==
    /\ build = NoBuild
    /\ \E raw \in Stagings :
         LET stg == Staging(raw)
         IN  \/ /\ "session_date_key" \notin Columns
                /\ EndBuild(TRUE)
                /\ UNCHANGED <<mart, staged>>
             \/ /\ "session_date_key" \in Columns
                /\ stg = {}
                /\ mart' = {}
                /\ staged' = {}
                /\ EndBuild(FALSE)
             \/ /\ "session_date_key" \in Columns
                /\ stg # {}
                /\ IF "price" \in Columns
                   THEN /\ build' = [pc |-> "fit", stg |-> stg,
                                     todo |-> {row.symbol : row \in stg}, results |-> {}]
                        /\ UNCHANGED raised
                   ELSE EndBuild(TRUE)
                /\ UNCHANGED <<mart, staged>>
    /\ UNCHANGED vars

\* Mutant: a symbol whose fit raises is passed over.
FitSkipping(symbol, converges) ==
    /\ build.pc = "fit"
    /\ symbol \in build.todo
    /\ LET group == Group(Daily(build.stg), symbol)
           rows == {SymbolRow(group, r, converges) : r \in {g \in group : converges}}
       IN  build' = [build EXCEPT !.todo = @ \ {symbol}, !.results = @ \cup rows]
    /\ UNCHANGED <<vars, mart, staged, raised>>

\* One turn of the loop over the symbols; the fit, if there is one, converges or
\* raises.
Fit(symbol, converges) ==
    /\ build.pc = "fit"
    /\ symbol \in build.todo
    /\ LET group == Group(Daily(build.stg), symbol)
           rows == {SymbolRow(group, r, converges) : r \in group}
       IN  build' = [build EXCEPT !.todo = @ \ {symbol}, !.results = @ \cup rows]
    /\ UNCHANGED <<vars, mart, staged, raised>>

\* date: vars.execution_date of the model's config, or Null, as nothing in the
\* repository sets it.
Assemble(date) ==
    /\ build.pc = "fit"
    /\ build.todo = {}
    /\ mart' = {FinalRow(row, date) : row \in build.results}
    /\ staged' = build.stg
    /\ EndBuild(FALSE)
    /\ UNCHANGED vars

\* dbt is killed and its transaction rolled back.
KillBuild ==
    /\ Crashes
    /\ build # NoBuild
    /\ EndBuild(FALSE)
    /\ UNCHANGED <<vars, mart, staged>>

BuildMart ==
    \/ BeginBuild
    \/ \E symbol \in DimSymbol, converges \in BOOLEAN : Fit(symbol, converges)
    \/ \E date \in Dates \cup {Null} : Assemble(date)
    \/ KillBuild

\* The settlement file may be written during a build by a call made by hand.
MartNext ==
    \/ Next /\ UNCHANGED martVars
    \/ BuildMart

MartSpec == MartInit /\ [][MartNext]_allVars

-----------------------------------------------------------------------------
(* Properties *)

(***************************************************************************)
(* A row shows an amount only if R5 has named it for the date of that      *)
(* row's session ("the join is on session_date"): whatever date a payload  *)
(* is for, which the file's name may contradict, and whatever files other  *)
(* calls left torn or whole, also in the midst of the build.               *)
(***************************************************************************)
MartShowsAnswers ==
    \A row \in mart : row.settlement_php_flow # NoFlow =>
        row.session \in Dates /\ row.settlement_php_flow \in answered[row.session]

Key(row) == <<row.symbol, row.session>>

(***************************************************************************)
(* F-025: the mart has one row for each symbol and session that the        *)
(* staging view held at the build the mart is of, whichever fits raised    *)
(* there and however many later builds were killed in the loop.            *)
(***************************************************************************)
MartComplete ==
    /\ {Key(row) : row \in mart} = {Key(row) : row \in staged}
    /\ \A r1, r2 \in mart : Key(r1) = Key(r2) => r1 = r2

(***************************************************************************)
(* "Lagged close per symbol": a return is taken over the close of the      *)
(* symbol's own latest earlier session, over gaps between its sessions,    *)
(* and is missing only on its first session or a day without volume.       *)
(***************************************************************************)
LaggedClose ==
    \A row \in mart :
        LET earlier == {o \in mart : o.symbol = row.symbol /\ o.session < row.session}
        IN  IF row.amihud = Null THEN earlier = {} \/ row.volume = 0
            ELSE \E o \in earlier :
                    /\ \A p \in earlier : p.session <= o.session
                    /\ row.amihud.prior = o.close

(***************************************************************************)
(* No measure of the mart is a division by zero: its closes, and the prior *)
(* closes and volumes of its returns, are positive whatever was ingested.  *)
(***************************************************************************)
MeasuresFinite ==
    \A row \in mart :
        /\ row.close > 0
        /\ row.amihud # Null => row.amihud.prior > 0 /\ row.amihud.volume > 0

(***************************************************************************)
(* "The dbt model succeeds for all symbols": no build raises.              *)
(***************************************************************************)
ModelSucceeds == ~raised

=============================================================================
