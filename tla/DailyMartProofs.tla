---------------------------- MODULE DailyMartProofs ----------------------------
(***************************************************************************)
(* SuccessMeansWhole, MartTypeOK, MartComplete, MartShowsAnswers,          *)
(* LaggedClose and MeasuresFinite for any dates, amounts, payloads, rows,  *)
(* fits and faults, and whatever columns there are.                        *)
(***************************************************************************)
EXTENDS DailyMart, FiniteSetTheorems, NaturalsInduction, TLAPS

\* A call under way has no outcome yet.
NoOutcomeYet == job.pc # "idle" => outcome = "none"

\* What has been or is about to be written was named for the row's own date.
RowsAnswered ==
    /\ \A d \in Dates : \A row \in file[d].rows :
         row.flow \in answered[row.date] \cup {NoFlow}
    /\ job.pc # "idle" =>
         \A row \in job.rows : row.flow \in answered[row.date] \cup {NoFlow}

SettlementInv == TypeOK /\ NoOutcomeYet /\ RowsAnswered /\ SuccessMeansWhole

\* The rows of the symbols that the loop has come to, with their outcomes.
FullRow(daily, r, fits) == SymbolRow(Group(daily, r.symbol), r, fits[r.symbol])
Fitted(daily, fits, todo) ==
    {FullRow(daily, r, fits) : r \in {o \in daily : o.symbol \notin todo}}

\* What the whole of model() computes.
Model(stg, fits, date) ==
    {FinalRow(FullRow(Daily(stg), r, fits), date) : r \in Daily(stg)}

\* The loop's invariant.
FitState(raw, fits, todo) ==
    [pc |-> "fit", stg |-> Staging(raw), todo |-> todo,
     results |-> Fitted(Daily(Staging(raw)), fits, todo)]

BuildInv ==
    \/ build = NoBuild
    \/ \E raw \in Stagings, fits \in [DimSymbol -> BOOLEAN], todo \in SUBSET DimSymbol :
          build = FitState(raw, fits, todo)

\* What is known of each row of the mart, and of the rows together.
MartRows ==
    /\ staged \subseteq UNION Stagings
    /\ \A row \in mart :
         SymbolRowOK(row) /\ row.settlement_php_flow \in Flows \cup {NoFlow}

MartSound == MartRows /\ LaggedClose /\ MeasuresFinite

MartInv ==
    /\ SettlementInv /\ BuildInv /\ MartShowsAnswers /\ MartComplete /\ MartSound
    /\ raised \in BOOLEAN

-----------------------------------------------------------------------------
(* Induction on the natural numbers, in terms of the set of those for which    *)
(* something holds.                                                            *)
LEMMA NaturalsIn ==
    ASSUME NEW G, 0 \in G, \A n \in Nat : n \in G => n + 1 \in G
    PROVE  Nat \subseteq G
<1> DEFINE R == {ss \in Nat \X Nat : ss[1] < ss[2]}
           bad == Nat \ G
<1>1. SUFFICES ASSUME bad # {} PROVE FALSE
  OBVIOUS
<1>2. IsWellFoundedOn(R, Nat)
  BY NatLessThanWellFounded DEF OpToRel
<1>3. PICK n \in bad : \A m \in bad : ~ (<<m, n>> \in R)
  <2>1. bad \subseteq Nat
    OBVIOUS
  <2> HIDE DEF R, bad
  <2> QED BY <1>1, <1>2, <2>1, WFMin
<1>4. n \in Nat /\ n # 0 /\ n - 1 \in Nat /\ n - 1 + 1 = n
  BY <1>3
<1>5. <<n - 1, n>> \in R
  BY <1>4
<1>6. n - 1 \in G
  BY <1>3, <1>4, <1>5
<1> QED
  BY <1>3, <1>4, <1>6

(* Induction on the subsets of a finite set, likewise.                         *)
LEMMA SubsetsIn ==
    ASSUME NEW S, IsFiniteSet(S), NEW G,
           \A T \in SUBSET S : (\A x \in T : T \ {x} \in G) => T \in G
    PROVE  SUBSET S \subseteq G
<1> DEFINE bad == (SUBSET S) \ G
           R == StrictSubsetOrdering(S)
<1>1. SUFFICES ASSUME bad # {} PROVE FALSE
  OBVIOUS
<1>2. IsWellFoundedOn(R, SUBSET S)
  BY FS_StrictSubsetOrderingWellFounded, FS_FiniteSubsetsOfFinite
<1>3. PICK T \in bad : \A U \in bad : <<U, T>> \notin R
  <2>1. bad \subseteq SUBSET S
    OBVIOUS
  <2> HIDE DEF R, bad
  <2> QED BY <1>1, <1>2, <2>1, WFMin
<1>4. ASSUME NEW x \in T PROVE T \ {x} \in G
  <2>1. T \ {x} \in SUBSET S /\ T \in SUBSET S /\ T \ {x} # T
    BY <1>3, <1>4
  <2>2. <<T \ {x}, T>> \in R
    BY <2>1 DEF StrictSubsetOrdering
  <2> QED
    BY <1>3, <2>1, <2>2
<1> QED
  BY <1>3, <1>4

(* The sum of finitely many volumes is a natural number: the recursive         *)
(* function that the fold is defined by exists, as one on the sets of up to n  *)
(* rows does for every n, and its values are natural numbers.                  *)
LEMMA SumIsNatural ==
    ASSUME NEW rows, IsFiniteSet(rows), \A row \in rows : row.volume \in Nat
    PROVE  MapThenSumSet(LAMBDA row : row.volume, rows) \in Nat
<1> DEFINE c(s) == CHOOSE x \in s : TRUE
           E(h, s) == IF s = {} THEN 0 ELSE c(s).volume + h[s \ {c(s)}]
           upto(n) == {s \in SUBSET rows : Cardinality(s) <= n}
           iter == CHOOSE g : g = [s \in SUBSET rows |-> E(g, s)]
<1>1. \A s \in SUBSET rows : IsFiniteSet(s) /\ Cardinality(s) \in Nat
  BY FS_Subset, FS_CardinalityType
<1>2. ASSUME NEW s \in SUBSET rows, s # {}
      PROVE  /\ c(s) \in s /\ c(s).volume \in Nat
             /\ s \ {c(s)} \in SUBSET rows
             /\ Cardinality(s \ {c(s)}) = Cardinality(s) - 1
  <2>1. c(s) \in s
    BY <1>2
  <2> HIDE DEF c
  <2> QED
    BY <1>1, <2>1, FS_RemoveElement
<1>3. \A n \in Nat : \E h \in [upto(n) -> Nat] : \A s \in upto(n) : h[s] = E(h, s)
  <2> DEFINE G == {n \in Nat : \E h \in [upto(n) -> Nat] :
                                 \A s \in upto(n) : h[s] = E(h, s)}
  <2>1. 0 \in G
    <3>1. \A s \in upto(0) : s = {}
      BY <1>1, FS_EmptySet
    <3> DEFINE h == [s \in upto(0) |-> 0]
    <3>2. h \in [upto(0) -> Nat] /\ \A s \in upto(0) : h[s] = E(h, s)
      BY <3>1
    <3> QED
      BY <3>2
  <2>2. ASSUME NEW n \in Nat, n \in G PROVE n + 1 \in G
    <3>1. PICK h \in [upto(n) -> Nat] : \A s \in upto(n) : h[s] = E(h, s)
      BY <2>2
    <3> DEFINE k == [s \in upto(n + 1) |-> E(h, s)]
    <3>2. \A s \in upto(n + 1) : s # {} => s \ {c(s)} \in upto(n) /\ c(s).volume \in Nat
      BY <1>1, <1>2
    <3>3. \A s \in upto(n) : s \in upto(n + 1)
      BY <1>1
    <3>4. k \in [upto(n + 1) -> Nat]
      <4>1. \A s \in upto(n + 1) : E(h, s) \in Nat
        <5> HIDE DEF c, upto
        <5> QED BY <3>1, <3>2
      <4> HIDE DEF E, upto
      <4> QED BY <4>1
    <3>5. \A s \in upto(n) : k[s] = h[s]
      <4> HIDE DEF E, upto
      <4> QED BY <3>1, <3>3
    <3>6. ASSUME NEW s \in upto(n + 1) PROVE k[s] = E(k, s)
      <4>1. k[s] = E(h, s)
        OBVIOUS
      <4>2. s # {} => k[s \ {c(s)}] = h[s \ {c(s)}]
        BY <3>2, <3>5
      <4> HIDE DEF c, upto, k
      <4> QED BY <4>1, <4>2
    <3> HIDE DEF k, upto, E
    <3> QED BY <3>4, <3>6
  <2> HIDE DEF G
  <2>3. Nat \subseteq G
    BY <2>1, <2>2, NaturalsIn
  <2> QED
    BY <2>3 DEF G
<1>4. iter = [s \in SUBSET rows |-> E(iter, s)]
  <2> DEFINE n == Cardinality(rows)
  <2>1. n \in Nat /\ upto(n) = SUBSET rows
    BY <1>1, FS_Subset
  <2>2. PICK h \in [SUBSET rows -> Nat] : \A s \in SUBSET rows : h[s] = E(h, s)
    <3> HIDE DEF n, upto, E
    <3> QED BY <1>3, <2>1
  <2>3. h = [s \in SUBSET rows |-> E(h, s)]
    <3> HIDE DEF E
    <3> QED BY <2>2
  <2> HIDE DEF E
  <2> QED BY <2>3
<1>5. \A s \in SUBSET rows : iter[s] \in Nat
  <2> DEFINE G == {s \in SUBSET rows : iter[s] \in Nat}
  <2>1. ASSUME NEW T \in SUBSET rows, \A x \in T : T \ {x} \in G PROVE T \in G
    <3>1. iter[T] = E(iter, T)
      <4> HIDE DEF E, iter
      <4> QED BY <1>4
    <3>2. T # {} => c(T).volume \in Nat /\ T \ {c(T)} \in G
      BY <1>2, <2>1
    <3> HIDE DEF c, iter
    <3> QED BY <3>1, <3>2
  <2> HIDE DEF G
  <2>2. SUBSET rows \subseteq G
    BY <2>1, SubsetsIn
  <2> QED
    BY <2>2 DEF G
<1>6. MapThenSumSet(LAMBDA row : row.volume, rows) = iter[rows]
  BY DEF MapThenSumSet, MapThenFoldSet
<1> QED
  BY <1>5, <1>6

(* Of finitely many things with a number one has the largest.                  *)
LEMMA Largest ==
    ASSUME NEW S, IsFiniteSet(S), S # {}, NEW m \in [S -> Nat]
    PROVE  \E x \in S : \A y \in S : m[y] <= m[x]
<1> DEFINE G == {T \in SUBSET S : T # {} => \E x \in T : \A y \in T : m[y] <= m[x]}
<1>1. ASSUME NEW T \in SUBSET S, \A x \in T : T \ {x} \in G PROVE T \in G
  <2>1. SUFFICES ASSUME T # {} PROVE \E x \in T : \A y \in T : m[y] <= m[x]
    OBVIOUS
  <2>2. PICK a \in T : TRUE
    BY <2>1
  <2>3. CASE T \ {a} = {}
    <3>1. \A y \in T : y = a
      BY <2>3
    <3>2. m[a] \in Nat
      OBVIOUS
    <3> QED
      BY <3>1, <3>2
  <2>4. CASE T \ {a} # {}
    <3>1. PICK b \in T \ {a} : \A y \in T \ {a} : m[y] <= m[b]
      BY <1>1, <2>4
    <3>2. \A y \in T : m[y] \in Nat
      OBVIOUS
    <3>3. CASE m[a] <= m[b]
      BY <3>1, <3>3
    <3>4. CASE m[b] <= m[a]
      BY <3>1, <3>2, <3>4
    <3> QED
      BY <3>2, <3>3, <3>4
  <2> QED
    BY <2>3, <2>4
<1> HIDE DEF G
<1>2. SUBSET S \subseteq G
  BY <1>1, SubsetsIn
<1> QED
  BY <1>2 DEF G

-----------------------------------------------------------------------------
(* What the staging view lets through. *)
RowsSound(stg) ==
    /\ IsFiniteSet(stg)
    /\ \A q \in stg :
         /\ q.symbol \in DimSymbol /\ q.session \in DimSession \cap Nat /\ q.tick \in Nat
         /\ q.price \in Nat \ {0} /\ q.volume \in Nat

\* What the mart makes of it: one row per symbol and session.
DailySound(daily) ==
    /\ IsFiniteSet(daily)
    /\ \A r \in daily :
         /\ r.symbol \in DimSymbol /\ r.session \in DimSession \cap Nat
         /\ r.close \in Nat \ {0} /\ r.volume \in Nat
    /\ \A r, o \in daily : r.symbol = o.symbol /\ r.session = o.session => r = o

LEMMA StagingSound ==
    ASSUME NEW raw \in Stagings
    PROVE  RowsSound(Staging(raw)) /\ Staging(raw) \subseteq UNION Stagings
<1>1. IsFiniteSet(raw) /\ Staging(raw) \subseteq raw
  BY StagingsAssumption DEF Staging
<1>2. IsFiniteSet(Staging(raw))
  BY <1>1, FS_Subset
<1>3. ASSUME NEW q \in Staging(raw)
      PROVE  /\ q.symbol \in DimSymbol /\ q.session \in DimSession \cap Nat
             /\ q.tick \in Nat /\ q.price \in Nat \ {0} /\ q.volume \in Nat
  <2>1. q \in [symbol : Nat, session : Nat, tick : Nat, price : Int, volume : Int]
    BY <1>1, StagingsAssumption
  <2>2. q.price > 0 /\ q.volume >= 0 /\ q.symbol \in DimSymbol /\ q.session \in DimSession
    BY DEF Staging, Validated
  <2> QED
    BY <2>1, <2>2
<1> QED
  BY <1>1, <1>2, <1>3 DEF RowsSound

(* A session's close is the price of one of its rows, its volume their sum.    *)
LEMMA SessionRowSound ==
    ASSUME NEW stg, RowsSound(stg), NEW q \in stg
    PROVE  LET r == SessionRow(stg, q.symbol, q.session)
           IN  /\ r.symbol = q.symbol /\ r.session = q.session
               /\ r.close \in Nat \ {0} /\ r.volume \in Nat
<1> DEFINE rows == {row \in stg : row.symbol = q.symbol /\ row.session = q.session}
           last == CHOOSE row \in rows : \A o \in rows : o.tick <= row.tick
           tick == [row \in rows |-> row.tick]
<1>1. /\ rows # {} /\ rows \subseteq stg /\ IsFiniteSet(rows)
  BY FS_Subset DEF RowsSound
<1>2. \A row \in rows : row.tick \in Nat /\ row.price \in Nat \ {0} /\ row.volume \in Nat
  BY DEF RowsSound
<1>3. \E row \in rows : \A o \in rows : o.tick <= row.tick
  <2>1. tick \in [rows -> Nat] /\ \A row \in rows : tick[row] = row.tick
    BY <1>2
  <2> HIDE DEF tick, rows
  <2>2. PICK row \in rows : \A o \in rows : tick[o] <= tick[row]
    BY <1>1, <2>1, Largest
  <2> QED
    BY <2>1, <2>2
<1>4. last \in rows
  <2> HIDE DEF rows
  <2> QED BY <1>3
<1>5. MapThenSumSet(LAMBDA row : row.volume, rows) \in Nat
  <2> HIDE DEF rows
  <2> QED BY <1>1, <1>2, SumIsNatural
<1>6. SessionRow(stg, q.symbol, q.session) =
        [symbol |-> q.symbol, session |-> q.session, close |-> last.price,
         volume |-> MapThenSumSet(LAMBDA row : row.volume, rows)]
  BY DEF SessionRow
<1> HIDE DEF rows, last
<1> QED
  BY <1>2, <1>4, <1>5, <1>6

LEMMA DailyIsSound ==
    ASSUME NEW stg, RowsSound(stg)
    PROVE  DailySound(Daily(stg))
<1> DEFINE R(q) == SessionRow(stg, q.symbol, q.session)
           f == [q \in stg |-> R(q)]
<1>1. Daily(stg) = {R(q) : q \in stg}
  BY DEF Daily
<1>2. \A q \in stg : /\ R(q).symbol = q.symbol /\ R(q).session = q.session
                     /\ R(q).close \in Nat \ {0} /\ R(q).volume \in Nat
  BY SessionRowSound
<1>3. \A q, p \in stg : q.symbol = p.symbol /\ q.session = p.session => R(q) = R(p)
  OBVIOUS
<1> HIDE DEF R
<1>4. f \in Surjection(stg, Daily(stg))
  BY <1>1 DEF Surjection
<1>5. IsFiniteSet(Daily(stg))
  <2> HIDE DEF f
  <2> QED BY <1>4, FS_Surjection DEF RowsSound
<1>6. \A r \in Daily(stg) :
         /\ r.symbol \in DimSymbol /\ r.session \in DimSession \cap Nat
         /\ r.close \in Nat \ {0} /\ r.volume \in Nat
  BY <1>1, <1>2 DEF RowsSound
<1>7. \A r, o \in Daily(stg) : r.symbol = o.symbol /\ r.session = o.session => r = o
  BY <1>1, <1>2, <1>3
<1> QED
  BY <1>5, <1>6, <1>7 DEF DailySound

(* shift(1) finds the latest earlier session of the symbol, if there is one:   *)
(* the rows up to a place are the row there and those up to the place before.  *)
LEMMA PriorIsLatest ==
    ASSUME NEW g, IsFiniteSet(g), \A o \in g : o.session \in Nat,
           \A o, p \in g : o.session = p.session => o = p,
           NEW r \in g
    PROVE  \/ /\ \A o \in g : o.session >= r.session
              /\ PriorClose(g, r) = Null
           \/ \E o \in g : /\ o.session < r.session
                           /\ \A p \in g : p.session < r.session => p.session <= o.session
                           /\ PriorClose(g, r) = o.close
<1> DEFINE upto(x) == {o \in g : o.session <= x.session}
           before == {o \in g : o.session < r.session}
<1>1. /\ \A x \in g : Place(g, x) = Cardinality(upto(x)) /\ IsFiniteSet(upto(x))
      /\ \A x \in g : Cardinality(upto(x)) \in Nat
      /\ IsFiniteSet(before) /\ Cardinality(before) \in Nat
  <2>1. \A x \in g : upto(x) \in SUBSET g
    OBVIOUS
  <2>2. before \in SUBSET g
    OBVIOUS
  <2>3. \A x \in g : Place(g, x) = Cardinality(upto(x))
    BY DEF Place
  <2> HIDE DEF upto, before
  <2> QED
    BY <2>1, <2>2, <2>3, FS_Subset, FS_CardinalityType
<1>2. upto(r) = before \cup {r} /\ r \notin before
  OBVIOUS
<1>3. Place(g, r) = Cardinality(before) + 1
  <2> HIDE DEF upto, before
  <2> QED BY <1>1, <1>2, FS_AddElement
<1>4. CASE before = {}
  <2>1. Place(g, r) = 1
    BY <1>3, <1>4, FS_EmptySet
  <2>2. \A o \in g : o.session >= r.session
    BY <1>4
  <2> QED
    BY <2>1, <2>2 DEF PriorClose
<1>5. CASE before # {}
  <2> DEFINE session == [o \in before |-> o.session]
  <2>1. PICK last \in before : \A p \in before : p.session <= last.session
    <3>1. session \in [before -> Nat] /\ \A o \in before : session[o] = o.session
      OBVIOUS
    <3> HIDE DEF session, before
    <3>2. PICK o \in before : \A p \in before : session[p] <= session[o]
      BY <1>1, <1>5, <3>1, Largest
    <3> QED
      BY <3>1, <3>2
  <2>2. last \in g /\ last.session < r.session
    OBVIOUS
  <2>3. \A p \in g : p.session < r.session => p.session <= last.session
    BY <2>1
  <2>4. upto(last) = before
    BY <2>2, <2>3
  <2>5. Place(g, last) = Place(g, r) - 1
    BY <1>1, <1>3, <2>2, <2>4
  <2>6. Place(g, r) # 1
    <3>1. Cardinality(before) # 0
      <4> HIDE DEF before
      <4> QED BY <1>1, <1>5, FS_EmptySet
    <3> HIDE DEF before
    <3> QED BY <1>1, <1>3, <3>1
  <2>7. ASSUME NEW o \in g, Place(g, o) = Place(g, r) - 1 PROVE o = last
    <3>1. CASE o.session < last.session
      <4>1. upto(o) \in SUBSET before /\ last \in before /\ last \notin upto(o)
        BY <2>2, <3>1
      <4>2. Cardinality(upto(o)) = Cardinality(before)
        BY <1>1, <1>3, <2>7
      <4> HIDE DEF upto, before
      <4> QED
        BY <1>1, <4>1, <4>2, FS_Subset
    <3>2. CASE o.session > last.session
      <4>1. o.session >= r.session
        BY <2>3, <3>2
      <4>2. upto(r) \in SUBSET upto(o)
        BY <4>1
      <4>3. Cardinality(upto(r)) <= Cardinality(upto(o))
        <5> HIDE DEF upto
        <5> QED BY <1>1, <4>2, FS_Subset
      <4> HIDE DEF upto, before
      <4> QED
        BY <1>1, <1>3, <2>7, <4>3
    <3>3. CASE o.session = last.session
      BY <2>2, <3>3
    <3> QED
      BY <2>2, <3>1, <3>2, <3>3
  <2>8. (CHOOSE o \in g : Place(g, o) = Place(g, r) - 1) = last
    <3> HIDE DEF before, upto
    <3> QED BY <2>2, <2>5, <2>7
  <2>9. PriorClose(g, r) = last.close
    BY <2>6, <2>8 DEF PriorClose
  <2> QED
    BY <2>2, <2>3, <2>9
<1> QED
  BY <1>4, <1>5

-----------------------------------------------------------------------------
(* What R5 has answered stays answered: fetch_and_write keeps no other memory. *)
LEMMA AnswersGrow ==
    ASSUME TypeOK, [Next]_vars
    PROVE  \A d \in Dates : answered[d] \subseteq answered'[d]
<1>1. CASE Fetch
  BY <1>1 DEF Fetch, TypeOK, Rows
<1>2. CASE UNCHANGED answered
  BY <1>2
<1> QED
  BY <1>1, <1>2 DEF Next, vars, Start, FetchFails, OpenFile, CloseFile,
     WriteFails, MkdirFails, Crash

(* Every step of fetch_and_write, failed or killed, keeps the four facts that  *)
(* are known of its files.                                                     *)
LEMMA SettlementStep ==
    ASSUME SettlementInv, [Next]_vars
    PROVE  SettlementInv'
<1> USE DEF SettlementInv, TypeOK, NoOutcomeYet, RowsAnswered, SuccessMeansWhole, Job
<1>2. ASSUME NEW d \in Dates, MkdirFails(d) PROVE SettlementInv'
  BY <1>2 DEF MkdirFails
<1>3. ASSUME NEW d \in Dates, NEW url \in BOOLEAN, Start(d, url) PROVE SettlementInv'
  BY <1>3 DEF Start
<1>4. CASE Fetch
  <2>1. PICK row \in Rows :
          /\ job' = [job EXCEPT !.pc = "open", !.rows = {row}]
          /\ answered' = [answered EXCEPT ![row.date] =
                            answered[row.date] \cup ({row.flow} \ {NoFlow})]
    BY <1>4 DEF Fetch
  <2>2. UNCHANGED <<file, outcome>> /\ job.pc = "fetch"
    BY <1>4 DEF Fetch
  <2>3. row.date \in Dates /\ row.flow \in Flows \cup {NoFlow}
    BY DEF Rows
  <2>4. answered' \in [Dates -> SUBSET Flows] /\ job' \in Job
    BY <2>1, <2>3
  <2>5. \A d \in Dates : answered[d] \subseteq answered'[d]
    BY <2>1, <2>3
  <2>6. row.flow \in answered'[row.date] \cup {NoFlow}
    BY <2>1, <2>3
  <2>7. \A d \in Dates : \A q \in file[d].rows : q.date \in Dates
    BY DEF Parquet, Rows
  <2>8. RowsAnswered'
    BY <2>1, <2>2, <2>5, <2>6, <2>7
  <2>9. NoOutcomeYet' /\ SuccessMeansWhole'
    BY <2>1, <2>2
  <2> QED
    BY <2>2, <2>4, <2>8, <2>9
<1>5. CASE FetchFails
  BY <1>5 DEF FetchFails
<1>6. CASE OpenFile
  BY <1>6 DEF OpenFile, Parquet
<1>7. CASE CloseFile
  <2> USE <1>7 DEF CloseFile, Parquet
  <2>1. TypeOK'
    OBVIOUS
  <2>2. RowsAnswered'
    <3>1. file'[job.date].rows = job.rows
      OBVIOUS
    <3>2. \A d \in Dates \ {job.date} : file'[d] = file[d]
      OBVIOUS
    <3> QED
      BY <3>1, <3>2
  <2>3. NoOutcomeYet' /\ SuccessMeansWhole'
    OBVIOUS
  <2> QED
    BY <2>1, <2>2, <2>3
<1>8. CASE WriteFails
  <2> USE <1>8 DEF WriteFails
  <2>1. TypeOK'
    <3>1. job' \in Job
      OBVIOUS
    <3> QED
      BY <3>1
  <2>2. RowsAnswered'
    OBVIOUS
  <2>3. NoOutcomeYet' /\ SuccessMeansWhole'
    OBVIOUS
  <2> QED
    BY <2>1, <2>2, <2>3
<1>9. CASE Crash
  BY <1>9 DEF Crash
<1>10. CASE UNCHANGED vars
  BY <1>10 DEF vars
<1> QED
  BY <1>2, <1>3, <1>4, <1>5, <1>6, <1>7, <1>8, <1>9, <1>10 DEF Next

(* A build merges, for each session, at most what R5 has named for its date.   *)
LEMMA MergedAnswered ==
    ASSUME SettlementInv, NEW date, NEW session, Merged(date, session) # NoFlow
    PROVE  session \in Dates /\ Merged(date, session) \in answered[session]
<1> DEFINE rows == {row \in Loaded(date) : row.date = session}
<1>1. rows # {} /\ Merged(date, session) = (CHOOSE row \in rows : TRUE).flow
  BY DEF Merged
<1>2. PICK row \in rows : Merged(date, session) = row.flow
  <2>1. (CHOOSE row \in rows : TRUE) \in rows
    BY <1>1
  <2> QED
    BY <1>1, <2>1
<1>3. date \in Dates /\ row \in file[date].rows /\ row.date = session
  BY DEF Loaded
<1>4. row \in Rows
  BY <1>3 DEF SettlementInv, TypeOK, Parquet
<1> QED
  BY <1>2, <1>3, <1>4 DEF SettlementInv, RowsAnswered, Rows

-----------------------------------------------------------------------------
(* The loop of model().                                                        *)

(* One turn of it adds the symbol's rows to those of the symbols before.       *)
LEMMA FitKeeps ==
    ASSUME NEW raw \in Stagings, NEW fits \in [DimSymbol -> BOOLEAN],
           NEW todo \in SUBSET DimSymbol, build = FitState(raw, fits, todo),
           NEW symbol \in DimSymbol, NEW converges \in BOOLEAN, Fit(symbol, converges)
    PROVE  BuildInv'
<1> DEFINE daily == Daily(Staging(raw))
           group == Group(daily, symbol)
           after == [fits EXCEPT ![symbol] = converges]
           left == todo \ {symbol}
           rows == {SymbolRow(group, r, converges) : r \in group}
<1>1. symbol \in todo
  BY DEF Fit, FitState
<1>2. build' = [pc |-> "fit", stg |-> Staging(raw), todo |-> left,
                results |-> Fitted(daily, fits, todo) \cup rows]
  BY DEF Fit, FitState
<1>3. after \in [DimSymbol -> BOOLEAN] /\ left \in SUBSET DimSymbol
  OBVIOUS
<1>4. \A r \in daily : /\ r.symbol = symbol =>
                           FullRow(daily, r, after) = SymbolRow(group, r, converges)
                       /\ r.symbol \notin todo =>
                           FullRow(daily, r, after) = FullRow(daily, r, fits)
  <2>1. SUFFICES ASSUME NEW r \in daily
                 PROVE  /\ r.symbol = symbol =>
                             FullRow(daily, r, after) = SymbolRow(group, r, converges)
                        /\ r.symbol \notin todo =>
                             FullRow(daily, r, after) = FullRow(daily, r, fits)
    OBVIOUS
  <2> HIDE DEF daily
  <2>2. r.symbol = symbol => after[r.symbol] = converges
    OBVIOUS
  <2>3. r.symbol \notin todo => after[r.symbol] = fits[r.symbol]
    BY <1>1
  <2> HIDE DEF after
  <2> QED
    BY <2>2, <2>3 DEF FullRow
<1>5. group = {r \in daily : r.symbol = symbol}
  BY DEF Group
<1>6. Fitted(daily, fits, todo) \cup rows = Fitted(daily, after, left)
  <2> HIDE DEF daily, group, after
  <2>1. ASSUME NEW x \in Fitted(daily, fits, todo) PROVE x \in Fitted(daily, after, left)
    BY <1>4, <2>1 DEF Fitted
  <2>2. ASSUME NEW x \in rows PROVE x \in Fitted(daily, after, left)
    BY <1>4, <1>5, <2>2 DEF Fitted
  <2>3. ASSUME NEW x \in Fitted(daily, after, left)
        PROVE  x \in Fitted(daily, fits, todo) \cup rows
    <3>1. PICK r \in daily : r.symbol \notin left /\ x = FullRow(daily, r, after)
      BY <2>3 DEF Fitted
    <3>2. CASE r.symbol = symbol
      BY <1>4, <1>5, <3>1, <3>2
    <3>3. CASE r.symbol \notin todo
      BY <1>4, <3>1, <3>3 DEF Fitted
    <3> QED
      BY <3>1, <3>2, <3>3
  <2> QED
    BY <2>1, <2>2, <2>3
<1>7. build' = FitState(raw, after, left)
  BY <1>2, <1>6 DEF FitState
<1> HIDE DEF after, left
<1> QED
  BY <1>3, <1>7 DEF BuildInv

(* Before its first turn there is nothing in it.                               *)
LEMMA BeginKeeps ==
    ASSUME BeginBuild
    PROVE  BuildInv'
<1>1. CASE build' = NoBuild
  BY <1>1 DEF BuildInv
<1>2. CASE build' # NoBuild
  <2>1. PICK raw \in Stagings :
          build' = [pc |-> "fit", stg |-> Staging(raw),
                    todo |-> {row.symbol : row \in Staging(raw)}, results |-> {}]
    BY <1>2 DEF BeginBuild, EndBuild
  <2> DEFINE todo == {row.symbol : row \in Staging(raw)}
             fits == [y \in DimSymbol |-> TRUE]
  <2>2. todo \in SUBSET DimSymbol /\ fits \in [DimSymbol -> BOOLEAN]
    BY DEF Staging
  <2>3. ASSUME NEW r \in Daily(Staging(raw)) PROVE r.symbol \in todo
    <3>1. PICK q \in Staging(raw) : r = SessionRow(Staging(raw), q.symbol, q.session)
      BY DEF Daily
    <3>2. r.symbol = q.symbol
      BY <3>1 DEF SessionRow
    <3> QED
      BY <3>2
  <2>4. Fitted(Daily(Staging(raw)), fits, todo) = {}
    BY <2>3 DEF Fitted
  <2>5. build' = FitState(raw, fits, todo)
    BY <2>1, <2>4 DEF FitState
  <2> HIDE DEF todo, fits
  <2> QED
    BY <2>2, <2>5 DEF BuildInv
<1> QED
  BY <1>1, <1>2

LEMMA BuildStep ==
    ASSUME BuildInv, [MartNext]_allVars
    PROVE  BuildInv'
<1>1. CASE UNCHANGED build
  BY <1>1 DEF BuildInv
<1>2. CASE BeginBuild
  BY <1>2, BeginKeeps
<1>3. ASSUME NEW symbol \in DimSymbol, NEW converges \in BOOLEAN, Fit(symbol, converges)
      PROVE  BuildInv'
  <2>1. build # NoBuild
    BY <1>3 DEF Fit, NoBuild
  <2> QED
    BY <1>3, <2>1, FitKeeps DEF BuildInv
<1>4. CASE KillBuild \/ \E date \in Dates \cup {Null} : Assemble(date)
  BY <1>4 DEF KillBuild, Assemble, EndBuild, BuildInv
<1> QED
  BY <1>1, <1>2, <1>3, <1>4 DEF MartNext, BuildMart, martVars, allVars

(* When the mart changes, it is emptied over no rows, or it is what the whole  *)
(* model computes from the rows it read at its beginning.                      *)
LEMMA MartChange ==
    ASSUME BuildInv, [MartNext]_allVars
    PROVE  \/ UNCHANGED <<mart, staged>>
           \/ mart' = {} /\ staged' = {}
           \/ \E raw \in Stagings, fits \in [DimSymbol -> BOOLEAN], date \in Dates \cup {Null} :
                /\ staged' = Staging(raw)
                /\ mart' = Model(Staging(raw), fits, date)
                /\ UNCHANGED vars
<1>1. ASSUME NEW date \in Dates \cup {Null}, Assemble(date)
      PROVE  \E raw \in Stagings, fits \in [DimSymbol -> BOOLEAN] :
                /\ staged' = Staging(raw)
                /\ mart' = Model(Staging(raw), fits, date)
                /\ UNCHANGED vars
  <2>1. build # NoBuild /\ build.todo = {}
    BY <1>1 DEF Assemble, NoBuild
  <2>2. PICK raw \in Stagings, fits \in [DimSymbol -> BOOLEAN], todo \in SUBSET DimSymbol :
          build = FitState(raw, fits, todo)
    BY <2>1 DEF BuildInv
  <2>3. /\ build.results = Fitted(Daily(Staging(raw)), fits, {})
        /\ build.stg = Staging(raw)
    BY <2>1, <2>2 DEF FitState
  <2>4. Fitted(Daily(Staging(raw)), fits, {}) =
          {FullRow(Daily(Staging(raw)), r, fits) : r \in Daily(Staging(raw))}
    BY DEF Fitted
  <2>5. mart' = Model(Staging(raw), fits, date)
    BY <1>1, <2>3, <2>4 DEF Assemble, Model
  <2> QED
    BY <1>1, <2>3, <2>5 DEF Assemble
<1>2. CASE BeginBuild
  BY <1>2 DEF BeginBuild
<1>3. CASE KillBuild \/ \E symbol \in DimSymbol, converges \in BOOLEAN : Fit(symbol, converges)
  BY <1>3 DEF KillBuild, Fit
<1>4. CASE UNCHANGED martVars
  BY <1>4 DEF martVars
<1> QED
  BY <1>1, <1>2, <1>3, <1>4 DEF MartNext, BuildMart, allVars

(* Whatever rows are staged and whichever fits raise. *)
LEMMA BuildAnswered ==
    ASSUME SettlementInv, NEW raw \in Stagings, NEW fits \in [DimSymbol -> BOOLEAN],
           NEW date, mart' = Model(Staging(raw), fits, date), UNCHANGED vars
    PROVE  MartShowsAnswers'
<1>1. SUFFICES ASSUME NEW row \in mart', row.settlement_php_flow # NoFlow
               PROVE  /\ row.session \in Dates
                      /\ row.settlement_php_flow \in answered'[row.session]
  BY DEF MartShowsAnswers
<1>2. PICK r \in Daily(Staging(raw)) :
        row = FinalRow(FullRow(Daily(Staging(raw)), r, fits), date)
  BY DEF Model
<1>3. row.settlement_php_flow = Merged(date, row.session)
  BY <1>2 DEF FinalRow
<1>4. row.session \in Dates /\ Merged(date, row.session) \in answered[row.session]
  BY <1>1, <1>3, MergedAnswered
<1> QED
  BY <1>3, <1>4 DEF vars

(* One row per symbol and session: what a row shows depends on these alone.     *)
LEMMA BuildComplete ==
    ASSUME NEW raw \in Stagings, NEW fits \in [DimSymbol -> BOOLEAN], NEW date,
           staged' = Staging(raw), mart' = Model(Staging(raw), fits, date)
    PROVE  MartComplete'
<1> DEFINE stg == Staging(raw)
           Row(q) == FinalRow(SymbolRow(Group(Daily(stg), q.symbol),
                                        SessionRow(stg, q.symbol, q.session),
                                        fits[q.symbol]), date)
           RowAt(y, d) == FinalRow(SymbolRow(Group(Daily(stg), y), SessionRow(stg, y, d),
                                             fits[y]), date)
<1>2. \A q \in stg : /\ SessionRow(stg, q.symbol, q.session).symbol = q.symbol
                     /\ SessionRow(stg, q.symbol, q.session).session = q.session
  BY DEF SessionRow
<1>3. mart' = {Row(q) : q \in stg}
  <2>1. mart' = {FinalRow(FullRow(Daily(stg), r, fits), date) : r \in Daily(stg)}
    BY DEF Model
  <2>2. ASSUME NEW row \in mart' PROVE row \in {Row(q) : q \in stg}
    <3>1. PICK r \in Daily(stg) :
            row = FinalRow(FullRow(Daily(stg), r, fits), date)
      BY <2>1
    <3>2. PICK q \in stg : r = SessionRow(stg, q.symbol, q.session)
      BY DEF Daily
    <3>3. row = Row(q)
      BY <1>2, <3>1, <3>2 DEF FullRow
    <3> QED
      BY <3>3
  <2>3. ASSUME NEW q \in stg PROVE Row(q) \in mart'
    <3> DEFINE r == SessionRow(stg, q.symbol, q.session)
    <3>1. r \in Daily(stg)
      BY DEF Daily
    <3>2. r.symbol = q.symbol
      BY <1>2
    <3>3. Row(q) = FinalRow(FullRow(Daily(stg), r, fits), date)
      BY <3>2 DEF FullRow
    <3> HIDE DEF r
    <3> QED
      BY <2>1, <3>1, <3>3
  <2> HIDE DEF Row, stg
  <2> QED
    BY <2>2, <2>3
<1>4. \A q \in stg : Key(Row(q)) = Key(q)
  BY <1>2 DEF Key, FinalRow, SymbolRow
<1>5. \A q1, q2 \in stg : Key(q1) = Key(q2) => Row(q1) = Row(q2)
  <2>1. SUFFICES ASSUME NEW q1 \in stg, NEW q2 \in stg, Key(q1) = Key(q2)
                 PROVE  Row(q1) = Row(q2)
    OBVIOUS
  <2>2. q1.symbol = q2.symbol /\ q1.session = q2.session
    BY <2>1 DEF Key
  <2>3. Row(q1) = RowAt(q1.symbol, q1.session) /\ Row(q2) = RowAt(q2.symbol, q2.session)
    OBVIOUS
  <2> HIDE DEF Row, RowAt, stg
  <2> QED
    BY <2>2, <2>3
<1>6. staged' = stg
  OBVIOUS
<1> HIDE DEF Row, stg
<1>7. {Key(row) : row \in mart'} = {Key(q) : q \in stg}
  BY <1>3, <1>4
<1>8. \A r1, r2 \in mart' : Key(r1) = Key(r2) => r1 = r2
  BY <1>3, <1>4, <1>5
<1> QED
  BY <1>6, <1>7, <1>8 DEF MartComplete, Key

(* The mart of a build has sound rows, each lagged over the latest earlier row  *)
(* of its symbol, and no measure that divides by zero.                         *)
LEMMA BuildSound ==
    ASSUME SettlementInv, NEW raw \in Stagings, NEW fits \in [DimSymbol -> BOOLEAN],
           NEW date, staged' = Staging(raw), mart' = Model(Staging(raw), fits, date)
    PROVE  MartSound'
<1> DEFINE daily == Daily(Staging(raw))
           group(r) == Group(daily, r.symbol)
           Fin(r) == FinalRow(SymbolRow(group(r), r, fits[r.symbol]), date)
<1>2. mart' = {Fin(r) : r \in daily}
  BY DEF Model, FullRow
<1>3. DailySound(daily) /\ staged' \subseteq UNION Stagings
  BY StagingSound, DailyIsSound
<1> HIDE DEF daily
<1>4. \A r \in daily :
        /\ r.symbol \in DimSymbol /\ r.session \in DimSession \cap Nat
        /\ r.close \in Nat \ {0} /\ r.volume \in Nat
  BY <1>3 DEF DailySound
<1>5. \A r \in daily :
        /\ Fin(r).symbol = r.symbol /\ Fin(r).session = r.session
        /\ Fin(r).close = r.close /\ Fin(r).volume = r.volume
        /\ Fin(r).amihud = Amihud(group(r), r)
        /\ Fin(r).sarima_status = SarimaStatus(group(r), fits[r.symbol])
        /\ Fin(r).settlement_php_flow = Merged(date, r.session)
  BY DEF FinalRow, SymbolRow
<1>6. ASSUME NEW r \in daily
      PROVE  \/ /\ \A o \in daily : o.symbol = r.symbol => o.session >= r.session
                /\ PriorClose(group(r), r) = Null
             \/ \E o \in daily :
                  /\ o.symbol = r.symbol /\ o.session < r.session
                  /\ \A p \in daily : p.symbol = r.symbol /\ p.session < r.session =>
                                          p.session <= o.session
                  /\ PriorClose(group(r), r) = o.close
  <2>1. \A o : o \in group(r) <=> o \in daily /\ o.symbol = r.symbol
    BY DEF Group
  <2>2. IsFiniteSet(group(r))
    BY <1>3, FS_Subset DEF Group, DailySound
  <2>3. /\ \A o \in group(r) : o.session \in Nat
        /\ \A o, p \in group(r) : o.session = p.session => o = p
    BY <1>3, <2>1 DEF DailySound
  <2>4. r \in group(r)
    BY <2>1
  <2> HIDE DEF group
  <2>5. \/ /\ \A o \in group(r) : o.session >= r.session
           /\ PriorClose(group(r), r) = Null
        \/ \E o \in group(r) :
             /\ o.session < r.session
             /\ \A p \in group(r) : p.session < r.session => p.session <= o.session
             /\ PriorClose(group(r), r) = o.close
    BY <2>2, <2>3, <2>4, PriorIsLatest
  <2> QED
    BY <2>1, <2>5
<1>7. ASSUME NEW r \in daily
      PROVE  /\ PriorClose(group(r), r) \in (Nat \ {0}) \cup {Null}
             /\ Amihud(group(r), r) = Null <=>
                  PriorClose(group(r), r) = Null \/ r.volume = 0
             /\ Amihud(group(r), r) # Null =>
                  /\ Amihud(group(r), r).prior = PriorClose(group(r), r)
                  /\ Amihud(group(r), r).volume = r.volume
  <2> DEFINE prior == PriorClose(group(r), r)
             a == [close |-> r.close, prior |-> prior, volume |-> r.volume]
  <2>1. prior \in (Nat \ {0}) \cup {Null}
    BY <1>4, <1>6
  <2>2. Amihud(group(r), r) = IF prior = Null \/ r.volume = 0 THEN Null ELSE a
    BY DEF Amihud
  <2>3. prior # Null => a \in [close : Nat, prior : Nat, volume : Nat]
    <3> HIDE DEF prior
    <3> QED BY <1>4, <2>1
  <2>4. prior # Null => a # Null
    BY <2>3, MartAssumption
  <2>5. a.prior = prior /\ a.volume = r.volume
    OBVIOUS
  <2> HIDE DEF a, prior
  <2> QED
    BY <2>1, <2>2, <2>4, <2>5 DEF prior
<1>8. MartRows'
  <2>1. \A r \in daily : SarimaStatus(group(r), fits[r.symbol]) \in Statuses
    BY DEF SarimaStatus, Statuses
  <2>2. \A r \in daily : Merged(date, r.session) \in Flows \cup {NoFlow}
    <3>1. ASSUME NEW session, Merged(date, session) # NoFlow
          PROVE  Merged(date, session) \in Flows
      <4>1. session \in Dates /\ Merged(date, session) \in answered[session]
        BY <3>1, MergedAnswered
      <4> QED
        BY <4>1 DEF SettlementInv, TypeOK
    <3> QED
      BY <3>1
  <2> HIDE DEF group, Fin
  <2> QED
    BY <1>2, <1>3, <1>4, <1>5, <2>1, <2>2 DEF MartRows, SymbolRowOK
<1> HIDE DEF Fin, group
<1>9. LaggedClose'
  <2>1. SUFFICES ASSUME NEW row \in mart'
                 PROVE  LET earlier == {o \in mart' : o.symbol = row.symbol
                                                     /\ o.session < row.session}
                        IN  IF row.amihud = Null THEN earlier = {} \/ row.volume = 0
                            ELSE \E o \in earlier :
                                    /\ \A p \in earlier : p.session <= o.session
                                    /\ row.amihud.prior = o.close
    BY DEF LaggedClose
  <2>2. PICK r \in daily : row = Fin(r)
    BY <1>2
  <2> DEFINE earlier == {o \in mart' : o.symbol = row.symbol /\ o.session < row.session}
  <2>3. CASE row.amihud = Null
    <3>1. PriorClose(group(r), r) = Null \/ row.volume = 0
      BY <1>5, <1>7, <2>2, <2>3
    <3>2. ASSUME PriorClose(group(r), r) = Null PROVE earlier = {}
      <4>1. \A o \in daily : o.symbol = r.symbol => o.session >= r.session
        BY <1>4, <1>6, <3>2, MartAssumption
      <4>2. \A o \in daily : o.symbol = r.symbol => ~ (o.session < r.session)
        BY <1>4, <4>1
      <4> QED
        BY <1>2, <1>5, <2>2, <4>2
    <3> QED
      BY <2>3, <3>1, <3>2
  <2>4. CASE row.amihud # Null
    <3>1. PriorClose(group(r), r) # Null /\ row.amihud.prior = PriorClose(group(r), r)
      BY <1>5, <1>7, <2>2, <2>4
    <3>2. PICK o \in daily :
            /\ o.symbol = r.symbol /\ o.session < r.session
            /\ \A p \in daily : p.symbol = r.symbol /\ p.session < r.session =>
                                    p.session <= o.session
            /\ PriorClose(group(r), r) = o.close
      BY <1>6, <3>1
    <3>3. Fin(o) \in earlier
      BY <1>2, <1>5, <2>2, <3>2
    <3>4. \A p \in earlier : p.session <= Fin(o).session
      BY <1>2, <1>5, <2>2, <3>2
    <3>5. row.amihud.prior = Fin(o).close
      BY <1>5, <3>1, <3>2
    <3> HIDE DEF earlier
    <3>6. \E x \in earlier : /\ \A p \in earlier : p.session <= x.session
                             /\ row.amihud.prior = x.close
      BY <3>3, <3>4, <3>5
    <3> QED
      BY <2>4, <3>6 DEF earlier
  <2> QED
    BY <2>3, <2>4
<1>10. MeasuresFinite'
  <2>1. ASSUME NEW r \in daily
        PROVE  /\ Fin(r).close > 0
               /\ Fin(r).amihud # Null => Fin(r).amihud.prior > 0 /\ Fin(r).amihud.volume > 0
    <3>1. Fin(r).close > 0
      BY <1>4, <1>5
    <3>2. ASSUME Fin(r).amihud # Null
          PROVE  Fin(r).amihud.prior \in Nat \ {0} /\ Fin(r).amihud.volume \in Nat \ {0}
      BY <1>4, <1>5, <1>7, <3>2
    <3> QED
      BY <3>1, <3>2
  <2> QED
    BY <1>2, <2>1 DEF MeasuresFinite
<1> QED
  BY <1>8, <1>9, <1>10 DEF MartSound

LEMMA MartStep ==
    ASSUME MartInv, [MartNext]_allVars
    PROVE  MartInv'
<1> USE DEF MartInv
<1>1. [Next]_vars /\ raised' \in BOOLEAN
  BY DEF MartNext, BuildMart, BeginBuild, Fit, Assemble, KillBuild, EndBuild, allVars,
     martVars
<1>2. SettlementInv' /\ BuildInv'
  BY <1>1, SettlementStep, BuildStep
<1>3. CASE UNCHANGED <<mart, staged>>
  <2>1. \A d \in Dates : answered[d] \subseteq answered'[d]
    BY <1>1, AnswersGrow DEF SettlementInv
  <2>2. MartShowsAnswers'
    BY <1>3, <2>1 DEF MartShowsAnswers
  <2>3. MartComplete' /\ MartSound'
    BY <1>3 DEF MartComplete, MartSound, MartRows, LaggedClose, MeasuresFinite
  <2> QED
    BY <1>1, <1>2, <2>2, <2>3
<1>4. CASE mart' = {} /\ staged' = {}
  BY <1>1, <1>2, <1>4 DEF MartShowsAnswers, MartComplete, MartSound, MartRows, LaggedClose,
     MeasuresFinite
<1>5. ASSUME NEW raw \in Stagings, NEW fits \in [DimSymbol -> BOOLEAN], NEW date,
             staged' = Staging(raw), mart' = Model(Staging(raw), fits, date),
             UNCHANGED vars
      PROVE  MartInv'
  <2>1. MartShowsAnswers' /\ MartComplete' /\ MartSound'
    BY <1>5, BuildAnswered, BuildComplete, BuildSound
  <2> QED
    BY <1>1, <1>2, <2>1
<1> QED
  BY <1>3, <1>4, <1>5, MartChange

LEMMA MartInitially == MartInit => MartInv
<1>1. MartInit => SettlementInv
  BY DatesAssumption DEF MartInit, Init, SettlementInv, TypeOK, Job, Parquet, NoFile,
     NoOutcomeYet, RowsAnswered, SuccessMeansWhole
<1> QED
  BY <1>1 DEF MartInit, MartInv, BuildInv, MartShowsAnswers, MartComplete, MartSound,
     MartRows, LaggedClose, MeasuresFinite

LEMMA MartInvariant == MartSpec => []MartInv
BY MartInitially, MartStep, PTL DEF MartSpec

(* The rows under way are as well typed as those of the mart.                  *)
LEMMA BuildTyped ==
    ASSUME BuildInv
    PROVE  /\ build.pc \in {"idle", "fit"}
           /\ build.stg \subseteq UNION Stagings /\ build.todo \subseteq DimSymbol
           /\ \A row \in build.results : SymbolRowOK(row)
<1>1. CASE build = NoBuild
  BY <1>1 DEF NoBuild
<1>2. ASSUME NEW raw \in Stagings, NEW fits \in [DimSymbol -> BOOLEAN],
             NEW todo \in SUBSET DimSymbol, build = FitState(raw, fits, todo)
      PROVE  /\ build.pc = "fit"
             /\ build.stg \subseteq UNION Stagings /\ build.todo \subseteq DimSymbol
             /\ \A row \in build.results : SymbolRowOK(row)
  <2> DEFINE daily == Daily(Staging(raw))
  <2>1. build.stg = Staging(raw) /\ build.results = Fitted(daily, fits, todo)
    BY <1>2 DEF FitState
  <2>2. DailySound(daily) /\ Staging(raw) \subseteq UNION Stagings
    BY StagingSound, DailyIsSound
  <2>3. ASSUME NEW row \in build.results PROVE SymbolRowOK(row)
    <3> HIDE DEF daily
    <3>1. PICK r \in daily : row = FullRow(daily, r, fits)
      BY <2>1, <2>3 DEF Fitted
    <3>2. /\ row.symbol = r.symbol /\ row.session = r.session
          /\ row.close = r.close /\ row.volume = r.volume
          /\ row.sarima_status = SarimaStatus(Group(daily, r.symbol), fits[r.symbol])
      BY <3>1 DEF FullRow, SymbolRow
    <3>3. row.sarima_status \in Statuses
      BY <3>2 DEF SarimaStatus, Statuses
    <3> QED
      BY <2>2, <3>2, <3>3 DEF DailySound, SymbolRowOK
  <2> QED
    BY <1>2, <2>1, <2>2, <2>3 DEF FitState
<1> QED
  BY <1>1, <1>2 DEF BuildInv

-----------------------------------------------------------------------------
(***************************************************************************)
(* A call of fetch_and_write that succeeded has left a whole file, however *)
(* many calls before it failed or were killed, and at whatever step.       *)
(***************************************************************************)
THEOREM SuccessWritesFile == MartSpec => []SuccessMeansWhole
BY MartInvariant, PTL DEF MartInv, SettlementInv

(***************************************************************************)
(* The loop over the symbols leaves none out and takes none twice: the     *)
(* mart has exactly one row for each symbol and session that its build     *)
(* read, for any rows in the canonical files, in whatever order the loop   *)
(* takes the symbols, whichever fits raise and whichever builds are killed *)
(* in the midst of it.                                                     *)
(***************************************************************************)
THEOREM NoSymbolLost == MartSpec => []MartComplete
BY MartInvariant, PTL DEF MartInv

(***************************************************************************)
(* The mart shows an amount only for a session for whose date R5 named it, *)
(* whatever date R5 was asked for, whatever date the build's config has    *)
(* and whatever the canonical files hold.                                  *)
(***************************************************************************)
THEOREM OnlyAnswersShown == MartSpec => []MartShowsAnswers
BY MartInvariant, PTL DEF MartInv

(***************************************************************************)
(* Every reachable state of the files and the mart is well typed: in       *)
(* particular no row of an unknown symbol or session, or with a negative   *)
(* price or volume, reaches an aggregate of the mart.                      *)
(***************************************************************************)
THEOREM MartTypeCorrect == MartSpec => []MartTypeOK
<1>1. MartInv => MartTypeOK
  BY BuildTyped DEF MartInv, SettlementInv, MartSound, MartRows, MartTypeOK
<1> QED
  BY <1>1, MartInvariant, PTL

(***************************************************************************)
(* A return is taken over the close of the symbol's own latest earlier     *)
(* session, whatever sessions, ticks and other symbols are staged, and is  *)
(* missing only on a first session or a day without volume.                *)
(***************************************************************************)
THEOREM CloseIsLagged == MartSpec => []LaggedClose
BY MartInvariant, PTL DEF MartInv, MartSound

(***************************************************************************)
(* No measure divides by zero, whatever prices and volumes are ingested.   *)
(***************************************************************************)
THEOREM NoDivisionByZero == MartSpec => []MeasuresFinite
BY MartInvariant, PTL DEF MartInv, MartSound

=============================================================================
