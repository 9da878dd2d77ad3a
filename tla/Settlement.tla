------------------------------ MODULE Settlement ------------------------------
(***************************************************************************)
(* Edge D: scripts/settlement_enrichment.py asks the settlement engine R5  *)
(* for one date and writes settlement_<date>.parquet, an empty frame if    *)
(* anything goes wrong.  DailyMart has the reader of the file.             *)
(*                                                                         *)
(* One call of fetch_and_write at a time: runs of the DAG are serialised   *)
(* and a backfill from the command line is started by hand between them.   *)
(***************************************************************************)
CONSTANTS
    Dates,       \* session dates
    Flows,       \* amounts of PHP settled
    NoFlow,      \* NULL
    DiskFails,   \* whether a directory or file may fail to be created
    Crashes      \* whether a process may be killed

ASSUME DatesAssumption == Dates # {}
ASSUME FlowsAssumption == NoFlow \notin Flows
ASSUME FlagsAssumption == {DiskFails, Crashes} \subseteq BOOLEAN

VARIABLES
    file,     \* file[d]: settlement_<d>.parquet
    job,      \* the call of fetch_and_write under way
    outcome,  \* how the last call ended
    answered  \* history: answered[d], the amounts R5 has named for date d

vars == <<file, job, outcome, answered>>

\* A row has the date that R5's payload names, whatever date was asked for; with
\* no amount its settlement_data_available is false.
Rows == [date : Dates, flow : Flows \cup {NoFlow}]

\* rows: none in an empty frame.
Parquet == [st : {"absent", "torn", "whole"}, rows : SUBSET Rows]
NoFile == [st |-> "absent", rows |-> {}]

\* live: the call is in the try block, so that a failure is not its last.
Job == [pc : {"idle", "fetch", "open", "close"}, date : Dates,
        rows : SUBSET Rows, live : BOOLEAN]

TypeOK ==
    /\ file \in [Dates -> Parquet]
    /\ job \in Job
    /\ outcome \in {"none", "success", "raised", "killed"}
    /\ answered \in [Dates -> SUBSET Flows]

Init ==
    /\ file = [d \in Dates |-> NoFile]
    /\ job = [pc |-> "idle", date |-> CHOOSE d \in Dates : TRUE, rows |-> {},
              live |-> FALSE]
    /\ outcome = "none"
    /\ answered = [d \in Dates |-> {}]

-----------------------------------------------------------------------------
(* fetch_and_write *)

\* url: SETTLEMENT_API_URL is in the process's environment; without it the call
\* goes on to write the empty frame.
Start(d, url) ==
    /\ job.pc = "idle"
    /\ job' = [pc |-> IF url THEN "fetch" ELSE "open", date |-> d,
               rows |-> {}, live |-> url]
    /\ outcome' = "none"
    /\ UNCHANGED <<file, answered>>

\* R5 answers in time and with a payload of the form expected; that it is for
\* the date asked for is not looked at.
Fetch ==
    /\ job.pc = "fetch"
    /\ \E row \in Rows :
         /\ job' = [job EXCEPT !.pc = "open", !.rows = {row}]
         /\ answered' = [answered EXCEPT ![row.date] = @ \cup ({row.flow} \ {NoFlow})]
    /\ UNCHANGED <<file, outcome>>

\* Timeout, refusal, HTTP error or malformed payload, caught in the call.
FetchFails ==
    /\ job.pc = "fetch"
    /\ job' = [job EXCEPT !.pc = "open", !.live = FALSE]
    /\ UNCHANGED <<file, outcome, answered>>

\* to_parquet truncates the file there is.
OpenFile ==
    /\ job.pc = "open"
    /\ file' = [file EXCEPT ![job.date] = [st |-> "torn", rows |-> {}]]
    /\ job' = [job EXCEPT !.pc = "close"]
    /\ UNCHANGED <<outcome, answered>>

CloseFile ==
    /\ job.pc = "close"
    /\ file' = [file EXCEPT ![job.date] = [st |-> "whole", rows |-> job.rows]]
    /\ job' = [job EXCEPT !.pc = "idle"]
    /\ outcome' = "success"
    /\ UNCHANGED <<answered>>

\* Mutant: the last failure is passed over.
WriteFailsQuietly ==
    /\ DiskFails
    /\ job.pc \in {"open", "close"}
    /\ IF job.live
       THEN /\ job' = [job EXCEPT !.pc = "open", !.rows = {}, !.live = FALSE]
            /\ UNCHANGED outcome
       ELSE /\ job' = [job EXCEPT !.pc = "idle"]
            /\ outcome' = "success"
    /\ UNCHANGED <<file, answered>>

\* A write that fails in the try block is followed by the empty frame; one
\* that fails elsewhere raises.
WriteFails ==
    /\ DiskFails
    /\ job.pc \in {"open", "close"}
    /\ IF job.live
       THEN /\ job' = [job EXCEPT !.pc = "open", !.rows = {}, !.live = FALSE]
            /\ UNCHANGED outcome
       ELSE /\ job' = [job EXCEPT !.pc = "idle"]
            /\ outcome' = "raised"
    /\ UNCHANGED <<file, answered>>

\* The directory cannot be created, before anything is tried.
MkdirFails(d) ==
    /\ DiskFails
    /\ job.pc = "idle"
    /\ job' = [job EXCEPT !.date = d]
    /\ outcome' = "raised"
    /\ UNCHANGED <<file, answered>>

Crash ==
    /\ Crashes
    /\ job.pc # "idle"
    /\ job' = [job EXCEPT !.pc = "idle"]
    /\ outcome' = "killed"
    /\ UNCHANGED <<file, answered>>

Next ==
    \/ \E d \in Dates : MkdirFails(d)
    \/ \E d \in Dates, url \in BOOLEAN : Start(d, url)
    \/ Fetch
    \/ FetchFails
    \/ OpenFile
    \/ CloseFile
    \/ WriteFails
    \/ Crash

Spec == Init /\ [][Next]_vars

-----------------------------------------------------------------------------
(* Properties *)

(***************************************************************************)
(* A call that has succeeded leaves a whole file for its date whatever R5  *)
(* did, one the model can read ("always writes a Parquet file"), and after *)
(* failed writes or kills of any earlier call.                             *)
(***************************************************************************)
SuccessMeansWhole == outcome = "success" => file[job.date].st = "whole"

=============================================================================
