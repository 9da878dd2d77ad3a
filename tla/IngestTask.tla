----------------------------- MODULE IngestTask ------------------------------
(***************************************************************************)
(* The first two tasks of airflow/dags/psx_pipeline_dag.py, run after run: *)
(* detect_psx_csv_drop lists the drop directory, which nothing ever        *)
(* empties, and validate_and_ingest_csv ingests the listed files one after *)
(* the other, with retries.                                                *)
(*                                                                         *)
(* ingest_psx_csv is one step here, on the digest the manifest has for a   *)
(* key: a run of the pipeline is the only process (max_active_runs = 1),   *)
(* for which PsxIngest implements a ledger that changes at once.           *)
(***************************************************************************)
EXTENDS Integers, Sequences

CONSTANTS
    Order,       \* names of CSV files, a sequence in the order of sorted()
    SymbolOf,    \* the symbol in a name, or its stem in capitals
    DateOf,      \* the date in a name, NoDate if the name does not match
    NoDate,
    Csvs,        \* contents of CSV files
    ValidCsvs,   \* those validate_psx_csv accepts
    NoCsv,       \* no file, no entry
    NoSha,       \* an entry without a digest
    Retries,     \* default_args["retries"]
    MaxDay,      \* bound on the execution dates
    MaxFaults    \* bound on kills of a task and on unexpected errors

Names == {Order[i] : i \in 1 .. Len(Order)}
Days == 1 .. MaxDay
Symbols == {SymbolOf[n] : n \in Names}
Keys == Symbols \X Days

ASSUME OrderAssumption == \A i, j \in 1 .. Len(Order) : Order[i] = Order[j] => i = j
ASSUME NameAssumption ==
    /\ NoDate \notin Days
    /\ \A n \in Names : DateOf[n] \in Days \cup {NoDate}
ASSUME CsvAssumption ==
    ValidCsvs \subseteq Csvs /\ {NoCsv, NoSha} \cap Csvs = {} /\ NoCsv # NoSha
ASSUME BoundsAssumption ==
    MaxDay \in Nat \ {0} /\ Retries \in Nat /\ MaxFaults \in Nat

VARIABLES
    drop,      \* PSX_DROP_DIR: drop[n], the content of file n, or NoCsv
    canonical, \* the digest in the manifest's entry of a key, NoSha or NoCsv
    day,       \* the execution date of the current or last run
    pc,        \* what the run does next, "between" when there is none
    detected,  \* XCom detected_files: names and their keys
    at,        \* the files of detected that are behind the current attempt
    errors,    \* what this attempt has noted: names and the kinds of error
    tries,     \* attempts at validate_and_ingest_csv that have begun
    result,    \* how the last run's ingest ended
    faults,    \* kills and unexpected errors so far
    touched,   \* history: a file was delivered since this run's detection
    settled,   \* history: a whole attempt went over the drop as it is now
    left       \* history: the errors of the last whole attempt

vars == <<drop, canonical, day, pc, detected, at, errors, tries, result,
          faults, touched, settled, left>>
attempt == <<at, errors, tries>>

\* Mutant: the date in the name is ignored.
KeyByRun(n, d) == <<SymbolOf[n], d>>

\* The key a file is ingested under by a run of day d.
KeyOf(n, d) == <<SymbolOf[n], IF DateOf[n] = NoDate THEN d ELSE DateOf[n]>>

Item == [name : Names, key : Keys]

\* "other" is whatever else goes wrong with a file, also with one that is valid:
\* writing the Parquet file or the manifest failed, or reading the CSV, which
\* validate_psx_csv makes a ValueError of.
Errors == Names \X {"ValueError", "KeyError", "other"}

TypeOK ==
    /\ drop \in [Names -> Csvs \cup {NoCsv}]
    /\ canonical \in [Keys -> ValidCsvs \cup {NoCsv, NoSha}]
    /\ day \in Days
    /\ pc \in {"between", "detect", "ingest"}
    /\ detected \in Seq(Item)
    /\ at \in 0 .. Len(detected)
    /\ errors \subseteq Errors
    /\ tries \in 0 .. Retries + 1
    /\ result \in {"none", "success", "failed", "skipped"}
    /\ faults \in 0 .. MaxFaults
    /\ touched \in BOOLEAN
    /\ settled \in BOOLEAN
    /\ left \subseteq Errors

Init ==
    /\ drop = [n \in Names |-> NoCsv]
    /\ canonical = [k \in Keys |-> NoCsv]
    /\ day = 1
    /\ pc = "between"
    /\ detected = <<>>
    /\ at = 0
    /\ errors = {}
    /\ tries = 0
    /\ result = "none"
    /\ faults = 0
    /\ touched = FALSE
    /\ settled = FALSE
    /\ left = {}

-----------------------------------------------------------------------------

\* A file is put into the drop directory, or replaced there, at any time.
Deliver(n, c) ==
    /\ drop[n] # c
    /\ drop' = [drop EXCEPT ![n] = c]
    /\ touched' = TRUE
    /\ settled' = FALSE
    /\ UNCHANGED <<canonical, day, pc, detected, attempt, result, faults, left>>

\* create_computed_version for a key without an entry, by an operator when no
\* run is under way: the entry it makes has no "sha256".  Only the keys that
\* files are ingested under matter here.
ComputeFirst(k) ==
    /\ pc = "between"
    /\ canonical[k] = NoCsv
    /\ canonical' = [canonical EXCEPT ![k] = NoSha]
    /\ settled' = FALSE
    /\ UNCHANGED <<drop, day, pc, detected, attempt, result, faults, touched, left>>

\* The next scheduled run, or one more run of the same date.
StartRun ==
    /\ pc = "between"
    /\ day' \in {day, day + 1} \cap Days
    /\ pc' = "detect"
    /\ result' = "none"
    /\ UNCHANGED <<drop, canonical, detected, attempt, faults, touched, settled, left>>

\* Mutant: files of keys that have an entry are not listed.
ListedNew == {i \in 1 .. Len(Order) : /\ drop[Order[i]] # NoCsv
                                      /\ canonical[KeyOf(Order[i], day)] = NoCsv}

\* drop_dir.glob("*.csv"): the files there are, by their places in Order.
Listed == {i \in 1 .. Len(Order) : drop[Order[i]] # NoCsv}

\* sorted(): s runs through all of files, in their order.
Sorts(s, files) ==
    /\ {s[i] : i \in DOMAIN s} = files
    /\ \A i, j \in DOMAIN s : i < j => s[i] < s[j]

\* AirflowSkipException when the directory is empty; else the list is pushed
\* and the first attempt at the ingest begins.
Detect ==
    /\ pc = "detect"
    /\ \/ /\ Listed = {}
          /\ pc' = "between"
          /\ result' = "skipped"
          /\ UNCHANGED <<detected, attempt, touched>>
       \/ /\ Listed # {}
          /\ pc' = "ingest"
          /\ \E len \in 1 .. Len(Order) : \E s \in [1 .. len -> Listed] :
               /\ Sorts(s, Listed)
               /\ detected' = [i \in 1 .. len |->
                    [name |-> Order[s[i]], key |-> KeyOf(Order[s[i]], day)]]
          /\ at' = 0
          /\ errors' = {}
          /\ tries' = 1
          /\ touched' = FALSE
          /\ UNCHANGED result
    /\ UNCHANGED <<drop, canonical, day, faults, settled, left>>

\* What ingest_psx_csv does with CSV csv for a key whose entry is e.
Verdict(e, csv) ==
    IF csv \notin ValidCsvs THEN "ValueError"
    ELSE IF e = NoSha THEN "KeyError"
    ELSE IF e = csv THEN "FileExistsError"
    ELSE "ingested"

\* Mutant: the loop ends at the first invalid file.
IngestUntilError ==
    /\ pc = "ingest"
    /\ at < Len(detected)
    /\ LET item == detected[at + 1]
           csv == drop[item.name]
           verdict == Verdict(canonical[item.key], csv)
       IN  IF verdict \in {"ValueError", "KeyError"}
           THEN /\ errors' = errors \cup {<<item.name, verdict>>}
                /\ at' = Len(detected)
                /\ UNCHANGED canonical
           ELSE /\ canonical' = [canonical EXCEPT ![item.key] = csv]
                /\ at' = at + 1
                /\ UNCHANGED errors
    /\ UNCHANGED <<drop, day, pc, detected, tries, result, faults, touched,
                   settled, left>>

\* ingest_psx_csv for the next file: one that is refused is noted and passed
\* over, one that is canonical already is skipped.
IngestItem ==
    /\ pc = "ingest"
    /\ at < Len(detected)
    /\ LET item == detected[at + 1]
           csv == drop[item.name]
           verdict == Verdict(canonical[item.key], csv)
       IN  /\ canonical' = IF verdict = "ingested"
                           THEN [canonical EXCEPT ![item.key] = csv]
                           ELSE canonical
           /\ errors' = IF verdict \in {"ValueError", "KeyError"}
                        THEN errors \cup {<<item.name, verdict>>} ELSE errors
    /\ at' = at + 1
    /\ UNCHANGED <<drop, day, pc, detected, tries, result, faults, touched,
                   settled, left>>

\* Anything else it may raise for the file is noted and passed over as well.
FailItem ==
    /\ pc = "ingest"
    /\ at < Len(detected)
    /\ faults < MaxFaults
    /\ faults' = faults + 1
    /\ errors' = errors \cup {<<detected[at + 1].name, "other">>}
    /\ at' = at + 1
    /\ UNCHANGED <<drop, canonical, day, pc, detected, tries, result, touched,
                   settled, left>>

\* The attempt has ended: the run goes on, or the task is tried again if it
\* has failed and has tries left.
ConcludeAfter(ok, retries) ==
    IF ok \/ tries > retries
    THEN /\ pc' = "between"
         /\ result' = IF ok THEN "success" ELSE "failed"
         /\ UNCHANGED <<detected, attempt>>
    ELSE /\ at' = 0
         /\ errors' = {}
         /\ tries' = tries + 1
         /\ UNCHANGED <<pc, detected, result>>

\* Mutant: one retry too many.
ConcludeLate(ok) == ConcludeAfter(ok, Retries + 1)

Conclude(ok) == ConcludeAfter(ok, Retries)

\* The loop is over; with errors AirflowException fails the attempt.
EndAttempt ==
    /\ pc = "ingest"
    /\ at = Len(detected)
    /\ settled' = ~touched
    /\ left' = errors
    /\ Conclude(errors = {})
    /\ UNCHANGED <<drop, canonical, day, faults, touched>>

\* The task is killed in the middle of an attempt, which counts as a failure.
CrashTask ==
    /\ pc = "ingest"
    /\ faults < MaxFaults
    /\ faults' = faults + 1
    /\ Conclude(FALSE)
    /\ UNCHANGED <<drop, canonical, day, touched, settled, left>>

System == StartRun \/ Detect \/ IngestItem \/ EndAttempt

Next ==
    \/ \E n \in Names, c \in Csvs : Deliver(n, c)
    \/ \E n \in Names : ComputeFirst(KeyOf(n, day))
    \/ System
    \/ FailItem
    \/ CrashTask

Spec == Init /\ [][Next]_vars

\* The scheduler starts runs and the worker goes on with a task it has begun.
FairSpec == Spec /\ WF_vars(System)

-----------------------------------------------------------------------------
(* Properties *)

\* The entries file n may be ingested into.
EntriesOf(n) == {canonical[KeyOf(n, d)] : d \in Days}

(***************************************************************************)
(* One bad file does not keep the others out: once an attempt has gone     *)
(* over the drop as it is, every valid file in it is the canonical one of  *)
(* its key, but for a file that met an unexpected error of its own in the  *)
(* last whole attempt and one whose entry has no digest to compare with,   *)
(* however many attempts failed or were killed before.  And the ingest     *)
(* succeeded only if none was left out and there was no invalid file.      *)
(***************************************************************************)
DropIngested ==
    settled => \A n \in Names :
        /\ drop[n] \in ValidCsvs => \/ EntriesOf(n) \cap {drop[n], NoSha} # {}
                                    \/ <<n, "other">> \in left
        /\ result = "success" =>
             drop[n] = NoCsv \/ drop[n] \in ValidCsvs \cap EntriesOf(n)

(***************************************************************************)
(* "Re-running any task from scratch is safe and produces identical        *)
(* output": after an attempt has gone over the drop, further attempts and  *)
(* runs change no entry of the manifest until a file is delivered, other   *)
(* than the entry of a file that met an unexpected error in that attempt.  *)
(***************************************************************************)
RerunIdentical ==
    [][settled /\ settled' => \A k \in Keys :
         \/ canonical'[k] = canonical[k]
         \/ \E n \in Names, d \in Days : k = KeyOf(n, d) /\ <<n, "other">> \in left]_vars

(***************************************************************************)
(* A valid file that stays in the drop becomes canonical for its key,      *)
(* whatever else is in the drop, if kills and unexpected errors are        *)
(* finitely many and its key has no entry without a digest.                *)
(***************************************************************************)
EventuallyCanonical ==
    \A n \in Names, c \in ValidCsvs :
        drop[n] = c ~> (drop[n] # c \/ EntriesOf(n) \cap {c, NoSha} # {})

=============================================================================
