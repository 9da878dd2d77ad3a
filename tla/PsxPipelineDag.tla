--------------------------- MODULE PsxPipelineDag ----------------------------
(***************************************************************************)
(* A run of airflow/dags/psx_pipeline_dag.py: ten tasks in a chain, their  *)
(* trigger rules, retries and outcomes, the DQ gate's decision and the     *)
(* completion mark in the manifest.  Airflow's scheduler is modelled by    *)
(* its documented rules for the arguments the DAG gives it.                *)
(***************************************************************************)
EXTENDS Integers, Sequences

CONSTANTS
    Tests,          \* dbt tests, by unique_id
    TaggedTests,    \* those whose unique_id has one of the gate's two tags
    HardFail,       \* PSX_DQ_HARD_FAIL
    TestMayNotRun,  \* whether dbt test may end before it writes its results
    Retries         \* default_args["retries"]

ASSUME TestsAssumption == TaggedTests \subseteq Tests
ASSUME FlagsAssumption == {HardFail, TestMayNotRun} \subseteq BOOLEAN
ASSUME RetriesAssumption == Retries \in Nat

VARIABLES
    state,    \* state[t]: Airflow's state of task t in the current run
    tries,    \* tries[t]: attempts at t that have begun, while t has not ended
    bad,      \* the tests that fail on the staging view and marts as they are
    results,  \* the failures recorded in dbt's target/run_results.json
    fresh,    \* history: a dbt test of the gate wrote results on these data
    marked    \* whether "_pipeline_last_run" in the manifest is this run

data == <<bad, results, fresh>>
vars == <<state, tries, data, marked>>

Chain == <<"start", "detect_psx_csv_drop", "validate_and_ingest_csv",
           "initialize_duckdb_schema", "dbt_staging_run",
           "settlement_enrichment", "dbt_marts_run", "dq_assertions",
           "update_serving_metadata", "end">>
Places == 1 .. Len(Chain)
Tasks == {Chain[i] : i \in Places}
DbtTasks == {"dbt_staging_run", "dbt_marts_run", "dq_assertions"}

States == {"none", "running", "up_for_retry",
           "success", "failed", "skipped", "upstream_failed"}
Ended == {"success", "failed", "skipped", "upstream_failed"}

TypeOK ==
    /\ state \in [Tasks -> States]
    /\ tries \in [Tasks -> 0 .. Retries + 1]
    /\ bad \in SUBSET Tests
    /\ results \in SUBSET (Tests \cup {"model"})
    /\ fresh \in BOOLEAN
    /\ marked \in BOOLEAN

Init ==
    /\ state = [t \in Tasks |-> "none"]
    /\ tries = [t \in Tasks |-> 0]
    /\ bad = {}
    /\ results = {}
    /\ fresh = FALSE
    /\ marked = FALSE

-----------------------------------------------------------------------------
(* The scheduler *)

\* Mutant: the completion mark is set whatever came before.
MarkAlwaysRule(t) ==
    IF t \in {"dbt_marts_run", "update_serving_metadata"} THEN "all_done"
    ELSE "all_success"

TriggerRule(t) == IF t = "dbt_marts_run" THEN "all_done" ELSE "all_success"

(***************************************************************************)
(* The state a task goes to once its upstream task has ended.              *)
(***************************************************************************)
Triggered(t, upstream) ==
    IF TriggerRule(t) = "all_done" \/ upstream = "success" THEN "running"
    ELSE IF upstream = "skipped" THEN "skipped"
    ELSE "upstream_failed"

\* Mutant: the marts follow the staging run directly.
ParallelUpstream(i) ==
    IF i = 1 THEN "success"
    ELSE IF Chain[i] = "dbt_marts_run" THEN state["dbt_staging_run"]
    ELSE state[Chain[i - 1]]

Upstream(i) == IF i = 1 THEN "success" ELSE state[Chain[i - 1]]

Schedule(i) ==
    /\ state[Chain[i]] = "none"
    /\ Upstream(i) \in Ended
    /\ LET s == Triggered(Chain[i], Upstream(i))
       IN  /\ state' = [state EXCEPT ![Chain[i]] = s]
           /\ tries' = [tries EXCEPT ![Chain[i]] =
                          IF s = "running" THEN @ + 1 ELSE @]
    /\ UNCHANGED <<data, marked>>

Retry(t) ==
    /\ state[t] = "up_for_retry"
    /\ state' = [state EXCEPT ![t] = "running"]
    /\ tries' = [tries EXCEPT ![t] = @ + 1]
    /\ UNCHANGED <<data, marked>>

RunOver == \A t \in Tasks : state[t] \in Ended

\* max_active_runs = 1: the next run begins when this one is over.
NextRun ==
    /\ RunOver
    /\ state' = [t \in Tasks |-> "none"]
    /\ tries' = [t \in Tasks |-> 0]
    /\ marked' = FALSE
    /\ UNCHANGED data

-----------------------------------------------------------------------------
(* The tasks *)

EndTask(t, s) ==
    /\ state[t] = "running"
    /\ state' = [state EXCEPT ![t] = s]
    /\ tries' = [tries EXCEPT ![t] = 0]

Succeed(t) == EndTask(t, "success")

\* AirflowSkipException ends the task whatever tries are left.
Skip(t) == EndTask(t, "skipped")

\* The callable raises, or its worker is killed.
Fail(t) ==
    IF tries[t] > Retries THEN EndTask(t, "failed")
    ELSE /\ state[t] = "running"
         /\ state' = [state EXCEPT ![t] = "up_for_retry"]
         /\ UNCHANGED tries

\* EmptyOperator
Empty(t) ==
    /\ t \in {"start", "end"}
    /\ Succeed(t)
    /\ UNCHANGED <<data, marked>>

\* Skips when the drop directory is empty.
DetectPsxCsvDrop ==
    LET t == "detect_psx_csv_drop"
    IN  /\ Succeed(t) \/ Skip(t) \/ Fail(t)
        /\ UNCHANGED <<data, marked>>

\* Tasks whose outcome alone matters here: the ingest (module IngestTask),
\* the schema and the settlement enrichment.
WorkTask(t) ==
    /\ t \in {"validate_and_ingest_csv", "initialize_duckdb_schema",
              "settlement_enrichment"}
    /\ Succeed(t) \/ Fail(t)
    /\ UNCHANGED <<data, marked>>

(***************************************************************************)
(* run_dbt: dbt run writes run_results.json as dbt test does, unless it    *)
(* ends before; the data it leaves behind may fail any tests, unless it    *)
(* has not come to them.                                                   *)
(***************************************************************************)
RunDbt(t) ==
    /\ t \in DbtTasks \ {"dq_assertions"}
    /\ \/ /\ \/ Succeed(t) /\ results' = {}
             \/ Fail(t) /\ results' \in {results, {"model"}}
          /\ bad' \in SUBSET Tests
          /\ fresh' = FALSE
       \/ Fail(t) /\ UNCHANGED data
    /\ UNCHANGED marked

(***************************************************************************)
(* run_dq_assertions looks at the recorded failures and not at the exit    *)
(* code of dbt test, which may have ended before it recorded any.          *)
(* GatePasses: none of them has a tag, and there is none or                *)
(* PSX_DQ_HARD_FAIL is false.                                              *)
(***************************************************************************)
GatePasses(recorded) ==
    /\ recorded \cap TaggedTests = {}
    /\ recorded = {} \/ ~HardFail

\* The gate judges the failures that run_results.json has recorded.
Gate(recorded) ==
    LET t == "dq_assertions"
    IN  /\ results' = recorded
        /\ IF GatePasses(recorded) THEN Succeed(t) \/ Fail(t) ELSE Fail(t)
        /\ UNCHANGED <<bad, marked>>

RunDqAssertions ==
    \/ Gate(bad) /\ fresh' = TRUE
    \/ TestMayNotRun /\ Gate(results) /\ UNCHANGED fresh

(***************************************************************************)
(* subprocess.run starts dbt as a process of its own, which outlives a     *)
(* worker killed with SIGKILL.  Such a command ends at some later time,    *)
(* whatever Airflow has made of its task, and may then write run_results.  *)
(***************************************************************************)
LateRun ==
    /\ bad' \in SUBSET Tests
    /\ results' \in {results, {}, {"model"}}
    /\ fresh' = FALSE

LateTest ==
    /\ results' \in {results, bad}
    /\ UNCHANGED <<bad, fresh>>

LateDbt(t) ==
    /\ t \in DbtTasks
    /\ IF t = "dq_assertions" THEN LateTest ELSE LateRun
    /\ UNCHANGED <<state, tries, marked>>

UpdateServingMetadata ==
    LET t == "update_serving_metadata"
    IN  /\ \/ Succeed(t) /\ marked' = TRUE
           \/ Fail(t) /\ marked' \in {marked, TRUE}
        /\ UNCHANGED data

Next ==
    \/ \E i \in Places : Schedule(i)
    \/ \E t \in Tasks : Retry(t) \/ Empty(t) \/ WorkTask(t) \/ RunDbt(t) \/ LateDbt(t)
    \/ DetectPsxCsvDrop
    \/ RunDqAssertions
    \/ UpdateServingMetadata
    \/ NextRun

Spec == Init /\ [][Next]_vars

-----------------------------------------------------------------------------
(* Properties *)

(***************************************************************************)
(* The tasks take turns at the manifest and at DuckDB, as far as Airflow   *)
(* can tell: one that runs, or waits for its next try, has everything      *)
(* before it in the chain ended and nothing after it begun.                *)
(***************************************************************************)
OneAtATime ==
    \A i, j \in Places :
        state[Chain[i]] \in {"running", "up_for_retry"} /\ i # j =>
          IF j < i THEN state[Chain[j]] \in Ended ELSE state[Chain[j]] = "none"

(***************************************************************************)
(* The serving layer is told of a run only after that run has built the    *)
(* marts and its DQ gate has passed, retries, skips and commands left      *)
(* behind or not; and in hard-fail mode the data of a marked run fail no   *)
(* test, unless the gate judged what no dbt test of its own had recorded   *)
(* on them (the gap that HardFailBlocks shows).                            *)
(***************************************************************************)
MarkedAfterGate ==
    marked =>
        /\ state["dbt_marts_run"] = "success"
        /\ state["dq_assertions"] = "success"
        /\ HardFail /\ fresh => bad = {}

(***************************************************************************)
(* "true: any test failure raises AirflowException": with PSX_DQ_HARD_FAIL *)
(* the DQ task of a run succeeds only on a mart that fails no test.        *)
(***************************************************************************)
HardFailBlocks ==
    HardFail /\ state["dq_assertions"] = "success" => bad = {}

(***************************************************************************)
(* Every run ends, whichever of its tasks fail.                            *)
(***************************************************************************)
RunEnds == []<>RunOver

=============================================================================
