------------------------------ MODULE ServingApi ------------------------------
(***************************************************************************)
(* The readers of psx_analytics.duckdb next to the pipeline that writes    *)
(* it: serving/psx_analytics_api.py and the metrics exporter open it read  *)
(* only (duckdb_manager.serving_connection), four tasks of the DAG open it *)
(* for writing, each from a process of its own.  No side waits for the     *)
(* other: an open that DuckDB's lock on the file forbids raises, in a      *)
(* request as well as in a task.  A dbt command whose worker is killed is  *)
(* left behind and keeps the file for as long as it goes on.               *)
(*                                                                         *)
(* The DAG is that of PsxPipelineDag, whose actions are used here.         *)
(***************************************************************************)
EXTENDS PsxPipelineDag, FiniteSets

CONSTANTS
    Workers,          \* threads that answer the API's requests, one request each
    Exporter,         \* the process of the metrics exporter
    ServingReadOnly,  \* PSX_SERVING_READ_ONLY
    Children          \* bound: as many dbt commands are left behind at a time

ASSUME ReadersAssumption == Exporter \notin Workers /\ ServingReadOnly \in BOOLEAN

VARIABLES
    exists,   \* whether the database file is there
    tables,   \* how many of the tables of SCHEMA_SQL have been created
    conn,     \* conn[c]: mode in which process or task c has the file open
    request,  \* request[r]: how far reader r is with a request or scrape
    child     \* child[k]: the task whose dbt command was left behind as k

servingVars == <<exists, tables, conn, request, child>>
allVars == <<vars, servingVars>>

Readers == Workers \cup {Exporter}
DuckTasks == {"initialize_duckdb_schema"} \cup DbtTasks
Openers == Readers \cup DuckTasks \cup Children
ASSUME NamesAssumption ==
    /\ Readers \cap DuckTasks = {}
    /\ Children \cap (Readers \cup DuckTasks) = {}

Schema == <<"fact_trade", "fact_daily_analytics", "dim_symbol", "dim_session",
            "corporate_action_log">>

ServingTypeOK ==
    /\ TypeOK
    /\ exists \in BOOLEAN
    /\ tables \in 0 .. Len(Schema)
    /\ conn \in [Openers -> {"none", "ro", "rw"}]
    /\ request \in [Readers -> {"idle", "connect", "query"}]
    /\ child \in [Children -> DbtTasks \cup {"none"}]

ServingInit ==
    /\ Init
    /\ exists = FALSE
    /\ tables = 0
    /\ conn = [c \in Openers |-> "none"]
    /\ request = [r \in Readers |-> "idle"]
    /\ child = [k \in Children |-> "none"]

-----------------------------------------------------------------------------
(* duckdb_manager *)

\* DuckDB locks the file: any number of processes that read, or one that writes.
\* Threads of one process share its lock, as threads that read do across
\* processes; for threads that write each is taken to be in a process of its own.
Blockers(c, mode) ==
    {o \in Openers \ {c} : "rw" \in {conn[o], mode} /\ conn[o] # "none"}

\* Mutant: the API opens the file as the pipeline does.
ModeWriting(r) == IF r = Exporter THEN "ro" ELSE "rw"

\* Mutant: the exporter leaves out read_only.
ModeExporting(r) == IF r = Exporter THEN "rw" ELSE "ro"

\* How serving_connection and the exporter open the file.
Mode(r) == IF r \in Workers /\ ~ServingReadOnly THEN "rw" ELSE "ro"

-----------------------------------------------------------------------------
(* Requests and scrapes *)

\* The process answers, or is killed; its connection, if it has one, is closed.
Respond(r) ==
    /\ request' = [request EXCEPT ![r] = "idle"]
    /\ conn' = [conn EXCEPT ![r] = "none"]
    /\ UNCHANGED <<exists, tables, child>>

\* Readiness, daily, tick and sarima-status.  A request that is turned down
\* before this, with 422 or 503, changes nothing; nor do health and canonical,
\* which open no database.
Begin(r) ==
    /\ request[r] = "idle"
    /\ request' = [request EXCEPT ![r] = "connect"]
    /\ UNCHANGED <<exists, tables, conn, child>>

\* One scrape at a time: HTTPServer has one thread.
Scrape == exists /\ Begin(Exporter)

\* duckdb.connect raises if the file is locked, or is not there and is to be
\* read only, and the client gets an error; opening for writing creates the file.
Connect(r) ==
    /\ request[r] = "connect"
    /\ IF Blockers(r, Mode(r)) # {} \/ (~exists /\ Mode(r) = "ro") THEN Respond(r)
       ELSE /\ exists' = TRUE
            /\ conn' = [conn EXCEPT ![r] = Mode(r)]
            /\ request' = [request EXCEPT ![r] = "query"]
            /\ UNCHANGED <<tables, child>>

\* Mutant: close is not in a finally clause.
EndRequestLeaking(r) ==
    /\ request[r] = "query"
    /\ \/ Respond(r)
       \/ /\ request' = [request EXCEPT ![r] = "idle"]
          /\ UNCHANGED <<exists, tables, conn, child>>

\* The query returns or raises and the connection is closed, or the process is
\* killed, and restarted before its next request.
EndRequest(r) ==
    /\ request[r] = "query"
    /\ Respond(r)

Arrival == Scrape \/ \E w \in Workers : Begin(w)

Proceed(r) == Connect(r) \/ EndRequest(r)

-----------------------------------------------------------------------------
(* The tasks that open the database *)

\* pipeline_connection and dbt: the attempt has the file until it ends.
Acquire(t) ==
    /\ state[t] = "running"
    /\ conn[t] = "none"
    /\ Blockers(t, "rw") = {}
    /\ conn' = [conn EXCEPT ![t] = "rw"]
    /\ exists' = TRUE
    /\ UNCHANGED <<vars, tables, request, child>>

\* Mutant: a task waits for the readers, as README.md 130 has it.
RefusedBlocks(t) == FALSE

(***************************************************************************)
(* The open raises and the attempt fails.  dbt test then ends before it    *)
(* writes its results, and the gate judges those there are.                *)
(***************************************************************************)
Refused(t) ==
    /\ state[t] = "running"
    /\ conn[t] = "none"
    /\ Blockers(t, "rw") # {}
    /\ IF t = "dq_assertions" THEN Gate(results) /\ UNCHANGED fresh
       ELSE Fail(t) /\ UNCHANGED <<data, marked>>
    /\ UNCHANGED servingVars

\* Mutant: without IF NOT EXISTS, a second attempt makes them again.
CreateTableAgain ==
    /\ conn["initialize_duckdb_schema"] = "rw"
    /\ tables' = tables + 1
    /\ UNCHANGED <<vars, exists, conn, request, child>>

\* CREATE TABLE IF NOT EXISTS, each statement a transaction of its own.
CreateTable ==
    /\ conn["initialize_duckdb_schema"] = "rw"
    /\ tables < Len(Schema)
    /\ tables' = tables + 1
    /\ UNCHANGED <<vars, exists, conn, request, child>>

\* Mutant: a schema that was begun is taken to be there.
SchemaBegun == tables > 0

SchemaDone == tables = Len(Schema)

\* Mutant: the connection is closed when the attempt succeeds only.
EndAttemptLeaking(t) ==
    /\ conn[t] = "rw"
    /\ \/ WorkTask(t) /\ (state'[t] = "success" => SchemaDone)
       \/ RunDbt(t)
       \/ t = "dq_assertions" /\ RunDqAssertions
    /\ conn' = [conn EXCEPT ![t] = IF state'[t] = "success" THEN "none" ELSE @]
    /\ UNCHANGED <<exists, tables, request, child>>

\* The attempt ends, and with it the process that had the file: the command has
\* ended, or both were killed.
EndAttempt(t) ==
    /\ conn[t] = "rw"
    /\ \/ WorkTask(t) /\ (state'[t] = "success" => SchemaDone)
       \/ RunDbt(t)
       \/ t = "dq_assertions" /\ RunDqAssertions
    /\ conn' = [conn EXCEPT ![t] = "none"]
    /\ UNCHANGED <<exists, tables, request, child>>

(***************************************************************************)
(* The worker alone is killed (SIGKILL): Airflow counts the attempt as     *)
(* failed, and its dbt command goes on, with the file or about to open it. *)
(***************************************************************************)
KillWorker(t, k) ==
    /\ t \in DbtTasks
    /\ state[t] = "running"
    /\ child[k] = "none"
    /\ Fail(t)
    /\ child' = [child EXCEPT ![k] = t]
    /\ conn' = [conn EXCEPT ![k] = conn[t], ![t] = "none"]
    /\ UNCHANGED <<data, marked, exists, tables, request>>

ChildOpens(k) ==
    /\ child[k] # "none"
    /\ conn[k] = "none"
    /\ Blockers(k, "rw") = {}
    /\ conn' = [conn EXCEPT ![k] = "rw"]
    /\ exists' = TRUE
    /\ UNCHANGED <<vars, tables, request, child>>

ChildRefused(k) ==
    /\ child[k] # "none"
    /\ conn[k] = "none"
    /\ Blockers(k, "rw") # {}
    /\ child' = [child EXCEPT ![k] = "none"]
    /\ UNCHANGED <<vars, exists, tables, conn, request>>

ChildEnds(k) ==
    /\ conn[k] = "rw"
    /\ LateDbt(child[k])
    /\ conn' = [conn EXCEPT ![k] = "none"]
    /\ child' = [child EXCEPT ![k] = "none"]
    /\ UNCHANGED <<exists, tables, request>>

ChildStep(k) == ChildOpens(k) \/ ChildRefused(k) \/ ChildEnds(k)

\* What the DAG does without the database.
OtherDagStep ==
    /\ \/ \E i \in Places : Schedule(i)
       \/ \E t \in Tasks : Retry(t) \/ Empty(t) \/ (t \notin DuckTasks /\ WorkTask(t))
       \/ DetectPsxCsvDrop
       \/ UpdateServingMetadata
       \/ NextRun
    /\ UNCHANGED servingVars

PipelineNext ==
    \/ \E t \in DuckTasks : Acquire(t) \/ Refused(t) \/ EndAttempt(t)
    \/ \E t \in DuckTasks, k \in Children : KillWorker(t, k)
    \/ CreateTable
    \/ OtherDagStep

ReaderNext ==
    /\ Arrival \/ \E r \in Readers : Proceed(r)
    /\ UNCHANGED vars

ServingNext == PipelineNext \/ ReaderNext \/ \E k \in Children : ChildStep(k)

ServingSpec == ServingInit /\ [][ServingNext]_allVars

\* A request that has come is worked on, whatever the others do, the scheduler
\* keeps scheduling, a task that runs ends in some way, and so does a command
\* that was left behind; nobody has to send requests.
FairServingSpec ==
    /\ ServingSpec
    /\ WF_allVars(PipelineNext)
    /\ \A r \in Readers : WF_allVars(Proceed(r) /\ UNCHANGED vars)
    /\ \A k \in Children : WF_allVars(ChildStep(k))

-----------------------------------------------------------------------------
(* Properties *)

(***************************************************************************)
(* A staging run finds the schema complete, whatever requests refused the  *)
(* task that creates it and wherever that was killed ("safe to call on     *)
(* every pipeline start").                                                 *)
(***************************************************************************)
StagingHasSchema == conn["dbt_staging_run"] = "rw" => tables = Len(Schema)

\* A task has the file, or a command that a killed worker of one left behind.
PipelineHasFile == \E c \in DuckTasks \cup Children : conn[c] = "rw"

(***************************************************************************)
(* GSR-005, "unlimited concurrent readers without blocking": a request or  *)
(* scrape ends without having had the file, once that exists, only while   *)
(* the pipeline has it, never because of another request or scrape.        *)
(***************************************************************************)
RefusedOnlyByPipeline ==
    [][\A r \in Readers :
          /\ request[r] = "connect" /\ request'[r] = "idle"
          /\ exists
          => PipelineHasFile]_allVars

(***************************************************************************)
(* No request or scrape ever makes a database or a table, not even one     *)
(* that comes before the first run of the pipeline has.                    *)
(***************************************************************************)
ServingNeverWrites ==
    [][exists' # exists \/ tables' # tables => PipelineHasFile']_allVars

(***************************************************************************)
(* Every request and scrape ends, however long the pipeline has the file,  *)
(* and has then given the file up.                                         *)
(***************************************************************************)
RequestsEnd ==
    \A r \in Readers : request[r] = "connect" ~> request[r] = "idle" /\ conn[r] = "none"

(***************************************************************************)
(* The pipeline never locks the readers and itself out for good: whichever *)
(* task has the file gives it up, and so does a dbt command whose worker   *)
(* was killed, although it answers to nobody any more.                     *)
(***************************************************************************)
LockFreed == PipelineHasFile ~> ~PipelineHasFile

=============================================================================
