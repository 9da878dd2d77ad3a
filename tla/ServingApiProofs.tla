--------------------------- MODULE ServingApiProofs ---------------------------
(***************************************************************************)
(* ServingTypeOK, StagingHasSchema, RefusedOnlyByPipeline and              *)
(* ServingNeverWrites for any number of API processes and of dbt commands  *)
(* left behind, any retries and any results; and ServingSpec implements    *)
(* the DAG alone, so that OneAtATime and MarkedAfterGate hold next to the  *)
(* readers too.                                                            *)
(***************************************************************************)
EXTENDS ServingApi, PsxPipelineDagProofs

Modes == {"none", "ro", "rw"}
Stages == {"idle", "connect", "query"}

ConnType ==
    /\ exists \in BOOLEAN
    /\ tables \in 0 .. Len(Schema)
    /\ conn \in [Openers -> Modes]
    /\ request \in [Readers -> Stages]
    /\ child \in [Children -> DbtTasks \cup {"none"}]

\* A reader has the file while its query runs, a task while it is running.
Attended ==
    /\ \A r \in Readers : conn[r] # "none" => request[r] = "query"
    /\ \A t \in DuckTasks : conn[t] # "none" => state[t] = "running"

ReadersRead == ServingReadOnly => \A r \in Readers : conn[r] # "rw"

\* A schema task that has succeeded in this run has made every table.
SchemaMade == state["initialize_duckdb_schema"] = "success" => tables = Len(Schema)

ServingInv == DagInv /\ ConnType /\ Attended /\ ReadersRead /\ SchemaMade

-----------------------------------------------------------------------------
LEMMA DuckTasksAreTasks ==
    /\ DuckTasks \subseteq Tasks /\ DuckTasks \cap Readers = {}
    /\ DbtTasks \subseteq DuckTasks
    /\ Children \cap (Readers \cup DuckTasks) = {}
<1>1. /\ Chain[4] = "initialize_duckdb_schema" /\ Chain[5] = "dbt_staging_run"
      /\ Chain[7] = "dbt_marts_run" /\ Chain[8] = "dq_assertions"
  BY DEF Chain
<1> QED
  BY <1>1, ChainDistinct, NamesAssumption DEF DuckTasks, DbtTasks

(* What a request or scrape does, whoever else is at work.                     *)
LEMMA ReaderKeeps ==
    ASSUME ServingInv, ReaderNext
    PROVE  ServingInv'
<1> USE DEF ServingInv
<1>1. UNCHANGED <<vars, tables, child>>
  BY DEF ReaderNext, Arrival, Scrape, Begin, Proceed, Connect, EndRequest, Respond
<1>2. DagInv' /\ SchemaMade'
  BY <1>1, DagStep DEF SchemaMade, vars
<1>3. ASSUME NEW r \in Readers, NEW q \in Stages, NEW m \in Modes,
             request' = [request EXCEPT ![r] = q], conn' = [conn EXCEPT ![r] = m],
             m # "none" => q = "query", ServingReadOnly => m # "rw", exists' \in BOOLEAN
      PROVE  ServingInv'
  <2>1. ConnType'
    BY <1>1, <1>3 DEF ConnType
  <2>2. Attended'
    BY <1>1, <1>3, DuckTasksAreTasks DEF Attended, ConnType, Openers, vars
  <2>3. ReadersRead'
    BY <1>3 DEF ConnType, ReadersRead, Openers
  <2> QED
    BY <1>2, <2>1, <2>2, <2>3
<1>4. ASSUME NEW r \in Readers, Respond(r) PROVE ServingInv'
  BY <1>3, <1>4 DEF Respond, Stages, Modes, ConnType
<1>5. ASSUME NEW r \in Readers, Begin(r) PROVE ServingInv'
  <2>1. conn[r] = "none" /\ conn = [conn EXCEPT ![r] = "none"]
    BY <1>5 DEF Begin, Attended, ConnType
  <2> QED
    BY <1>3, <1>5, <2>1 DEF Begin, Stages, Modes, ConnType
<1>6. ASSUME NEW r \in Readers, Connect(r) PROVE ServingInv'
  <2>1. Mode(r) \in Modes /\ (ServingReadOnly => Mode(r) = "ro")
    BY DEF Mode, Modes
  <2>2. CASE Respond(r)
    BY <1>4, <2>2
  <2>3. CASE /\ request' = [request EXCEPT ![r] = "query"]
             /\ conn' = [conn EXCEPT ![r] = Mode(r)]
             /\ exists' = TRUE
    BY <1>3, <2>1, <2>3 DEF Stages
  <2> QED
    BY <1>6, <2>2, <2>3 DEF Connect
<1>7. Exporter \in Readers /\ Workers \subseteq Readers
  BY DEF Readers
<1> QED
  BY <1>4, <1>5, <1>6, <1>7
     DEF ReaderNext, Arrival, Scrape, Proceed, EndRequest

(* A task's attempt that ends, or never had the file, leaves it closed; at most *)
(* a command that it leaves behind keeps it.                                    *)
LEMMA TaskEndKeeps ==
    ASSUME ServingInv, DagInv', NEW t \in DuckTasks, TaskStep(t),
           UNCHANGED <<exists, tables, request>>,
           t = "initialize_duckdb_schema" /\ state'[t] = "success" => SchemaDone,
           conn' \in [Openers -> Modes], child' \in [Children -> DbtTasks \cup {"none"}],
           conn'[t] = "none",
           \A c \in (Readers \cup DuckTasks) \ {t} : conn'[c] = conn[c]
    PROVE  ServingInv'
<1>1. t \in Tasks /\ t \notin Readers /\ DuckTasks \subseteq Tasks
  BY DuckTasksAreTasks
<1>2. \A u \in Tasks \ {t} : state'[u] = state[u]
  BY <1>1 DEF TaskStep, ServingInv, DagInv, TypeOK
<1>3. ConnType'
  BY DEF ServingInv, ConnType
<1>4. Attended'
  BY <1>1, <1>2 DEF ServingInv, Attended
<1>5. SchemaMade'
  <2>1. "initialize_duckdb_schema" \in Tasks
    BY <1>1 DEF DuckTasks
  <2> QED
    BY <1>2, <2>1 DEF ServingInv, SchemaMade, SchemaDone
<1> QED
  BY <1>1, <1>3, <1>4, <1>5 DEF ServingInv, ReadersRead

(* The DAG's other steps leave running what runs, and end no task that opens   *)
(* the database.                                                               *)
LEMMA OthersKeepRunning ==
    ASSUME DagInv, OtherDagStep, NEW u \in DuckTasks
    PROVE  /\ state[u] = "running" => state'[u] = "running"
           /\ state'[u] = "success" => state[u] = "success"
<1> DEFINE Kept == /\ state[u] = "running" => state'[u] = "running"
                   /\ state'[u] = "success" => state[u] = "success"
<1> USE DuckTasksAreTasks
<1>1. u \in Tasks /\ state \in [Tasks -> States]
  BY DEF DagInv, TypeOK
<1>2. ASSUME NEW t \in Tasks \ DuckTasks, TaskStep(t) PROVE Kept
  BY <1>1, <1>2 DEF TaskStep
<1>3. ASSUME NEW i \in Places, Schedule(i) PROVE Kept
  BY <1>1, <1>3, ChainDistinct DEF Schedule, Triggered
<1>4. ASSUME NEW t \in Tasks, Retry(t) PROVE Kept
  BY <1>1, <1>4 DEF Retry
<1>5. ASSUME NEW t \in Tasks, Empty(t) PROVE Kept
  <2>1. t \notin DuckTasks /\ TaskStep(t)
    BY <1>5, EndIsStep DEF Empty, Succeed, DuckTasks, DbtTasks
  <2> QED
    BY <1>2, <2>1
<1>6. ASSUME NEW t \in Tasks, t \notin DuckTasks, WorkTask(t) PROVE Kept
  BY <1>2, <1>6, EndIsStep, FailIsStep DEF WorkTask, Succeed
<1>7. CASE DetectPsxCsvDrop
  <2>1. "detect_psx_csv_drop" \in Tasks \ DuckTasks
    BY ChainDistinct DEF Chain, DuckTasks, DbtTasks
  <2>2. TaskStep("detect_psx_csv_drop")
    BY <1>7, <2>1, EndIsStep, FailIsStep DEF DetectPsxCsvDrop, Succeed, Skip
  <2> QED
    BY <1>2, <2>1, <2>2
<1>8. CASE UpdateServingMetadata
  <2>1. "update_serving_metadata" \in Tasks \ DuckTasks
    BY ChainDistinct, ChainNames DEF DuckTasks, DbtTasks
  <2>2. TaskStep("update_serving_metadata")
    BY <1>8, <2>1, EndIsStep, FailIsStep DEF UpdateServingMetadata, Succeed
  <2> QED
    BY <1>2, <2>1, <2>2
<1>9. CASE NextRun
  BY <1>1, <1>9 DEF NextRun, RunOver, Ended
<1> QED
  BY <1>3, <1>4, <1>5, <1>6, <1>7, <1>8, <1>9 DEF OtherDagStep

(* A failed attempt that leaves the data alone keeps the DAG's invariant.        *)
LEMMA FailKeepsDag ==
    ASSUME DagInv, NEW t \in Tasks, Fail(t), UNCHANGED <<data, marked>>
    PROVE  DagInv' /\ TaskStep(t) /\ state'[t] # "success"
<1>1. TaskStep(t)
  BY FailIsStep
<1>2. DagInv'
  BY <1>1, StepKeepsMark, TaskKeeps DEF DagInv, TypeOK, data
<1> QED
  BY <1>1, <1>2 DEF Fail, EndTask, DagInv, TypeOK

(* What the pipeline does.                                                     *)
LEMMA PipelineKeeps ==
    ASSUME ServingInv, PipelineNext
    PROVE  ServingInv'
<1> USE DuckTasksAreTasks
<1>1. ASSUME NEW t \in DuckTasks, Acquire(t) PROVE ServingInv'
  <2>1. DagInv' /\ SchemaMade'
    BY <1>1, DagStep DEF Acquire, ServingInv, SchemaMade, vars
  <2>2. ConnType' /\ ReadersRead'
    BY <1>1 DEF Acquire, ServingInv, ConnType, ReadersRead, Openers, Modes
  <2>3. Attended'
    BY <1>1 DEF Acquire, ServingInv, ConnType, Attended, Openers, vars
  <2> QED
    BY <2>1, <2>2, <2>3 DEF ServingInv
<1>2. ASSUME NEW t \in DuckTasks, Refused(t) PROVE ServingInv'
  <2>1. /\ UNCHANGED <<exists, tables, request, conn, child>> /\ conn[t] = "none"
        /\ conn' \in [Openers -> Modes]
        /\ child' \in [Children -> DbtTasks \cup {"none"}]
    BY <1>2 DEF Refused, servingVars, ServingInv, ConnType
  <2>2. CASE t = "dq_assertions"
    <3>1. Gate(results) /\ UNCHANGED fresh
      BY <1>2, <2>2 DEF Refused
    <3>2. DagInv'
      BY <3>1, GateKeeps DEF ServingInv, DagInv, TypeOK
    <3>3. TaskStep(t)
      BY <2>2, <3>1, EndIsStep, FailIsStep DEF Gate, Succeed, ServingInv
    <3> QED
      BY <2>1, <2>2, <3>2, <3>3, TaskEndKeeps
  <2>3. CASE t # "dq_assertions"
    <3>1. Fail(t) /\ UNCHANGED <<data, marked>>
      BY <1>2, <2>3 DEF Refused
    <3>2. DagInv' /\ TaskStep(t) /\ state'[t] # "success"
      BY <3>1, FailKeepsDag DEF ServingInv
    <3> QED
      BY <2>1, <3>2, TaskEndKeeps
  <2> QED
    BY <2>2, <2>3
<1>3. ASSUME NEW t \in DuckTasks, EndAttempt(t) PROVE ServingInv'
  <2>1. /\ conn' = [conn EXCEPT ![t] = "none"]
        /\ UNCHANGED <<exists, tables, request, child>>
    BY <1>3 DEF EndAttempt
  <2>2. WorkTask(t) \/ RunDbt(t) \/ (t = "dq_assertions" /\ RunDqAssertions)
    BY <1>3 DEF EndAttempt
  <2>3. DagInv'
    BY <2>2, DagStep DEF Next, ServingInv
  <2>4. TaskStep(t)
    BY <2>2, EndIsStep, FailIsStep
       DEF WorkTask, RunDbt, RunDqAssertions, Gate, Succeed, ServingInv
  <2>5. t = "initialize_duckdb_schema" /\ state'[t] = "success" => SchemaDone
    BY <1>3 DEF EndAttempt, RunDbt, DbtTasks
  <2>6. /\ conn' \in [Openers -> Modes] /\ conn'[t] = "none"
        /\ \A c \in (Readers \cup DuckTasks) \ {t} : conn'[c] = conn[c]
        /\ child' \in [Children -> DbtTasks \cup {"none"}]
    BY <2>1 DEF ServingInv, ConnType, Openers, Modes
  <2> QED
    BY <2>1, <2>3, <2>4, <2>5, <2>6, TaskEndKeeps
<1>4. ASSUME NEW t \in DuckTasks, NEW k \in Children, KillWorker(t, k) PROVE ServingInv'
  <2>1. DagInv' /\ TaskStep(t) /\ state'[t] # "success"
    BY <1>4, FailKeepsDag DEF KillWorker, ServingInv
  <2>2. k \notin Readers \cup DuckTasks /\ {t, k} \subseteq Openers
    BY DEF Openers
  <2>3. conn' = [conn EXCEPT ![k] = conn[t], ![t] = "none"]
    BY <1>4 DEF KillWorker
  <2>4. /\ conn' \in [Openers -> Modes] /\ conn'[t] = "none"
        /\ \A c \in (Readers \cup DuckTasks) \ {t} : conn'[c] = conn[c]
    BY <2>2, <2>3 DEF ServingInv, ConnType, Openers, Modes
  <2>5. child' \in [Children -> DbtTasks \cup {"none"}]
    BY <1>4 DEF KillWorker, ServingInv, ConnType
  <2> QED
    BY <1>4, <2>1, <2>4, <2>5, TaskEndKeeps DEF KillWorker
<1>5. CASE CreateTable
  <2>1. DagInv' /\ UNCHANGED <<state, exists, conn, request, child>>
    BY <1>5, DagStep DEF CreateTable, ServingInv, vars
  <2>2. tables' \in 0 .. Len(Schema) /\ (tables = Len(Schema) => FALSE)
    BY <1>5 DEF CreateTable, ServingInv, ConnType, Schema
  <2> QED
    BY <2>1, <2>2 DEF ServingInv, ConnType, Attended, ReadersRead, SchemaMade
<1>6. CASE OtherDagStep
  <2>1. DagInv'
    BY <1>6, DagStep DEF OtherDagStep, Next, ServingInv
  <2>2. UNCHANGED servingVars
    BY <1>6 DEF OtherDagStep
  <2>3. Attended'
    BY <1>6, <2>2, OthersKeepRunning DEF ServingInv, Attended, servingVars
  <2>4. SchemaMade'
    BY <1>6, <2>2, OthersKeepRunning DEF ServingInv, SchemaMade, DuckTasks, servingVars
  <2> QED
    BY <2>1, <2>2, <2>3, <2>4 DEF ServingInv, ConnType, ReadersRead, servingVars
<1> QED
  BY <1>1, <1>2, <1>3, <1>4, <1>5, <1>6 DEF PipelineNext

(* What a command does that was left behind: it is no reader and no task.      *)
LEMMA ChildKeeps ==
    ASSUME ServingInv, NEW k \in Children, ChildStep(k)
    PROVE  ServingInv'
<1>1. DagInv' /\ UNCHANGED <<state, tables, request>>
  <2>1. CASE ChildOpens(k) \/ ChildRefused(k)
    BY <2>1, DagStep DEF ChildOpens, ChildRefused, ServingInv, vars
  <2>2. CASE ChildEnds(k)
    <3>1. child[k] \in Tasks /\ LateDbt(child[k])
      BY <2>2, DuckTasksAreTasks DEF ChildEnds, LateDbt
    <3> QED
      BY <2>2, <3>1, DagStep DEF ChildEnds, LateDbt, Next, ServingInv
  <2> QED
    BY <2>1, <2>2 DEF ChildStep
<1>2. k \in Openers /\ k \notin Readers \cup DuckTasks
  BY DuckTasksAreTasks DEF Openers
<1>3. /\ exists' \in BOOLEAN /\ child' \in [Children -> DbtTasks \cup {"none"}]
      /\ conn' \in [Openers -> Modes]
      /\ \A c \in Readers \cup DuckTasks : conn'[c] = conn[c]
  BY <1>2 DEF ChildStep, ChildOpens, ChildRefused, ChildEnds, ServingInv, ConnType,
     Openers, Modes
<1> QED
  BY <1>1, <1>3 DEF ServingInv, ConnType, Attended, ReadersRead, SchemaMade

LEMMA ServingStep ==
    ASSUME ServingInv, [ServingNext]_allVars
    PROVE  ServingInv'
<1>1. CASE UNCHANGED allVars
  <2>1. DagInv'
    BY <1>1, DagStep DEF allVars, ServingInv
  <2> QED
    BY <1>1, <2>1 DEF allVars, vars, servingVars, ServingInv, ConnType, Attended,
       ReadersRead, SchemaMade
<1> QED
  BY <1>1, ReaderKeeps, PipelineKeeps, ChildKeeps DEF ServingNext

LEMMA ServingInitially == ServingInit => ServingInv
<1>1. ServingInit => DagInv
  BY DagInitially DEF ServingInit
<1>2. ServingInit => ConnType /\ Attended /\ ReadersRead
  <2>1. 0 \in 0 .. Len(Schema)
    BY DEF Schema
  <2> QED
    BY <2>1 DEF ServingInit, ConnType, Attended, ReadersRead, Openers, Modes, Stages
<1>3. ServingInit => SchemaMade
  BY DuckTasksAreTasks DEF ServingInit, Init, SchemaMade, DuckTasks
<1> QED
  BY <1>1, <1>2, <1>3 DEF ServingInv

LEMMA ServingInvariant == ServingSpec => []ServingInv
BY ServingInitially, ServingStep, PTL DEF ServingSpec

(* Every step is one of the DAG alone, or leaves the DAG as it is.             *)
LEMMA ServingStepsDag ==
    ASSUME TestMayNotRun = TRUE, [ServingNext]_allVars
    PROVE  [Next]_vars
<1> USE DuckTasksAreTasks
<1>1. ASSUME NEW t \in DuckTasks, Refused(t) PROVE Next
  <2>1. CASE t = "dq_assertions"
    BY <1>1, <2>1 DEF Refused, RunDqAssertions, Next
  <2>2. CASE t \in DbtTasks \ {"dq_assertions"}
    BY <1>1, <2>2 DEF Refused, RunDbt, Next
  <2>3. CASE t = "initialize_duckdb_schema"
    BY <1>1, <2>3 DEF Refused, WorkTask, Next, DbtTasks
  <2> QED
    BY <2>1, <2>2, <2>3 DEF DuckTasks
<1>2. ASSUME NEW t \in DuckTasks, NEW k \in Children, KillWorker(t, k) PROVE Next
  <2>1. t \in Tasks /\ t \in DbtTasks /\ Fail(t) /\ UNCHANGED <<data, marked>>
    BY <1>2 DEF KillWorker
  <2>2. CASE t = "dq_assertions"
    <3>1. Gate(results) /\ UNCHANGED fresh
      BY <2>1, <2>2 DEF Gate, data
    <3> QED
      BY <3>1 DEF RunDqAssertions, Next
  <2>3. CASE t # "dq_assertions"
    BY <2>1, <2>3 DEF RunDbt, Next
  <2> QED
    BY <2>2, <2>3
<1>3. ASSUME NEW t \in DuckTasks, EndAttempt(t) PROVE Next
  BY <1>3 DEF EndAttempt, Next
<1>4. CASE OtherDagStep
  BY <1>4 DEF OtherDagStep, Next
<1>5. ASSUME NEW k \in Children, ChildEnds(k) PROVE Next
  <2>1. child[k] \in Tasks /\ LateDbt(child[k])
    BY <1>5 DEF ChildEnds, LateDbt
  <2> QED
    BY <2>1 DEF Next
<1>6. ASSUME \/ \E t \in DuckTasks : Acquire(t)
             \/ CreateTable
             \/ ReaderNext
             \/ \E k \in Children : ChildOpens(k) \/ ChildRefused(k)
             \/ UNCHANGED allVars
      PROVE  UNCHANGED vars
  BY <1>6 DEF Acquire, CreateTable, ReaderNext, ChildOpens, ChildRefused, allVars
<1> QED
  BY <1>1, <1>2, <1>3, <1>4, <1>5, <1>6 DEF ServingNext, PipelineNext, ChildStep

-----------------------------------------------------------------------------
(***************************************************************************)
(* Every reachable state of the readers, the file lock, the schema and the *)
(* DAG is well typed.                                                      *)
(***************************************************************************)
THEOREM ServingTypeCorrect == ServingSpec => []ServingTypeOK
<1>1. ServingInv => ServingTypeOK
  BY DEF ServingInv, DagInv, ConnType, Modes, Stages, ServingTypeOK
<1> QED
  BY <1>1, ServingInvariant, PTL

(***************************************************************************)
(* A staging run finds the schema complete: it follows a schema task that  *)
(* succeeded, and that does so only once all tables are there, however     *)
(* often it was refused or killed between two of them.                     *)
(***************************************************************************)
THEOREM StagingFindsSchema == ServingSpec => []StagingHasSchema
<1>1. ASSUME ServingInv, conn["dbt_staging_run"] = "rw"
      PROVE  tables = Len(Schema)
  <2>1. state[Chain[5]] = "running"
    BY <1>1, ChainNames DEF ServingInv, Attended, DuckTasks, DbtTasks
  <2>2. 5 \in Places \ {1} /\ Chain[5] # "dbt_marts_run" /\ 5 - 1 = 4
    BY ChainDistinct, ChainNames
  <2>3. state[Chain[4]] = "success"
    BY <1>1, <2>1, <2>2 DEF ServingInv, DagInv, AfterSuccess, AtWork
  <2>4. Chain[4] = "initialize_duckdb_schema"
    BY DEF Chain
  <2> QED
    BY <1>1, <2>3, <2>4 DEF ServingInv, SchemaMade
<1> QED
  BY <1>1, ServingInvariant, PTL DEF StagingHasSchema

(***************************************************************************)
(* Next to the readers, and with commands left behind, the DAG goes on as  *)
(* it does alone with dbt commands that may end at any time: every run     *)
(* that is refused, retried or killed here is one of the DAG's own.        *)
(***************************************************************************)
THEOREM ServingImplementsDag ==
    ASSUME TestMayNotRun = TRUE
    PROVE  ServingSpec => Spec
<1>1. ServingInit => Init
  BY DEF ServingInit
<1> QED
  BY <1>1, ServingStepsDag, PTL DEF ServingSpec, Spec

(***************************************************************************)
(* So a run is marked complete only behind built marts and a gate that     *)
(* passed, and in hard-fail mode on data that fail no test once a dbt test *)
(* of the gate has judged them, although readers refuse tasks the file and *)
(* commands left behind change the data at any time.                       *)
(***************************************************************************)
THEOREM MarkGuardedServing ==
    ASSUME TestMayNotRun = TRUE
    PROVE  ServingSpec => [](OneAtATime /\ MarkedAfterGate)
BY ServingImplementsDag, TasksTakeTurns, GateGuardsMark, PTL

(***************************************************************************)
(* If the API opens the file read only, no number of requests and scrapes  *)
(* keeps another from it: only the pipeline does, with a task or with a    *)
(* command it left behind.                                                 *)
(***************************************************************************)
THEOREM ReadersDoNotBlock ==
    ASSUME ServingReadOnly = TRUE
    PROVE  ServingSpec => RefusedOnlyByPipeline
<1>1. ASSUME ServingInv, ServingNext, NEW r \in Readers,
             request[r] = "connect", request'[r] = "idle", exists
      PROVE  PipelineHasFile
  <2>1. \A q \in Readers : conn[q] # "rw"
    BY <1>1 DEF ServingInv, ReadersRead
  <2>2. Blockers(r, "ro") # {}
    <3>1. request \in [Readers -> Stages]
      BY <1>1 DEF ServingInv, ConnType
    <3>2. ~PipelineNext /\ \A k \in Children : ~ChildStep(k)
      BY <1>1 DEF PipelineNext, Acquire, Refused, EndAttempt, KillWorker, CreateTable,
         OtherDagStep, servingVars, ChildStep, ChildOpens, ChildRefused, ChildEnds
    <3>3. ASSUME NEW q \in Readers, Begin(q) PROVE FALSE
      BY <1>1, <3>1, <3>3 DEF Begin
    <3>4. ~Arrival
      BY <3>3 DEF Arrival, Scrape, Readers
    <3>5. ASSUME NEW q \in Readers, EndRequest(q) PROVE FALSE
      BY <1>1, <3>1, <3>5 DEF EndRequest, Respond
    <3>6. PICK q \in Readers : Connect(q)
      BY <1>1, <3>2, <3>4, <3>5 DEF ServingNext, ReaderNext, Proceed
    <3>7. q = r
      BY <1>1, <3>1, <3>6 DEF Connect, Respond
    <3>8. Mode(r) = "ro"
      BY DEF Mode
    <3>9. CASE Blockers(r, "ro") = {}
      BY <1>1, <3>1, <3>6, <3>7, <3>8, <3>9 DEF Connect
    <3> QED
      BY <3>9
  <2> QED
    BY <1>1, <2>1, <2>2 DEF Blockers, ServingInv, ConnType, Openers, PipelineHasFile
<1>2. ServingInv /\ [ServingNext]_allVars =>
        [\A r \in Readers :
            /\ request[r] = "connect" /\ request'[r] = "idle"
            /\ exists
            => PipelineHasFile]_allVars
  BY <1>1
<1> QED
  BY <1>2, ServingInvariant, PTL DEF ServingSpec, RefusedOnlyByPipeline

(***************************************************************************)
(* If the API opens the file read only, no request or scrape, not even one *)
(* that comes before the first run, makes a database or a table.           *)
(***************************************************************************)
THEOREM ServingOnlyReads ==
    ASSUME ServingReadOnly = TRUE
    PROVE  ServingSpec => ServingNeverWrites
<1>1. ASSUME ServingInv, ServingNext, ~(exists' = exists /\ tables' = tables)
      PROVE  PipelineHasFile'
  <2>1. ASSUME NEW r \in Readers, Connect(r) PROVE UNCHANGED <<exists, tables>>
    <3>1. Mode(r) = "ro" /\ exists \in BOOLEAN
      BY <1>1 DEF Mode, ServingInv, ConnType
    <3> QED
      BY <2>1, <3>1 DEF Connect, Respond
  <2>2. ~ReaderNext
    BY <1>1, <2>1 DEF ReaderNext, Arrival, Scrape, Begin, Proceed, EndRequest, Respond
  <2>3. ASSUME NEW t \in DuckTasks, Acquire(t) PROVE conn'[t] = "rw"
    BY <1>1, <2>3 DEF Acquire, ServingInv, ConnType, Openers
  <2>4. CASE CreateTable
    <3>1. conn'["initialize_duckdb_schema"] = "rw"
      BY <2>4 DEF CreateTable
    <3> QED
      BY <3>1 DEF DuckTasks, PipelineHasFile
  <2>5. ASSUME NEW k \in Children, ChildStep(k) PROVE conn'[k] = "rw"
    BY <1>1, <2>5 DEF ChildStep, ChildOpens, ChildRefused, ChildEnds, ServingInv,
       ConnType, Openers
  <2> QED
    BY <1>1, <2>2, <2>3, <2>4, <2>5
       DEF ServingNext, PipelineNext, Refused, EndAttempt, KillWorker, OtherDagStep,
           servingVars, PipelineHasFile
<1>2. ServingInv /\ [ServingNext]_allVars =>
        [exists' # exists \/ tables' # tables => PipelineHasFile']_allVars
  BY <1>1
<1> QED
  BY <1>2, ServingInvariant, PTL DEF ServingSpec, ServingNeverWrites

=============================================================================
