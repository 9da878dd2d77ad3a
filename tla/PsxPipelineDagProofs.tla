------------------------- MODULE PsxPipelineDagProofs -------------------------
(***************************************************************************)
(* TypeOK, OneAtATime and MarkedAfterGate for any tests, any tags and any  *)
(* number of retries, over any number of runs, whatever dbt test judges    *)
(* and however many dbt commands killed workers leave behind.              *)
(***************************************************************************)
EXTENDS PsxPipelineDag, TLAPS

AtWork == {"running", "up_for_retry"}

\* A task that has not begun, or has ended, has no tries; one that waits has
\* one left.
TriesCounted ==
    \A t \in Tasks :
        /\ state[t] \notin AtWork => tries[t] = 0
        /\ state[t] = "up_for_retry" => tries[t] <= Retries

\* What has begun has all before it ended.
ChainOrder ==
    \A i, j \in Places :
        i < j /\ state[Chain[j]] # "none" => state[Chain[i]] \in Ended

\* What has been tried under the default rule follows a success.
AfterSuccess ==
    \A i \in Places \ {1} :
        /\ Chain[i] # "dbt_marts_run"
        /\ state[Chain[i]] \in AtWork \cup {"success", "failed"}
        => state[Chain[i - 1]] = "success"

MarkedByTask ==
    marked => state["update_serving_metadata"] \in AtWork \cup {"success", "failed"}

\* What the mark says of the run's tasks, whatever the gate has judged.
MarkedInTurn ==
    marked => state["dbt_marts_run"] = "success" /\ state["dq_assertions"] = "success"

\* Failures that dbt test recorded on the data as they are, are those there are;
\* a gate in hard-fail mode that has passed with them has found none.
Judged ==
    /\ fresh => results = bad
    /\ HardFail /\ fresh /\ state["dq_assertions"] = "success" => bad = {}

DagInv == TypeOK /\ TriesCounted /\ ChainOrder /\ AfterSuccess /\ MarkedByTask

\* What the steps of a task share: it was at work, and gets a state and tries.
TaskStep(t) ==
    \E s \in AtWork \cup {"success", "failed", "skipped"}, n \in 0 .. Retries + 1 :
        /\ state[t] \in AtWork
        /\ state' = [state EXCEPT ![t] = s]
        /\ tries' = [tries EXCEPT ![t] = n]
        /\ s \notin AtWork => n = 0
        /\ s = "up_for_retry" => n <= Retries
        /\ s = "skipped" => t = "detect_psx_csv_drop"

-----------------------------------------------------------------------------
LEMMA ChainDistinct ==
    /\ Places = 1 .. 10
    /\ \A i, j \in Places : Chain[i] = Chain[j] => i = j
    /\ \A t \in Tasks : \E i \in Places : t = Chain[i]
    /\ \A i \in Places : Chain[i] \in Tasks
<1>1. Places = 1 .. 10
  BY DEF Places, Chain
<1>2. \A i, j \in Places : Chain[i] = Chain[j] => i = j
  BY <1>1, SMTT(60) DEF Chain
<1> QED
  BY <1>1, <1>2 DEF Tasks

LEMMA ChainNames ==
    /\ Chain[5] = "dbt_staging_run" /\ Chain[7] = "dbt_marts_run"
    /\ Chain[8] = "dq_assertions" /\ Chain[9] = "update_serving_metadata"
BY DEF Chain

(* Ending a task, and failing at it, are task steps. *)
LEMMA EndIsStep ==
    ASSUME DagInv, NEW t \in Tasks, NEW s \in {"success", "failed", "skipped"},
           s = "skipped" => t = "detect_psx_csv_drop", EndTask(t, s)
    PROVE  TaskStep(t)
<1>1. 0 \in 0 .. Retries + 1
  BY RetriesAssumption
<1> QED
  BY <1>1 DEF EndTask, TaskStep, AtWork

LEMMA FailIsStep ==
    ASSUME DagInv, NEW t \in Tasks, Fail(t)
    PROVE  TaskStep(t)
<1>1. CASE tries[t] > Retries
  BY <1>1, EndIsStep DEF Fail
<1>2. CASE ~(tries[t] > Retries)
  <2>1. /\ state[t] = "running"
        /\ state' = [state EXCEPT ![t] = "up_for_retry"]
        /\ tries' = tries
    BY <1>2 DEF Fail
  <2>2. tries[t] \in 0 .. Retries + 1 /\ tries[t] <= Retries
    BY <1>2, RetriesAssumption DEF DagInv, TypeOK
  <2>3. tries' = [tries EXCEPT ![t] = tries[t]]
    BY <2>1 DEF DagInv, TypeOK
  <2>4. state[t] \in AtWork /\ "up_for_retry" \in AtWork /\ "up_for_retry" # "skipped"
    BY <2>1 DEF AtWork
  <2> QED
    BY <2>1, <2>2, <2>3, <2>4, Zenon DEF TaskStep
<1> QED
  BY <1>1, <1>2

LEMMA RetryIsStep ==
    ASSUME DagInv, NEW t \in Tasks, Retry(t)
    PROVE  TaskStep(t)
<1>1. tries[t] \in 0 .. Retries + 1 /\ tries[t] <= Retries
  BY DEF DagInv, TypeOK, TriesCounted, Retry
<1>2. tries[t] + 1 \in 0 .. Retries + 1
  BY <1>1, RetriesAssumption
<1>3. PICK n \in 0 .. Retries + 1 : tries' = [tries EXCEPT ![t] = n]
  BY <1>2 DEF Retry
<1>4. state[t] \in AtWork /\ state' = [state EXCEPT ![t] = "running"]
  BY DEF Retry, AtWork
<1>5. "running" \in AtWork /\ "running" \notin {"up_for_retry", "skipped"}
  BY DEF AtWork
<1> QED
  BY <1>3, <1>4, <1>5, Zenon DEF TaskStep

(* A step of a task leaves the order of the chain: nothing after a task at *)
(* work has begun, and what was tried after a success still is.            *)
LEMMA StepKeeps ==
    ASSUME DagInv, NEW t \in Tasks, TaskStep(t)
    PROVE  /\ state' \in [Tasks -> States] /\ tries' \in [Tasks -> 0 .. Retries + 1]
           /\ TriesCounted' /\ ChainOrder' /\ AfterSuccess'
<1>1. PICK s \in AtWork \cup {"success", "failed", "skipped"}, n \in 0 .. Retries + 1 :
        /\ state[t] \in AtWork
        /\ state' = [state EXCEPT ![t] = s]
        /\ tries' = [tries EXCEPT ![t] = n]
        /\ s \notin AtWork => n = 0
        /\ s = "up_for_retry" => n <= Retries
  BY DEF TaskStep
<1>2. state \in [Tasks -> States] /\ tries \in [Tasks -> 0 .. Retries + 1]
  BY DEF DagInv, TypeOK
<1>3. state' \in [Tasks -> States] /\ tries' \in [Tasks -> 0 .. Retries + 1]
  BY <1>1, <1>2 DEF States, AtWork
<1>4. TriesCounted'
  <2>1. SUFFICES ASSUME NEW u \in Tasks
                 PROVE  /\ state'[u] \notin AtWork => tries'[u] = 0
                        /\ state'[u] = "up_for_retry" => tries'[u] <= Retries
    BY DEF TriesCounted
  <2>2. CASE u = t
    <3>1. state'[u] = s /\ tries'[u] = n
      BY <1>1, <1>2, <2>2
    <3> QED
      BY <1>1, <3>1
  <2>3. CASE u # t
    <3>1. state'[u] = state[u] /\ tries'[u] = tries[u]
      BY <1>1, <1>2, <2>3
    <3> QED
      BY <3>1 DEF DagInv, TriesCounted
  <2> QED
    BY <2>2, <2>3
<1>5. PICK k \in Places : t = Chain[k]
  BY ChainDistinct
<1>6. \A i \in Places \ {k} : state'[Chain[i]] = state[Chain[i]]
  BY <1>1, <1>2, <1>5, ChainDistinct
<1>7. state[Chain[k]] \in AtWork /\ state[Chain[k]] \notin Ended /\ state[Chain[k]] # "none"
  BY <1>1, <1>5 DEF AtWork, Ended
<1>8. \A i \in Places : i > k => state[Chain[i]] = "none"
  BY <1>7, ChainDistinct DEF DagInv, ChainOrder
<1>9. \A i \in Places : i < k => state[Chain[i]] \in Ended
  BY <1>7, ChainDistinct DEF DagInv, ChainOrder
<1>10. ChainOrder'
  <2>1. SUFFICES ASSUME NEW i \in Places, NEW j \in Places, i < j,
                        state'[Chain[j]] # "none"
                 PROVE  state'[Chain[i]] \in Ended
    BY DEF ChainOrder
  <2>2. j <= k
    BY <1>6, <1>8, <2>1, ChainDistinct
  <2>3. i < k
    BY <2>1, <2>2, ChainDistinct
  <2> QED
    BY <1>6, <1>9, <2>3, ChainDistinct
<1>11. AfterSuccess'
  <2>1. SUFFICES ASSUME NEW i \in Places \ {1}, Chain[i] # "dbt_marts_run",
                        state'[Chain[i]] \in AtWork \cup {"success", "failed"}
                 PROVE  state'[Chain[i - 1]] = "success"
    BY DEF AfterSuccess
  <2>2. i - 1 \in Places /\ i - 1 < i
    BY ChainDistinct
  <2>3. i <= k
    BY <1>6, <1>8, <2>1, ChainDistinct DEF AtWork
  <2>4. state[Chain[i]] \in AtWork \cup {"success", "failed"}
    BY <1>6, <1>7, <2>1
  <2>5. state[Chain[i - 1]] = "success"
    BY <2>1, <2>4 DEF DagInv, AfterSuccess
  <2> QED
    BY <1>6, <2>2, <2>3, <2>5, ChainDistinct
<1> QED
  BY <1>3, <1>4, <1>10, <1>11

(* Scheduling begins the first task that has not begun, once its upstream task *)
(* has ended.                                                                  *)
LEMMA ScheduleKeeps ==
    ASSUME DagInv, NEW k \in Places, Schedule(k)
    PROVE  /\ state' \in [Tasks -> States] /\ tries' \in [Tasks -> 0 .. Retries + 1]
           /\ TriesCounted' /\ ChainOrder' /\ AfterSuccess'
<1> DEFINE t == Chain[k]
           s == Triggered(t, Upstream(k))
<1>1. /\ t \in Tasks
      /\ state \in [Tasks -> States] /\ tries \in [Tasks -> 0 .. Retries + 1]
  BY ChainDistinct DEF DagInv, TypeOK
<1>2. /\ state[t] = "none"
      /\ state' = [state EXCEPT ![t] = s]
      /\ tries' = [tries EXCEPT ![t] = IF s = "running" THEN tries[t] + 1 ELSE tries[t]]
  BY DEF Schedule
<1>3. s \in {"running", "skipped", "upstream_failed"}
  BY DEF Triggered
<1>4. tries[t] = 0
  BY <1>1, <1>2 DEF DagInv, TriesCounted, AtWork
<1>5. tries'[t] = IF s = "running" THEN 1 ELSE 0
  BY <1>1, <1>2, <1>4
<1>6. \A u \in Tasks \ {t} : state'[u] = state[u] /\ tries'[u] = tries[u]
  BY <1>1, <1>2
<1>7. state'[t] = s
  BY <1>1, <1>2
<1>8. state' \in [Tasks -> States]
  BY <1>1, <1>2, <1>3 DEF States
<1>9. tries' \in [Tasks -> 0 .. Retries + 1]
  <2>1. (IF s = "running" THEN tries[t] + 1 ELSE tries[t]) \in 0 .. Retries + 1
    BY <1>4, RetriesAssumption
  <2> QED
    BY <1>1, <1>2, <2>1
<1>10. TriesCounted'
  <2>1. s # "up_for_retry" /\ (s \notin AtWork => s # "running")
    BY <1>3 DEF AtWork
  <2>2. \A u \in Tasks \ {t} : /\ state'[u] \notin AtWork => tries'[u] = 0
                               /\ state'[u] = "up_for_retry" => tries'[u] <= Retries
    BY <1>6 DEF DagInv, TriesCounted
  <2>3. /\ state'[t] \notin AtWork => tries'[t] = 0
        /\ state'[t] = "up_for_retry" => tries'[t] <= Retries
    BY <1>5, <1>7, <2>1
  <2> QED
    BY <2>2, <2>3 DEF TriesCounted
<1>11. \A i \in Places \ {k} : state'[Chain[i]] = state[Chain[i]]
  BY <1>6, ChainDistinct
<1>12. \A i \in Places : i > k => state[Chain[i]] = "none"
  BY <1>2, ChainDistinct DEF DagInv, ChainOrder, Ended
<1>13. \A i \in Places : i < k => state[Chain[i]] \in Ended
  <2>1. SUFFICES ASSUME NEW i \in Places, i < k PROVE state[Chain[i]] \in Ended
    OBVIOUS
  <2>2. k - 1 \in Places /\ k # 1 /\ i <= k - 1
    BY <2>1, ChainDistinct
  <2>3. state[Chain[k - 1]] \in Ended
    BY <2>2 DEF Schedule, Upstream
  <2>4. CASE i = k - 1
    BY <2>3, <2>4
  <2>5. CASE i < k - 1
    BY <2>2, <2>3, <2>5 DEF DagInv, ChainOrder, Ended
  <2> QED
    BY <2>2, <2>4, <2>5, ChainDistinct
<1>14. ChainOrder'
  <2>1. SUFFICES ASSUME NEW i \in Places, NEW j \in Places, i < j,
                        state'[Chain[j]] # "none"
                 PROVE  state'[Chain[i]] \in Ended
    BY DEF ChainOrder
  <2>2. j <= k
    BY <1>11, <1>12, <2>1, ChainDistinct
  <2> QED
    BY <1>11, <1>13, <2>1, <2>2, ChainDistinct
<1>15. AfterSuccess'
  <2>1. SUFFICES ASSUME NEW i \in Places \ {1}, Chain[i] # "dbt_marts_run",
                        state'[Chain[i]] \in AtWork \cup {"success", "failed"}
                 PROVE  state'[Chain[i - 1]] = "success"
    BY DEF AfterSuccess
  <2>2. i - 1 \in Places /\ i - 1 < i
    BY ChainDistinct
  <2>3. i <= k
    BY <1>11, <1>12, <2>1, ChainDistinct DEF AtWork
  <2>4. CASE i = k
    <3>1. s = "running"
      BY <1>3, <1>7, <2>1, <2>4 DEF AtWork
    <3>2. TriggerRule(t) = "all_success"
      BY <2>1, <2>4 DEF TriggerRule
    <3>3. Upstream(k) = "success"
      BY <3>1, <3>2 DEF Triggered
    <3>4. state[Chain[k - 1]] = "success"
      BY <2>1, <2>4, <3>3 DEF Upstream
    <3> QED
      BY <1>11, <2>2, <2>4, <3>4, ChainDistinct
  <2>5. CASE i < k
    <3>1. state[Chain[i]] \in AtWork \cup {"success", "failed"}
      BY <1>11, <2>1, <2>5, ChainDistinct
    <3>2. state[Chain[i - 1]] = "success"
      BY <2>1, <3>1 DEF DagInv, AfterSuccess
    <3> QED
      BY <1>11, <2>2, <2>5, <3>2, ChainDistinct
  <2> QED
    BY <2>3, <2>4, <2>5, ChainDistinct
<1> HIDE DEF t, s
<1> QED
  BY <1>8, <1>9, <1>10, <1>14, <1>15

(* A mark that is there stays with the task that set it.                       *)
LEMMA StepKeepsMark ==
    ASSUME DagInv, NEW t \in Tasks, TaskStep(t), UNCHANGED marked
    PROVE  MarkedByTask'
<1>1. SUFFICES ASSUME marked'
               PROVE  state'["update_serving_metadata"] \in AtWork \cup {"success", "failed"}
  BY DEF MarkedByTask
<1>2. /\ state \in [Tasks -> States]
      /\ state["update_serving_metadata"] \in AtWork \cup {"success", "failed"}
  BY <1>1 DEF DagInv, TypeOK, MarkedByTask
<1>3. CASE t # "update_serving_metadata"
  BY <1>2, <1>3 DEF TaskStep
<1>4. CASE t = "update_serving_metadata"
  BY <1>2, <1>4 DEF TaskStep
<1> QED
  BY <1>3, <1>4

LEMMA TaskKeeps ==
    ASSUME DagInv, NEW t \in Tasks, TaskStep(t), MarkedByTask', marked' \in BOOLEAN,
           bad' \in SUBSET Tests, results' \in SUBSET (Tests \cup {"model"}),
           fresh' \in BOOLEAN
    PROVE  DagInv'
BY StepKeeps DEF DagInv, TypeOK

(* Whichever results the gate judges.                                          *)
LEMMA GateKeeps ==
    ASSUME DagInv, NEW recorded \in {bad, results}, Gate(recorded), fresh' \in BOOLEAN
    PROVE  DagInv'
<1>1. "dq_assertions" \in Tasks
  BY ChainDistinct, ChainNames
<1>2. TaskStep("dq_assertions")
  BY <1>1, EndIsStep, FailIsStep DEF Gate, Succeed
<1>3. /\ UNCHANGED <<bad, marked>> /\ marked' \in BOOLEAN /\ bad' \in SUBSET Tests
      /\ results' \in SUBSET (Tests \cup {"model"})
  BY DEF Gate, DagInv, TypeOK
<1> QED
  BY <1>1, <1>2, <1>3, StepKeepsMark, TaskKeeps

(* Every step of the DAG but the next run schedules one task or is a step of   *)
(* one.                                                                        *)
LEMMA DagStep ==
    ASSUME DagInv, [Next]_vars
    PROVE  DagInv'
<1>1. ASSUME NEW k \in Places, Schedule(k) PROVE DagInv'
  <2>1. UNCHANGED <<bad, results, fresh, marked>>
    BY <1>1 DEF Schedule, data
  <2>2. MarkedByTask'
    <3>1. state[Chain[k]] = "none" /\ \A u \in Tasks \ {Chain[k]} : state'[u] = state[u]
      BY <1>1 DEF Schedule, DagInv, TypeOK
    <3>2. "update_serving_metadata" \in Tasks
      BY ChainNames, ChainDistinct
    <3> QED
      BY <2>1, <3>1, <3>2 DEF DagInv, MarkedByTask, AtWork
  <2> QED
    BY <1>1, <2>1, <2>2, ScheduleKeeps DEF DagInv, TypeOK
<1>3. ASSUME NEW t \in Tasks, TaskStep(t), UNCHANGED <<data, marked>>
      PROVE  DagInv'
  BY <1>3, StepKeepsMark, TaskKeeps DEF DagInv, TypeOK, data
<1>4. ASSUME NEW t \in Tasks, Retry(t) PROVE DagInv'
  BY <1>3, <1>4, RetryIsStep DEF Retry
<1>5. ASSUME NEW t \in Tasks, Empty(t) PROVE DagInv'
  BY <1>3, <1>5, EndIsStep DEF Empty, Succeed
<1>6. ASSUME NEW t \in Tasks, WorkTask(t) PROVE DagInv'
  BY <1>3, <1>6, EndIsStep, FailIsStep DEF WorkTask, Succeed
<1>7. ASSUME NEW t \in Tasks, RunDbt(t) PROVE DagInv'
  <2>1. TaskStep(t)
    BY <1>7, EndIsStep, FailIsStep DEF RunDbt, Succeed
  <2>2. UNCHANGED marked /\ bad' \in SUBSET Tests /\ marked' \in BOOLEAN
    BY <1>7 DEF RunDbt, DagInv, TypeOK, data
  <2>3. results' \in SUBSET (Tests \cup {"model"}) /\ fresh' \in BOOLEAN
    BY <1>7 DEF RunDbt, DagInv, TypeOK, data
  <2> QED
    BY <2>1, <2>2, <2>3, StepKeepsMark, TaskKeeps
<1>8. CASE DetectPsxCsvDrop
  <2>1. "detect_psx_csv_drop" \in Tasks
    BY ChainDistinct DEF Chain
  <2>2. TaskStep("detect_psx_csv_drop")
    BY <1>8, <2>1, EndIsStep, FailIsStep DEF DetectPsxCsvDrop, Succeed, Skip
  <2> QED
    BY <1>3, <1>8, <2>1, <2>2 DEF DetectPsxCsvDrop
<1>9. CASE RunDqAssertions
  BY <1>9, GateKeeps DEF RunDqAssertions, DagInv, TypeOK
<1>13. ASSUME NEW t \in Tasks, LateDbt(t) PROVE DagInv'
  <2>1. UNCHANGED <<state, tries, marked>>
    BY <1>13 DEF LateDbt
  <2>2. /\ bad' \in SUBSET Tests /\ results' \in SUBSET (Tests \cup {"model"})
        /\ fresh' \in BOOLEAN
    BY <1>13 DEF LateDbt, LateRun, LateTest, DagInv, TypeOK
  <2> QED
    BY <2>1, <2>2 DEF DagInv, TypeOK, TriesCounted, ChainOrder, AfterSuccess, MarkedByTask
<1>10. CASE UpdateServingMetadata
  <2> DEFINE t == "update_serving_metadata"
  <2>1. t \in Tasks
    BY ChainDistinct, ChainNames
  <2>2. TaskStep(t)
    BY <1>10, <2>1, EndIsStep, FailIsStep DEF UpdateServingMetadata, Succeed
  <2>3. /\ marked' \in BOOLEAN /\ fresh' \in BOOLEAN
        /\ bad' \in SUBSET Tests /\ results' \in SUBSET (Tests \cup {"model"})
    BY <1>10 DEF UpdateServingMetadata, DagInv, TypeOK, data
  <2>4. MarkedByTask'
    <3>1. state \in [Tasks -> States]
      BY DEF DagInv, TypeOK
    <3>2. state'[t] \in AtWork \cup {"success", "failed"}
      BY <2>1, <2>2, <3>1 DEF TaskStep
    <3> QED
      BY <3>2 DEF MarkedByTask
  <2> QED
    BY <2>1, <2>2, <2>3, <2>4, TaskKeeps
<1>11. CASE NextRun
  <2>1. \A t \in Tasks : state'[t] = "none" /\ tries'[t] = 0
    BY <1>11 DEF NextRun
  <2>2. TypeOK'
    <3>1. 0 \in 0 .. Retries + 1
      BY RetriesAssumption
    <3>2. "none" \in States
      BY DEF States
    <3> QED
      BY <1>11, <3>1, <3>2 DEF NextRun, DagInv, TypeOK, data
  <2>3. TriesCounted' /\ ChainOrder' /\ AfterSuccess' /\ MarkedByTask'
    BY <1>11, <2>1, ChainDistinct
       DEF NextRun, TriesCounted, ChainOrder, AfterSuccess, MarkedByTask, AtWork
  <2> QED
    BY <2>2, <2>3 DEF DagInv
<1>12. CASE UNCHANGED vars
  BY <1>12 DEF vars, data, DagInv, TypeOK, TriesCounted, ChainOrder, AfterSuccess, MarkedByTask
<1> QED
  BY <1>1, <1>4, <1>5, <1>6, <1>7, <1>8, <1>9, <1>10, <1>11, <1>12,
     <1>13 DEF Next

LEMMA DagInitially == Init => DagInv
<1>1. Init => TypeOK
  <2>1. 0 \in 0 .. Retries + 1
    BY RetriesAssumption
  <2>2. "none" \in States
    BY DEF States
  <2> QED
    BY <2>1, <2>2 DEF Init, TypeOK
<1>2. Init => TriesCounted /\ MarkedByTask
  BY RetriesAssumption DEF Init, TriesCounted, MarkedByTask
<1>3. Init => ChainOrder /\ AfterSuccess
  BY ChainDistinct DEF Init, ChainOrder, AfterSuccess, AtWork
<1> QED
  BY <1>1, <1>2, <1>3 DEF DagInv

LEMMA DagInvariant == Spec => []DagInv
BY DagInitially, DagStep, PTL DEF Spec

LEMMA OrderMeansTurns == DagInv => OneAtATime
<1>1. SUFFICES ASSUME DagInv, NEW i \in Places, NEW j \in Places,
                      state[Chain[i]] \in {"running", "up_for_retry"}, i # j
               PROVE  IF j < i THEN state[Chain[j]] \in Ended ELSE state[Chain[j]] = "none"
  BY DEF OneAtATime
<1> QED
  BY <1>1, ChainDistinct DEF DagInv, ChainOrder, Ended

(* Only the gate makes the DQ task succeed, and only dbt test on the data as   *)
(* they are makes the results fresh; whatever changes the data ends that.      *)
LEMMA JudgedStep ==
    ASSUME DagInv, Judged, [Next]_vars
    PROVE  Judged'
<1> DEFINE dq == "dq_assertions"
<1>1. dq \in Tasks /\ state \in [Tasks -> States]
  BY ChainDistinct, ChainNames DEF DagInv, TypeOK
<1>2. ASSUME UNCHANGED data, state'[dq] = "success" => state[dq] = "success"
      PROVE  Judged'
  BY <1>2 DEF Judged, data
<1>3. ASSUME NEW t \in Tasks \ {dq}, TaskStep(t)
      PROVE  state'[dq] = state[dq]
  BY <1>1, <1>3 DEF TaskStep
<1>4. ASSUME NEW k \in Places, Schedule(k) PROVE Judged'
  <2>1. state'[dq] = "success" => state[dq] = "success"
    BY <1>1, <1>4, ChainDistinct DEF Schedule, Triggered
  <2> QED
    BY <1>2, <1>4, <2>1 DEF Schedule
<1>5. ASSUME NEW t \in Tasks, Retry(t) PROVE Judged'
  BY <1>1, <1>2, <1>5 DEF Retry
<1>6. ASSUME NEW t \in Tasks, Empty(t) \/ WorkTask(t) PROVE Judged'
  <2>1. t # dq /\ TaskStep(t)
    BY <1>6, EndIsStep, FailIsStep DEF Empty, WorkTask, Succeed
  <2> QED
    BY <1>2, <1>3, <1>6, <2>1 DEF Empty, WorkTask
<1>7. ASSUME NEW t \in Tasks, RunDbt(t) PROVE Judged'
  <2>1. CASE fresh' = FALSE
    BY <2>1 DEF Judged
  <2>2. CASE Fail(t) /\ UNCHANGED data
    <3>1. t # dq /\ TaskStep(t)
      BY <1>7, <2>2, FailIsStep DEF RunDbt
    <3> QED
      BY <1>2, <1>3, <2>2, <3>1
  <2> QED
    BY <1>7, <2>1, <2>2 DEF RunDbt
<1>8. CASE DetectPsxCsvDrop
  <2> DEFINE t == "detect_psx_csv_drop"
  <2>1. t \in Tasks
    BY ChainDistinct DEF Chain
  <2>2. TaskStep(t)
    BY <1>8, <2>1, EndIsStep, FailIsStep DEF DetectPsxCsvDrop, Succeed, Skip
  <2> QED
    BY <1>2, <1>3, <1>8, <2>1, <2>2 DEF DetectPsxCsvDrop
<1>9. ASSUME NEW recorded, Gate(recorded), fresh' => recorded = bad PROVE Judged'
  <2>1. results' = recorded /\ bad' = bad
    BY <1>9 DEF Gate
  <2>2. CASE GatePasses(recorded)
    BY <1>9, <2>1, <2>2 DEF GatePasses, Judged
  <2>3. CASE ~GatePasses(recorded)
    <3>1. Fail(dq)
      BY <1>9, <2>3 DEF Gate
    <3>2. state'[dq] # "success"
      BY <1>1, <3>1 DEF Fail, EndTask
    <3> QED
      BY <1>9, <2>1, <3>2 DEF Judged
  <2> QED
    BY <2>2, <2>3
<1>10. CASE RunDqAssertions
  <2>1. CASE Gate(bad) /\ fresh' = TRUE
    BY <1>9, <2>1
  <2>2. CASE Gate(results) /\ UNCHANGED fresh
    BY <1>9, <2>2 DEF Judged
  <2> QED
    BY <1>10, <2>1, <2>2 DEF RunDqAssertions
<1>11. CASE UpdateServingMetadata
  <2> DEFINE t == "update_serving_metadata"
  <2>1. t \in Tasks
    BY ChainDistinct, ChainNames
  <2>2. TaskStep(t)
    BY <1>11, <2>1, EndIsStep, FailIsStep DEF UpdateServingMetadata, Succeed
  <2> QED
    BY <1>2, <1>3, <1>11, <2>1, <2>2 DEF UpdateServingMetadata
<1>12. CASE NextRun
  BY <1>1, <1>2, <1>12 DEF NextRun
<1>13. ASSUME NEW t \in Tasks, LateDbt(t) PROVE Judged'
  BY <1>13 DEF LateDbt, LateRun, LateTest, Judged
<1>14. CASE UNCHANGED vars
  BY <1>2, <1>14 DEF vars
<1> QED
  BY <1>4, <1>5, <1>6, <1>7, <1>8, <1>10, <1>11, <1>12, <1>13, <1>14 DEF Next

LEMMA OrderMeansMark == DagInv => MarkedInTurn
BY ChainDistinct, ChainNames DEF DagInv, MarkedByTask, AfterSuccess, MarkedInTurn, AtWork

-----------------------------------------------------------------------------
(***************************************************************************)
(* Every reachable state is well typed; in particular no task is tried     *)
(* more often than retries allow, in any run.                              *)
(***************************************************************************)
THEOREM DagTypeCorrect == Spec => []TypeOK
BY DagInvariant, PTL DEF DagInv

(***************************************************************************)
(* The tasks take turns, however often any of them fails, is retried or    *)
(* skipped.                                                                *)
(***************************************************************************)
THEOREM TasksTakeTurns == Spec => []OneAtATime
BY DagInvariant, OrderMeansTurns, PTL

(***************************************************************************)
(* A mark stands only behind built marts and a gate that passed.  In       *)
(* hard-fail mode, if a dbt test of the gate has written its results on    *)
(* the data as they are, these fail no test: whatever earlier or later     *)
(* attempts judged, and whatever commands were left behind.                *)
(***************************************************************************)
THEOREM GateGuardsMark == Spec => []MarkedAfterGate
<1>1. Init => Judged
  BY ChainDistinct, ChainNames DEF Init, Judged
<1>2. DagInv /\ Judged => MarkedAfterGate
  BY OrderMeansMark DEF MarkedInTurn, Judged, MarkedAfterGate
<1> QED
  BY <1>1, <1>2, JudgedStep, DagInvariant, PTL DEF Spec

=============================================================================
