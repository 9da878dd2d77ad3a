-------------------------- MODULE IngestTaskProofs ---------------------------
(***************************************************************************)
(* Proofs about IngestTask, for every drop directory, every number of      *)
(* retries and kills and every sequence of runs.                           *)
(***************************************************************************)
EXTENDS IngestTask, SequenceTheorems, TLAPS

-----------------------------------------------------------------------------
(* Types *)

(***************************************************************************)
(* Every name has a key in every run.                                      *)
(***************************************************************************)
LEMMA KeyType == \A n \in Names, d \in Days : KeyOf(n, d) \in Keys
BY NameAssumption DEF KeyOf, Keys, Symbols

(***************************************************************************)
(* What detect_psx_csv_drop pushes, when it pushes anything, is a list of  *)
(* names and of the keys they have in this run, and every file that was in *)
(* the drop directory is in it.                                            *)
(***************************************************************************)
LEMMA DetectedListed ==
    ASSUME TypeOK, Detect, pc' = "ingest"
    PROVE  /\ detected' \in Seq(Item)
           /\ \A i \in 1 .. Len(detected') :
                detected'[i].key = KeyOf(detected'[i].name, day)
           /\ \A n \in Names : drop[n] # NoCsv =>
                \E i \in 1 .. Len(detected') : detected'[i].name = n
<1>0. PICK len \in 1 .. Len(Order) : \E s \in [1 .. len -> Listed] :
        /\ Sorts(s, Listed)
        /\ detected' = [i \in 1 .. len |->
             [name |-> Order[s[i]], key |-> KeyOf(Order[s[i]], day)]]
  BY DEF Detect, TypeOK
<1>1. PICK s \in [1 .. len -> Listed] :
        /\ Sorts(s, Listed)
        /\ detected' = [i \in 1 .. len |->
             [name |-> Order[s[i]], key |-> KeyOf(Order[s[i]], day)]]
  BY <1>0
<1>2. \A i \in 1 .. len : s[i] \in 1 .. Len(Order) /\ Order[s[i]] \in Names
  BY DEF Listed, Names
<1>3. \A i \in 1 .. len : [name |-> Order[s[i]], key |-> KeyOf(Order[s[i]], day)] \in Item
  BY <1>2, KeyType DEF Item, TypeOK
<1>4. len \in Nat
  OBVIOUS
<1>5. detected' \in [1 .. len -> Item]
  BY <1>1, <1>3
<1>6. detected' \in Seq(Item) /\ Len(detected') = len
  BY <1>4, <1>5
<1>7. \A i \in 1 .. len : /\ detected'[i].name = Order[s[i]]
                          /\ detected'[i].key = KeyOf(Order[s[i]], day)
  BY <1>1
<1>8. ASSUME NEW n \in Names, drop[n] # NoCsv
      PROVE  \E i \in 1 .. len : detected'[i].name = n
  <2>1. PICK k \in 1 .. Len(Order) : Order[k] = n
    BY DEF Names
  <2>2. k \in {s[i] : i \in DOMAIN s}
    BY <1>1, <1>8, <2>1 DEF Sorts, Listed
  <2>3. PICK i \in 1 .. len : s[i] = k
    BY <2>2
  <2> QED
    BY <1>7, <2>1, <2>3
<1> QED
  BY <1>6, <1>7, <1>8

(***************************************************************************)
(* The next file of an attempt.                                            *)
(***************************************************************************)
LEMMA NextItem ==
    ASSUME TypeOK, at < Len(detected)
    PROVE  /\ at + 1 \in 1 .. Len(detected)
           /\ detected[at + 1] \in Item
<1>1. Len(detected) \in Nat /\ at \in Nat /\ detected \in Seq(Item)
  BY DEF TypeOK
<1>2. at + 1 \in 1 .. Len(detected)
  BY <1>1
<1> QED
  BY <1>1, <1>2, ElementOfSeq

(***************************************************************************)
(* The initial state is typed.                                             *)
(***************************************************************************)
LEMMA InitTyped == Init => TypeOK
<1> SUFFICES ASSUME Init PROVE TypeOK
  OBVIOUS
<1>1. detected \in Seq(Item) /\ at \in 0 .. Len(detected)
  BY DEF Init
<1>2. day \in Days /\ tries \in 0 .. Retries + 1 /\ faults \in 0 .. MaxFaults
  BY BoundsAssumption DEF Init, Days
<1> QED
  BY <1>1, <1>2 DEF Init, TypeOK

(***************************************************************************)
(* Every step keeps the types.                                             *)
(***************************************************************************)
LEMMA TypeCorrectStep == TypeOK /\ [Next]_vars => TypeOK'
<1> SUFFICES ASSUME TypeOK, [Next]_vars PROVE TypeOK'
  OBVIOUS
<1> USE DEF TypeOK
<1>1. ASSUME NEW n \in Names, NEW c \in Csvs, Deliver(n, c) PROVE TypeOK'
  BY <1>1 DEF Deliver, attempt
<1>2. CASE StartRun
  BY <1>2 DEF StartRun, attempt
<1>3. CASE Detect
  <2>1. CASE pc' = "ingest"
    <3>1. detected' \in Seq(Item)
      BY <1>3, <2>1, DetectedListed
    <3>2. Len(detected') \in Nat
      BY <3>1
    <3>3. at' = 0 /\ errors' = {} /\ tries' = 1 /\ touched' = FALSE /\ result' = result
      BY <1>3, <2>1 DEF Detect
    <3>4. at' \in 0 .. Len(detected') /\ tries' \in 0 .. Retries + 1
      BY <3>2, <3>3, BoundsAssumption
    <3>5. UNCHANGED <<drop, canonical, day, faults, settled, left>>
      BY <1>3 DEF Detect
    <3> QED
      BY <2>1, <3>1, <3>3, <3>4, <3>5
  <2>2. CASE pc' # "ingest"
    BY <1>3, <2>2 DEF Detect, attempt
  <2> QED
    BY <2>1, <2>2
<1>4. CASE IngestItem
  <2>1. detected[at + 1] \in Item /\ at + 1 \in 0 .. Len(detected)
    BY <1>4, NextItem DEF IngestItem
  <2>2. canonical' \in [Keys -> ValidCsvs \cup {NoCsv, NoSha}]
    BY <1>4, <2>1 DEF IngestItem, Item, Verdict
  <2>3. errors' \subseteq Errors
    BY <1>4, <2>1 DEF IngestItem, Item, Errors
  <2> QED
    BY <1>4, <2>1, <2>2, <2>3 DEF IngestItem
<1>9. CASE FailItem
  <2>1. detected[at + 1] \in Item /\ at + 1 \in 0 .. Len(detected)
    BY <1>9, NextItem DEF FailItem
  <2>2. faults' \in 0 .. MaxFaults
    BY <1>9, BoundsAssumption DEF FailItem
  <2>3. errors' \subseteq Errors
    BY <1>9, <2>1 DEF FailItem, Item, Errors
  <2> QED
    BY <1>9, <2>1, <2>2, <2>3 DEF FailItem
<1>10. ASSUME NEW k \in Keys, ComputeFirst(k) PROVE TypeOK'
  BY <1>10 DEF ComputeFirst, attempt
<1>5. ASSUME NEW ok \in BOOLEAN, Conclude(ok), pc = "ingest",
             UNCHANGED <<drop, canonical, day, touched>>,
             faults' \in 0 .. MaxFaults, settled' \in BOOLEAN, left' \subseteq Errors
      PROVE  TypeOK'
  <2>1. Len(detected) \in Nat /\ Retries \in Nat
    BY BoundsAssumption
  <2>2. /\ pc' \in {"between", "detect", "ingest"}
        /\ result' \in {"none", "success", "failed", "skipped"}
    BY <1>5 DEF Conclude, ConcludeAfter
  <2>3. detected' = detected
    BY <1>5 DEF Conclude, ConcludeAfter
  <2>4. at' \in 0 .. Len(detected) /\ tries' \in 0 .. Retries + 1
    <3>1. CASE ok \/ tries > Retries
      BY <1>5, <3>1 DEF Conclude, ConcludeAfter, attempt
    <3>2. CASE ~ (ok \/ tries > Retries)
      <4>1. at' = 0 /\ tries' = tries + 1
        BY <1>5, <3>2 DEF Conclude, ConcludeAfter
      <4> QED
        BY <2>1, <3>2, <4>1
    <3> QED
      BY <3>1, <3>2
  <2>5. errors' \subseteq Errors
    BY <1>5 DEF Conclude, ConcludeAfter, attempt
  <2> QED
    BY <1>5, <2>2, <2>3, <2>4, <2>5
<1>6. CASE EndAttempt
  BY <1>5, <1>6 DEF EndAttempt
<1>7. CASE CrashTask
  <2>1. faults' \in 0 .. MaxFaults
    BY <1>7, BoundsAssumption DEF CrashTask
  <2> QED
    BY <1>5, <1>7, <2>1 DEF CrashTask
<1>8. CASE UNCHANGED vars
  BY <1>8 DEF vars
<1> QED
  BY <1>1, <1>2, <1>3, <1>4, <1>6, <1>7, <1>8, <1>9, <1>10, KeyType DEF Next, System

(***************************************************************************)
(* Every variable keeps its type: no attempt goes beyond the end of its    *)
(* list, and no task has more tries than its retries allow.                *)
(***************************************************************************)
THEOREM TypeCorrect == Spec => []TypeOK
BY InitTyped, TypeCorrectStep, PTL DEF Spec

-----------------------------------------------------------------------------
(* The drop directory *)

\* No two files of the drop directory have a key in common.
OneKeyEach ==
    \A n, m \in Names, d, e \in Days : KeyOf(n, d) = KeyOf(m, e) => n = m

\* Every name has its date in it.
Dated == \A n \in Names : DateOf[n] # NoDate

\* A listed file is ingested under a key of its own name.
OwnKeys ==
    \A i \in 1 .. Len(detected) :
        \E d \in Days : detected[i].key = KeyOf(detected[i].name, d)

\* Of a drop that has not changed since it was listed, every file is listed,
\* and the attempt has dealt with those it is past.
AttemptSound ==
    /\ \A n \in Names : drop[n] # NoCsv =>
         \E i \in 1 .. Len(detected) : detected[i].name = n
    /\ \A i \in 1 .. at :
         LET item == detected[i]
         IN  /\ drop[item.name] \in ValidCsvs =>
                  \/ canonical[item.key] \in {drop[item.name], NoSha}
                  \/ <<item.name, "other">> \in errors
             /\ errors = {} => /\ drop[item.name] \in ValidCsvs
                               /\ canonical[item.key] = drop[item.name]

(***************************************************************************)
(* The inductive invariant: DropIngested says what a whole attempt has     *)
(* done, AttemptSound what the one under way has done so far.              *)
(***************************************************************************)
TaskInv ==
    /\ TypeOK
    /\ pc # "between" => result = "none"
    /\ pc = "ingest" => OwnKeys
    /\ pc = "ingest" /\ ~touched => AttemptSound
    /\ DropIngested

(***************************************************************************)
(* The next file of an attempt and what has to be known of it.             *)
(***************************************************************************)
LEMMA ItemKnown ==
    ASSUME TaskInv, pc = "ingest", at < Len(detected)
    PROVE  LET item == detected[at + 1]
           IN  /\ item.name \in Names /\ item.key \in Keys
               /\ \E d \in Days : item.key = KeyOf(item.name, d)
<1>1. at + 1 \in 1 .. Len(detected) /\ detected[at + 1] \in Item
  BY NextItem DEF TaskInv
<1> QED
  BY <1>1 DEF TaskInv, OwnKeys, Item

(***************************************************************************)
(* A step of an attempt that ends with the next file dealt with: written   *)
(* or found canonical, refused and noted, or failed and noted.  The files  *)
(* of other names are not touched, so what was settled stays settled.      *)
(***************************************************************************)
LEMMA ItemKeeps ==
    ASSUME OneKeyEach, TaskInv, TypeOK', pc = "ingest", at < Len(detected),
           at' = at + 1,
           UNCHANGED <<drop, day, pc, detected, result, touched, settled, left>>,
           NEW name \in Names, NEW key \in Keys,
           name = detected[at + 1].name, key = detected[at + 1].key,
           NEW noted, errors' = errors \cup noted,
           canonical' = canonical \/
             (drop[name] \in ValidCsvs /\ canonical' = [canonical EXCEPT ![key] = drop[name]]),
           drop[name] \in ValidCsvs =>
             canonical'[key] \in {drop[name], NoSha} \/ <<name, "other">> \in noted,
           noted = {} => drop[name] \in ValidCsvs /\ canonical'[key] = drop[name]
    PROVE  TaskInv'
<1> USE DEF TaskInv
<1>1. PICK d \in Days : key = KeyOf(name, d)
  BY ItemKnown
<1>2. /\ canonical \in [Keys -> ValidCsvs \cup {NoCsv, NoSha}]
      /\ at \in Nat /\ detected \in Seq(Item) /\ Len(detected) \in Nat
  BY DEF TypeOK
<1>3. ASSUME NEW n \in Names, NEW e \in Days, drop[n] \in ValidCsvs,
             canonical[KeyOf(n, e)] \in {drop[n], NoSha}
      PROVE  canonical'[KeyOf(n, e)] \in {drop[n], NoSha}
  <2>1. KeyOf(n, e) = key => n = name
    BY <1>1 DEF OneKeyEach
  <2>2. KeyOf(n, e) \in Keys
    BY KeyType
  <2> DEFINE k == KeyOf(n, e)
  <2>3. k \in Keys /\ (k = key => n = name) /\ canonical[k] \in {drop[n], NoSha}
    BY <1>3, <2>1, <2>2
  <2> HIDE DEF k
  <2>4. canonical'[k] \in {drop[n], NoSha}
    BY <1>2, <2>3
  <2> QED
    BY <2>4 DEF k
<1>4. ASSUME NEW n \in Names, NEW e \in Days, drop[n] \in ValidCsvs,
             canonical[KeyOf(n, e)] = drop[n]
      PROVE  canonical'[KeyOf(n, e)] = drop[n]
  <2>1. KeyOf(n, e) = key => n = name
    BY <1>1 DEF OneKeyEach
  <2>2. KeyOf(n, e) \in Keys
    BY KeyType
  <2> DEFINE k == KeyOf(n, e)
  <2>3. k \in Keys /\ (k = key => n = name) /\ canonical[k] = drop[n]
    BY <1>4, <2>1, <2>2
  <2> HIDE DEF k
  <2>4. canonical'[k] = drop[n]
    BY <1>2, <2>3
  <2> QED
    BY <2>4 DEF k
<1>5. OwnKeys'
  BY DEF OwnKeys
<1>6. ASSUME ~touched PROVE AttemptSound'
  <2>1. AttemptSound
    BY <1>6
  <2> SUFFICES ASSUME NEW i \in 1 .. at'
               PROVE  LET item == detected[i]
                      IN  /\ drop[item.name] \in ValidCsvs =>
                               \/ canonical'[item.key] \in {drop[item.name], NoSha}
                               \/ <<item.name, "other">> \in errors'
                          /\ errors' = {} =>
                               /\ drop[item.name] \in ValidCsvs
                               /\ canonical'[item.key] = drop[item.name]
    BY <2>1 DEF AttemptSound
  <2>2. CASE i = at + 1
    BY <2>2
  <2>3. CASE i # at + 1
    <3>1. i \in 1 .. at /\ i \in 1 .. Len(detected)
      BY <1>2, <2>3
    <3>2. detected[i] \in Item
      BY <1>2, <3>1, ElementOfSeq
    <3>3. PICK e \in Days : detected[i].key = KeyOf(detected[i].name, e)
      BY <3>1 DEF OwnKeys
    <3> DEFINE item == detected[i]
    <3>4. /\ drop[item.name] \in ValidCsvs =>
               \/ canonical[item.key] \in {drop[item.name], NoSha}
               \/ <<item.name, "other">> \in errors
          /\ errors = {} => /\ drop[item.name] \in ValidCsvs
                            /\ canonical[item.key] = drop[item.name]
      BY <2>1, <3>1 DEF AttemptSound
    <3>5. item.name \in Names
      BY <3>2 DEF Item
    <3> HIDE DEF item
    <3>6. drop[item.name] \in ValidCsvs =>
               \/ canonical'[item.key] \in {drop[item.name], NoSha}
               \/ <<item.name, "other">> \in errors'
      BY <1>3, <3>3, <3>4, <3>5 DEF item
    <3>7. errors' = {} => /\ drop[item.name] \in ValidCsvs
                          /\ canonical'[item.key] = drop[item.name]
      <4> SUFFICES ASSUME errors' = {}
                   PROVE  /\ drop[item.name] \in ValidCsvs
                          /\ canonical'[item.key] = drop[item.name]
        OBVIOUS
      <4>1. errors = {}
        OBVIOUS
      <4> QED
        BY <1>4, <3>3, <3>4, <3>5, <4>1 DEF item
    <3> QED
      BY <3>6, <3>7 DEF item
  <2> QED
    BY <2>2, <2>3
<1>7. DropIngested'
  <2> SUFFICES ASSUME settled, NEW n \in Names
               PROVE  drop[n] \in ValidCsvs =>
                        \/ \E e \in Days : canonical'[KeyOf(n, e)] \in {drop[n], NoSha}
                        \/ <<n, "other">> \in left
    BY DEF DropIngested, EntriesOf, KeyOf
  <2> QED
    BY <1>3 DEF DropIngested, EntriesOf
<1> QED
  BY <1>5, <1>6, <1>7

(***************************************************************************)
(* ingest_psx_csv for one listed file, in the course of an attempt.        *)
(***************************************************************************)
LEMMA IngestItemKeeps ==
    ASSUME OneKeyEach, TaskInv, TypeOK', IngestItem
    PROVE  TaskInv'
<1>1. PICK name \in Names, key \in Keys :
        name = detected[at + 1].name /\ key = detected[at + 1].key
  BY ItemKnown DEF IngestItem
<1> DEFINE verdict == Verdict(canonical[key], drop[name])
           noted == IF verdict \in {"ValueError", "KeyError"}
                    THEN {<<name, verdict>>} ELSE {}
<1>2. /\ canonical' = IF verdict = "ingested"
                      THEN [canonical EXCEPT ![key] = drop[name]] ELSE canonical
      /\ errors' = errors \cup noted
  BY <1>1 DEF IngestItem
<1>3. canonical \in [Keys -> ValidCsvs \cup {NoCsv, NoSha}]
  BY DEF TaskInv, TypeOK
<1>4. /\ verdict = "ValueError" => drop[name] \notin ValidCsvs
      /\ verdict = "KeyError" => canonical[key] = NoSha
      /\ verdict = "FileExistsError" => drop[name] \in ValidCsvs /\ canonical[key] = drop[name]
      /\ verdict = "ingested" => drop[name] \in ValidCsvs
      /\ verdict \in {"ValueError", "KeyError", "FileExistsError", "ingested"}
  BY DEF Verdict
<1>5. noted = {} <=> verdict \in {"FileExistsError", "ingested"}
  BY <1>4
<1> HIDE DEF verdict, noted
<1>6. canonical' = canonical \/
        (drop[name] \in ValidCsvs /\ canonical' = [canonical EXCEPT ![key] = drop[name]])
  BY <1>2, <1>4
<1>7. drop[name] \in ValidCsvs => canonical'[key] \in {drop[name], NoSha}
  BY <1>1, <1>2, <1>3, <1>4
<1>8. noted = {} => drop[name] \in ValidCsvs /\ canonical'[key] = drop[name]
  BY <1>1, <1>2, <1>3, <1>4, <1>5
<1> QED
  BY <1>1, <1>2, <1>6, <1>7, <1>8, ItemKeeps DEF IngestItem

(***************************************************************************)
(* And when it raises something else.                                      *)
(***************************************************************************)
LEMMA FailItemKeeps ==
    ASSUME OneKeyEach, TaskInv, TypeOK', FailItem
    PROVE  TaskInv'
<1>1. PICK name \in Names, key \in Keys :
        name = detected[at + 1].name /\ key = detected[at + 1].key
  BY ItemKnown DEF FailItem
<1> DEFINE noted == {<<name, "other">>}
<1>2. errors' = errors \cup noted /\ canonical' = canonical
  BY <1>1 DEF FailItem
<1>3. <<name, "other">> \in noted /\ noted # {}
  OBVIOUS
<1> HIDE DEF noted
<1> QED
  BY <1>1, <1>2, <1>3, ItemKeeps DEF FailItem

(***************************************************************************)
(* An attempt that ends has gone over the whole list: if nothing was       *)
(* delivered in between, all of the drop is dealt with.                    *)
(***************************************************************************)
LEMMA EndAttemptKeeps ==
    ASSUME TaskInv, TypeOK', EndAttempt
    PROVE  TaskInv'
<1> USE DEF TaskInv
<1>1. /\ pc = "ingest" /\ at = Len(detected) /\ settled' = ~touched /\ left' = errors
      /\ UNCHANGED <<drop, canonical, day, faults, touched>>
  BY DEF EndAttempt
<1>2. /\ detected' = detected
      /\ pc' # "between" => result' = "none" /\ pc' = "ingest" /\ at' = 0
      /\ result' = "success" => errors = {}
  BY <1>1 DEF EndAttempt, Conclude, ConcludeAfter
<1>3. pc' = "ingest" => OwnKeys'
  BY <1>1, <1>2 DEF OwnKeys
<1>4. pc' = "ingest" /\ ~touched => AttemptSound'
  BY <1>1, <1>2 DEF AttemptSound
<1>5. DropIngested'
  <2> SUFFICES ASSUME ~touched, NEW n \in Names
               PROVE  /\ drop[n] \in ValidCsvs =>
                           \/ \E d \in Days : canonical[KeyOf(n, d)] \in {drop[n], NoSha}
                           \/ <<n, "other">> \in errors
                      /\ result' = "success" =>
                           \/ drop[n] = NoCsv
                           \/ /\ drop[n] \in ValidCsvs
                              /\ \E d \in Days : canonical[KeyOf(n, d)] = drop[n]
    BY <1>1 DEF DropIngested, EntriesOf, KeyOf
  <2>1. CASE drop[n] = NoCsv
    BY <2>1, CsvAssumption
  <2>2. CASE drop[n] # NoCsv
    <3>1. AttemptSound
      BY <1>1
    <3>2. PICK i \in 1 .. Len(detected) : detected[i].name = n
      BY <2>2, <3>1 DEF AttemptSound
    <3>3. PICK d \in Days : detected[i].key = KeyOf(n, d)
      BY <1>1, <3>2 DEF OwnKeys
    <3>4. /\ drop[n] \in ValidCsvs =>
               \/ canonical[KeyOf(n, d)] \in {drop[n], NoSha}
               \/ <<n, "other">> \in errors
          /\ errors = {} => drop[n] \in ValidCsvs /\ canonical[KeyOf(n, d)] = drop[n]
      BY <1>1, <3>1, <3>2, <3>3 DEF AttemptSound
    <3> QED
      BY <1>2, <3>4
  <2> QED
    BY <2>1, <2>2
<1> QED
  BY <1>1, <1>2, <1>3, <1>4, <1>5

(***************************************************************************)
(* Every step keeps the invariant, if no two files share a key.            *)
(***************************************************************************)
LEMMA NextTaskInv == OneKeyEach /\ TaskInv /\ [Next]_vars => TaskInv'
<1> SUFFICES ASSUME OneKeyEach, TaskInv, [Next]_vars PROVE TaskInv'
  OBVIOUS
<1>1. TypeOK'
  BY TypeCorrectStep DEF TaskInv
<1> USE DEF TaskInv
<1>2. ASSUME NEW n \in Names, NEW c \in Csvs, Deliver(n, c) PROVE TaskInv'
  BY <1>1, <1>2 DEF Deliver, attempt, OwnKeys, DropIngested
<1>7. ASSUME NEW k \in Keys, ComputeFirst(k) PROVE TaskInv'
  BY <1>1, <1>7 DEF ComputeFirst, attempt, DropIngested
<1>3. CASE StartRun
  <2>1. DropIngested'
    BY <1>3 DEF StartRun, DropIngested, EntriesOf, KeyOf
  <2> QED
    BY <1>1, <1>3, <2>1 DEF StartRun
<1>4. CASE Detect
  <2>1. UNCHANGED <<drop, canonical, day, settled, left>>
    BY <1>4 DEF Detect
  <2>2. result' # "success"
    BY <1>4 DEF Detect
  <2>3. DropIngested'
    BY <2>1, <2>2 DEF DropIngested, EntriesOf, KeyOf
  <2>4. CASE pc' = "ingest"
    <3>1. /\ detected' \in Seq(Item)
          /\ \A i \in 1 .. Len(detected') :
               detected'[i].key = KeyOf(detected'[i].name, day)
          /\ \A n \in Names : drop[n] # NoCsv =>
               \E i \in 1 .. Len(detected') : detected'[i].name = n
      BY <1>4, <2>4, DetectedListed
    <3>2. at' = 0 /\ result' = "none"
      BY <1>4, <2>4 DEF Detect
    <3>3. OwnKeys'
      BY <3>1 DEF OwnKeys, TypeOK, KeyOf
    <3>4. AttemptSound'
      BY <2>1, <3>1, <3>2 DEF AttemptSound
    <3> QED
      BY <1>1, <2>3, <2>4, <3>2, <3>3, <3>4
  <2>5. CASE pc' # "ingest"
    <3>1. pc' = "between"
      BY <1>4, <2>5 DEF Detect
    <3> QED
      BY <1>1, <2>3, <2>5, <3>1
  <2> QED
    BY <2>4, <2>5
<1>5. CASE CrashTask
  <2>1. /\ UNCHANGED <<drop, canonical, day, touched, settled, left>> /\ pc = "ingest"
        /\ detected' = detected
        /\ pc' # "between" => result' = "none" /\ pc' = "ingest" /\ at' = 0
        /\ result' # "success"
    BY <1>5 DEF CrashTask, Conclude, ConcludeAfter
  <2>2. DropIngested'
    BY <2>1 DEF DropIngested, EntriesOf, KeyOf
  <2>3. pc' = "ingest" => OwnKeys'
    BY <2>1 DEF OwnKeys
  <2>4. pc' = "ingest" /\ ~touched => AttemptSound'
    BY <2>1 DEF AttemptSound
  <2> QED
    BY <1>1, <2>1, <2>2, <2>3, <2>4
<1>6. CASE UNCHANGED vars
  <2>1. UNCHANGED <<drop, canonical, day, pc, at, detected, result, errors,
                    touched, settled, left>>
    BY <1>6 DEF vars
  <2>2. DropIngested'
    BY <2>1 DEF DropIngested, EntriesOf, KeyOf
  <2>3. pc' = "ingest" => OwnKeys'
    BY <2>1 DEF OwnKeys
  <2>4. pc' = "ingest" /\ ~touched' => AttemptSound'
    BY <2>1 DEF AttemptSound
  <2> QED
    BY <1>1, <2>1, <2>2, <2>3, <2>4
<1> QED
  BY <1>1, <1>2, <1>3, <1>4, <1>5, <1>6, <1>7, KeyType, IngestItemKeeps,
     FailItemKeeps, EndAttemptKeeps DEF Next, System, TypeOK

(***************************************************************************)
(* The invariant holds when no two files share a key.                      *)
(***************************************************************************)
LEMMA TaskInvHolds == OneKeyEach => (Spec => []TaskInv)
<1> SUFFICES ASSUME OneKeyEach PROVE Spec => []TaskInv
  OBVIOUS
<1>1. Init => TypeOK
  BY InitTyped
<1>2. Init => TaskInv
  BY <1>1 DEF Init, TaskInv, DropIngested
<1> QED
  BY <1>2, NextTaskInv, PTL DEF Spec

(***************************************************************************)
(* One bad file keeps no other out: after an attempt that has gone over    *)
(* the drop as it is, every valid file is canonical under a key of its     *)
(* name, unless its entry has no digest or an unexpected error of its own  *)
(* was noted in that attempt; and the ingest succeeded only if every file  *)
(* of the drop is canonical, whatever was delivered, retried and killed.   *)
(***************************************************************************)
THEOREM WholeDropIngested ==
    ASSUME OneKeyEach
    PROVE  Spec => []DropIngested
BY TaskInvHolds, PTL DEF TaskInv

(***************************************************************************)
(* With the date in every name, what is settled is not ingested again: no  *)
(* attempt and no later run changes an entry until a file is delivered,    *)
(* but for that of a file left out by an unexpected error.                 *)
(***************************************************************************)
THEOREM RerunsChangeNothing ==
    ASSUME OneKeyEach, Dated
    PROVE  Spec => RerunIdentical
<1> DEFINE Kept ==
        settled /\ settled' => \A k \in Keys :
          \/ canonical'[k] = canonical[k]
          \/ \E n \in Names, d \in Days : k = KeyOf(n, d) /\ <<n, "other">> \in left
<1>1. ASSUME TaskInv, [Next]_vars PROVE Kept
  <2>1. CASE IngestItem
    <3> SUFFICES ASSUME settled, NEW k \in Keys
                 PROVE  \/ canonical'[k] = canonical[k]
                        \/ \E n \in Names, d \in Days : /\ k = KeyOf(n, d)
                                                        /\ <<n, "other">> \in left
      OBVIOUS
    <3>1. PICK name \in Names, key \in Keys :
            name = detected[at + 1].name /\ key = detected[at + 1].key
      BY <1>1, <2>1, ItemKnown DEF IngestItem
    <3>2. PICK d \in Days : key = KeyOf(name, d)
      BY <1>1, <2>1, <3>1, ItemKnown DEF IngestItem
    <3>3. \A e \in Days : KeyOf(name, e) = key
      BY <3>1, <3>2 DEF Dated, KeyOf
    <3>4. drop[name] \in ValidCsvs => \/ canonical[key] \in {drop[name], NoSha}
                                      \/ <<name, "other">> \in left
      BY <1>1, <3>1, <3>3 DEF TaskInv, DropIngested, EntriesOf
    <3> DEFINE verdict == Verdict(canonical[key], drop[name])
    <3>5. canonical' = IF verdict = "ingested"
                       THEN [canonical EXCEPT ![key] = drop[name]] ELSE canonical
      BY <2>1, <3>1 DEF IngestItem
    <3>6. verdict = "ingested" => /\ drop[name] \in ValidCsvs
                                  /\ canonical[key] \notin {drop[name], NoSha}
      BY DEF Verdict
    <3>7. canonical \in [Keys -> ValidCsvs \cup {NoCsv, NoSha}]
      BY <1>1 DEF TaskInv, TypeOK
    <3> HIDE DEF verdict
    <3>8. CASE verdict = "ingested" /\ k = key
      BY <3>1, <3>2, <3>4, <3>6, <3>8
    <3>9. CASE ~(verdict = "ingested" /\ k = key)
      BY <3>1, <3>5, <3>7, <3>9
    <3> QED
      BY <3>8, <3>9
  <2>2. ASSUME NEW k \in Keys, ComputeFirst(k) PROVE Kept
    BY <2>2 DEF ComputeFirst
  <2>3. ASSUME canonical' = canonical PROVE Kept
    BY <2>3
  <2>4. day \in Days
    BY <1>1 DEF TaskInv, TypeOK
  <2> HIDE DEF Kept
  <2> QED
    BY <1>1, <2>1, <2>2, <2>3, <2>4, KeyType
       DEF Next, System, Deliver, StartRun, Detect, FailItem, EndAttempt, CrashTask, vars
<1>2. ASSUME TaskInv, [Next]_vars PROVE [Kept]_vars
  BY <1>1, <1>2
<1> QED
  BY <1>2, TaskInvHolds, PTL DEF Spec, RerunIdentical

=============================================================================
