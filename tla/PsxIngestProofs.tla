-------------------------- MODULE PsxIngestProofs ----------------------------
(***************************************************************************)
(* Proofs about PsxIngest, for every set of keys, CSVs and processes and   *)
(* every bound.                                                            *)
(***************************************************************************)
EXTENDS PsxIngest, WellFoundedInduction, TLAPS

-----------------------------------------------------------------------------
(* Least elements, on which the choice of the latest file rests *)

(***************************************************************************)
(* A set of natural numbers that is not empty has a least element.         *)
(***************************************************************************)
LEMMA LeastNat ==
    ASSUME NEW T, T \subseteq Nat, T # {}
    PROVE  \E x \in T : \A y \in T : x <= y
<1> DEFINE R == {ss \in Nat \X Nat : ss[1] < ss[2]}
<1>1. IsWellFoundedOn(R, Nat)
  BY NatLessThanWellFounded DEF OpToRel
<1>2. PICK x \in T : \A y \in T : ~ (<<y, x>> \in R)
  <2> HIDE DEF R
  <2> QED BY <1>1, WFMin
<1>3. ASSUME NEW y \in T PROVE x <= y
  <2>1. x \in Nat /\ y \in Nat /\ <<y, x>> \notin R
    BY <1>2
  <2>2. y < x => <<y, x>> \in R
    BY <2>1
  <2> QED
    BY <2>1, <2>2
<1> QED
  BY <1>3

(***************************************************************************)
(* So has one that is ordered by a measure first and by size second.       *)
(***************************************************************************)
LEMMA LeastByMeasure ==
    ASSUME NEW S, NEW m \in [S -> Nat], S \subseteq Nat, S # {}
    PROVE  \E s \in S : \A t \in S : m[s] < m[t] \/ (m[t] = m[s] /\ s <= t)
<1> DEFINE M == {m[s] : s \in S}
<1>1. PICK a \in M : \A b \in M : a <= b
  <2>1. M \subseteq Nat /\ M # {}
    OBVIOUS
  <2> HIDE DEF M
  <2> QED BY <2>1, LeastNat
<1> DEFINE T == {s \in S : m[s] = a}
<1>2. PICK s \in T : \A t \in T : s <= t
  <2>1. T \subseteq Nat /\ T # {}
    BY <1>1
  <2> HIDE DEF T
  <2> QED BY <2>1, LeastNat
<1>3. ASSUME NEW t \in S PROVE m[s] < m[t] \/ (m[t] = m[s] /\ s <= t)
  <2>1. m[s] = a /\ a <= m[t] /\ m[t] \in Nat /\ a \in Nat
    BY <1>1
  <2>2. m[t] = a => s <= t
    BY <1>2
  <2> QED
    BY <2>1, <2>2
<1> QED
  BY <1>3

-----------------------------------------------------------------------------
(* Types *)

(***************************************************************************)
(* The stamp of a moment is a stamp.                                       *)
(***************************************************************************)
LEMMA StampInRange == \A t \in Stamps : Stamp(t) \in Stamps
BY BoundsAssumption DEF Stamps, Stamp

(***************************************************************************)
(* The constants a process goes back to, and a lost manifest, are typed.   *)
(***************************************************************************)
LEMMA NoJobType ==
    NoJob \in Job /\ EmptyManifest \in Manifest /\ TornManifest \in Manifest
<1>0. EmptyManifest \in Manifest /\ TornManifest = [EmptyManifest EXCEPT !.whole = FALSE]
  BY DEF EmptyManifest, TornManifest, Manifest, NoEntry, Entry, Shas
<1>1. EmptyManifest \in Manifest
  BY DEF EmptyManifest, Manifest, NoEntry, Entry, Shas
<1>2. (CHOOSE k \in Keys : TRUE) \in Keys
  BY KeysAssumption
<1>3. TornManifest \in Manifest
  BY <1>0 DEF Manifest
<1> QED
  BY <1>1, <1>2, <1>3 DEF NoJob, Job, PC

(***************************************************************************)
(* What ingest_psx_csv and create_computed_version make of an entry.       *)
(***************************************************************************)
LEMMA IngestedEntryType ==
    ASSUME NEW e \in Entry, NEW sha \in Csvs \cup {NoSha},
           NEW file \in Stamps \cup {NoStamp}
    PROVE  IngestedEntry(e, sha, file) \in Entry
BY BoundsAssumption DEF IngestedEntry, Entry, Present, Versions, Shas

(***************************************************************************)
(* The entry create_computed_version makes is typed while its version      *)
(* stays within the bound.                                                 *)
(***************************************************************************)
LEMMA ComputedEntryType ==
    ASSUME NEW e \in Entry, NEW file \in Stamps \cup {NoStamp},
           NewVersion(e) \in Versions
    PROVE  ComputedEntry(e, file) \in Entry
BY DEF ComputedEntry, Entry

(***************************************************************************)
(* Among files that exist there is always a latest one, so that the CHOOSE *)
(* of the rebuild chooses a file, and no other is later than the chosen.   *)
(***************************************************************************)
LEMMA LatestExists ==
    ASSUME raw \in [Keys -> [Stamps -> RawFile]], NEW k \in Keys,
           NEW files, files \subseteq Stamps, files # {}
    PROVE  LET s == Latest(k, files)
           IN  s \in files /\ \A t \in files :
                 \/ raw[k][t].mtime < raw[k][s].mtime
                 \/ raw[k][t].mtime = raw[k][s].mtime /\ s <= t
<1> DEFINE age == [s \in files |-> MaxNow - raw[k][s].mtime]
<1>1. \A s \in files : raw[k][s].mtime \in 0 .. MaxNow
  BY DEF RawFile, Stamps
<1>2. age \in [files -> Nat]
  BY <1>1, BoundsAssumption
<1>3. files \subseteq Nat
  BY DEF Stamps
<1>4. PICK s \in files : \A t \in files :
           age[s] < age[t] \/ (age[t] = age[s] /\ s <= t)
  <2> HIDE DEF age
  <2> QED BY <1>2, <1>3, LeastByMeasure
<1>5. \A t \in files : \/ raw[k][t].mtime < raw[k][s].mtime
                       \/ raw[k][t].mtime = raw[k][s].mtime /\ s <= t
  BY <1>1, <1>4, BoundsAssumption
<1> QED
  BY <1>5 DEF Latest

(***************************************************************************)
(* The entry a rebuild makes of the files of a key is typed.               *)
(***************************************************************************)
LEMMA RebuiltEntryType ==
    ASSUME raw \in [Keys -> [Stamps -> RawFile]], NEW k \in Keys
    PROVE  RebuiltEntry(k) \in Entry
<1>1. RawFiles(k) \subseteq Stamps
  BY DEF RawFiles
<1>2. CASE RawFiles(k) = {}
  BY <1>2 DEF RebuiltEntry, NoEntry, Entry, Shas
<1>3. CASE RawFiles(k) # {}
  <2> DEFINE s == Latest(k, RawFiles(k))
             earlier == {t \in RawFiles(k) : t < s}
  <2>1. s \in Stamps
    BY <1>1, <1>3, LatestExists
  <2>2. earlier # {} => Latest(k, earlier) \in Stamps
    <3>1. earlier \subseteq Stamps
      BY <1>1
    <3> HIDE DEF earlier
    <3> QED BY <3>1, LatestExists
  <2>3. 0 \in Versions
    BY BoundsAssumption DEF Versions
  <2>4. RebuiltEntry(k) =
          [raw |-> s, sha |-> ParquetSha, amended |-> earlier # {},
           prior |-> IF earlier = {} THEN NoStamp ELSE Latest(k, earlier),
           version |-> 0, computed |-> NoStamp]
    BY <1>3 DEF RebuiltEntry
  <2> HIDE DEF s, earlier
  <2> QED
    BY <2>1, <2>2, <2>3, <2>4 DEF Entry, Shas
<1> QED
  BY <1>2, <1>3

(***************************************************************************)
(* TypeOK is not inductive: that a new version is one of Versions is       *)
(* checked when create_computed_version starts and used when it saves.     *)
(* And who shared .tmp has shared it with somebody else.                   *)
(***************************************************************************)
JobTyped(p, j) ==
    /\ j.pc \in {"openComputed", "closeComputed", "saveComputed"} =>
         NewVersion(j.snap.entry[j.key]) \in Versions
    /\ j.shared => \E q \in Procs : q # p

JobsTyped == \A p \in Procs : JobTyped(p, job[p])

TypeInv == TypeOK /\ JobsTyped

(***************************************************************************)
(* The initial state is typed, and no process is at a computed version.    *)
(***************************************************************************)
LEMMA InitTypeInv == Init => TypeInv
<1> SUFFICES ASSUME Init PROVE TypeInv
  OBVIOUS
<1>1. raw \in [Keys -> [Stamps -> RawFile]]
  BY BoundsAssumption DEF Init, NoFile, RawFile, FileState, Stamps
<1>2. job \in [Procs -> Job]
  BY NoJobType DEF Init
<1>3. now \in Stamps
  BY BoundsAssumption DEF Init, Stamps
<1>4. JobsTyped
  BY DEF Init, NoJob, JobsTyped, JobTyped
<1> QED
  BY <1>1, <1>2, <1>3, <1>4, NoJobType DEF Init, TypeInv, TypeOK, FileState

(***************************************************************************)
(* Starting an operation with a typed copy of a manifest.                  *)
(***************************************************************************)
LEMMA StartType ==
    ASSUME TypeInv, NEW p \in Procs, NEW j \in Job, JobTyped(p, j),
           job' = [job EXCEPT ![p] = j]
    PROVE  job' \in [Procs -> Job] /\ JobsTyped'
<1>1. \A q \in Procs : job'[q] = IF q = p THEN j ELSE job[q]
  BY DEF TypeInv, TypeOK
<1>2. job' \in [Procs -> Job]
  BY DEF TypeInv, TypeOK
<1> QED
  BY <1>1, <1>2 DEF TypeInv, JobsTyped

(***************************************************************************)
(* An operation that ends leaves typed jobs: its own is no more, and those *)
(* that share .tmp now share it with another process.                      *)
(***************************************************************************)
LEMMA EndType ==
    ASSUME TypeInv, NEW p \in Procs, End(p)
    PROVE  job' \in [Procs -> Job] /\ JobsTyped'
<1> DEFINE with(q) == [job[q] EXCEPT
                !.shared = @ \/ {job[p].pc, job[q].pc} \subseteq Saving]
<1>1. \A q \in Procs : job'[q] = IF q = p THEN NoJob ELSE with(q)
  BY DEF End
<1>2. ASSUME NEW q \in Procs, q # p
      PROVE  with(q) \in Job /\ JobTyped(q, with(q))
  <2>1. job[q] \in Job /\ JobTyped(q, job[q])
    BY DEF TypeInv, TypeOK, JobsTyped
  <2> DEFINE both == job[q].shared \/ {job[p].pc, job[q].pc} \subseteq Saving
  <2>2. both \in BOOLEAN
    BY <2>1 DEF Job
  <2>3. with(q) = [job[q] EXCEPT !.shared = both]
    BY <2>1 DEF Job
  <2> HIDE DEF both, with
  <2>4. with(q) \in Job
    BY <2>1, <2>2, <2>3 DEF Job
  <2>5. /\ with(q).pc = job[q].pc /\ with(q).snap = job[q].snap
        /\ with(q).key = job[q].key
    BY <2>1, <2>3 DEF Job
  <2> QED
    BY <1>2, <2>1, <2>4, <2>5 DEF JobTyped
<1>3. NoJob \in Job /\ JobTyped(p, NoJob)
  <2>1. NoJob.pc = "idle" /\ ~NoJob.shared
    BY DEF NoJob
  <2> HIDE DEF NoJob
  <2> QED
    BY <2>1, NoJobType DEF JobTyped
<1>4. job' = [q \in Procs |-> job'[q]]
  BY DEF End
<1> HIDE DEF with
<1>5. \A q \in Procs : job'[q] \in Job /\ JobTyped(q, job'[q])
  BY <1>1, <1>2, <1>3
<1>6. job' \in [Procs -> Job]
  BY <1>4, <1>5
<1> QED
  BY <1>5, <1>6 DEF JobsTyped

(***************************************************************************)
(* Every step of every process keeps the state typed.                      *)
(***************************************************************************)
LEMMA NextTypeInv == TypeInv /\ [Next]_vars => TypeInv'
<1> SUFFICES ASSUME TypeInv, [Next]_vars PROVE TypeInv'
  OBVIOUS
<1> USE DEF TypeInv
<1>1. ASSUME NEW p \in Procs, NEW k \in Keys, NEW c \in Csvs, StartIngest(p, k, c)
      PROVE  TypeInv'
  <2> DEFINE j == [NoJob EXCEPT !.pc = "openRaw", !.key = k, !.sha = c,
                                !.snap = manifest]
  <2>1. j \in Job /\ j.pc = "openRaw" /\ ~j.shared
    BY NoJobType DEF TypeOK, Job, PC, NoJob
  <2>2. job' = [job EXCEPT ![p] = j]
    BY <1>1 DEF StartIngest
  <2> HIDE DEF j
  <2>3. job' \in [Procs -> Job] /\ JobsTyped'
    BY <2>1, <2>2, StartType DEF JobTyped
  <2> QED
    BY <1>1, <2>3 DEF StartIngest, TypeOK
<1>2. ASSUME NEW p \in Procs, OpenRaw(p)
      PROVE  TypeInv'
  <2>1. now' \in Stamps /\ Stamp(now) \in Stamps
    BY <1>2, StampInRange, BoundsAssumption DEF OpenRaw, TypeOK, Stamps
  <2>2. raw' \in [Keys -> [Stamps -> RawFile]]
    <3>1. PICK c \in ReadBack(job[p].sha) :
             raw' = [raw EXCEPT ![job[p].key][Stamp(now)] =
                       [st |-> "torn", csv |-> c, mtime |-> now]]
      BY <1>2 DEF OpenRaw
    <3>2. c \in Csvs \cup {NoSha}
      BY DEF ReadBack, TypeOK, Job
    <3>3. [st |-> "torn", csv |-> c, mtime |-> now] \in RawFile
      BY <3>2 DEF RawFile, FileState, TypeOK
    <3> QED
      BY <3>1, <3>3 DEF TypeOK
  <2>3. job' \in [Procs -> Job] /\ JobsTyped'
    <3> DEFINE j == [job[p] EXCEPT !.pc = "closeRaw", !.file = Stamp(now)]
    <3>1. j \in Job /\ j.pc = "closeRaw" /\ j.shared = job[p].shared
      BY <2>1 DEF TypeOK, Job, PC
    <3>2. job' = [job EXCEPT ![p] = j]
      BY <1>2 DEF OpenRaw
    <3> HIDE DEF j
    <3> QED
      BY <3>1, <3>2, StartType DEF JobsTyped, JobTyped
  <2> QED
    BY <1>2, <2>1, <2>2, <2>3 DEF OpenRaw, TypeOK
<1>3. ASSUME NEW p \in Procs, CloseRaw(p)
      PROVE  TypeInv'
  <2>1. raw' \in [Keys -> [Stamps -> RawFile]]
    <3> DEFINE j == job[p]
               f == [st |-> "complete", csv |-> raw[j.key][j.file].csv,
                     mtime |-> now]
    <3>1. CASE j.file \in Stamps
      <4>1. f \in RawFile
        BY <3>1 DEF TypeOK, Job, RawFile, FileState
      <4>2. raw' = [raw EXCEPT ![j.key][j.file] = f]
        BY <1>3 DEF CloseRaw
      <4> HIDE DEF f
      <4> QED
        BY <4>1, <4>2 DEF TypeOK
    <3>2. CASE j.file \notin Stamps
      BY <1>3, <3>2 DEF CloseRaw, TypeOK
    <3> QED
      BY <3>1, <3>2
  <2>2. job' \in [Procs -> Job] /\ JobsTyped'
    <3> DEFINE j == [job[p] EXCEPT !.pc = "saveRaw"]
    <3>1. j \in Job /\ j.pc = "saveRaw" /\ j.shared = job[p].shared
      BY DEF TypeOK, Job, PC
    <3>2. job' = [job EXCEPT ![p] = j]
      BY <1>3 DEF CloseRaw
    <3> HIDE DEF j
    <3> QED
      BY <3>1, <3>2, StartType DEF JobsTyped, JobTyped
  <2> QED
    BY <1>3, <2>1, <2>2 DEF CloseRaw, TypeOK
<1>4. ASSUME NEW p \in Procs, NEW m \in Manifest, Save(p, m),
             UNCHANGED <<raw, computed, now>>,
             published' \in [Keys -> [Versions -> Stamps \cup {NoStamp}]]
      PROVE  TypeInv'
  <2>1. job' \in [Procs -> Job] /\ JobsTyped'
    BY <1>4, EndType DEF Save
  <2>2. manifest' \in Manifest
    BY <1>4, NoJobType DEF Save, TypeOK
  <2>3. named' \in [Keys -> SUBSET Stamps]
    <3>1. \A k \in Keys : {manifest'.entry[k].raw} \ {NoStamp} \subseteq Stamps
      BY <2>2 DEF Manifest, Entry
    <3>2. named' = [k \in Keys |->
                     named[k] \cup ({manifest'.entry[k].raw} \ {NoStamp})]
      BY <1>4 DEF Save
    <3> QED
      BY <3>1, <3>2 DEF TypeOK
  <2> QED
    BY <1>4, <2>1, <2>2, <2>3 DEF TypeOK
<1>5. ASSUME NEW p \in Procs, SaveRaw(p)
      PROVE  TypeInv'
  <2> DEFINE j == job[p]
             e == IngestedEntry(j.snap.entry[j.key], j.sha, j.file)
             m == [j.snap EXCEPT !.entry[j.key] = e]
  <2>1. e \in Entry
    BY IngestedEntryType DEF TypeOK, Job, Manifest
  <2>2. m \in Manifest
    <3> HIDE DEF e
    <3> QED BY <2>1 DEF TypeOK, Job, Manifest
  <2>3. Save(p, m) /\ UNCHANGED <<raw, computed, published, now>>
    BY <1>5 DEF SaveRaw
  <2> HIDE DEF m
  <2> QED
    BY <1>4, <2>2, <2>3 DEF TypeOK
<1>6. ASSUME NEW p \in Procs, NEW k \in Keys, StartComputed(p, k)
      PROVE  TypeInv'
  <2> DEFINE j == [NoJob EXCEPT !.pc = "openComputed", !.key = k, !.snap = manifest]
  <2>1. j \in Job /\ NewVersion(j.snap.entry[j.key]) \in Versions /\ ~j.shared
    BY <1>6, NoJobType DEF StartComputed, TypeOK, Job, PC, NoJob
  <2>2. job' = [job EXCEPT ![p] = j]
    BY <1>6 DEF StartComputed
  <2> HIDE DEF j
  <2>3. job' \in [Procs -> Job] /\ JobsTyped'
    BY <2>1, <2>2, StartType DEF JobTyped
  <2> QED
    BY <1>6, <2>3 DEF StartComputed, TypeOK
<1>7. ASSUME NEW p \in Procs, OpenComputed(p)
      PROVE  TypeInv'
  <2>1. now' \in Stamps /\ Stamp(now) \in Stamps
    BY <1>7, StampInRange, BoundsAssumption DEF OpenComputed, TypeOK, Stamps
  <2>2. computed' \in [Keys -> [Versions -> [Stamps -> FileState]]]
    BY <1>7, ZenonT(60) DEF OpenComputed, TypeOK, FileState
  <2>3. job' \in [Procs -> Job] /\ JobsTyped'
    <3> DEFINE j == [job[p] EXCEPT !.pc = "closeComputed", !.file = Stamp(now)]
    <3>1. /\ j \in Job /\ j.pc = "closeComputed" /\ j.shared = job[p].shared
          /\ j.snap = job[p].snap /\ j.key = job[p].key
      BY <2>1 DEF TypeOK, Job, PC
    <3>2. job' = [job EXCEPT ![p] = j] /\ job[p].pc = "openComputed"
      BY <1>7 DEF OpenComputed
    <3> HIDE DEF j
    <3> QED
      BY <3>1, <3>2, StartType DEF JobsTyped, JobTyped
  <2> QED
    BY <1>7, <2>1, <2>2, <2>3 DEF OpenComputed, TypeOK
<1>8. ASSUME NEW p \in Procs, CloseComputed(p)
      PROVE  TypeInv'
  <2>1. computed' \in [Keys -> [Versions -> [Stamps -> FileState]]]
    BY <1>8, ZenonT(60) DEF CloseComputed, TypeOK, FileState
  <2>2. job' \in [Procs -> Job] /\ JobsTyped'
    <3> DEFINE j == [job[p] EXCEPT !.pc = "saveComputed"]
    <3>1. /\ j \in Job /\ j.pc = "saveComputed" /\ j.shared = job[p].shared
          /\ j.snap = job[p].snap /\ j.key = job[p].key
      BY DEF TypeOK, Job, PC
    <3>2. job' = [job EXCEPT ![p] = j] /\ job[p].pc = "closeComputed"
      BY <1>8 DEF CloseComputed
    <3> HIDE DEF j
    <3> QED
      BY <3>1, <3>2, StartType DEF JobsTyped, JobTyped
  <2> QED
    BY <1>8, <2>1, <2>2 DEF CloseComputed, TypeOK
<1>9. ASSUME NEW p \in Procs, SaveComputed(p)
      PROVE  TypeInv'
  <2> DEFINE j == job[p]
             e == ComputedEntry(j.snap.entry[j.key], j.file)
             m == [j.snap EXCEPT !.entry[j.key] = e]
  <2>1. e \in Entry
    BY <1>9, ComputedEntryType DEF SaveComputed, TypeOK, JobsTyped, JobTyped, Job, Manifest
  <2>2. m \in Manifest
    <3> HIDE DEF e
    <3> QED BY <2>1 DEF TypeOK, Job, Manifest
  <2>3. Save(p, m) /\ UNCHANGED <<raw, computed, now>>
    BY <1>9 DEF SaveComputed
  <2>4. published' \in [Keys -> [Versions -> Stamps \cup {NoStamp}]]
    BY <1>9 DEF SaveComputed, FirstPublished, TypeOK, Job
  <2> HIDE DEF m
  <2> QED
    BY <1>4, <2>2, <2>3, <2>4
<1>10. ASSUME NEW p \in Procs, StartMetadata(p)
       PROVE  TypeInv'
  <2> DEFINE j == [NoJob EXCEPT !.pc = "saveMetadata", !.snap = manifest]
  <2>1. j \in Job /\ j.pc = "saveMetadata" /\ ~j.shared
    BY NoJobType DEF TypeOK, Job, PC, NoJob
  <2>2. job' = [job EXCEPT ![p] = j]
    BY <1>10 DEF StartMetadata
  <2> HIDE DEF j
  <2>3. job' \in [Procs -> Job] /\ JobsTyped'
    BY <2>1, <2>2, StartType DEF JobTyped
  <2> QED
    BY <1>10, <2>3 DEF StartMetadata, TypeOK
<1>11. ASSUME NEW p \in Procs, SaveMetadata(p)
       PROVE  TypeInv'
  <2> DEFINE m == [job[p].snap EXCEPT !.marked = TRUE]
  <2>1. m \in Manifest
    BY DEF TypeOK, Job, Manifest
  <2>2. Save(p, m) /\ UNCHANGED <<raw, computed, published, now>>
    BY <1>11 DEF SaveMetadata
  <2> HIDE DEF m
  <2> QED
    BY <1>4, <2>1, <2>2 DEF TypeOK
<1>12. ASSUME NEW p \in Procs, StartRebuild(p)
       PROVE  TypeInv'
  <2> DEFINE m == [entry |-> [k \in Keys |-> RebuiltEntry(k)], marked |-> FALSE,
                   whole |-> TRUE]
             j == [NoJob EXCEPT !.pc = "saveRebuilt", !.snap = m]
  <2>1. m \in Manifest
    BY RebuiltEntryType DEF TypeOK, Manifest
  <2>2. j \in Job /\ j.pc = "saveRebuilt" /\ ~j.shared
    <3> HIDE DEF m
    <3> QED BY <2>1, NoJobType DEF Job, PC, NoJob
  <2>3. job' = [job EXCEPT ![p] = j]
    BY <1>12 DEF StartRebuild
  <2> HIDE DEF j
  <2>4. job' \in [Procs -> Job] /\ JobsTyped'
    BY <2>2, <2>3, StartType DEF JobTyped
  <2> QED
    BY <1>12, <2>4 DEF StartRebuild, TypeOK
<1>13. ASSUME NEW p \in Procs, SaveRebuilt(p)
       PROVE  TypeInv'
  <2>1. job[p].snap \in Manifest
    BY DEF TypeOK, Job
  <2> QED
    BY <1>4, <1>13, <2>1 DEF SaveRebuilt, TypeOK
<1>14. ASSUME NEW p \in Procs, FailWrite(p) \/ Crash(p)
       PROVE  TypeInv'
  <2>1. job' \in [Procs -> Job] /\ JobsTyped'
    BY <1>14, EndType DEF FailWrite, Crash
  <2> QED
    BY <1>14, <2>1 DEF FailWrite, Crash, TypeOK
<1>15. CASE LoseManifest
  BY <1>15, NoJobType DEF LoseManifest, TypeOK, JobsTyped
<1>16. CASE UNCHANGED vars
  BY <1>16 DEF vars, TypeOK, JobsTyped
<1> QED
  BY <1>1, <1>2, <1>3, <1>5, <1>6, <1>7, <1>8, <1>9, <1>10, <1>11, <1>12,
     <1>13, <1>14, <1>15, <1>16 DEF Next, Step

(***************************************************************************)
(* Every variable keeps its type, whatever interleaves, fails or is lost.  *)
(***************************************************************************)
THEOREM TypeCorrect == Spec => []TypeOK
<1>1. Spec => []TypeInv
  BY InitTypeInv, NextTypeInv, PTL DEF Spec
<1> QED
  BY <1>1, PTL DEF TypeInv

-----------------------------------------------------------------------------
(* The manifest and raw/ *)

(***************************************************************************)
(* Entry e of key k is sound in store r: it has a file exactly if it has a *)
(* digest, that file is complete and of that digest, and what it           *)
(* supersedes is an older complete file of other content.                  *)
(***************************************************************************)
SoundEntry(r, k, e) ==
    /\ e.sha # ParquetSha
    /\ e.raw = NoStamp <=> e.sha = NoSha
    /\ e.sha # NoSha => Present(e)
    /\ e.raw # NoStamp => r[k][e.raw].st = "complete" /\ r[k][e.raw].csv = e.sha
    /\ IF e.amended THEN /\ e.prior # NoStamp /\ e.prior < e.raw
                         /\ r[k][e.prior].st = "complete"
                         /\ r[k][e.prior].csv # r[k][e.raw].csv
       ELSE e.prior = NoStamp

Sound(r, m) == \A k \in Keys : SoundEntry(r, k, m.entry[k])

\* No file has a stamp that is still to come.
FilesPast == \A k \in Keys, s \in Stamps : raw[k][s].st # "absent" => s < now

\* What a process in the middle of an ingest relies on: its digest is not the
\* one of the entry it saw, and its file is younger than the file of that
\* entry, holds what was digested, and is complete once it is closed.
JobSound(j) ==
    LET e == j.snap.entry[j.key]
    IN  /\ j.pc \in {"openRaw", "closeRaw", "saveRaw"} =>
             j.sha \in Csvs /\ e.sha # j.sha /\ (Present(e) => e.sha # NoSha)
        /\ j.pc \in {"closeRaw", "saveRaw"} =>
             /\ j.file \in Stamps /\ j.file < now /\ e.raw < j.file
             /\ raw[j.key][j.file].csv = j.sha
        /\ j.pc = "closeRaw" => raw[j.key][j.file].st = "torn"
        /\ j.pc = "saveRaw" => raw[j.key][j.file].st = "complete"

\* No two processes write to the same file.
FilesApart ==
    \A p, q \in Procs :
        p # q /\ job[p].pc = "closeRaw" /\ job[q].pc = "closeRaw" =>
          job[p].key # job[q].key \/ job[p].file # job[q].file

(***************************************************************************)
(* The inductive invariant.  CanonicalIntact alone is not inductive: a     *)
(* copy of the manifest that a process took earlier comes back when it     *)
(* saves, so every copy has to be sound too, and stays so because complete *)
(* files never change, because new files get stamps not used before.       *)
(***************************************************************************)
IngestInv ==
    /\ TypeInv
    /\ FilesPast
    /\ \A p \in Procs : JobSound(job[p])
    /\ FilesApart
    /\ Sound(raw, manifest)
    /\ \A p \in Procs : Sound(raw, job[p].snap)

\* One process works on the stores.
OneProcess == \A p, q \in Procs : p = q

(***************************************************************************)
(* The circumstances: one process works on the stores, no two files are    *)
(* created in one second, CSVs do not change while they are ingested, and  *)
(* the manifest is not being rebuilt.                                      *)
(***************************************************************************)
Undisturbed ==
    /\ OneProcess
    /\ Resolution = 1
    /\ Faults \cap {"redrop", "rebuild"} = {}

(***************************************************************************)
(* One process shares .tmp with nobody: when its operation ends, only its  *)
(* own job changes.                                                        *)
(***************************************************************************)
LEMMA EndsAlone ==
    ASSUME OneProcess, TypeInv, NEW p \in Procs, End(p)
    PROVE  job' = [job EXCEPT ![p] = NoJob]
BY DEF OneProcess, TypeInv, TypeOK, End

(***************************************************************************)
(* And its save publishes what it saves.                                   *)
(***************************************************************************)
LEMMA SavesAlone ==
    ASSUME OneProcess, TypeInv, NEW p \in Procs, NEW m, Save(p, m)
    PROVE  job' = [job EXCEPT ![p] = NoJob] /\ manifest' = m
<1>1. ~Contended(p)
  BY DEF Contended, OneProcess, TypeInv, JobsTyped, JobTyped
<1> QED
  BY <1>1, EndsAlone DEF Save

(***************************************************************************)
(* With a name for every tick, a name is the time its file was created.    *)
(***************************************************************************)
LEMMA StampIsNow == ASSUME Undisturbed, NEW t \in Stamps PROVE Stamp(t) = t
BY BoundsAssumption DEF Undisturbed, Stamp, Stamps

(***************************************************************************)
(* A manifest without entries is sound whatever the raw files are.         *)
(***************************************************************************)
LEMMA EmptySound == ASSUME NEW r PROVE Sound(r, EmptyManifest)
BY ShaAssumption DEF Sound, SoundEntry, EmptyManifest, NoEntry

(***************************************************************************)
(* A manifest stays sound when complete files stay as they are.            *)
(***************************************************************************)
LEMMA SoundStays ==
    ASSUME NEW r, NEW rr, NEW m \in Manifest, Sound(r, m),
           \A k \in Keys, s \in Stamps : r[k][s].st = "complete" => rr[k][s] = r[k][s]
    PROVE  Sound(rr, m)
<1> SUFFICES ASSUME NEW k \in Keys PROVE SoundEntry(rr, k, m.entry[k])
  BY DEF Sound
<1> DEFINE e == m.entry[k]
<1>1. e \in Entry /\ SoundEntry(r, k, e)
  BY DEF Manifest, Sound
<1>2. e.raw # NoStamp => rr[k][e.raw] = r[k][e.raw]
  BY <1>1 DEF SoundEntry, Entry
<1>3. e.amended => rr[k][e.prior] = r[k][e.prior] /\ e.raw # NoStamp
  BY <1>1 DEF SoundEntry, Entry, Stamps, NoStamp
<1> HIDE DEF e
<1>4. SoundEntry(rr, k, e)
  BY <1>1, <1>2, <1>3 DEF SoundEntry
<1> QED
  BY <1>4 DEF e

(***************************************************************************)
(* A complete raw file is not touched by any step: files are created under *)
(* stamps not used before, and closed only by who created them.            *)
(***************************************************************************)
LEMMA CompleteStays ==
    ASSUME Undisturbed, IngestInv, [Next]_vars
    PROVE  \A k \in Keys, s \in Stamps :
             raw[k][s].st = "complete" => raw'[k][s] = raw[k][s]
<1> SUFFICES ASSUME NEW k \in Keys, NEW s \in Stamps, raw[k][s].st = "complete"
             PROVE  raw'[k][s] = raw[k][s]
  OBVIOUS
<1> USE DEF IngestInv, TypeInv, TypeOK
<1>1. ASSUME NEW p \in Procs, OpenRaw(p) PROVE raw'[k][s] = raw[k][s]
  <2>1. Stamp(now) = now /\ s < now
    BY StampIsNow DEF FilesPast
  <2>2. s # Stamp(now)
    BY <2>1 DEF Stamps
  <2> QED
    BY <1>1, <2>2 DEF OpenRaw
<1>2. ASSUME NEW p \in Procs, CloseRaw(p) PROVE raw'[k][s] = raw[k][s]
  <2>1. raw[job[p].key][job[p].file].st = "torn"
    BY <1>2 DEF CloseRaw, JobSound
  <2> QED
    BY <1>2, <2>1 DEF CloseRaw
<1>3. ASSUME UNCHANGED raw PROVE raw'[k][s] = raw[k][s]
  BY <1>3
<1> QED
  BY <1>1, <1>2, <1>3 DEF Next, Step, StartIngest, SaveRaw, StartComputed,
     OpenComputed, CloseComputed, SaveComputed, StartMetadata, SaveMetadata,
     StartRebuild, SaveRebuilt, FailWrite, Crash, LoseManifest, vars

(***************************************************************************)
(* A process that is given a job with no raw file of its own yet and with  *)
(* a sound copy of the manifest, while raw/ stays as it is.                *)
(***************************************************************************)
LEMMA OtherJobs ==
    ASSUME IngestInv, now' \in {now, now + 1}, UNCHANGED raw,
           NEW p \in Procs, NEW j, job' = [job EXCEPT ![p] = j],
           j.pc \notin {"closeRaw", "saveRaw"}, JobSound(j),
           Sound(raw, j.snap)
    PROVE  /\ FilesPast'
           /\ \A q \in Procs : JobSound(job[q])'
           /\ FilesApart'
           /\ \A q \in Procs : Sound(raw, job[q].snap)'
<1> USE DEF IngestInv, TypeInv, TypeOK
<1>1. FilesPast'
  BY DEF FilesPast, Stamps
<1>2. ASSUME NEW q \in Procs PROVE JobSound(job[q])'
  <2>1. CASE q = p
    <3>1. job'[q] = j
      BY <2>1
    <3> QED
      BY <3>1 DEF JobSound
  <2>2. CASE q # p
    <3>1. job'[q] = job[q] /\ JobSound(job[q])
      BY <2>2
    <3>2. \A s \in Stamps : s < now => s < now'
      BY DEF Stamps
    <3> QED
      BY <3>1, <3>2 DEF JobSound
  <2> QED
    BY <2>1, <2>2
<1>3. FilesApart'
  BY DEF FilesApart
<1>4. \A q \in Procs : Sound(raw, job[q].snap)'
  BY DEF Sound
<1> QED
  BY <1>1, <1>2, <1>3, <1>4

(***************************************************************************)
(* An operation that ends by saving a sound manifest.                      *)
(***************************************************************************)
LEMMA SaveKeeps ==
    ASSUME OneProcess, IngestInv, TypeInv', UNCHANGED <<raw, now>>,
           NEW p \in Procs, NEW m, Sound(raw, m), Save(p, m)
    PROVE  IngestInv'
<1>1. NoJob.pc = "idle" /\ NoJob.snap = EmptyManifest
  BY DEF NoJob
<1>2. job' = [job EXCEPT ![p] = NoJob] /\ manifest' = m
  BY SavesAlone DEF IngestInv
<1> HIDE DEF NoJob
<1> QED
  BY <1>1, <1>2, OtherJobs, EmptySound DEF IngestInv, Sound, JobSound

(***************************************************************************)
(* The file of an ingest is created: its stamp is the present second, so   *)
(* it is younger than every file there is, and nobody else's.              *)
(***************************************************************************)
LEMMA OpenRawKeeps ==
    ASSUME Undisturbed, IngestInv, TypeInv', NEW p \in Procs, OpenRaw(p)
    PROVE  IngestInv'
<1> USE DEF IngestInv, TypeInv, TypeOK
<1> DEFINE j == job[p]
           e == j.snap.entry[j.key]
           f == [st |-> "torn", csv |-> j.sha, mtime |-> now]
<1>1. /\ j \in Job /\ j.key \in Keys /\ j.snap \in Manifest /\ e \in Entry
      /\ now \in Stamps /\ now' = now + 1
  BY DEF OpenRaw, Job, Manifest
<1>2. raw' = [raw EXCEPT ![j.key][now] = f]
  BY <1>1, StampIsNow DEF OpenRaw, ReadBack, Undisturbed
<1>3. job' = [job EXCEPT ![p] = [j EXCEPT !.pc = "closeRaw", !.file = now]]
  BY <1>1, StampIsNow DEF OpenRaw
<1>4. \A k \in Keys, s \in Stamps :
        raw'[k][s] = IF k = j.key /\ s = now THEN f ELSE raw[k][s]
  BY <1>1, <1>2
<1>5. \A q \in Procs : job[q].pc = "closeRaw" => job[q].file < now /\ job[q].file # now
  BY DEF JobSound, Stamps
<1>6. FilesPast'
  <2> SUFFICES ASSUME NEW k \in Keys, NEW s \in Stamps, raw'[k][s].st # "absent"
               PROVE  s < now'
    BY DEF FilesPast
  <2>1. s = now \/ s < now
    BY <1>4 DEF FilesPast
  <2> QED
    BY <1>1, <2>1 DEF Stamps
<1>7. ASSUME NEW q \in Procs PROVE JobSound(job[q])'
  <2>1. CASE q = p
    <3>1. /\ job'[q].pc = "closeRaw" /\ job'[q].file = now /\ job'[q].key = j.key
          /\ job'[q].sha = j.sha /\ job'[q].snap = j.snap
      BY <1>1, <1>3, <2>1 DEF Job
    <3>2. j.sha \in Csvs /\ e.sha # j.sha /\ (Present(e) => e.sha # NoSha)
      BY DEF OpenRaw, JobSound
    <3>3. e.raw < now
      <4>1. CASE e.raw = NoStamp
        BY <1>1, <4>1 DEF NoStamp, Stamps
      <4>2. CASE e.raw # NoStamp
        <5>1. SoundEntry(raw, j.key, e)
          BY <1>1 DEF Sound
        <5>2. e.raw \in Stamps /\ raw[j.key][e.raw].st = "complete"
          BY <1>1, <4>2, <5>1 DEF SoundEntry, Entry
        <5> QED
          BY <1>1, <5>2 DEF FilesPast
      <4> QED
        BY <4>1, <4>2
    <3>4. raw'[j.key][now] = f
      BY <1>1, <1>4
    <3>5. now < now'
      BY <1>1 DEF Stamps
    <3> QED
      BY <1>1, <3>1, <3>2, <3>3, <3>4, <3>5, SMTT(30) DEF JobSound
  <2>2. CASE q # p
    <3>1. job'[q] = job[q] /\ JobSound(job[q])
      BY <1>3, <2>2
    <3>2. job[q].pc \in {"closeRaw", "saveRaw"} =>
            /\ job[q].file \in Stamps /\ job[q].file < now' /\ job[q].file # now
            /\ raw'[job[q].key][job[q].file] = raw[job[q].key][job[q].file]
      BY <1>1, <1>4, <3>1 DEF JobSound, Stamps, Job
    <3> QED
      BY <3>1, <3>2 DEF JobSound
  <2> QED
    BY <2>1, <2>2
<1>8. FilesApart'
  BY <1>1, <1>3, <1>5 DEF FilesApart, Job
<1>9. \A k \in Keys, s \in Stamps :
        raw[k][s].st = "complete" => raw'[k][s] = raw[k][s]
  BY CompleteStays DEF Next, Step
<1>10. Sound(raw, manifest)'
  <2>1. manifest' = manifest
    BY DEF OpenRaw
  <2>2. Sound(raw', manifest)
    BY <1>9, SoundStays
  <2> QED
    BY <2>1, <2>2
<1>11. ASSUME NEW q \in Procs PROVE Sound(raw, job[q].snap)'
  <2>1. job'[q].snap = job[q].snap /\ job[q].snap \in Manifest
    BY <1>3 DEF Job
  <2>2. Sound(raw', job[q].snap)
    BY <1>9, <2>1, SoundStays
  <2> QED
    BY <2>1, <2>2
<1> QED
  BY <1>6, <1>7, <1>8, <1>10, <1>11

(***************************************************************************)
(* The file of an ingest is closed: it becomes complete, no entry of any   *)
(* copy named it while it was torn, and it holds the rows of the CSV whose *)
(* digest was taken.                                                       *)
(***************************************************************************)
LEMMA CloseRawKeeps ==
    ASSUME Undisturbed, IngestInv, TypeInv', NEW p \in Procs, CloseRaw(p)
    PROVE  IngestInv'
<1> USE DEF IngestInv, TypeInv, TypeOK
<1> DEFINE j == job[p]
           f == [st |-> "complete", csv |-> raw[j.key][j.file].csv, mtime |-> now]
<1>1. j \in Job /\ j.key \in Keys /\ j.file \in Stamps /\ j.file < now
  BY DEF CloseRaw, Job, JobSound
<1>2. raw' = [raw EXCEPT ![j.key][j.file] = f] /\ now' = now
  BY DEF CloseRaw
<1>3. job' = [job EXCEPT ![p].pc = "saveRaw"]
  BY DEF CloseRaw
<1>4. \A k \in Keys, s \in Stamps :
        raw'[k][s] = IF k = j.key /\ s = j.file THEN f ELSE raw[k][s]
  BY <1>1, <1>2
<1>5. FilesPast'
  BY <1>1, <1>2, <1>4 DEF FilesPast
<1>6. ASSUME NEW q \in Procs PROVE JobSound(job[q])'
  <2>1. /\ job'[q].file = job[q].file /\ job'[q].key = job[q].key
        /\ job'[q].sha = job[q].sha /\ job'[q].snap = job[q].snap
    BY <1>3 DEF Job
  <2>2. job[q].key \in Keys /\ JobSound(job[q])
    BY DEF Job
  <2>3. CASE q = p
    <3>1. job'[q].pc = "saveRaw" /\ job[q].pc = "closeRaw"
      BY <1>3, <2>3 DEF Job, CloseRaw
    <3>2. raw'[j.key][j.file] = f
      BY <1>1, <1>4
    <3> QED
      BY <1>2, <2>1, <2>2, <2>3, <3>1, <3>2 DEF JobSound
  <2>4. CASE q # p
    <3>1. job'[q] = job[q]
      BY <1>3, <2>4
    <3>2. job[q].pc = "closeRaw" =>
            raw'[job[q].key][job[q].file] = raw[job[q].key][job[q].file]
      <4> SUFFICES ASSUME job[q].pc = "closeRaw"
                   PROVE  raw'[job[q].key][job[q].file] =
                            raw[job[q].key][job[q].file]
        OBVIOUS
      <4>1. job[q].file \in Stamps
        BY <2>2 DEF JobSound
      <4>2. job[q].key # j.key \/ job[q].file # j.file
        BY <2>4 DEF FilesApart, CloseRaw
      <4> QED
        BY <1>4, <2>2, <4>1, <4>2
    <3>3. job[q].pc = "saveRaw" =>
            /\ raw'[job[q].key][job[q].file].csv = raw[job[q].key][job[q].file].csv
            /\ raw'[job[q].key][job[q].file].st = "complete"
      <4> SUFFICES ASSUME job[q].pc = "saveRaw"
                   PROVE  /\ raw'[job[q].key][job[q].file].csv =
                               raw[job[q].key][job[q].file].csv
                          /\ raw'[job[q].key][job[q].file].st = "complete"
        OBVIOUS
      <4>1. /\ job[q].file \in Stamps
            /\ raw[job[q].key][job[q].file].st = "complete"
        BY <2>2 DEF JobSound
      <4>2. CASE job[q].key = j.key /\ job[q].file = j.file
        BY <1>1, <1>4, <4>2
      <4>3. CASE ~ (job[q].key = j.key /\ job[q].file = j.file)
        BY <1>4, <2>2, <4>1, <4>3
      <4> QED
        BY <4>2, <4>3
    <3> QED
      BY <1>2, <2>2, <3>1, <3>2, <3>3 DEF JobSound
  <2> QED
    BY <2>3, <2>4
<1>7. FilesApart'
  BY <1>3 DEF FilesApart, Job
<1>8. \A k \in Keys, s \in Stamps :
        raw[k][s].st = "complete" => raw'[k][s] = raw[k][s]
  BY CompleteStays DEF Next, Step
<1>9. Sound(raw, manifest)'
  <2>1. manifest' = manifest
    BY DEF CloseRaw
  <2>2. Sound(raw', manifest)
    BY <1>8, SoundStays
  <2> QED
    BY <2>1, <2>2
<1>10. ASSUME NEW q \in Procs PROVE Sound(raw, job[q].snap)'
  <2>1. job'[q].snap = job[q].snap /\ job[q].snap \in Manifest
    BY <1>3 DEF Job
  <2>2. Sound(raw', job[q].snap)
    BY <1>8, <2>1, SoundStays
  <2> QED
    BY <2>1, <2>2
<1> QED
  BY <1>5, <1>6, <1>7, <1>9, <1>10

(***************************************************************************)
(* An ingest saves its entry: the file it names is complete, and the entry *)
(* it supersedes, from the process's copy, was sound.                      *)
(***************************************************************************)
LEMMA SaveRawKeeps ==
    ASSUME OneProcess, IngestInv, TypeInv', NEW p \in Procs, SaveRaw(p)
    PROVE  IngestInv'
<1> USE DEF IngestInv, TypeInv, TypeOK
<1> DEFINE j == job[p]
           old == j.snap.entry[j.key]
           e == IngestedEntry(old, j.sha, j.file)
           m == [j.snap EXCEPT !.entry[j.key] = e]
<1>1. /\ j.key \in Keys /\ j.snap \in Manifest /\ old \in Entry
      /\ j.file \in Stamps /\ JobSound(j) /\ j.pc = "saveRaw"
  BY SMTT(30) DEF SaveRaw, Job, Manifest, JobSound
<1>2. SoundEntry(raw, j.key, old)
  BY <1>1 DEF Sound
<1>3. Present(old) => /\ old.raw # NoStamp /\ old.raw < j.file
                      /\ raw[j.key][old.raw].csv # j.sha
                      /\ raw[j.key][old.raw].st = "complete"
  BY <1>1, <1>2 DEF SoundEntry, JobSound
<1>4. SoundEntry(raw, j.key, e)
  <2>1. /\ j.sha \in Csvs /\ raw[j.key][j.file].csv = j.sha
        /\ raw[j.key][j.file].st = "complete" /\ j.file # NoStamp
    BY <1>1, SMTT(30) DEF JobSound, Stamps, NoStamp
  <2>2. /\ e.raw = j.file /\ e.sha = j.sha /\ e.amended = Present(old)
        /\ e.prior = IF Present(old) THEN old.raw ELSE NoStamp
        /\ Present(e)
    BY DEF IngestedEntry, Present, NoVersion
  <2> HIDE DEF e, old, j
  <2>3. j.sha # NoSha /\ j.sha # ParquetSha
    BY <2>1, ShaAssumption
  <2>4. CASE Present(old)
    BY <1>3, <2>1, <2>2, <2>3, <2>4 DEF SoundEntry
  <2>5. CASE ~Present(old)
    BY <2>1, <2>2, <2>3, <2>5 DEF SoundEntry
  <2> QED
    BY <2>4, <2>5
<1>5. Sound(raw, m)
  <2>1. \A k \in Keys : m.entry[k] = IF k = j.key THEN e ELSE j.snap.entry[k]
    <3> HIDE DEF e
    <3> QED BY <1>1 DEF Manifest
  <2>2. Sound(raw, j.snap)
    OBVIOUS
  <2> HIDE DEF e, m, j
  <2> QED
    BY <1>4, <2>1, <2>2 DEF Sound
<1>6. Save(p, m) /\ UNCHANGED <<raw, now>>
  BY DEF SaveRaw
<1> HIDE DEF m
<1> QED
  BY <1>5, <1>6, SaveKeeps

(***************************************************************************)
(* A computed version saves its entry, which keeps the raw fields of the   *)
(* entry it had copied.                                                    *)
(***************************************************************************)
LEMMA SaveComputedKeeps ==
    ASSUME OneProcess, IngestInv, TypeInv', NEW p \in Procs, SaveComputed(p)
    PROVE  IngestInv'
<1> USE DEF IngestInv, TypeInv, TypeOK
<1> DEFINE j == job[p]
           old == j.snap.entry[j.key]
           e == ComputedEntry(old, j.file)
           m == [j.snap EXCEPT !.entry[j.key] = e]
<1>1. j.key \in Keys /\ j.snap \in Manifest /\ old \in Entry
  BY DEF Job, Manifest
<1>2. /\ e.raw = old.raw /\ e.sha = old.sha
      /\ e.amended = old.amended /\ e.prior = old.prior /\ Present(e)
  <2> HIDE DEF old
  <2> QED BY <1>1 DEF ComputedEntry, Entry, Present, NewVersion, NoVersion, Versions
<1>3. SoundEntry(raw, j.key, e)
  <2>1. SoundEntry(raw, j.key, old)
    BY <1>1 DEF Sound
  <2> HIDE DEF e, old, j
  <2> QED
    BY <1>2, <2>1 DEF SoundEntry
<1>4. Sound(raw, m)
  <2>1. \A k \in Keys : m.entry[k] = IF k = j.key THEN e ELSE j.snap.entry[k]
    <3> HIDE DEF e
    <3> QED BY <1>1 DEF Manifest
  <2>2. Sound(raw, j.snap)
    OBVIOUS
  <2> HIDE DEF e, m, j
  <2> QED
    BY <1>3, <2>1, <2>2 DEF Sound
<1>5. Save(p, m) /\ UNCHANGED <<raw, now>>
  BY DEF SaveComputed
<1> HIDE DEF m
<1> QED
  BY <1>4, <1>5, SaveKeeps

(***************************************************************************)
(* The initial state has no files and no entries, so the invariant holds   *)
(* in it.                                                                  *)
(***************************************************************************)
LEMMA InitIngestInv == Init => IngestInv
<1> SUFFICES ASSUME Init PROVE IngestInv
  OBVIOUS
<1>1. TypeInv
  BY InitTypeInv
<1>2. FilesPast
  BY DEF Init, FilesPast, NoFile
<1>3. \A p \in Procs : job[p].pc = "idle" /\ job[p].snap = EmptyManifest
  BY DEF Init, NoJob
<1>4. manifest = EmptyManifest
  BY DEF Init
<1> QED
  BY <1>1, <1>2, <1>3, <1>4, EmptySound DEF IngestInv, JobSound, FilesApart

(***************************************************************************)
(* Every step of every process keeps the invariant, undisturbed.           *)
(***************************************************************************)
LEMMA NextIngestInv == Undisturbed /\ IngestInv /\ [Next]_vars => IngestInv'
<1> SUFFICES ASSUME Undisturbed, IngestInv, [Next]_vars PROVE IngestInv'
  OBVIOUS
<1>1. TypeInv'
  BY NextTypeInv DEF IngestInv
<1> USE DEF IngestInv
<1>2. ASSUME NEW p \in Procs, NEW j, job' = [job EXCEPT ![p] = j],
             j.pc \notin {"closeRaw", "saveRaw"}, JobSound(j), Sound(raw, j.snap),
             now' \in {now, now + 1}, UNCHANGED <<raw, manifest>>
      PROVE  IngestInv'
  BY <1>1, <1>2, OtherJobs DEF Sound
<1>3. ASSUME NEW p \in Procs, NEW k \in Keys, NEW c \in Csvs, StartIngest(p, k, c)
      PROVE  IngestInv'
  <2> DEFINE j == [NoJob EXCEPT !.pc = "openRaw", !.key = k, !.sha = c,
                                !.snap = manifest]
             e == manifest.entry[k]
  <2>1. /\ j.pc = "openRaw" /\ j.key = k /\ j.sha = c /\ j.snap = manifest
    BY DEF NoJob
  <2>2. e.sha # c /\ (Present(e) => e.sha # NoSha)
    <3>1. SoundEntry(raw, k, e)
      BY DEF Sound
    <3>2. Verdict(e, c) \in {"new", "amendment"}
      BY <1>3 DEF StartIngest
    <3>3. ~Present(e) => e.sha # c
      BY <3>1, ShaAssumption DEF SoundEntry
    <3> QED
      BY <3>1, <3>2, <3>3 DEF Verdict
  <2>3. JobSound(j)
    BY <2>1, <2>2 DEF JobSound
  <2>4. job' = [job EXCEPT ![p] = j] /\ UNCHANGED <<raw, manifest, now>>
    BY <1>3 DEF StartIngest
  <2> HIDE DEF j
  <2> QED
    BY <1>2, <2>1, <2>3, <2>4
<1>4. ASSUME NEW p \in Procs, NEW k \in Keys, StartComputed(p, k)
      PROVE  IngestInv'
  <2> DEFINE j == [NoJob EXCEPT !.pc = "openComputed", !.key = k, !.snap = manifest]
  <2>1. j.pc = "openComputed" /\ j.snap = manifest
    BY DEF NoJob
  <2>2. job' = [job EXCEPT ![p] = j] /\ UNCHANGED <<raw, manifest, now>>
    BY <1>4 DEF StartComputed
  <2> HIDE DEF j
  <2> QED
    BY <1>2, <2>1, <2>2 DEF JobSound
<1>5. ASSUME NEW p \in Procs, OpenComputed(p) \/ CloseComputed(p)
      PROVE  IngestInv'
  <2>1. PICK j : /\ job' = [job EXCEPT ![p] = j] /\ j.snap = job[p].snap
                 /\ j.pc \in {"closeComputed", "saveComputed"}
    <3>1. job[p] \in Job
      BY DEF TypeInv, TypeOK
    <3>2. CASE OpenComputed(p)
      <4> DEFINE i == [job[p] EXCEPT !.pc = "closeComputed", !.file = Stamp(now)]
      <4>1. job' = [job EXCEPT ![p] = i]
        BY <3>2 DEF OpenComputed
      <4>2. i.pc = "closeComputed" /\ i.snap = job[p].snap
        BY <3>1 DEF Job
      <4> QED
        BY <4>1, <4>2
    <3>3. CASE CloseComputed(p)
      <4> DEFINE i == [job[p] EXCEPT !.pc = "saveComputed"]
      <4>1. job' = [job EXCEPT ![p] = i]
        BY <3>3 DEF CloseComputed
      <4>2. i.pc = "saveComputed" /\ i.snap = job[p].snap
        BY <3>1 DEF Job
      <4> QED
        BY <4>1, <4>2
    <3> QED
      BY <1>5, <3>2, <3>3
  <2>2. now' \in {now, now + 1} /\ UNCHANGED <<raw, manifest>>
    BY <1>5 DEF OpenComputed, CloseComputed
  <2> QED
    BY <1>2, <2>1, <2>2, ZenonT(60) DEF JobSound
<1>6. ASSUME NEW p \in Procs, StartMetadata(p)
      PROVE  IngestInv'
  <2> DEFINE j == [NoJob EXCEPT !.pc = "saveMetadata", !.snap = manifest]
  <2>1. j.pc = "saveMetadata" /\ j.snap = manifest
    BY DEF NoJob
  <2>2. job' = [job EXCEPT ![p] = j] /\ UNCHANGED <<raw, manifest, now>>
    BY <1>6 DEF StartMetadata
  <2> HIDE DEF j
  <2> QED
    BY <1>2, <2>1, <2>2 DEF JobSound
<1>7. ASSUME NEW p \in Procs, SaveMetadata(p)
      PROVE  IngestInv'
  <2> DEFINE m == [job[p].snap EXCEPT !.marked = TRUE]
  <2>1. m.entry = job[p].snap.entry
    BY DEF TypeInv, TypeOK, Job, Manifest
  <2>2. Sound(raw, m)
    BY <2>1 DEF Sound
  <2>3. Save(p, m) /\ UNCHANGED <<raw, now>>
    BY <1>7 DEF SaveMetadata
  <2> HIDE DEF m
  <2> QED
    BY <1>1, <2>2, <2>3, SaveKeeps DEF Undisturbed
<1>8. ASSUME NEW p \in Procs, SaveRebuilt(p)
      PROVE  IngestInv'
  <2>1. Save(p, job[p].snap) /\ UNCHANGED <<raw, now>> /\ Sound(raw, job[p].snap)
    BY <1>8 DEF SaveRebuilt
  <2> QED
    BY <1>1, <2>1, SaveKeeps DEF Undisturbed
<1>9. ASSUME NEW p \in Procs, StartRebuild(p)
      PROVE  IngestInv'
  BY <1>9 DEF StartRebuild, Undisturbed
<1>10. ASSUME NEW p \in Procs, FailWrite(p) \/ Crash(p)
       PROVE  IngestInv'
  <2>1. NoJob.pc = "idle" /\ NoJob.snap = EmptyManifest
    BY DEF NoJob
  <2>2. job' = [job EXCEPT ![p] = NoJob] /\ UNCHANGED <<raw, manifest, now>>
    BY <1>10, EndsAlone DEF FailWrite, Crash, Undisturbed
  <2> QED
    BY <1>2, <2>1, <2>2, EmptySound DEF JobSound
<1>11. CASE LoseManifest
  <2>1. manifest' = EmptyManifest /\ UNCHANGED <<raw, job, now>>
    BY <1>11 DEF LoseManifest
  <2>2. FilesPast' /\ FilesApart' /\ \A q \in Procs : JobSound(job[q])'
    BY <2>1 DEF FilesPast, FilesApart, JobSound
  <2> QED
    BY <1>1, <2>1, <2>2, EmptySound DEF Sound
<1>12. CASE UNCHANGED vars
  BY <1>1, <1>12 DEF vars, FilesPast, FilesApart, JobSound, Sound
<1> QED
  BY <1>1, <1>3, <1>4, <1>5, <1>6, <1>7, <1>8, <1>9, <1>10, <1>11, <1>12,
     OpenRawKeeps, CloseRawKeeps, SaveRawKeeps, SaveComputedKeeps
     DEF Next, Step, Undisturbed

(***************************************************************************)
(* For one process, whichever of its operations fail or are killed, the    *)
(* manifest names complete files of the digests it records, as long as no  *)
(* two files are created in one second, CSVs do not change while they are  *)
(* ingested, and the manifest is not rebuilt.                              *)
(***************************************************************************)
THEOREM CanonicalFilesIntact ==
    ASSUME Undisturbed
    PROVE  Spec => []CanonicalIntact
<1>1. Spec => []IngestInv
  BY InitIngestInv, NextIngestInv, PTL DEF Spec
<1>2. IngestInv => CanonicalIntact
  BY DEF IngestInv, Sound, SoundEntry, CanonicalIntact, IntactEntry
<1> QED
  BY <1>1, <1>2, PTL

(***************************************************************************)
(* Under the same assumptions, what a file supersedes is older, complete   *)
(* and different, in every entry.                                          *)
(***************************************************************************)
THEOREM AmendmentsChained ==
    ASSUME Undisturbed
    PROVE  Spec => []AmendmentChain
<1>1. Spec => []IngestInv
  BY InitIngestInv, NextIngestInv, PTL DEF Spec
<1>2. IngestInv => AmendmentChain
  BY DEF IngestInv, Sound, SoundEntry, AmendmentChain, SupersedesOlder
<1> QED
  BY <1>1, <1>2, PTL

=============================================================================
