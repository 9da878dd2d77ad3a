------------------------- MODULE SerialIngestProofs --------------------------
(***************************************************************************)
(* Proofs about PsxIngest when one process works on the stores at a time,  *)
(* which is how the pipeline runs it (max_active_runs = 1).                *)
(***************************************************************************)
EXTENDS PsxIngestProofs

-----------------------------------------------------------------------------
(* computed/ *)

\* s is the last name in directory dir of computed/.
LastFile(dir, s) ==
    /\ s \in Stamps /\ dir[s] # "absent"
    /\ \A t \in Stamps : dir[t] # "absent" => t <= s

\* The manifest is neither lost nor rebuilt.
ManifestKept == OneProcess /\ Faults \cap {"lose", "rebuild"} = {}

\* A process in the middle of an operation works on the manifest as it is.
CopyCurrent == \A p \in Procs : job[p].pc # "idle" => job[p].snap = manifest

\* No file of computed/ has a name that is still to come.
ComputedPast ==
    \A k \in Keys, v \in Versions, s \in Stamps :
        computed[k][v][s] # "absent" => s <= Stamp(now)

\* The file being written is the last of the directory of the next version.
WritesLast ==
    \A p \in Procs :
        job[p].pc \in {"closeComputed", "saveComputed"} =>
          LastFile(computed[job[p].key][NewVersion(manifest.entry[job[p].key])],
                   job[p].file)

\* What was published belongs to a version the key has had, and is the last
\* file in the directory of that version.
PublishedLast ==
    \A k \in Keys, v \in Versions :
        published[k][v] # NoStamp => /\ v <= manifest.entry[k].version
                                     /\ LastFile(computed[k][v], published[k][v])

\* The current file of a key is the one that was published for its version.
CurrentPublished ==
    \A k \in Keys :
        LET e == manifest.entry[k]
        IN  e.computed # NoStamp => Present(e) /\ published[k][e.version] = e.computed

(***************************************************************************)
(* The inductive invariant.  ReplayStable is not inductive: it does not    *)
(* say that a file being written is in the directory of a version that was *)
(* never current, nor that the copy it will be saved with is up to date.   *)
(***************************************************************************)
ReplayInv ==
    /\ TypeInv
    /\ CopyCurrent
    /\ ComputedPast
    /\ WritesLast
    /\ PublishedLast
    /\ CurrentPublished

(***************************************************************************)
(* Names do not go back: the clock does not, and cutting it to whole       *)
(* seconds keeps the order.                                                *)
(***************************************************************************)
LEMMA StampMonotone ==
    ASSUME NEW t \in Stamps, NEW u \in Stamps, t <= u
    PROVE  Stamp(t) <= Stamp(u)
<1>1. t \in Nat /\ u \in Nat /\ Resolution \in Nat /\ Resolution > 0
  BY BoundsAssumption DEF Stamps
<1>2. (t \div Resolution) <= (u \div Resolution)
  BY <1>1
<1> QED
  BY <1>2 DEF Stamp

(***************************************************************************)
(* get_canonical_computed_path with a version returns the last file of its *)
(* directory.                                                              *)
(***************************************************************************)
LEMMA LookupFindsLast ==
    ASSUME NEW k \in Keys, NEW v \in Versions, NEW s, LastFile(computed[k][v], s),
           Present(manifest.entry[k])
    PROVE  LookupVersion(k, v) = s
<1> DEFINE files == {t \in Stamps : computed[k][v][t] # "absent"}
           last == CHOOSE t \in files : \A u \in files : u <= t
<1>1. s \in files /\ \A u \in files : u <= s
  BY DEF LastFile
<1>2. last \in files /\ \A u \in files : u <= last
  BY <1>1
<1>3. files \subseteq Int
  BY DEF Stamps
<1>4. LookupVersion(k, v) = last
  BY <1>1 DEF LookupVersion
<1> HIDE DEF files, last
<1>5. last = s
  BY <1>1, <1>2, <1>3
<1> QED
  BY <1>4, <1>5

(***************************************************************************)
(* What the invariant promises to the callers.                             *)
(***************************************************************************)
LEMMA ReplayInvStable == ReplayInv => ReplayStable
<1> SUFFICES ASSUME ReplayInv, NEW k \in Keys, Present(manifest.entry[k])
             PROVE  /\ \A v \in Versions : published[k][v] # NoStamp =>
                          LookupVersion(k, v) = published[k][v]
                    /\ CurrentComputed(k) \in
                         {NoStamp, published[k][manifest.entry[k].version]}
  BY DEF ReplayStable
<1>1. ASSUME NEW v \in Versions, published[k][v] # NoStamp
      PROVE  LookupVersion(k, v) = published[k][v]
  BY <1>1, LookupFindsLast DEF ReplayInv, PublishedLast
<1> QED
  BY <1>1 DEF ReplayInv, CurrentPublished, CurrentComputed

(***************************************************************************)
(* A step that changes neither computed/ nor the manifest and leaves the   *)
(* process with a current copy and without a computed file of its own.     *)
(***************************************************************************)
LEMMA QuietReplay ==
    ASSUME OneProcess, ReplayInv, TypeInv', NEW p \in Procs, NEW j,
           job' = [job EXCEPT ![p] = j],
           j.pc \notin {"closeComputed", "saveComputed"},
           j.pc # "idle" => j.snap = manifest,
           now' \in {now, now + 1}, UNCHANGED <<computed, manifest, published>>
    PROVE  ReplayInv'
<1> USE DEF ReplayInv
<1>1. \A q \in Procs : job'[q] = j
  BY DEF OneProcess, TypeInv, TypeOK
<1>2. CopyCurrent' /\ WritesLast'
  BY <1>1 DEF CopyCurrent, WritesLast
<1>3. ComputedPast'
  <2>1. now \in Stamps /\ now' \in Stamps /\ now <= now'
    BY DEF TypeInv, TypeOK, Stamps
  <2>2. Stamp(now) <= Stamp(now') /\ Stamp(now) \in Int /\ Stamp(now') \in Int
    BY <2>1, StampMonotone, StampInRange DEF Stamps
  <2>3. \A s \in Stamps : s <= Stamp(now) => s <= Stamp(now')
    BY <2>2 DEF Stamps
  <2>4. Stamp(now') = Stamp(now)'
    OBVIOUS
  <2> QED
    BY <2>3, <2>4 DEF ComputedPast
<1>4. PublishedLast' /\ CurrentPublished'
  BY DEF PublishedLast, LastFile, CurrentPublished
<1> QED
  BY <1>2, <1>3, <1>4

(***************************************************************************)
(* A step that saves a manifest in which no version has gone back and no   *)
(* key names a computed file it did not name before.                       *)
(***************************************************************************)
LEMMA SaveReplay ==
    ASSUME OneProcess, ReplayInv, TypeInv', NEW p \in Procs,
           NEW m \in Manifest, Save(p, m),
           \A k \in Keys : LET new == m.entry[k]
                               old == manifest.entry[k]
                           IN  /\ old.version <= new.version
                               /\ new.computed # NoStamp =>
                                    /\ new.computed = old.computed
                                    /\ new.version = old.version,
           UNCHANGED <<computed, published, now>>
    PROVE  ReplayInv'
<1> USE DEF ReplayInv
<1>0. job' = [job EXCEPT ![p] = NoJob] /\ manifest' = m
  BY SavesAlone
<1>1. \A q \in Procs : job'[q].pc = "idle"
  BY <1>0 DEF NoJob, OneProcess, TypeInv, TypeOK
<1>2. CopyCurrent' /\ WritesLast'
  BY <1>1 DEF CopyCurrent, WritesLast
<1>3. ComputedPast'
  BY DEF ComputedPast, Stamp
<1>4. manifest' = m
  BY <1>0
<1>5. PublishedLast'
  <2> SUFFICES ASSUME NEW k \in Keys, NEW v \in Versions, published[k][v] # NoStamp
               PROVE  v <= m.entry[k].version /\ LastFile(computed'[k][v], published[k][v])
    BY <1>4 DEF PublishedLast
  <2>1. v <= manifest.entry[k].version /\ LastFile(computed[k][v], published[k][v])
    BY DEF PublishedLast
  <2>2. /\ manifest.entry[k].version \in Int /\ m.entry[k].version \in Int
        /\ v \in Int
    BY DEF TypeInv, TypeOK, Manifest, Entry, Versions, NoVersion
  <2>3. manifest.entry[k].version <= m.entry[k].version
    OBVIOUS
  <2> QED
    BY <2>1, <2>2, <2>3 DEF LastFile
<1>6. CurrentPublished'
  BY <1>4 DEF CurrentPublished, Present
<1> QED
  BY <1>2, <1>3, <1>5, <1>6

(***************************************************************************)
(* create_computed_version creates its file in the directory of a version  *)
(* that was never current, under a name that no file there is behind.      *)
(***************************************************************************)
LEMMA OpenComputedReplay ==
    ASSUME OneProcess, ReplayInv, TypeInv', NEW p \in Procs, OpenComputed(p)
    PROVE  ReplayInv'
<1> USE DEF ReplayInv
<1> DEFINE key == job[p].key
           ver == NewVersion(manifest.entry[key])
           file == Stamp(now)
<1>1. /\ job[p] \in Job /\ key \in Keys /\ now \in Stamps /\ file \in Stamps
      /\ job[p].snap = manifest /\ now' = now + 1 /\ now' \in Stamps
  BY StampInRange DEF OpenComputed, TypeInv, TypeOK, Job, CopyCurrent
<1>2. ver \in Versions /\ manifest.entry[key].version \in Int
  BY <1>1 DEF OpenComputed, TypeInv, TypeOK, JobsTyped, JobTyped, Manifest, Entry,
              Versions, NoVersion
<1>3. computed' = [computed EXCEPT ![key][ver][file] = "torn"]
  BY <1>1 DEF OpenComputed
<1>4. \A k \in Keys, v \in Versions, s \in Stamps :
        computed'[k][v][s] = IF k = key /\ v = ver /\ s = file THEN "torn"
                             ELSE computed[k][v][s]
  <2> HIDE DEF key, ver, file
  <2> QED BY <1>1, <1>2, <1>3 DEF TypeInv, TypeOK
<1>5. job' = [job EXCEPT ![p] = [job[p] EXCEPT !.pc = "closeComputed", !.file = file]]
  BY <1>1 DEF OpenComputed
<1>6. \A q \in Procs : /\ job'[q].pc = "closeComputed" /\ job'[q].file = file
                       /\ job'[q].key = key /\ job'[q].snap = manifest
  BY <1>1, <1>5 DEF OneProcess, TypeInv, TypeOK, Job
<1>7. manifest' = manifest /\ published' = published
  BY DEF OpenComputed
<1>8. \A s \in Stamps : computed[key][ver][s] # "absent" => s <= file
  BY <1>1, <1>2 DEF ComputedPast
<1>9. file <= Stamp(now') /\ Stamp(now') \in Stamps
  BY <1>1, StampMonotone, StampInRange DEF Stamps
<1> HIDE DEF key, ver, file
<1>10. LastFile(computed'[key][ver], file)
  <2>1. \A t \in Stamps : computed'[key][ver][t] # "absent" => t <= file
    BY <1>1, <1>2, <1>4, <1>8 DEF Stamps
  <2>2. computed'[key][ver][file] # "absent"
    BY <1>1, <1>2, <1>4
  <2> QED
    BY <1>1, <2>1, <2>2 DEF LastFile
<1>11. CopyCurrent' /\ WritesLast'
  BY <1>6, <1>7, <1>10 DEF CopyCurrent, WritesLast, ver, key
<1>12. ComputedPast'
  <2> SUFFICES ASSUME NEW k \in Keys, NEW v \in Versions, NEW s \in Stamps,
                      computed'[k][v][s] # "absent"
               PROVE  s <= Stamp(now')
    BY DEF ComputedPast, Stamp
  <2>1. s <= file
    BY <1>1, <1>4 DEF ComputedPast, Stamps, file
  <2> QED
    BY <1>1, <1>9, <2>1 DEF Stamps
<1>13. PublishedLast'
  <2> SUFFICES ASSUME NEW k \in Keys, NEW v \in Versions, published[k][v] # NoStamp
               PROVE  /\ v <= manifest.entry[k].version
                      /\ LastFile(computed'[k][v], published[k][v])
    BY <1>7 DEF PublishedLast
  <2>1. v <= manifest.entry[k].version /\ LastFile(computed[k][v], published[k][v])
    BY DEF PublishedLast
  <2>2. k # key \/ v # ver
    BY <1>2, <2>1 DEF ver, NewVersion, Versions
  <2>3. \A s \in Stamps : computed'[k][v][s] = computed[k][v][s]
    BY <1>4, <2>2
  <2> QED
    BY <1>7, <2>1, <2>3 DEF LastFile
<1>14. CurrentPublished'
  BY <1>7 DEF CurrentPublished
<1> QED
  BY <1>11, <1>12, <1>13, <1>14

(***************************************************************************)
(* Closing the file changes nothing a lookup sees.                         *)
(***************************************************************************)
LEMMA CloseComputedReplay ==
    ASSUME OneProcess, ReplayInv, TypeInv', NEW p \in Procs, CloseComputed(p)
    PROVE  ReplayInv'
<1> USE DEF ReplayInv
<1> DEFINE key == job[p].key
           file == job[p].file
           ver == NewVersion(manifest.entry[key])
<1>1. job[p] \in Job /\ key \in Keys /\ job[p].snap = manifest
  BY DEF CloseComputed, TypeInv, TypeOK, Job, CopyCurrent
<1>2. LastFile(computed[key][ver], file) /\ ver \in Versions
  BY <1>1 DEF CloseComputed, WritesLast, TypeInv, JobsTyped, JobTyped
<1>3. computed' = [computed EXCEPT ![key][ver][file] = "complete"]
  BY <1>1 DEF CloseComputed
<1>4. UNCHANGED <<manifest, published, now>>
  BY DEF CloseComputed
<1>5. \A q \in Procs : /\ job'[q].pc = "saveComputed" /\ job'[q].file = file
                       /\ job'[q].key = key /\ job'[q].snap = manifest
  BY <1>1 DEF CloseComputed, OneProcess, TypeInv, TypeOK, Job
<1> HIDE DEF key, ver, file
<1>6. \A k \in Keys, v \in Versions, s \in Stamps :
        computed'[k][v][s] # "absent" <=> computed[k][v][s] # "absent"
  BY <1>1, <1>2, <1>3 DEF LastFile, TypeInv, TypeOK
<1>7. \A k \in Keys, v \in Versions : \A s :
        LastFile(computed[k][v], s) => LastFile(computed'[k][v], s)
  BY <1>6 DEF LastFile
<1>8. CopyCurrent' /\ WritesLast'
  BY <1>1, <1>2, <1>4, <1>5, <1>7 DEF CopyCurrent, WritesLast, ver
<1>9. ComputedPast'
  BY <1>4, <1>6 DEF ComputedPast, Stamp
<1>10. PublishedLast' /\ CurrentPublished'
  BY <1>4, <1>7 DEF PublishedLast, CurrentPublished
<1> QED
  BY <1>8, <1>9, <1>10

(***************************************************************************)
(* The new version becomes current: it had never been, its file is the     *)
(* last of its directory, and no other key changes.                        *)
(***************************************************************************)
LEMMA SaveComputedReplay ==
    ASSUME OneProcess, ReplayInv, TypeInv', NEW p \in Procs, SaveComputed(p)
    PROVE  ReplayInv'
<1> USE DEF ReplayInv
<1> DEFINE key == job[p].key
           file == job[p].file
           old == manifest.entry[key]
           ver == NewVersion(old)
           e == ComputedEntry(old, file)
           m == [manifest EXCEPT !.entry[key] = e]
<1>1. /\ job[p] \in Job /\ key \in Keys /\ job[p].snap = manifest
      /\ manifest \in Manifest /\ old \in Entry
  BY DEF SaveComputed, TypeInv, TypeOK, Job, CopyCurrent, Manifest
<1>2. LastFile(computed[key][ver], file) /\ ver \in Versions
  BY <1>1 DEF SaveComputed, WritesLast, TypeInv, JobsTyped, JobTyped
<1>3. Save(p, m) /\ UNCHANGED <<computed, now>>
  BY <1>1 DEF SaveComputed
<1>4. published[key][ver] = NoStamp
  <2>1. ~ (ver <= old.version)
    BY <1>1 DEF NewVersion, Entry, Versions, NoVersion
  <2> QED
    BY <1>1, <1>2, <2>1 DEF PublishedLast
<1>5. published' = [published EXCEPT ![key][ver] = file]
  BY <1>1, <1>4 DEF SaveComputed, FirstPublished
<1>6. e.version = ver /\ e.computed = file
  BY <1>1 DEF ComputedEntry, Entry
<1>alone. job' = [job EXCEPT ![p] = NoJob] /\ manifest' = m
  <2> HIDE DEF m
  <2> QED BY <1>3, SavesAlone
<1>7. \A k \in Keys : manifest'.entry[k] = IF k = key THEN e ELSE manifest.entry[k]
  <2> HIDE DEF e, old
  <2> QED BY <1>1, <1>alone DEF Manifest
<1>8. \A k \in Keys, v \in Versions :
        published'[k][v] = IF k = key /\ v = ver THEN file ELSE published[k][v]
  <2> HIDE DEF key, ver, file
  <2> QED BY <1>1, <1>2, <1>5 DEF TypeInv, TypeOK
<1>9. \A k \in Keys, v \in Versions : \A s :
        LastFile(computed[k][v], s) => LastFile(computed'[k][v], s)
  BY <1>3 DEF LastFile
<1>10. \A q \in Procs : job'[q].pc = "idle"
  BY <1>alone DEF NoJob, OneProcess, TypeInv, TypeOK
<1>11. ver = old.version + 1 /\ old.version \in Int
  BY <1>1 DEF NewVersion, Entry, Versions, NoVersion
<1> HIDE DEF key, file, old, ver, e, m
<1>12. CopyCurrent' /\ WritesLast'
  BY <1>10 DEF CopyCurrent, WritesLast
<1>13. ComputedPast'
  BY <1>3 DEF ComputedPast, Stamp
<1>14. PublishedLast'
  <2> SUFFICES ASSUME NEW k \in Keys, NEW v \in Versions, published'[k][v] # NoStamp
               PROVE  /\ v <= manifest'.entry[k].version
                      /\ LastFile(computed'[k][v], published'[k][v])
    BY DEF PublishedLast
  <2>1. CASE k = key /\ v = ver
    BY <1>2, <1>6, <1>7, <1>8, <1>9, <2>1 DEF Versions
  <2>2. CASE ~ (k = key /\ v = ver)
    <3>1. v <= manifest.entry[k].version /\ LastFile(computed'[k][v], published[k][v])
      BY <1>8, <1>9, <2>2 DEF PublishedLast
    <3>2. k = key => v <= ver
      BY <1>11, <3>1 DEF old, Versions
    <3> QED
      BY <1>6, <1>7, <1>8, <2>2, <3>1, <3>2
  <2> QED
    BY <2>1, <2>2
<1>15. CurrentPublished'
  <2> SUFFICES ASSUME NEW k \in Keys, manifest'.entry[k].computed # NoStamp
               PROVE  LET n == manifest'.entry[k]
                      IN  Present(n) /\ published'[k][n.version] = n.computed
    BY DEF CurrentPublished, Present
  <2>1. CASE k = key
    <3>1. ver # NoVersion
      BY <1>2 DEF Versions, NoVersion
    <3> QED
      BY <1>2, <1>6, <1>7, <1>8, <2>1, <3>1 DEF Present
  <2>2. CASE k # key
    <3> DEFINE n == manifest.entry[k]
    <3>1. manifest'.entry[k] = n /\ n \in Entry
      BY <1>1, <1>7, <2>2 DEF Manifest
    <3>2. Present(n) /\ published[k][n.version] = n.computed
      BY <3>1 DEF CurrentPublished
    <3>3. n.version \in Versions
      BY <3>1, <3>2 DEF Entry, Present
    <3>4. published'[k][n.version] = published[k][n.version]
      BY <1>8, <2>2, <3>3
    <3> QED
      BY <3>1, <3>2, <3>4
  <2> QED
    BY <2>1, <2>2
<1> QED
  BY <1>12, <1>13, <1>14, <1>15

(***************************************************************************)
(* Every step of the one process keeps the invariant.                      *)
(***************************************************************************)
LEMMA NextReplayInv == ManifestKept /\ ReplayInv /\ [Next]_vars => ReplayInv'
<1> SUFFICES ASSUME ManifestKept, ReplayInv, [Next]_vars PROVE ReplayInv'
  OBVIOUS
<1>1. TypeInv' /\ OneProcess
  BY NextTypeInv DEF ReplayInv, ManifestKept
<1> USE DEF ReplayInv
<1>same. \A k \in Keys : manifest.entry[k].version <= manifest.entry[k].version
  <2>1. \A k \in Keys : manifest.entry[k].version \in Versions \cup {NoVersion}
    BY DEF TypeInv, TypeOK, Manifest, Entry
  <2> QED
    BY <2>1 DEF Versions, NoVersion
<1>2. ASSUME NEW p \in Procs,
             \/ \E k \in Keys, c \in Csvs : StartIngest(p, k, c)
             \/ \E k \in Keys : StartComputed(p, k)
             \/ StartMetadata(p)
      PROVE  ReplayInv'
  <2>1. PICK j : /\ job' = [job EXCEPT ![p] = j] /\ j.snap = manifest
                 /\ j.pc \in {"openRaw", "openComputed", "saveMetadata"}
    <3>1. ASSUME NEW k \in Keys, NEW c \in Csvs, StartIngest(p, k, c)
          PROVE  \E j : /\ job' = [job EXCEPT ![p] = j] /\ j.snap = manifest
                        /\ j.pc \in {"openRaw", "openComputed", "saveMetadata"}
      <4> DEFINE j == [NoJob EXCEPT !.pc = "openRaw", !.key = k, !.sha = c,
                                    !.snap = manifest]
      <4>1. j.pc = "openRaw" /\ j.snap = manifest
        BY DEF NoJob
      <4>2. job' = [job EXCEPT ![p] = j]
        BY <3>1 DEF StartIngest
      <4> HIDE DEF j
      <4> QED BY <4>1, <4>2
    <3>2. ASSUME NEW k \in Keys, StartComputed(p, k)
          PROVE  \E j : /\ job' = [job EXCEPT ![p] = j] /\ j.snap = manifest
                        /\ j.pc \in {"openRaw", "openComputed", "saveMetadata"}
      <4> DEFINE j == [NoJob EXCEPT !.pc = "openComputed", !.key = k,
                                    !.snap = manifest]
      <4>1. j.pc = "openComputed" /\ j.snap = manifest
        BY DEF NoJob
      <4>2. job' = [job EXCEPT ![p] = j]
        BY <3>2 DEF StartComputed
      <4> HIDE DEF j
      <4> QED BY <4>1, <4>2
    <3>3. ASSUME StartMetadata(p)
          PROVE  \E j : /\ job' = [job EXCEPT ![p] = j] /\ j.snap = manifest
                        /\ j.pc \in {"openRaw", "openComputed", "saveMetadata"}
      <4> DEFINE j == [NoJob EXCEPT !.pc = "saveMetadata", !.snap = manifest]
      <4>1. j.pc = "saveMetadata" /\ j.snap = manifest
        BY DEF NoJob
      <4>2. job' = [job EXCEPT ![p] = j]
        BY <3>3 DEF StartMetadata
      <4> HIDE DEF j
      <4> QED BY <4>1, <4>2
    <3> QED
      BY <1>2, <3>1, <3>2, <3>3
  <2>2. UNCHANGED <<computed, manifest, published, now>>
    BY <1>2 DEF StartIngest, StartComputed, StartMetadata
  <2> QED
    BY <1>1, <2>1, <2>2, QuietReplay
<1>3. ASSUME NEW p \in Procs, OpenRaw(p) \/ CloseRaw(p)
      PROVE  ReplayInv'
  <2>1. job[p] \in Job /\ job[p].snap = manifest
    BY <1>3 DEF OpenRaw, CloseRaw, TypeInv, TypeOK, CopyCurrent
  <2>2. PICK j : /\ job' = [job EXCEPT ![p] = j] /\ j.snap = manifest
                 /\ j.pc \in {"closeRaw", "saveRaw"}
    <3> DEFINE i == [job[p] EXCEPT !.pc = "closeRaw", !.file = Stamp(now)]
               c == [job[p] EXCEPT !.pc = "saveRaw"]
    <3>1. i.snap = manifest /\ i.pc = "closeRaw" /\ c.snap = manifest /\ c.pc = "saveRaw"
      BY <2>1 DEF Job
    <3>2. job' = [job EXCEPT ![p] = i] \/ job' = [job EXCEPT ![p] = c]
      BY <1>3 DEF OpenRaw, CloseRaw
    <3> QED
      BY <3>1, <3>2
  <2>3. now' \in {now, now + 1} /\ UNCHANGED <<computed, manifest, published>>
    BY <1>3 DEF OpenRaw, CloseRaw
  <2> QED
    BY <1>1, <2>2, <2>3, QuietReplay
<1>4. ASSUME NEW p \in Procs, SaveRaw(p)
      PROVE  ReplayInv'
  <2> DEFINE j == job[p]
             old == manifest.entry[j.key]
             e == IngestedEntry(old, j.sha, j.file)
             m == [manifest EXCEPT !.entry[j.key] = e]
  <2>1. /\ j \in Job /\ j.snap = manifest /\ j.key \in Keys
        /\ manifest \in Manifest /\ old \in Entry
    BY <1>4 DEF SaveRaw, TypeInv, TypeOK, CopyCurrent, Job, Manifest
  <2>2. e \in Entry
    BY <2>1, IngestedEntryType DEF Job
  <2>3. e.computed = NoStamp /\ old.version <= e.version
    BY <2>1 DEF IngestedEntry, Present, Entry, Versions, NoVersion
  <2>4. Save(p, m) /\ UNCHANGED <<computed, published, now>>
    BY <1>4, <2>1 DEF SaveRaw
  <2> HIDE DEF e
  <2>5. m \in Manifest /\ \A k \in Keys :
          m.entry[k] = IF k = j.key THEN e ELSE manifest.entry[k]
    BY <2>1, <2>2 DEF Manifest
  <2> HIDE DEF m
  <2> QED
    BY <1>1, <1>same, <2>3, <2>4, <2>5, SaveReplay
<1>5. ASSUME NEW p \in Procs, NEW m \in Manifest, Save(p, m),
             m.entry = manifest.entry, UNCHANGED <<computed, published, now>>
      PROVE  ReplayInv'
  BY <1>1, <1>5, <1>same, SaveReplay
<1>6. ASSUME NEW p \in Procs, SaveMetadata(p)
      PROVE  ReplayInv'
  <2> DEFINE m == [manifest EXCEPT !.marked = TRUE]
  <2>1. job[p].snap = manifest
    BY <1>6 DEF SaveMetadata, CopyCurrent
  <2>2. m \in Manifest /\ m.entry = manifest.entry
    BY DEF TypeInv, TypeOK, Manifest
  <2>3. Save(p, m) /\ UNCHANGED <<computed, published, now>>
    BY <1>6, <2>1 DEF SaveMetadata
  <2> HIDE DEF m
  <2> QED
    BY <1>5, <2>2, <2>3
<1>7. ASSUME NEW p \in Procs, SaveRebuilt(p)
      PROVE  ReplayInv'
  <2>1. job[p].snap = manifest /\ manifest \in Manifest
    BY <1>7 DEF SaveRebuilt, CopyCurrent, TypeInv, TypeOK
  <2> QED
    BY <1>5, <1>7, <2>1 DEF SaveRebuilt
<1>8. ASSUME NEW p \in Procs, FailWrite(p) \/ Crash(p)
      PROVE  ReplayInv'
  <2>1. NoJob.pc = "idle" /\ job' = [job EXCEPT ![p] = NoJob]
    BY <1>1, <1>8, EndsAlone DEF NoJob, FailWrite, Crash
  <2>2. UNCHANGED <<computed, manifest, published, now>>
    BY <1>8 DEF FailWrite, Crash
  <2> HIDE DEF NoJob
  <2> QED
    BY <1>1, <2>1, <2>2, QuietReplay
<1>9. CASE UNCHANGED vars
  BY <1>1, <1>9 DEF vars, CopyCurrent, ComputedPast, Stamp, WritesLast, LastFile,
     PublishedLast, CurrentPublished
<1>10. ~LoseManifest /\ \A p \in Procs : ~StartRebuild(p)
  BY DEF ManifestKept, LoseManifest, StartRebuild
<1> QED
  BY <1>1, <1>2, <1>3, <1>4, <1>6, <1>7, <1>8, <1>9, <1>10, OpenComputedReplay,
     CloseComputedReplay, SaveComputedReplay DEF Next, Step

(***************************************************************************)
(* The invariant holds as long as the manifest is neither lost nor rebuilt.*)
(***************************************************************************)
LEMMA ReplayInvHolds == ManifestKept => (Spec => []ReplayInv)
<1> SUFFICES ASSUME ManifestKept PROVE Spec => []ReplayInv
  OBVIOUS
<1>1. Init => ReplayInv
  <2> SUFFICES ASSUME Init PROVE ReplayInv
    OBVIOUS
  <2>1. TypeInv
    BY InitTypeInv
  <2>2. \A p \in Procs : job[p].pc = "idle"
    BY DEF Init, NoJob
  <2>3. /\ \A k \in Keys, v \in Versions : published[k][v] = NoStamp
        /\ \A k \in Keys, v \in Versions, s \in Stamps : computed[k][v][s] = "absent"
        /\ \A k \in Keys : manifest.entry[k].computed = NoStamp
    BY DEF Init, EmptyManifest, NoEntry
  <2> QED
    BY <2>1, <2>2, <2>3 DEF ReplayInv, CopyCurrent, ComputedPast, WritesLast,
       PublishedLast, CurrentPublished
<1> QED
  BY <1>1, NextReplayInv, PTL DEF Spec

(***************************************************************************)
(* F-024 for one process at a time: while the manifest is neither lost nor *)
(* rebuilt, a lookup of any version that was ever current returns the file *)
(* that was current then, whatever attempts failed or were killed, however *)
(* coarse the names and whatever was ingested in between.                  *)
(***************************************************************************)
THEOREM VersionsReplay ==
    ASSUME ManifestKept
    PROVE  Spec => []ReplayStable
BY ReplayInvHolds, ReplayInvStable, PTL

-----------------------------------------------------------------------------
(* The ledger *)

\* One process, and none of the circumstances the promises do not cover.
LedgerKept == Undisturbed /\ ManifestKept

LedgerInv == IngestInv /\ ReplayInv

archive == [k \in Keys |->
    {raw[k][s].csv : s \in {t \in Stamps : raw[k][t].st = "complete"}}]
canonical == [k \in Keys |->
    IF manifest.entry[k].raw = NoStamp THEN NoSha
    ELSE raw[k][manifest.entry[k].raw].csv]
version == [k \in Keys |-> manifest.entry[k].version]

(***************************************************************************)
(* The initial state is that of an empty ledger.                           *)
(***************************************************************************)
LEMMA LedgerInitially == Init => Ledger!LedgerInit
<1> SUFFICES ASSUME Init PROVE Ledger!LedgerInit
  OBVIOUS
<1>1. \A k \in Keys, s \in Stamps : raw[k][s].st = "absent"
  BY DEF Init, NoFile
<1>2. \A k \in Keys : /\ manifest.entry[k].raw = NoStamp
                      /\ manifest.entry[k].version = -1
  BY DEF Init, EmptyManifest, NoEntry, NoVersion
<1>3. archive = [k \in Keys |-> {}]
  <2>1. \A k \in Keys : {t \in Stamps : raw[k][t].st = "complete"} = {}
    BY <1>1
  <2> QED
    BY <2>1 DEF archive
<1> QED
  BY <1>2, <1>3 DEF archive, Ledger!LedgerInit

(***************************************************************************)
(* A step that changes neither the set of complete files nor the raw and   *)
(* version fields of the manifest leaves the ledger as it is.              *)
(***************************************************************************)
LEMMA LedgerStutters ==
    ASSUME \A k \in Keys, s \in Stamps : /\ raw[k][s].st = "complete" => raw'[k][s] = raw[k][s]
                                         /\ raw'[k][s].st = "complete" => raw[k][s].st = "complete",
           \A k \in Keys : /\ manifest.entry[k].raw # NoStamp =>
                                /\ manifest.entry[k].raw \in Stamps
                                /\ raw[k][manifest.entry[k].raw].st = "complete"
                           /\ manifest'.entry[k].raw = manifest.entry[k].raw
                           /\ manifest'.entry[k].version = manifest.entry[k].version
    PROVE  UNCHANGED Ledger!ledgerVars
<1>1. \A k \in Keys : archive'[k] = archive[k]
  BY DEF archive
<1>2. \A k \in Keys : canonical'[k] = canonical[k]
  BY DEF canonical
<1>3. archive' = archive
  BY <1>1 DEF archive
<1>4. canonical' = canonical
  BY <1>2 DEF canonical
<1>5. version' = version
  BY DEF version
<1> QED
  BY <1>3, <1>4, <1>5 DEF archive, canonical, version, Ledger!ledgerVars

(***************************************************************************)
(* What the invariant says of the entries of the manifest.                 *)
(***************************************************************************)
LEMMA EntriesNameFiles ==
    ASSUME LedgerInv, NEW k \in Keys
    PROVE  LET e == manifest.entry[k]
           IN  /\ e \in Entry
               /\ e.raw # NoStamp => /\ e.raw \in Stamps
                                     /\ raw[k][e.raw].st = "complete"
                                     /\ raw[k][e.raw].csv = e.sha
<1>1. manifest.entry[k] \in Entry /\ SoundEntry(raw, k, manifest.entry[k])
  BY DEF LedgerInv, IngestInv, TypeInv, TypeOK, Manifest, Sound
<1> QED
  BY <1>1 DEF SoundEntry, Entry

(***************************************************************************)
(* Creating a raw file retains nothing yet.                                *)
(***************************************************************************)
LEMMA OpenRawInLedger ==
    ASSUME LedgerKept, LedgerInv, [Next]_vars, NEW p \in Procs, OpenRaw(p)
    PROVE  UNCHANGED Ledger!ledgerVars
<1> USE DEF LedgerKept, LedgerInv
<1>1. \A k \in Keys, s \in Stamps :
        raw[k][s].st = "complete" => raw'[k][s] = raw[k][s]
  BY CompleteStays
<1>2. ASSUME NEW k \in Keys, NEW s \in Stamps, raw'[k][s].st = "complete"
      PROVE  raw[k][s].st = "complete"
  <2>1. PICK c : raw' = [raw EXCEPT ![job[p].key][Stamp(now)] =
                           [st |-> "torn", csv |-> c, mtime |-> now]]
    BY DEF OpenRaw
  <2>2. raw \in [Keys -> [Stamps -> RawFile]]
    BY DEF IngestInv, TypeInv, TypeOK
  <2> QED
    BY <1>2, <2>1, <2>2
<1>3. manifest' = manifest
  BY DEF OpenRaw
<1> QED
  BY <1>1, <1>2, <1>3, EntriesNameFiles, LedgerStutters

(***************************************************************************)
(* Closing it retains its content.                                         *)
(***************************************************************************)
LEMMA CloseRawInLedger ==
    ASSUME LedgerKept, LedgerInv, [Next]_vars, NEW p \in Procs, CloseRaw(p)
    PROVE  \E k \in Keys, c \in Csvs : Ledger!Store(k, c)
<1> USE DEF LedgerKept, LedgerInv
<1> DEFINE key == job[p].key
           file == job[p].file
           sha == job[p].sha
<1>1. /\ key \in Keys /\ file \in Stamps /\ raw[key][file].csv = sha
      /\ sha \in Csvs /\ raw \in [Keys -> [Stamps -> RawFile]]
  BY DEF CloseRaw, IngestInv, JobSound, TypeInv, TypeOK, Job
<1>2. raw' = [raw EXCEPT ![key][file] = [st |-> "complete", csv |-> sha, mtime |-> now]]
  BY <1>1 DEF CloseRaw
<1>3. manifest' = manifest
  BY DEF CloseRaw
<1>4. \A k \in Keys, s \in Stamps :
        raw[k][s].st = "complete" => raw'[k][s] = raw[k][s]
  BY CompleteStays
<1> HIDE DEF key, file, sha
<1>5. \A k \in Keys, s \in Stamps :
        raw'[k][s] = IF k = key /\ s = file
                     THEN [st |-> "complete", csv |-> sha, mtime |-> now]
                     ELSE raw[k][s]
  BY <1>1, <1>2
<1>6. \A k \in Keys \ {key} : archive'[k] = archive[k]
  BY <1>5 DEF archive
<1>7. archive'[key] = archive[key] \cup {sha}
  <2>1. archive'[key] = {raw'[key][s].csv : s \in {t \in Stamps : raw'[key][t].st = "complete"}}
    BY <1>1 DEF archive
  <2>2. archive[key] = {raw[key][s].csv : s \in {t \in Stamps : raw[key][t].st = "complete"}}
    BY <1>1 DEF archive
  <2>3. {t \in Stamps : raw'[key][t].st = "complete"} =
          {t \in Stamps : raw[key][t].st = "complete"} \cup {file}
    BY <1>1, <1>5
  <2>4. \A s \in Stamps : raw'[key][s].csv = raw[key][s].csv
    BY <1>1, <1>5
  <2>5. archive'[key] = {raw[key][s].csv : s \in {t \in Stamps : raw[key][t].st = "complete"} \cup {file}}
    BY <1>1, <2>1, <2>3, <2>4
  <2> QED
    BY <1>1, <2>2, <2>5
<1>8. archive' = [archive EXCEPT ![key] = @ \cup {sha}]
  BY <1>1, <1>6, <1>7 DEF archive
<1>9. ASSUME NEW k \in Keys PROVE canonical'[k] = canonical[k]
  BY <1>3, <1>4, EntriesNameFiles DEF canonical
<1>10. canonical' = canonical /\ version' = version
  BY <1>3, <1>9 DEF canonical, version
<1> QED
  BY <1>1, <1>8, <1>10 DEF archive, canonical, version, Ledger!Store

(***************************************************************************)
(* Saving the entry makes what is retained canonical, which it was not.    *)
(***************************************************************************)
LEMMA SaveRawInLedger ==
    ASSUME LedgerKept, LedgerInv, NEW p \in Procs, SaveRaw(p)
    PROVE  \E k \in Keys, c \in Csvs : Ledger!Promote(k, c)
<1> USE DEF LedgerKept, LedgerInv
<1> DEFINE key == job[p].key
           file == job[p].file
           sha == job[p].sha
           old == manifest.entry[key]
           e == IngestedEntry(old, sha, file)
<1>1. /\ key \in Keys /\ job[p].snap = manifest /\ manifest \in Manifest /\ old \in Entry
  BY DEF SaveRaw, IngestInv, TypeInv, TypeOK, Job, ReplayInv, CopyCurrent, Manifest
<1>2. /\ file \in Stamps /\ raw[key][file].csv = sha /\ raw[key][file].st = "complete"
      /\ sha \in Csvs /\ old.sha # sha
  BY <1>1, SMTT(30) DEF SaveRaw, IngestInv, JobSound
<1>3. manifest' = [manifest EXCEPT !.entry[key] = e] /\ raw' = raw
  <2> DEFINE m == [manifest EXCEPT !.entry[key] = e]
  <2>1. Save(p, m) /\ raw' = raw
    BY <1>1 DEF SaveRaw
  <2> HIDE DEF m
  <2>2. manifest' = m
    BY <2>1, SavesAlone DEF IngestInv, Undisturbed
  <2> QED
    BY <2>1, <2>2 DEF m
<1>4. /\ e.raw = file
      /\ e.version = IF old.version = -1 THEN 0 ELSE old.version
  BY DEF IngestedEntry, Present, NoVersion
<1>5. old.raw # NoStamp => raw[key][old.raw].csv = old.sha
  BY <1>1, EntriesNameFiles
<1>6. file # NoStamp /\ sha # NoSha
  BY <1>2, ShaAssumption DEF Stamps, NoStamp
<1> HIDE DEF e
<1>7. \A k \in Keys : manifest'.entry[k] = IF k = key THEN e ELSE manifest.entry[k]
  BY <1>1, <1>3 DEF Manifest
<1> HIDE DEF key, file, sha
<1>8. sha \in archive[key] \ {canonical[key]}
  <2>1. sha \in archive[key]
    BY <1>1, <1>2 DEF archive
  <2>2. sha # canonical[key]
    BY <1>1, <1>2, <1>5, <1>6 DEF canonical
  <2> QED
    BY <2>1, <2>2
<1>9. archive' = archive
  BY <1>3 DEF archive
<1>10. canonical' = [canonical EXCEPT ![key] = sha]
  <2>1. \A k \in Keys : canonical'[k] = IF k = key THEN sha ELSE canonical[k]
    BY <1>2, <1>3, <1>4, <1>6, <1>7 DEF canonical
  <2> QED
    BY <1>1, <2>1 DEF canonical
<1>11. version' = [version EXCEPT ![key] = IF @ = -1 THEN 0 ELSE @]
  <2>1. \A k \in Keys : version'[k] = IF k # key THEN version[k]
                                      ELSE IF version[k] = -1 THEN 0 ELSE version[k]
    BY <1>4, <1>7 DEF version
  <2> QED
    BY <1>1, <2>1 DEF version
<1> QED
  BY <1>1, <1>2, <1>8, <1>9, <1>10, <1>11
     DEF archive, canonical, version, Ledger!Promote

(***************************************************************************)
(* Saving a computed version is an adjustment of its key.                  *)
(***************************************************************************)
LEMMA SaveComputedInLedger ==
    ASSUME LedgerKept, LedgerInv, NEW p \in Procs, SaveComputed(p)
    PROVE  \E k \in Keys : Ledger!Adjust(k)
<1> USE DEF LedgerKept, LedgerInv
<1> DEFINE key == job[p].key
           old == manifest.entry[key]
           e == ComputedEntry(old, job[p].file)
<1>1. /\ key \in Keys /\ job[p].snap = manifest /\ manifest \in Manifest /\ old \in Entry
  BY DEF SaveComputed, IngestInv, TypeInv, TypeOK, Job, ReplayInv, CopyCurrent, Manifest
<1>2. manifest' = [manifest EXCEPT !.entry[key] = e] /\ raw' = raw
  <2> DEFINE m == [manifest EXCEPT !.entry[key] = e]
  <2>1. Save(p, m) /\ raw' = raw
    BY <1>1 DEF SaveComputed
  <2> HIDE DEF m
  <2>2. manifest' = m
    BY <2>1, SavesAlone DEF IngestInv, Undisturbed
  <2> QED
    BY <2>1, <2>2 DEF m
<1>3. e.raw = old.raw /\ e.version = old.version + 1
  BY <1>1 DEF ComputedEntry, Entry, NewVersion
<1> HIDE DEF e
<1>4. \A k \in Keys : manifest'.entry[k] = IF k = key THEN e ELSE manifest.entry[k]
  BY <1>1, <1>2 DEF Manifest
<1> HIDE DEF key
<1>5. archive' = archive
  BY <1>2 DEF archive
<1>6. \A k \in Keys : canonical'[k] = canonical[k]
  BY <1>2, <1>3, <1>4 DEF canonical
<1>7. canonical' = canonical
  BY <1>6 DEF canonical
<1>8. \A k \in Keys : version'[k] = IF k = key THEN version[k] + 1 ELSE version[k]
  BY <1>3, <1>4 DEF version
<1>9. version' = [version EXCEPT ![key] = @ + 1]
  BY <1>1, <1>8 DEF version
<1> QED
  BY <1>1, <1>5, <1>7, <1>9 DEF archive, canonical, version, Ledger!Adjust

(***************************************************************************)
(* For one process at a time, whatever fails or is killed, psx_ingest.py   *)
(* implements the ledger of CanonicalLedger: closing a raw file stores its *)
(* content, saving its entry makes it canonical, saving a computed version *)
(* adjusts one key, and every other step is invisible.                     *)
(***************************************************************************)
THEOREM IngestImplementsLedger ==
    ASSUME LedgerKept
    PROVE  Spec => ImplementsLedger
<1>1. Spec => []LedgerInv
  <2>1. Spec => []IngestInv
    BY InitIngestInv, NextIngestInv, PTL DEF Spec, LedgerKept
  <2>2. Spec => []ReplayInv
    BY ReplayInvHolds DEF LedgerKept
  <2> QED
    BY <2>1, <2>2, PTL DEF LedgerInv
<1>2. ASSUME LedgerInv, [Next]_vars
      PROVE  [Ledger!LedgerNext]_(Ledger!ledgerVars)
  <2>1. ASSUME UNCHANGED <<raw, manifest>>
        PROVE  UNCHANGED Ledger!ledgerVars
    BY <1>2, <2>1, EntriesNameFiles, LedgerStutters
  <2>2. ASSUME NEW p \in Procs, CloseRaw(p) \/ SaveRaw(p) \/ SaveComputed(p)
        PROVE  Ledger!LedgerNext
    BY <1>2, <2>2, CloseRawInLedger, SaveRawInLedger, SaveComputedInLedger
       DEF Ledger!LedgerNext
  <2>3. ASSUME NEW p \in Procs, SaveMetadata(p)
        PROVE  UNCHANGED Ledger!ledgerVars
    <3>1. job[p].snap = manifest /\ manifest \in Manifest
      BY <1>2, <2>3 DEF SaveMetadata, LedgerInv, ReplayInv, CopyCurrent, TypeInv, TypeOK
    <3>2. raw' = raw /\ manifest'.entry = manifest.entry
      <4> DEFINE m == [manifest EXCEPT !.marked = TRUE]
      <4>1. Save(p, m) /\ raw' = raw /\ m.entry = manifest.entry
        BY <2>3, <3>1 DEF SaveMetadata, Manifest
      <4> HIDE DEF m
      <4> QED
        BY <1>2, <4>1, SavesAlone DEF LedgerInv, IngestInv, LedgerKept, Undisturbed
    <3> QED
      BY <1>2, <3>2, EntriesNameFiles, LedgerStutters
  <2>4. ASSUME NEW p \in Procs, SaveRebuilt(p)
        PROVE  UNCHANGED <<raw, manifest>>
    BY <1>2, <2>4, SavesAlone DEF SaveRebuilt, LedgerInv, IngestInv, ReplayInv,
       CopyCurrent, LedgerKept, Undisturbed
  <2>5. ~LoseManifest /\ \A p \in Procs : ~StartRebuild(p)
    BY DEF LedgerKept, ManifestKept, LoseManifest, StartRebuild
  <2> QED
    BY <1>2, <2>1, <2>2, <2>3, <2>4, <2>5, OpenRawInLedger
       DEF Next, Step, StartIngest, StartComputed, OpenComputed, CloseComputed,
           StartMetadata, FailWrite, Crash, vars
<1> QED
  BY <1>1, <1>2, LedgerInitially, PTL DEF Spec, ImplementsLedger, Ledger!LedgerSpec

-----------------------------------------------------------------------------
(* Recovery *)

\* Raw file s of key k exists, and is younger than every file named before it.
LastWritten(k, s) ==
    /\ s \in RawFiles(k)
    /\ \A t \in RawFiles(k) : t < s => raw[k][t].mtime < raw[k][s].mtime

\* No raw file has a name or a time that is still to come.
RawPast ==
    \A k \in Keys : \A s \in RawFiles(k) : s <= Stamp(now) /\ raw[k][s].mtime <= now

\* The file of an ingest is the last of its key by name, and once it is closed
\* also by time.
WritesNewest ==
    \A p \in Procs :
        LET k == job[p].key
            f == job[p].file
        IN  /\ job[p].pc \in {"closeRaw", "saveRaw"} =>
                 f \in RawFiles(k) /\ \A t \in RawFiles(k) : t <= f
            /\ job[p].pc = "closeRaw" =>
                 \A t \in RawFiles(k) : t # f => raw[k][t].mtime < now
            /\ job[p].pc = "saveRaw" => LastWritten(k, f)

\* Every file that was ever canonical was the last of its key.
NamedInOrder == \A k \in Keys : \A s \in named[k] : LastWritten(k, s)

\* Manifest m names files of which none that was ever canonical is later.
NamesLast(m) ==
    \A k \in Keys :
        LET s == m.entry[k].raw
        IN  s # NoStamp => LastWritten(k, s) /\ \A t \in named[k] : t <= s

(***************************************************************************)
(* The inductive invariant.  It orders the files by the two measures the   *)
(* code uses, their names and their times, without relating the two but    *)
(* for the files that became canonical: those are in the same order.       *)
(***************************************************************************)
RecoveryInv ==
    /\ TypeInv
    /\ RawPast
    /\ WritesNewest
    /\ NamedInOrder
    /\ NamesLast(manifest)
    /\ \A p \in Procs : NamesLast(job[p].snap)

(***************************************************************************)
(* The time of a file is a moment.                                         *)
(***************************************************************************)
LEMMA MtimeType ==
    ASSUME NEW r \in [Keys -> [Stamps -> RawFile]], NEW k \in Keys, NEW s \in Stamps
    PROVE  r[k][s].mtime \in Int
<1>1. r[k][s] \in RawFile
  OBVIOUS
<1> QED
  BY <1>1 DEF RawFile, Stamps

(***************************************************************************)
(* What a rebuild chooses is not older by name than a file that was the    *)
(* last of its key when it was written.                                    *)
(***************************************************************************)
LEMMA RebuiltNotOlder ==
    ASSUME TypeOK, NEW k \in Keys, NEW s, LastWritten(k, s)
    PROVE  LET r == RebuiltEntry(k).raw
           IN  r \in RawFiles(k) /\ s <= r
<1> DEFINE r == Latest(k, RawFiles(k))
<1>1. RawFiles(k) \subseteq Stamps /\ s \in RawFiles(k)
  BY DEF RawFiles, LastWritten
<1>2. r \in RawFiles(k) /\ \/ raw[k][s].mtime < raw[k][r].mtime
                           \/ raw[k][s].mtime = raw[k][r].mtime /\ r <= s
  BY <1>1, LatestExists DEF TypeOK
<1>3. RebuiltEntry(k).raw = r
  BY <1>1 DEF RebuiltEntry
<1> HIDE DEF r
<1>4. /\ r \in Int /\ s \in Int
      /\ raw[k][r].mtime \in Int /\ raw[k][s].mtime \in Int
  <2>1. r \in Stamps /\ s \in Stamps
    BY <1>1, <1>2
  <2> QED
    BY <2>1, MtimeType DEF TypeOK, Stamps
<1>5. ~(r < s)
  BY <1>2, <1>4 DEF LastWritten
<1> QED
  BY <1>2, <1>3, <1>4, <1>5

(***************************************************************************)
(* What the invariant promises when no operation is under way.             *)
(***************************************************************************)
LEMMA RecoveryInvAgrees == RecoveryInv => RebuildAgrees
<1> SUFFICES ASSUME RecoveryInv, NEW k \in Keys, manifest.entry[k].raw # NoStamp
             PROVE  LET e == manifest.entry[k]
                        r == RebuiltEntry(k)
                    IN  r.raw = e.raw \/ (e.raw < r.raw /\ r.raw \notin named[k])
  BY DEF RebuildAgrees
<1> DEFINE s == manifest.entry[k].raw
           r == RebuiltEntry(k).raw
<1>1. LastWritten(k, s) /\ \A t \in named[k] : t <= s
  BY DEF RecoveryInv, NamesLast
<1>2. r \in RawFiles(k) /\ s \in RawFiles(k) /\ s <= r
  BY <1>1, RebuiltNotOlder DEF RecoveryInv, TypeInv, LastWritten
<1>3. r \in Int /\ s \in Int
  BY <1>2 DEF RawFiles, Stamps
<1> QED
  BY <1>1, <1>2, <1>3

(***************************************************************************)
(* A step that changes no raw file and leaves the process without one of   *)
(* its own, with a copy that names the last raw files.                     *)
(***************************************************************************)
LEMMA QuietRecovery ==
    ASSUME OneProcess, RecoveryInv, TypeInv', NEW p \in Procs, NEW j,
           job' = [job EXCEPT ![p] = j],
           j.pc \notin {"closeRaw", "saveRaw"},
           NamesLast(j.snap), now' \in {now, now + 1},
           UNCHANGED <<raw, manifest, named>>
    PROVE  RecoveryInv'
<1> USE DEF RecoveryInv
<1>1. \A q \in Procs : job'[q] = j
  BY DEF OneProcess, TypeInv, TypeOK
<1>2. \A k \in Keys : RawFiles(k)' = RawFiles(k)
  BY DEF RawFiles
<1>3. RawPast'
  <2>1. now \in Stamps /\ now' \in Stamps /\ now <= now'
    BY DEF TypeInv, TypeOK, Stamps
  <2>2. Stamp(now) <= Stamp(now') /\ Stamp(now) \in Int /\ Stamp(now') \in Int
    BY <2>1, StampMonotone, StampInRange DEF Stamps
  <2>3. ASSUME NEW k \in Keys, NEW s \in RawFiles(k)
        PROVE  s <= Stamp(now') /\ raw[k][s].mtime <= now'
    <3>1. s \in Int /\ raw[k][s].mtime \in Int
      <4>1. s \in Stamps
        BY DEF RawFiles
      <4> QED
        <5>1. raw \in [Keys -> [Stamps -> RawFile]]
          BY DEF TypeInv, TypeOK
        <5> QED
          BY <4>1, <5>1, MtimeType DEF Stamps
    <3>2. s <= Stamp(now) /\ raw[k][s].mtime <= now
      BY DEF RawPast
    <3> QED
      BY <2>1, <2>2, <3>1, <3>2 DEF Stamps
  <2>4. Stamp(now') = Stamp(now)'
    OBVIOUS
  <2> QED
    BY <1>2, <2>3, <2>4 DEF RawPast
<1>4. WritesNewest'
  BY <1>1 DEF WritesNewest
<1>5. \A k \in Keys : \A s : LastWritten(k, s) => LastWritten(k, s)'
  BY <1>2 DEF LastWritten
<1>6. NamedInOrder'
  BY <1>5 DEF NamedInOrder
<1>7. ASSUME NEW m, NamesLast(m) PROVE NamesLast(m)'
  BY <1>5, <1>7 DEF NamesLast
<1>8. NamesLast(manifest)' /\ \A q \in Procs : NamesLast(job[q].snap)'
  BY <1>1, <1>7 DEF NamesLast
<1> QED
  BY <1>3, <1>4, <1>6, <1>8

(***************************************************************************)
(* Any operation that ends by saving a manifest which names the last raw   *)
(* files: they are then files that were canonical.                         *)
(***************************************************************************)
LEMMA SaveRecovery ==
    ASSUME OneProcess, RecoveryInv, TypeInv', NEW p \in Procs,
           NEW m, NamesLast(m), Save(p, m), UNCHANGED <<raw, now>>
    PROVE  RecoveryInv'
<1> USE DEF RecoveryInv
<1>1. manifest' = m /\ job' = [job EXCEPT ![p] = NoJob]
  BY SavesAlone
<1>2. NoJob.pc = "idle" /\ NoJob.snap = EmptyManifest
  BY DEF NoJob
<1>3. \A q \in Procs : job'[q] = NoJob
  BY <1>1 DEF OneProcess, TypeInv, TypeOK
<1>4. \A k \in Keys : named'[k] = named[k] \cup ({m.entry[k].raw} \ {NoStamp})
  BY <1>1 DEF Save
<1>5. RawPast' /\ WritesNewest'
  BY <1>2, <1>3 DEF RawPast, RawFiles, Stamp, WritesNewest
<1>6. \A k \in Keys : \A s : LastWritten(k, s) => LastWritten(k, s)'
  BY DEF LastWritten, RawFiles
<1>7. NamedInOrder'
  BY <1>4, <1>6 DEF NamedInOrder, NamesLast
<1>8. NamesLast(manifest)'
  <2> SUFFICES ASSUME NEW k \in Keys, m.entry[k].raw # NoStamp
               PROVE  /\ LastWritten(k, m.entry[k].raw)'
                      /\ \A t \in named'[k] : t <= m.entry[k].raw
    BY <1>1 DEF NamesLast
  <2>1. LastWritten(k, m.entry[k].raw) /\ \A t \in named[k] : t <= m.entry[k].raw
    BY DEF NamesLast
  <2>2. m.entry[k].raw \in Int
    BY <2>1 DEF LastWritten, RawFiles, Stamps
  <2> QED
    BY <1>4, <1>6, <2>1, <2>2
<1>9. \A q \in Procs : NamesLast(job[q].snap)'
  BY <1>2, <1>3 DEF NamesLast, EmptyManifest, NoEntry
<1> QED
  BY <1>5, <1>7, <1>8, <1>9

(***************************************************************************)
(* Writing to the file that is the last of its key by name keeps every     *)
(* file that was the last when it was written so.                          *)
(***************************************************************************)
LEMMA WriteKeepsLast ==
    ASSUME TypeOK, NEW key \in Keys, NEW file \in Stamps,
           \A t \in RawFiles(key) : t <= file /\ raw[key][t].mtime <= now,
           NEW f, f.st # "absent", f.mtime = now,
           raw' = [raw EXCEPT ![key][file] = f]
    PROVE  /\ RawFiles(key)' = RawFiles(key) \cup {file}
           /\ \A k \in Keys : \A s : LastWritten(k, s) => LastWritten(k, s)'
<1>1. \A k \in Keys, s \in Stamps :
        raw'[k][s] = IF k = key /\ s = file THEN f ELSE raw[k][s]
  BY DEF TypeOK
<1>2. RawFiles(key)' = RawFiles(key) \cup {file}
  BY <1>1 DEF RawFiles
<1>3. ASSUME NEW k \in Keys, NEW s, LastWritten(k, s)
      PROVE  LastWritten(k, s)'
  <2>1. CASE k # key
    BY <1>1, <1>3, <2>1 DEF LastWritten, RawFiles
  <2>2. CASE k = key
    <3>1. s \in RawFiles(key) /\ s \in Stamps /\ s <= file
      BY <1>3, <2>2 DEF LastWritten, RawFiles
    <3>2. ASSUME NEW t \in RawFiles(key)', t < s
          PROVE  raw'[key][t].mtime < raw'[key][s].mtime
      <4>1. t # file /\ t \in RawFiles(key) /\ t \in Stamps
        BY <1>2, <3>1, <3>2 DEF Stamps, RawFiles
      <4>2. raw'[key][t] = raw[key][t] /\ raw[key][t].mtime < raw[key][s].mtime
        BY <1>1, <1>3, <2>2, <3>2, <4>1 DEF LastWritten
      <4>3. /\ raw[key][t].mtime \in Int /\ raw[key][s].mtime \in Int
            /\ now \in Int /\ raw[key][s].mtime <= now
        <5>1. raw \in [Keys -> [Stamps -> RawFile]] /\ now \in Int
          BY DEF TypeOK, Stamps
        <5>2. raw[key][t].mtime \in Int /\ raw[key][s].mtime \in Int
          BY <3>1, <4>1, <5>1, MtimeType
        <5> QED
          BY <3>1, <5>1, <5>2
      <4>4. raw'[key][s] = IF s = file THEN f ELSE raw[key][s]
        BY <1>1, <3>1
      <4> QED
        BY <4>2, <4>3, <4>4
    <3> QED
      BY <1>2, <2>2, <3>1, <3>2 DEF LastWritten
  <2> QED
    BY <2>1, <2>2
<1> QED
  BY <1>2, <1>3

(***************************************************************************)
(* An ingest creates its file, or truncates one it wrote in the same       *)
(* second: no file has a later name.                                       *)
(***************************************************************************)
LEMMA OpenRawRecovery ==
    ASSUME OneProcess, RecoveryInv, TypeInv', NEW p \in Procs, OpenRaw(p)
    PROVE  RecoveryInv'
<1> USE DEF RecoveryInv
<1>0. PICK key \in Keys, file \in Stamps : key = job[p].key /\ file = Stamp(now)
  BY StampInRange DEF OpenRaw, TypeInv, TypeOK, Job
<1>1. /\ now \in Stamps /\ now' = now + 1 /\ now' \in Stamps /\ job[p] \in Job
  BY DEF OpenRaw, TypeInv, TypeOK
<1>2. PICK f : /\ raw' = [raw EXCEPT ![key][file] = f]
               /\ f.st = "torn" /\ f.mtime = now
  <2>1. PICK c : raw' = [raw EXCEPT ![key][file] =
                           [st |-> "torn", csv |-> c, mtime |-> now]]
    BY <1>0 DEF OpenRaw
  <2> DEFINE f == [st |-> "torn", csv |-> c, mtime |-> now]
  <2>2. f.st = "torn" /\ f.mtime = now /\ raw' = [raw EXCEPT ![key][file] = f]
    BY <2>1
  <2> HIDE DEF f
  <2> QED
    BY <2>2
<1>3. \A q \in Procs : /\ job'[q].pc = "closeRaw" /\ job'[q].key = key
                       /\ job'[q].file = file /\ job'[q].snap = job[q].snap
  BY <1>0, <1>1 DEF OpenRaw, OneProcess, TypeInv, TypeOK, Job
<1>4. manifest' = manifest /\ named' = named
  BY DEF OpenRaw
<1>5. file <= Stamp(now') /\ Stamp(now') \in Stamps
  BY <1>0, <1>1, StampMonotone, StampInRange DEF Stamps
<1>6. \A k \in Keys : \A t \in RawFiles(k) : t <= file /\ raw[k][t].mtime <= now
  BY <1>0 DEF RawPast
<1>7. /\ RawFiles(key)' = RawFiles(key) \cup {file}
      /\ \A k \in Keys : \A s : LastWritten(k, s) => LastWritten(k, s)'
  BY <1>1, <1>2, <1>6, WriteKeepsLast DEF TypeInv
<1>8. \A k \in Keys, s \in Stamps :
        raw'[k][s] = IF k = key /\ s = file THEN f ELSE raw[k][s]
  BY <1>1, <1>2 DEF TypeInv, TypeOK
<1>9. ASSUME NEW k \in Keys, NEW t \in RawFiles(k)'
      PROVE  t \in Stamps /\ t <= file /\ raw'[k][t].mtime <= now
  <2>1. t \in Stamps /\ raw'[k][t].st # "absent"
    BY DEF RawFiles
  <2>2. CASE k = key /\ t = file
    BY <1>1, <1>2, <1>8, <2>1, <2>2 DEF Stamps
  <2>3. CASE ~(k = key /\ t = file)
    BY <1>6, <1>8, <2>1, <2>3 DEF RawFiles
  <2> QED
    BY <2>1, <2>2, <2>3
<1>10. \A k \in Keys : \A t \in RawFiles(k)' : raw'[k][t].mtime \in Int
  <2>1. \A k \in Keys, t \in Stamps : raw'[k][t].mtime \in Int
    BY MtimeType DEF TypeInv, TypeOK
  <2> QED
    BY <1>9, <2>1
<1>11. RawPast'
  <2>1. \A k \in Keys : \A t \in RawFiles(k)' :
          t <= Stamp(now') /\ raw'[k][t].mtime <= now'
    BY <1>1, <1>5, <1>9, <1>10 DEF Stamps
  <2> QED
    BY <2>1 DEF RawPast, Stamp
<1>12. WritesNewest'
  <2>1. file \in RawFiles(key)' /\ \A t \in RawFiles(key)' : t <= file
    BY <1>1, <1>7, <1>9
  <2>2. \A t \in RawFiles(key)' : raw'[key][t].mtime < now'
    BY <1>1, <1>9, <1>10 DEF Stamps
  <2> QED
    BY <1>3, <2>1, <2>2 DEF WritesNewest
<1>13. NamedInOrder'
  BY <1>4, <1>7 DEF NamedInOrder
<1>14. ASSUME NEW m, NamesLast(m) PROVE NamesLast(m)'
  BY <1>4, <1>7, <1>14 DEF NamesLast
<1>15. NamesLast(manifest)' /\ \A q \in Procs : NamesLast(job[q].snap)'
  BY <1>3, <1>4, <1>14 DEF NamesLast
<1> QED
  BY <1>11, <1>12, <1>13, <1>15

(***************************************************************************)
(* It closes the file, which then is the last of its key by time as well.  *)
(***************************************************************************)
LEMMA CloseRawRecovery ==
    ASSUME OneProcess, RecoveryInv, TypeInv', NEW p \in Procs, CloseRaw(p)
    PROVE  RecoveryInv'
<1> USE DEF RecoveryInv
<1>0. PICK key \in Keys, file \in Stamps, f \in RawFile :
        /\ key = job[p].key /\ file = job[p].file
        /\ f = [st |-> "complete", csv |-> raw[key][file].csv, mtime |-> now]
  <2>1. job[p].key \in Keys /\ job[p].file \in Stamps
    BY DEF CloseRaw, WritesNewest, RawFiles, TypeInv, TypeOK, Job
  <2>2. now \in Stamps /\ raw[job[p].key][job[p].file].csv \in Csvs \cup {NoSha}
    BY <2>1 DEF TypeInv, TypeOK, RawFile
  <2> QED
    BY <2>1, <2>2 DEF RawFile, FileState
<1>1. now \in Stamps /\ now' = now /\ job[p] \in Job
  BY DEF CloseRaw, TypeInv, TypeOK
<1>2. /\ file \in RawFiles(key)
      /\ \A t \in RawFiles(key) : /\ t <= file /\ raw[key][t].mtime <= now
                                  /\ t # file => raw[key][t].mtime < now
  BY <1>0 DEF CloseRaw, WritesNewest, RawPast
<1>3. raw' = [raw EXCEPT ![key][file] = f] /\ manifest' = manifest /\ named' = named
  BY <1>0 DEF CloseRaw
<1>4. f.st = "complete" /\ f.mtime = now
  BY <1>0
<1>5. \A q \in Procs : /\ job'[q].pc = "saveRaw" /\ job'[q].key = key
                       /\ job'[q].file = file /\ job'[q].snap = job[q].snap
  BY <1>0, <1>1 DEF CloseRaw, OneProcess, TypeInv, TypeOK, Job
<1>6. /\ RawFiles(key)' = RawFiles(key) \cup {file}
      /\ \A k \in Keys : \A s : LastWritten(k, s) => LastWritten(k, s)'
  BY <1>1, <1>2, <1>3, <1>4, WriteKeepsLast DEF TypeInv
<1>7. \A k \in Keys, s \in Stamps :
        raw'[k][s] = IF k = key /\ s = file THEN f ELSE raw[k][s]
  BY <1>1, <1>2, <1>3 DEF TypeInv, TypeOK
<1>8. RawPast'
  <2> SUFFICES ASSUME NEW k \in Keys, NEW s \in RawFiles(k)'
               PROVE  s <= Stamp(now) /\ raw'[k][s].mtime <= now
    BY <1>1 DEF RawPast, Stamp
  <2>1. s \in Stamps /\ raw'[k][s].st # "absent"
    BY DEF RawFiles
  <2>2. CASE k = key /\ s = file
    BY <1>1, <1>2, <1>4, <1>7, <2>1, <2>2 DEF RawPast, Stamps
  <2>3. CASE ~(k = key /\ s = file)
    BY <1>7, <2>1, <2>3 DEF RawPast, RawFiles
  <2> QED
    BY <2>2, <2>3
<1>9. WritesNewest'
  <2>1. file \in RawFiles(key)' /\ \A t \in RawFiles(key)' : t <= file
    BY <1>2, <1>6
  <2>2. ASSUME NEW t \in RawFiles(key)', t < file
        PROVE  raw'[key][t].mtime < raw'[key][file].mtime
    <3>1. t # file /\ t \in RawFiles(key) /\ t \in Stamps
      BY <1>2, <1>6, <2>2 DEF Stamps, RawFiles
    <3> QED
      BY <1>1, <1>2, <1>4, <1>7, <3>1
  <2> QED
    BY <1>5, <2>1, <2>2 DEF WritesNewest, LastWritten
<1>10. NamedInOrder'
  BY <1>3, <1>6 DEF NamedInOrder
<1>11. ASSUME NEW m, NamesLast(m) PROVE NamesLast(m)'
  BY <1>3, <1>6, <1>11 DEF NamesLast
<1>12. NamesLast(manifest)' /\ \A q \in Procs : NamesLast(job[q].snap)'
  BY <1>3, <1>5, <1>11 DEF NamesLast
<1> QED
  BY <1>8, <1>9, <1>10, <1>12

(***************************************************************************)
(* It saves its entry, which names that file; the entries of other keys    *)
(* come from its copy.                                                     *)
(***************************************************************************)
LEMMA SaveRawRecovery ==
    ASSUME OneProcess, RecoveryInv, TypeInv', NEW p \in Procs, SaveRaw(p)
    PROVE  RecoveryInv'
<1> USE DEF RecoveryInv
<1> DEFINE key == job[p].key
           file == job[p].file
           snap == job[p].snap
           e == IngestedEntry(snap.entry[key], job[p].sha, file)
           m == [snap EXCEPT !.entry[key] = e]
<1>1. key \in Keys /\ snap \in Manifest
  BY DEF TypeInv, TypeOK, Job
<1>2. Save(p, m) /\ UNCHANGED <<raw, now>> /\ job[p].pc = "saveRaw"
  BY DEF SaveRaw
<1>3. e.raw = file
  BY DEF IngestedEntry
<1>4. LastWritten(key, file) /\ \A t \in RawFiles(key) : t <= file
  BY <1>2 DEF WritesNewest
<1>5. \A t \in named[key] : t <= file
  BY <1>1, <1>4 DEF NamedInOrder, LastWritten
<1>6. NamesLast(snap)
  OBVIOUS
<1> HIDE DEF e, key, file, snap
<1>7. \A k \in Keys : m.entry[k] = IF k = key THEN e ELSE snap.entry[k]
  BY <1>1 DEF Manifest
<1> HIDE DEF m
<1>8. NamesLast(m)
  BY <1>3, <1>4, <1>5, <1>6, <1>7 DEF NamesLast
<1> QED
  BY <1>2, <1>8, SaveRecovery

(***************************************************************************)
(* A rebuild names the last file of every key that has one: none that was  *)
(* ever canonical is later.                                                *)
(***************************************************************************)
LEMMA RebuiltNamesLast ==
    ASSUME RecoveryInv, NEW m, m.entry = [k \in Keys |-> RebuiltEntry(k)]
    PROVE  NamesLast(m)
<1> USE DEF RecoveryInv
<1> SUFFICES ASSUME NEW k \in Keys, RebuiltEntry(k).raw # NoStamp
             PROVE  /\ LastWritten(k, RebuiltEntry(k).raw)
                    /\ \A t \in named[k] : t <= RebuiltEntry(k).raw
  BY DEF NamesLast
<1>1. RawFiles(k) \subseteq Stamps /\ RawFiles(k) # {}
  BY DEF RawFiles, RebuiltEntry, NoEntry
<1> DEFINE r == Latest(k, RawFiles(k))
<1>2. RebuiltEntry(k).raw = r
  BY <1>1 DEF RebuiltEntry
<1>3. r \in RawFiles(k) /\ \A t \in RawFiles(k) :
        \/ raw[k][t].mtime < raw[k][r].mtime
        \/ raw[k][t].mtime = raw[k][r].mtime /\ r <= t
  BY <1>1, LatestExists DEF TypeInv, TypeOK
<1> HIDE DEF r
<1>4. LastWritten(k, r)
  <2> SUFFICES ASSUME NEW t \in RawFiles(k), t < r
               PROVE  raw[k][t].mtime < raw[k][r].mtime
    BY <1>3 DEF LastWritten
  <2>1. t \in Int /\ r \in Int
    BY <1>1, <1>3 DEF Stamps
  <2> QED
    BY <1>3, <2>1
<1>5. \A t \in named[k] : t <= r
  BY <1>2, RebuiltNotOlder DEF NamedInOrder, TypeInv
<1> QED
  BY <1>2, <1>4, <1>5

(***************************************************************************)
(* Every step of the one process, and the loss of the manifest at any      *)
(* time, keep the invariant.                                               *)
(***************************************************************************)
LEMMA NextRecoveryInv == OneProcess /\ RecoveryInv /\ [Next]_vars => RecoveryInv'
<1> SUFFICES ASSUME OneProcess, RecoveryInv, [Next]_vars PROVE RecoveryInv'
  OBVIOUS
<1>1. TypeInv'
  BY NextTypeInv DEF RecoveryInv
<1>2. NamesLast(manifest) /\ \A p \in Procs : NamesLast(job[p].snap)
  BY DEF RecoveryInv
<1>3. ASSUME NEW p \in Procs, NEW k \in Keys, NEW c \in Csvs, StartIngest(p, k, c)
      PROVE  RecoveryInv'
  <2> DEFINE j == [NoJob EXCEPT !.pc = "openRaw", !.key = k, !.sha = c,
                                !.snap = manifest]
  <2>1. j.pc = "openRaw" /\ j.snap = manifest
    BY DEF NoJob
  <2>2. job' = [job EXCEPT ![p] = j] /\ UNCHANGED <<raw, manifest, named, now>>
    BY <1>3 DEF StartIngest
  <2> HIDE DEF j
  <2> QED
    BY <1>1, <1>2, <2>1, <2>2, QuietRecovery
<1>4. ASSUME NEW p \in Procs, NEW k \in Keys, StartComputed(p, k)
      PROVE  RecoveryInv'
  <2> DEFINE j == [NoJob EXCEPT !.pc = "openComputed", !.key = k, !.snap = manifest]
  <2>1. j.pc = "openComputed" /\ j.snap = manifest
    BY DEF NoJob
  <2>2. job' = [job EXCEPT ![p] = j] /\ UNCHANGED <<raw, manifest, named, now>>
    BY <1>4 DEF StartComputed
  <2> HIDE DEF j
  <2> QED
    BY <1>1, <1>2, <2>1, <2>2, QuietRecovery
<1>5. ASSUME NEW p \in Procs, StartMetadata(p)
      PROVE  RecoveryInv'
  <2> DEFINE j == [NoJob EXCEPT !.pc = "saveMetadata", !.snap = manifest]
  <2>1. j.pc = "saveMetadata" /\ j.snap = manifest
    BY DEF NoJob
  <2>2. job' = [job EXCEPT ![p] = j] /\ UNCHANGED <<raw, manifest, named, now>>
    BY <1>5 DEF StartMetadata
  <2> HIDE DEF j
  <2> QED
    BY <1>1, <1>2, <2>1, <2>2, QuietRecovery
<1>6. ASSUME NEW p \in Procs, StartRebuild(p)
      PROVE  RecoveryInv'
  <2> DEFINE m == [entry |-> [k \in Keys |-> RebuiltEntry(k)],
                   marked |-> FALSE, whole |-> TRUE]
             j == [NoJob EXCEPT !.pc = "saveRebuilt", !.snap = m]
  <2>1. j.pc = "saveRebuilt" /\ j.snap = m
    BY DEF NoJob
  <2>2. job' = [job EXCEPT ![p] = j] /\ UNCHANGED <<raw, manifest, named, now>>
    BY <1>6 DEF StartRebuild
  <2>3. NamesLast(m)
    <3>1. m.entry = [k \in Keys |-> RebuiltEntry(k)]
      OBVIOUS
    <3> HIDE DEF m
    <3> QED BY <3>1, RebuiltNamesLast
  <2> HIDE DEF j, m
  <2> QED
    BY <1>1, <2>1, <2>2, <2>3, QuietRecovery
<1>7. ASSUME NEW p \in Procs, OpenComputed(p) \/ CloseComputed(p)
      PROVE  RecoveryInv'
  <2>1. PICK j : /\ job' = [job EXCEPT ![p] = j] /\ j.snap = job[p].snap
                 /\ j.pc \in {"closeComputed", "saveComputed"}
    <3> DEFINE o == [job[p] EXCEPT !.pc = "closeComputed", !.file = Stamp(now)]
               c == [job[p] EXCEPT !.pc = "saveComputed"]
    <3>1. job[p] \in Job
      BY DEF RecoveryInv, TypeInv, TypeOK
    <3>2. /\ o.pc = "closeComputed" /\ o.snap = job[p].snap
          /\ c.pc = "saveComputed" /\ c.snap = job[p].snap
      BY <3>1 DEF Job
    <3>3. job' = [job EXCEPT ![p] = o] \/ job' = [job EXCEPT ![p] = c]
      BY <1>7 DEF OpenComputed, CloseComputed
    <3> QED
      BY <3>2, <3>3
  <2>2. now' \in {now, now + 1} /\ UNCHANGED <<raw, manifest, named>>
    BY <1>7 DEF OpenComputed, CloseComputed
  <2>3. NamesLast(j.snap)
    BY <1>2, <2>1
  <2>4. j.pc \notin {"closeRaw", "saveRaw"}
    BY <2>1
  <2> QED
    BY <1>1, <2>1, <2>2, <2>3, <2>4, QuietRecovery
<1>8. ASSUME NEW p \in Procs, FailWrite(p) \/ Crash(p)
      PROVE  RecoveryInv'
  <2>1. NoJob.pc = "idle" /\ NoJob.snap = EmptyManifest
    BY DEF NoJob
  <2>2. job' = [job EXCEPT ![p] = NoJob] /\ UNCHANGED <<raw, manifest, named, now>>
    BY <1>8, EndsAlone DEF FailWrite, Crash, RecoveryInv
  <2>3. NamesLast(EmptyManifest)
    BY DEF NamesLast, EmptyManifest, NoEntry
  <2> HIDE DEF NoJob
  <2> QED
    BY <1>1, <2>1, <2>2, <2>3, QuietRecovery
<1>9. ASSUME NEW p \in Procs, SaveComputed(p)
      PROVE  RecoveryInv'
  <2> DEFINE j == job[p]
             old == j.snap.entry[j.key]
             e == ComputedEntry(old, j.file)
             m == [j.snap EXCEPT !.entry[j.key] = e]
  <2>1. j.key \in Keys /\ j.snap \in Manifest /\ old \in Entry
    BY DEF RecoveryInv, TypeInv, TypeOK, Job, Manifest
  <2>2. e.raw = old.raw
    BY <2>1 DEF ComputedEntry, Entry
  <2>3. \A k \in Keys : m.entry[k].raw = j.snap.entry[k].raw
    <3> HIDE DEF e
    <3> QED BY <2>1, <2>2 DEF Manifest
  <2>4. Save(p, m) /\ UNCHANGED <<raw, now>>
    BY <1>9 DEF SaveComputed
  <2>5. NamesLast(j.snap)
    BY <1>2
  <2> HIDE DEF m, j
  <2>6. NamesLast(m)
    BY <2>3, <2>5 DEF NamesLast
  <2> QED
    BY <1>1, <2>4, <2>6, SaveRecovery
<1>10. ASSUME NEW p \in Procs, SaveMetadata(p)
       PROVE  RecoveryInv'
  <2> DEFINE m == [job[p].snap EXCEPT !.marked = TRUE]
  <2>1. m.entry = job[p].snap.entry
    BY DEF RecoveryInv, TypeInv, TypeOK, Job, Manifest
  <2>2. Save(p, m) /\ UNCHANGED <<raw, now>>
    BY <1>10 DEF SaveMetadata
  <2> HIDE DEF m
  <2>3. NamesLast(m)
    BY <1>2, <2>1 DEF NamesLast
  <2> QED
    BY <1>1, <2>2, <2>3, SaveRecovery
<1>11. ASSUME NEW p \in Procs, SaveRebuilt(p)
       PROVE  RecoveryInv'
  <2>1. Save(p, job[p].snap) /\ UNCHANGED <<raw, now>>
    BY <1>11 DEF SaveRebuilt
  <2> QED
    BY <1>1, <1>2, <2>1, SaveRecovery
<1>12. CASE LoseManifest
  <2>1. manifest' = EmptyManifest /\ UNCHANGED <<raw, job, named, now>>
    BY <1>12 DEF LoseManifest
  <2>2. NamesLast(manifest)'
    BY <2>1 DEF NamesLast, EmptyManifest, NoEntry
  <2>3. /\ RawPast' /\ WritesNewest' /\ NamedInOrder'
        /\ \A p \in Procs : NamesLast(job[p].snap)'
    BY <2>1 DEF RecoveryInv, RawPast, Stamp, WritesNewest, NamedInOrder,
       NamesLast, LastWritten, RawFiles
  <2> QED
    BY <1>1, <2>2, <2>3 DEF RecoveryInv
<1>13. CASE UNCHANGED vars
  BY <1>1, <1>13 DEF vars, RecoveryInv, RawPast, Stamp, WritesNewest,
     NamedInOrder, NamesLast, LastWritten, RawFiles
<1> QED
  BY <1>1, <1>3, <1>4, <1>5, <1>6, <1>7, <1>8, <1>9, <1>10, <1>11, <1>12, <1>13,
     OpenRawRecovery, CloseRawRecovery, SaveRawRecovery DEF Next, Step

(***************************************************************************)
(* The invariant holds for one process.                                    *)
(***************************************************************************)
LEMMA RecoveryInvHolds == OneProcess => (Spec => []RecoveryInv)
<1> SUFFICES ASSUME OneProcess PROVE Spec => []RecoveryInv
  OBVIOUS
<1>1. Init => RecoveryInv
  <2> SUFFICES ASSUME Init PROVE RecoveryInv
    OBVIOUS
  <2>1. TypeInv
    BY InitTypeInv
  <2>2. \A p \in Procs : job[p].pc = "idle" /\ job[p].snap = EmptyManifest
    BY DEF Init, NoJob
  <2>3. \A k \in Keys : RawFiles(k) = {} /\ named[k] = {}
    BY DEF Init, NoFile, RawFiles
  <2>4. NamesLast(EmptyManifest) /\ manifest = EmptyManifest
    BY DEF Init, NamesLast, EmptyManifest, NoEntry
  <2>5. RawPast /\ WritesNewest /\ NamedInOrder
    BY <2>2, <2>3 DEF RawPast, WritesNewest, NamedInOrder
  <2> QED
    BY <2>1, <2>2, <2>4, <2>5 DEF RecoveryInv
<1> QED
  BY <1>1, NextRecoveryInv, PTL DEF Spec

(***************************************************************************)
(* What governance promises of recovery, as far as the code keeps it: for  *)
(* one process, whatever fails or is killed, however often the manifest is *)
(* lost and rebuilt and CSVs are replaced while they are ingested, when    *)
(* nothing is under way a rebuild from raw/ names the canonical file or a  *)
(* later one that no saved manifest ever named.                            *)
(***************************************************************************)
THEOREM RebuildsAgree ==
    ASSUME OneProcess
    PROVE  Spec => []RebuildAgrees
BY RecoveryInvHolds, RecoveryInvAgrees, PTL

(***************************************************************************)
(* For one process, as long as the manifest is neither lost nor rebuilt,   *)
(* no save takes the canonical file of a key back: the copy it saves is    *)
(* the manifest as it is, and the file of an ingest is the last by name.   *)
(***************************************************************************)
THEOREM CanonicalNeverBack ==
    ASSUME ManifestKept
    PROVE  Spec => CanonicalForward
<1> DEFINE Forward == \A k \in Keys : manifest.entry[k].raw <= manifest'.entry[k].raw
<1>1. ASSUME RecoveryInv, ReplayInv, [Next]_vars PROVE Forward
  <2> USE DEF ReplayInv
  <2>0. OneProcess /\ manifest \in Manifest
    BY <1>1 DEF ManifestKept, TypeInv, TypeOK
  <2>1. \A k \in Keys : manifest.entry[k].raw \in Int
    BY <2>0 DEF Manifest, Entry, Stamps, NoStamp
  <2>2. ASSUME manifest'.entry = manifest.entry PROVE Forward
    BY <2>1, <2>2
  <2>3. ASSUME NEW p \in Procs, SaveRaw(p) PROVE Forward
    <3> DEFINE j == job[p]
               e == IngestedEntry(manifest.entry[j.key], j.sha, j.file)
               m == [manifest EXCEPT !.entry[j.key] = e]
    <3>1. j.snap = manifest /\ j.key \in Keys /\ j.pc = "saveRaw"
      BY <1>1, <2>3 DEF SaveRaw, CopyCurrent, TypeInv, TypeOK, Job
    <3>2. Save(p, m)
      BY <2>3, <3>1 DEF SaveRaw
    <3>3. manifest' = m
      <4> HIDE DEF m
      <4> QED BY <1>1, <2>0, <3>2, SavesAlone
    <3>4. e.raw = j.file
      BY DEF IngestedEntry
    <3>5. manifest.entry[j.key].raw <= j.file
      <4>1. j.file \in RawFiles(j.key) /\ \A t \in RawFiles(j.key) : t <= j.file
        BY <1>1, <3>1 DEF RecoveryInv, WritesNewest
      <4>2. CASE manifest.entry[j.key].raw = NoStamp
        BY <4>1, <4>2 DEF RawFiles, Stamps, NoStamp
      <4>3. CASE manifest.entry[j.key].raw # NoStamp
        BY <1>1, <3>1, <4>1, <4>3 DEF RecoveryInv, NamesLast, LastWritten
      <4> QED
        BY <4>2, <4>3
    <3> HIDE DEF e, j
    <3>6. \A k \in Keys : m.entry[k] = IF k = j.key THEN e ELSE manifest.entry[k]
      BY <2>0, <3>1 DEF Manifest
    <3> QED
      BY <2>1, <3>3, <3>4, <3>5, <3>6
  <2>4. ASSUME NEW p \in Procs, SaveComputed(p) PROVE Forward
    <3> DEFINE j == job[p]
               e == ComputedEntry(manifest.entry[j.key], j.file)
               m == [manifest EXCEPT !.entry[j.key] = e]
    <3>1. j.snap = manifest /\ j.key \in Keys
      BY <1>1, <2>4 DEF SaveComputed, CopyCurrent, TypeInv, TypeOK, Job
    <3>2. Save(p, m)
      BY <2>4, <3>1 DEF SaveComputed
    <3>3. manifest' = m
      <4> HIDE DEF m
      <4> QED BY <1>1, <2>0, <3>2, SavesAlone
    <3>4. e.raw = manifest.entry[j.key].raw
      BY <2>0, <3>1 DEF ComputedEntry, Manifest, Entry
    <3> HIDE DEF e, j
    <3>5. \A k \in Keys : m.entry[k] = IF k = j.key THEN e ELSE manifest.entry[k]
      BY <2>0, <3>1 DEF Manifest
    <3> QED
      BY <2>1, <3>3, <3>4, <3>5
  <2>5. ASSUME NEW p \in Procs, SaveMetadata(p) PROVE Forward
    <3> DEFINE m == [manifest EXCEPT !.marked = TRUE]
    <3>1. Save(p, m) /\ m.entry = manifest.entry
      BY <1>1, <2>0, <2>5 DEF SaveMetadata, CopyCurrent, Manifest
    <3> HIDE DEF m
    <3> QED
      BY <1>1, <2>0, <2>2, <3>1, SavesAlone
  <2>6. ASSUME NEW p \in Procs, SaveRebuilt(p) PROVE Forward
    BY <1>1, <2>0, <2>2, <2>6, SavesAlone DEF SaveRebuilt, CopyCurrent
  <2>7. ~LoseManifest
    BY DEF ManifestKept, LoseManifest
  <2> HIDE DEF Forward
  <2> QED
    BY <1>1, <2>2, <2>3, <2>4, <2>5, <2>6, <2>7
       DEF Next, Step, StartIngest, OpenRaw, CloseRaw, StartComputed, OpenComputed,
           CloseComputed, StartMetadata, StartRebuild, FailWrite, Crash, vars
<1>2. ASSUME RecoveryInv, ReplayInv, [Next]_vars
      PROVE  [manifest'.whole => Forward]_vars
  BY <1>1, <1>2
<1>3. Spec => []RecoveryInv
  BY RecoveryInvHolds DEF ManifestKept
<1>4. Spec => []ReplayInv
  BY ReplayInvHolds
<1> QED
  BY <1>2, <1>3, <1>4, PTL DEF Spec, CanonicalForward

=============================================================================
