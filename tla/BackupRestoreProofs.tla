------------------------- MODULE BackupRestoreProofs --------------------------
(***************************************************************************)
(* LatestRestorable, RestoresWholeBackups and LiveNotLost for any number   *)
(* of backups, restores and versions.                                      *)
(***************************************************************************)
EXTENDS BackupRestore, TLAPS

\* What a backup's files may hold, by what its cp has copied to its end.
FilesArchived ==
    \A n \in Names :
        /\ archived[n] = Missing => copy[n] \in {Missing, Partial}
        /\ archived[n] # Missing => copy[n] \in {Missing, archived[n]}
        /\ sum[n] \in {Missing, Partial, archived[n]}

\* Where the backup that is being made stands among the others.
BackupOrder ==
    /\ \A n \in Names : n > backup.name => archived[n] = Missing
    /\ latest <= backup.name
    /\ backup.pc # "idle" => backup.name \in Names
    /\ backup.pc \in {"copy", "open_sum", "sum"} => latest < backup.name
    /\ backup.pc \in {"prune", "prune_sums"} => latest = backup.name

BackupUnderWay ==
    /\ backup.pc = "copy" => archived[backup.name] = Missing /\ main # Missing
    /\ backup.pc \in {"open_sum", "sum"} =>
         /\ archived[backup.name] # Missing
         /\ copy[backup.name] = archived[backup.name]

LatestWhole ==
    latest # 0 =>
        /\ archived[latest] # Missing
        /\ copy[latest] = archived[latest]
        /\ sum[latest] = archived[latest]

\* What was verified had been copied to its end, and stays so.
RestoreUnderWay ==
    /\ restore.pc # "idle" => archived[restore.name] # Missing
    /\ restore.pc = "write" => restore.got = archived[restore.name] /\ main = Partial

InSnapshot == before = Missing \/ \E s \in Slots : snap[s] = before

\* The live file is its own copy until a restore comes to overwrite it; by then
\* it is in a snapshot, or the pipeline wrote it too late for that.
LiveKept ==
    /\ main \in Whole => before = main
    /\ main = Missing => before = Missing
    /\ main = Partial \/ restore.pc = "open" => InSnapshot \/ overtaken
    /\ restore.pc = "snapping" /\ restore.moved => InSnapshot \/ overtaken

\* A snapshot is made in a file that no earlier restore has used.
SnapshotsNew ==
    /\ \A s \in Slots : s > restores => snap[s] = Missing
    /\ restore.pc # "idle" => restore.slot <= restores
    /\ restore.pc = "snapshot" => snap[restore.slot] = Missing
    /\ restore.pc = "snapping" => snap[restore.slot] = Partial

BackupInv ==
    /\ FilesArchived
    /\ BackupOrder
    /\ BackupUnderWay
    /\ LatestWhole

RestoreInv ==
    /\ RestoreUnderWay
    /\ LiveKept
    /\ SnapshotsNew

KeepInv == TypeOK /\ BackupInv /\ RestoreInv

-----------------------------------------------------------------------------
LEMMA ContentsDiffer ==
    /\ Partial \notin Whole /\ Missing \notin Whole /\ Partial # Missing
    /\ Names \subseteq Nat \ {0} /\ Slots \subseteq Nat \ {0}
    /\ 1 \in Names /\ 1 \in Slots
BY BoundsAssumption, ContentsAssumption DEF Whole, Names, Slots

LEMMA TypeInitially == Init => TypeOK
<1>1. Init => restore \in [pc : {"idle", "snapshot", "snapping", "open", "write"},
                            name : Names, slot : Slots, got : File, moved : BOOLEAN]
  BY ContentsDiffer DEF Init, NoRestore, File
<1>2. Init => version \in 0 .. MaxVersion /\ restores \in 0 .. MaxRestores
  BY BoundsAssumption DEF Init
<1>3. Init => /\ backup \in [pc : {"idle", "copy", "open_sum", "sum", "prune", "prune_sums"},
                            name : Names \cup {0}, moved : BOOLEAN]
              /\ latest \in Names \cup {0}
  BY DEF Init
<1>4. Init => /\ main \in File /\ copy \in [Names -> File] /\ sum \in [Names -> File]
              /\ snap \in [Slots -> File] /\ before \in Whole \cup {Missing}
              /\ archived \in [Names -> Whole \cup {Missing}]
  BY DEF Init, File
<1>5. Init => overtaken \in BOOLEAN
  BY Zenon DEF Init
<1> QED
  BY <1>1, <1>2, <1>3, <1>4, <1>5 DEF TypeOK

LEMMA KeepInitially == Init => KeepInv
<1>1. Init => BackupInv
  BY ContentsDiffer
     DEF Init, BackupInv, FilesArchived, BackupOrder, BackupUnderWay, LatestWhole
<1>2. Init => RestoreInv
  BY ContentsDiffer
     DEF Init, NoRestore, RestoreInv, RestoreUnderWay, LiveKept, InSnapshot, SnapshotsNew
<1> QED
  BY <1>1, <1>2, TypeInitially DEF KeepInv

(* Every step leaves the state well typed.                                     *)
LEMMA TypeStep ==
    ASSUME KeepInv, [Next]_vars
    PROVE  TypeOK'
<1> USE ContentsDiffer, BoundsAssumption
<1>0. TypeOK
  BY DEF KeepInv
<1>1. CASE Checkpoint
  <2>1. version + 1 \in 1 .. MaxVersion /\ version + 1 \in Whole
    BY <1>0, <1>1 DEF Checkpoint, TypeOK, Whole
  <2>2. main' \in File /\ before' \in Whole \cup {Missing} /\ version' \in 0 .. MaxVersion
    BY <1>0, <1>1, <2>1 DEF Checkpoint, WriteMain, TypeOK, File
  <2>3. backup' = [backup EXCEPT !.moved = TRUE]
    BY <1>1 DEF Checkpoint, WriteMain
  <2>4. restore' = [restore EXCEPT !.moved = restore.pc \in {"snapping", "write"}]
    BY <1>1 DEF Checkpoint
  <2>5. overtaken' \in BOOLEAN
    <3>1. CASE main = Partial
      BY <1>0, <1>1, <3>1 DEF Checkpoint, TypeOK
    <3>2. CASE main # Partial
      BY <1>1, <3>2 DEF Checkpoint
    <3> QED
      BY <3>1, <3>2
  <2>6. backup' \in [pc : {"idle", "copy", "open_sum", "sum", "prune", "prune_sums"},
                     name : Names \cup {0}, moved : BOOLEAN]
    BY <1>0, <2>3 DEF TypeOK
  <2>7. (restore.pc \in {"snapping", "write"}) \in BOOLEAN
    OBVIOUS
  <2>8. restore' \in [pc : {"idle", "snapshot", "snapping", "open", "write"},
                      name : Names, slot : Slots, got : File, moved : BOOLEAN]
    BY <1>0, <2>4, <2>7 DEF TypeOK
  <2>9. UNCHANGED <<copy, sum, snap, restores, archived, latest>>
    BY <1>1 DEF Checkpoint
  <2> QED
    BY <1>0, <2>2, <2>5, <2>6, <2>8, <2>9 DEF TypeOK
<1>2. CASE StartBackup
  BY <1>0, <1>2 DEF StartBackup, TypeOK, File
<1>3. CASE EndCopy
  <2> DEFINE c == IF backup.moved \/ main = Partial THEN Mixed ELSE main
  <2>1. c \in Whole
    BY <1>0, <1>3 DEF EndCopy, KeepInv, BackupInv, BackupUnderWay, TypeOK, File, Whole
  <2>2. /\ copy' = [copy EXCEPT ![backup.name] = c]
        /\ archived' = [archived EXCEPT ![backup.name] = c]
    BY <1>3 DEF EndCopy
  <2> HIDE DEF c
  <2>3. copy' \in [Names -> File] /\ archived' \in [Names -> Whole \cup {Missing}]
    BY <1>0, <2>1, <2>2 DEF TypeOK, File
  <2>4. backup' = [backup EXCEPT !.pc = "open_sum"]
    BY <1>3 DEF EndCopy
  <2> QED
    BY <1>0, <1>3, <2>3, <2>4 DEF EndCopy, TypeOK
<1>4. CASE OpenSum
  BY <1>0, <1>4 DEF OpenSum, TypeOK, File
<1>5. CASE CloseSum
  <2>1. backup.name \in Names
    BY <1>5 DEF CloseSum, KeepInv, BackupInv, BackupOrder
  <2> QED
    BY <1>0, <1>5, <2>1 DEF CloseSum, TypeOK, File
<1>6. CASE PruneBackups
  BY <1>0, <1>6 DEF PruneBackups, WithoutOld, TypeOK, File
<1>7. CASE PruneSums
  BY <1>0, <1>7 DEF PruneSums, WithoutOld, TypeOK, File
<1>8. CASE EndBackupEarly
  BY <1>0, <1>8 DEF EndBackupEarly, TypeOK
<1>9. ASSUME NEW n \in Names, StartRestore(n) PROVE TypeOK'
  <2>1. restores + 1 \in Slots
    BY <1>0, <1>9 DEF StartRestore, TypeOK, Slots
  <2> QED
    BY <1>0, <1>9, <2>1 DEF StartRestore, Slot, TypeOK, File, Slots
<1>10. CASE OpenSnapshot
  BY <1>0, <1>10 DEF OpenSnapshot, TypeOK, File
<1>11. CASE CloseSnapshot
  <2>1. (IF restore.moved THEN Mixed ELSE main) \in File
    BY <1>0 DEF TypeOK, File, Whole
  <2>2. snap' \in [Slots -> File]
    BY <1>0, <1>11, <2>1 DEF CloseSnapshot, TypeOK
  <2> QED
    BY <1>0, <1>11, <2>2 DEF CloseSnapshot, TypeOK
<1>12. CASE OpenLive
  BY <1>0, <1>12 DEF OpenLive, WriteMain, TypeOK, File
<1>13. CASE CloseLive
  <2> DEFINE c == IF restore.moved THEN Mixed ELSE restore.got
  <2>1. c \in File
    BY <1>0 DEF TypeOK, File, Whole
  <2>2. main' = c /\ before' = IF c \in Whole THEN c ELSE before
    BY <1>13 DEF CloseLive, WriteMain
  <2> HIDE DEF c
  <2>3. main' \in File /\ before' \in Whole \cup {Missing}
    BY <1>0, <2>1, <2>2 DEF TypeOK
  <2> QED
    BY <1>0, <1>13, <2>3 DEF CloseLive, WriteMain, TypeOK
<1>14. CASE EndRestoreEarly
  BY <1>0, <1>14 DEF EndRestoreEarly, NoRestore, TypeOK, File
<1>15. CASE UNCHANGED vars
  BY <1>0, <1>15 DEF vars, TypeOK
<1> QED
  BY <1>1, <1>2, <1>3, <1>4, <1>5, <1>6, <1>7, <1>8, <1>9, <1>10, <1>11, <1>12, <1>13,
     <1>14, <1>15 DEF Next

(* What is known of the backups and the one that is being made.                *)
LEMMA BackupStep ==
    ASSUME KeepInv, [Next]_vars
    PROVE  BackupInv'
<1> USE ContentsDiffer DEF BackupInv
<1>0. TypeOK /\ BackupInv
  BY DEF KeepInv
<1> DEFINE n == backup.name
<1>1. CASE /\ UNCHANGED <<copy, sum, archived, latest>>
           /\ backup' \in {backup, [backup EXCEPT !.moved = TRUE],
                           [backup EXCEPT !.pc = "idle"]}
           /\ main' # Missing \/ main' = main
  <2>1. FilesArchived' /\ LatestWhole'
    BY <1>0, <1>1 DEF FilesArchived, LatestWhole
  <2>2. backup'.name = backup.name /\ backup'.pc \in {backup.pc, "idle"}
    BY <1>0, <1>1 DEF TypeOK
  <2> QED
    BY <1>0, <1>1, <2>1, <2>2 DEF BackupOrder, BackupUnderWay
<1>2. CASE StartBackup
  <2>1. n \in Names \cup {0}
    BY <1>0 DEF TypeOK
  <2>2. n + 1 \in Names /\ n \in Nat
    <3>1. n + 1 \in Names
      BY <1>2 DEF StartBackup
    <3>2. n \in Nat
      BY <2>1, BoundsAssumption DEF Names
    <3> QED
      BY <3>1, <3>2
  <2>3. archived[n + 1] = Missing /\ latest <= n
    BY <1>0, <2>2 DEF BackupOrder
  <2>4. /\ backup'.pc = "copy" /\ backup'.name = n + 1 /\ latest' = latest
        /\ copy' = [copy EXCEPT ![n + 1] = Partial]
        /\ UNCHANGED <<main, sum, archived>> /\ main # Missing
    BY <1>2 DEF StartBackup
  <2>5. FilesArchived'
    BY <1>0, <2>2, <2>3, <2>4 DEF FilesArchived, TypeOK
  <2>6. LatestWhole'
    BY <1>0, <2>2, <2>3, <2>4 DEF LatestWhole, TypeOK
  <2> QED
    BY <1>0, <2>2, <2>3, <2>4, <2>5, <2>6 DEF BackupOrder, BackupUnderWay, TypeOK
<1>3. CASE EndCopy
  <2> DEFINE c == IF backup.moved \/ main = Partial THEN Mixed ELSE main
  <2>1. n \in Names /\ latest < n /\ archived[n] = Missing
    BY <1>0, <1>3 DEF EndCopy, BackupOrder, BackupUnderWay
  <2>2. c \in Whole
    BY <1>0, <1>3 DEF EndCopy, BackupUnderWay, TypeOK, File, Whole
  <2>3. /\ copy' = [copy EXCEPT ![n] = c] /\ archived' = [archived EXCEPT ![n] = c]
        /\ backup'.pc = "open_sum" /\ backup'.name = n /\ UNCHANGED <<main, sum, latest>>
    BY <1>0, <1>3 DEF EndCopy, TypeOK
  <2> HIDE DEF c
  <2>4. FilesArchived'
    BY <1>0, <2>1, <2>2, <2>3 DEF FilesArchived, TypeOK
  <2>5. LatestWhole'
    BY <1>0, <2>1, <2>3 DEF LatestWhole, TypeOK
  <2> QED
    BY <1>0, <2>1, <2>2, <2>3, <2>4, <2>5 DEF BackupOrder, BackupUnderWay, TypeOK
<1>4. CASE OpenSum
  <2>1. n \in Names /\ latest < n
    BY <1>0, <1>4 DEF OpenSum, BackupOrder
  <2>2. /\ sum' = [sum EXCEPT ![n] = Partial]
        /\ backup'.pc = "sum" /\ backup'.name = n
        /\ UNCHANGED <<main, copy, archived, latest>>
    BY <1>0, <1>4 DEF OpenSum, TypeOK
  <2>3. FilesArchived' /\ LatestWhole'
    BY <1>0, <2>1, <2>2 DEF FilesArchived, LatestWhole, TypeOK
  <2> QED
    BY <1>0, <1>4, <2>1, <2>2, <2>3 DEF OpenSum, BackupOrder, BackupUnderWay
<1>5. CASE CloseSum
  <2>1. n \in Names /\ archived[n] # Missing /\ copy[n] = archived[n]
    BY <1>0, <1>5 DEF CloseSum, BackupOrder, BackupUnderWay
  <2>2. /\ sum' = [sum EXCEPT ![n] = copy[n]]
        /\ backup'.pc = "prune" /\ backup'.name = n /\ latest' = n
        /\ UNCHANGED <<main, copy, archived>>
    BY <1>0, <1>5 DEF CloseSum, TypeOK
  <2>3. FilesArchived' /\ LatestWhole'
    BY <1>0, <2>1, <2>2 DEF FilesArchived, LatestWhole, TypeOK
  <2> QED
    BY <1>0, <2>1, <2>2, <2>3 DEF BackupOrder, BackupUnderWay, TypeOK
<1>6. CASE PruneBackups \/ PruneSums
  <2>1. n \in Names /\ latest = n
    BY <1>0, <1>6 DEF PruneBackups, PruneSums, BackupOrder
  <2>2. /\ \A m \in Names : copy'[m] \in {copy[m], Missing} /\ sum'[m] \in {sum[m], Missing}
        /\ copy'[n] = copy[n] /\ sum'[n] = sum[n]
        /\ backup'.pc \in {"prune_sums", "idle"} /\ backup'.name = n
        /\ UNCHANGED <<main, archived, latest>>
    BY <1>0, <1>6, <2>1 DEF PruneBackups, PruneSums, WithoutOld, MayBeOld, TypeOK
  <2>3. FilesArchived'
    BY <1>0, <2>2 DEF FilesArchived
  <2>4. LatestWhole'
    BY <1>0, <2>1, <2>2 DEF LatestWhole
  <2> QED
    BY <1>0, <2>1, <2>2, <2>3, <2>4 DEF BackupOrder, BackupUnderWay, TypeOK
<1>7. CASE EndBackupEarly
  BY <1>1, <1>7 DEF EndBackupEarly
<1>8. CASE Checkpoint
  <2>1. version + 1 # Missing
    BY <1>0, ContentsAssumption DEF TypeOK
  <2>2. main' # Missing
    BY <1>8, <2>1 DEF Checkpoint, WriteMain
  <2> QED
    BY <1>1, <1>8, <2>2 DEF Checkpoint, WriteMain
<1>9. CASE OpenLive
  BY <1>1, <1>9 DEF OpenLive, WriteMain
<1>10. CASE CloseLive
  <2>1. restore.got # Missing
    BY <1>10 DEF CloseLive, KeepInv, RestoreInv, RestoreUnderWay
  <2>2. main' # Missing
    BY <1>10, <2>1, ContentsAssumption DEF CloseLive, WriteMain
  <2> QED
    BY <1>1, <1>10, <2>2 DEF CloseLive, WriteMain
<1>11. CASE \/ \E m \in Names : StartRestore(m)
            \/ OpenSnapshot \/ CloseSnapshot \/ EndRestoreEarly \/ UNCHANGED vars
  BY <1>1, <1>11 DEF StartRestore, OpenSnapshot, CloseSnapshot, EndRestoreEarly, vars
<1> QED
  BY <1>2, <1>3, <1>4, <1>5, <1>6, <1>7, <1>8, <1>9, <1>10, <1>11 DEF Next

(* What is known of the live file, the snapshots and a restore.                *)
LEMMA RestoreStep ==
    ASSUME KeepInv, [Next]_vars
    PROVE  RestoreInv'
<1> USE ContentsDiffer DEF RestoreInv
<1>0. TypeOK /\ BackupInv /\ RestoreInv
  BY DEF KeepInv
<1>1. CASE UNCHANGED <<main, snap, restore, restores, archived, before, overtaken>>
  BY <1>0, <1>1 DEF RestoreUnderWay, LiveKept, InSnapshot, SnapshotsNew
<1>2. CASE Checkpoint
  <2>1. version + 1 \in Whole /\ version + 1 # Missing /\ version + 1 # Partial
    BY <1>0, <1>2, ContentsAssumption, BoundsAssumption DEF Checkpoint, TypeOK, Whole
  <2>2. /\ restore'.pc = restore.pc /\ restore'.name = restore.name
        /\ restore'.slot = restore.slot /\ restore'.got = restore.got
        /\ restore'.moved = (restore.pc \in {"snapping", "write"})
        /\ UNCHANGED <<snap, restores, archived>>
    BY <1>0, <1>2 DEF Checkpoint, TypeOK
  <2>3. SnapshotsNew'
    BY <1>0, <2>2 DEF SnapshotsNew
  <2>4. CASE main = Partial
    <3>1. main' = Partial /\ before' = before /\ overtaken' = overtaken
      BY <1>2, <2>4 DEF Checkpoint, WriteMain
    <3> QED
      BY <1>0, <2>2, <2>3, <2>4, <3>1 DEF RestoreUnderWay, LiveKept, InSnapshot
  <2>5. CASE main # Partial
    <3>1. /\ main' = version + 1 /\ before' = version + 1
          /\ overtaken' = (restore.pc \in {"snapping", "open"})
      BY <1>2, <2>1, <2>5 DEF Checkpoint, WriteMain
    <3>2. restore.pc # "write"
      BY <1>0, <2>5 DEF RestoreUnderWay
    <3> QED
      BY <1>0, <2>1, <2>2, <2>3, <3>1, <3>2 DEF RestoreUnderWay, LiveKept
  <2> QED
    BY <2>4, <2>5
<1>3. CASE EndCopy
  <2>1. archived[backup.name] = Missing
    BY <1>0, <1>3 DEF EndCopy, BackupInv, BackupUnderWay
  <2>2. restore.pc # "idle" => archived'[restore.name] = archived[restore.name]
    BY <1>0, <1>3, <2>1 DEF EndCopy, RestoreUnderWay, TypeOK
  <2>3. UNCHANGED <<main, snap, restore, restores, before, overtaken>>
    BY <1>3 DEF EndCopy
  <2> QED
    BY <1>0, <2>2, <2>3 DEF RestoreUnderWay, LiveKept, InSnapshot, SnapshotsNew
<1>4. ASSUME NEW n \in Names, StartRestore(n) PROVE RestoreInv'
  <2>1. archived[n] # Missing
    BY <1>0, <1>4 DEF StartRestore, Verified, BackupInv, FilesArchived
  <2>2. restores + 1 \in Slots /\ snap[restores + 1] = Missing /\ restores \in Nat
    BY <1>0, <1>4, BoundsAssumption DEF StartRestore, Slots, SnapshotsNew, TypeOK
  <2>3. /\ restore'.pc = (IF main = Missing THEN "open" ELSE "snapshot")
        /\ restore'.name = n /\ restore'.slot = restores + 1 /\ restores' = restores + 1
        /\ overtaken' = (overtaken /\ main = Partial)
        /\ UNCHANGED <<main, snap, archived, before>>
    BY <1>4 DEF StartRestore, Slot
  <2>4. RestoreUnderWay'
    BY <2>1, <2>3 DEF RestoreUnderWay
  <2>5. LiveKept'
    BY <1>0, <2>3 DEF LiveKept, InSnapshot
  <2>6. SnapshotsNew'
    BY <1>0, <2>2, <2>3 DEF SnapshotsNew
  <2> QED
    BY <2>4, <2>5, <2>6
<1>5. CASE OpenSnapshot
  <2> DEFINE s == restore.slot
  <2>1. s \in Slots /\ s <= restores /\ snap[s] = Missing
    BY <1>0, <1>5 DEF OpenSnapshot, SnapshotsNew, TypeOK
  <2>2. /\ snap' = [snap EXCEPT ![s] = Partial]
        /\ restore'.pc = "snapping" /\ restore'.slot = s /\ restore'.name = restore.name
        /\ ~restore'.moved
        /\ UNCHANGED <<main, restores, archived, before, overtaken>>
    BY <1>0, <1>5 DEF OpenSnapshot, TypeOK
  <2>3. InSnapshot => InSnapshot'
    BY <1>0, <2>1, <2>2 DEF InSnapshot, TypeOK
  <2>4. SnapshotsNew'
    BY <1>0, <2>1, <2>2 DEF SnapshotsNew, TypeOK
  <2> QED
    BY <1>0, <1>5, <2>2, <2>3, <2>4 DEF OpenSnapshot, RestoreUnderWay, LiveKept
<1>6. CASE CloseSnapshot
  <2> DEFINE s == restore.slot
  <2>1. s \in Slots /\ s <= restores /\ snap[s] = Partial
    BY <1>0, <1>6 DEF CloseSnapshot, SnapshotsNew, TypeOK
  <2>2. /\ snap' = [snap EXCEPT ![s] = IF restore.moved THEN Mixed ELSE main]
        /\ restore'.pc = "open" /\ restore'.slot = s /\ restore'.name = restore.name
        /\ UNCHANGED <<main, restores, archived, before, overtaken>>
    BY <1>0, <1>6 DEF CloseSnapshot, TypeOK
  <2>3. before \in Whole \cup {Missing}
    BY <1>0 DEF TypeOK
  <2>4. InSnapshot' \/ overtaken'
    <3>1. InSnapshot => InSnapshot'
      BY <1>0, <2>1, <2>2, <2>3 DEF InSnapshot, TypeOK
    <3>2. CASE restore.moved
      BY <1>0, <1>6, <2>2, <3>1, <3>2 DEF CloseSnapshot, LiveKept
    <3>3. CASE ~restore.moved /\ main \in Whole
      BY <1>0, <2>1, <2>2, <3>3 DEF LiveKept, InSnapshot, TypeOK
    <3>4. CASE main = Partial
      BY <1>0, <2>2, <3>1, <3>4 DEF LiveKept
    <3>5. CASE main = Missing
      BY <1>0, <2>2, <3>5 DEF LiveKept, InSnapshot
    <3> QED
      BY <1>0, <3>2, <3>3, <3>4, <3>5 DEF TypeOK, File
  <2>5. SnapshotsNew'
    BY <1>0, <2>1, <2>2 DEF SnapshotsNew, TypeOK
  <2> QED
    BY <1>0, <1>6, <2>2, <2>4, <2>5 DEF CloseSnapshot, RestoreUnderWay, LiveKept
<1>7. CASE OpenLive
  <2>1. /\ main' = Partial /\ before' = before
        /\ restore'.pc = "write" /\ restore'.got = copy[restore.name]
        /\ restore'.name = restore.name /\ restore'.slot = restore.slot
        /\ UNCHANGED <<snap, restores, archived, overtaken>>
    BY <1>0, <1>7 DEF OpenLive, WriteMain, TypeOK
  <2>2. copy[restore.name] = archived[restore.name]
    BY <1>0, <1>7 DEF OpenLive, BackupInv, FilesArchived, RestoreUnderWay, TypeOK
  <2>3. RestoreUnderWay' /\ LiveKept'
    BY <1>0, <1>7, <2>1, <2>2 DEF OpenLive, RestoreUnderWay, LiveKept, InSnapshot
  <2> QED
    BY <1>0, <1>7, <2>1, <2>3 DEF OpenLive, SnapshotsNew
<1>8. CASE CloseLive
  <2> DEFINE c == IF restore.moved THEN Mixed ELSE restore.got
  <2>1. c \in Whole
    BY <1>0, <1>8 DEF CloseLive, RestoreUnderWay, TypeOK, Whole
  <2>2. /\ main' = c /\ before' = c /\ restore'.pc = "idle"
        /\ UNCHANGED <<snap, restores, archived>>
    BY <1>0, <1>8, <2>1 DEF CloseLive, WriteMain, TypeOK
  <2> HIDE DEF c
  <2> QED
    BY <1>0, <2>1, <2>2 DEF RestoreUnderWay, LiveKept, SnapshotsNew
<1>9. CASE EndRestoreEarly
  <2>1. restore'.pc = "idle" /\ UNCHANGED <<main, snap, restores, archived, before, overtaken>>
    BY <1>9 DEF EndRestoreEarly, NoRestore
  <2> QED
    BY <1>0, <2>1 DEF RestoreUnderWay, LiveKept, InSnapshot, SnapshotsNew
<1>10. CASE \/ StartBackup \/ OpenSum \/ CloseSum
            \/ PruneBackups \/ PruneSums \/ EndBackupEarly \/ UNCHANGED vars
  BY <1>1, <1>10
     DEF StartBackup, OpenSum, CloseSum, PruneBackups, PruneSums, EndBackupEarly, vars
<1> QED
  BY <1>2, <1>3, <1>4, <1>5, <1>6, <1>7, <1>8, <1>9, <1>10 DEF Next

LEMMA KeepInvariant == Spec => []KeepInv
<1>1. KeepInv /\ [Next]_vars => KeepInv'
  BY TypeStep, BackupStep, RestoreStep DEF KeepInv
<1> QED
  BY <1>1, KeepInitially, PTL DEF Spec

-----------------------------------------------------------------------------
(***************************************************************************)
(* Every reachable state is well typed; in particular a backup that is     *)
(* being made has a name, and no snapshot is numbered beyond the restores. *)
(***************************************************************************)
THEOREM BackupTypeCorrect == Spec => []TypeOK
BY KeepInvariant, PTL DEF KeepInv

(***************************************************************************)
(* The latest backup that has its checksum passes the checks of restore.sh *)
(* until a later one has its own, for any number of backups.               *)
(***************************************************************************)
THEOREM WayBack == Spec => []LatestRestorable
<1>1. KeepInv => LatestRestorable
  BY ContentsDiffer
     DEF KeepInv, TypeOK, BackupInv, LatestWhole, LatestRestorable, Verified
<1> QED
  BY <1>1, KeepInvariant, PTL

(***************************************************************************)
(* No restore, however it interleaves with backups and prunes, overwrites  *)
(* the live file with what a backup did not copy to its end.               *)
(***************************************************************************)
THEOREM WholeBackupsRestored == Spec => []RestoresWholeBackups
<1>1. KeepInv => RestoresWholeBackups
  BY DEF KeepInv, RestoreInv, RestoreUnderWay, RestoresWholeBackups
<1> QED
  BY <1>1, KeepInvariant, PTL

(***************************************************************************)
(* The last whole content of the live file survives any number of killed   *)
(* restores, unless the pipeline wrote it between the beginning of a       *)
(* restore's snapshot and the truncation.                                  *)
(***************************************************************************)
THEOREM SnapshotsSaveLive == Spec => []LiveNotLost
<1>1. KeepInv => LiveNotLost
  <2>1. SUFFICES ASSUME KeepInv, before # Missing, ~overtaken, main # before
                 PROVE  \E s \in Slots : snap[s] = before
    BY DEF LiveNotLost
  <2>2. main = Partial
    BY <2>1 DEF KeepInv, TypeOK, File, RestoreInv, LiveKept
  <2> QED
    BY <2>1, <2>2 DEF KeepInv, RestoreInv, LiveKept, InSnapshot
<1> QED
  BY <1>1, KeepInvariant, PTL

=============================================================================
