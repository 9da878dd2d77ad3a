---------------------------- MODULE BackupRestore ----------------------------
(***************************************************************************)
(* scripts/backup.sh and scripts/restore.sh at the level of the files they *)
(* write: the copy of the DuckDB file, its checksum, the pruning of old    *)
(* backups, the snapshot before a restore and the overwriting of the live  *)
(* file.  Both scripts have "set -e": a step that fails ends the script as *)
(* a kill would.  The WAL is left out: no step of either depends on it.    *)
(*                                                                         *)
(* Nothing stops the pipeline for a backup, which only warns of a WAL, or  *)
(* for a restore: it may write the live file between any two steps of      *)
(* either.  Backups and snapshots are named by the second they begin in    *)
(* and numbered here in that order.                                        *)
(***************************************************************************)
EXTENDS Integers

CONSTANTS
    MaxVersion,   \* bound on the writes of the live file by the pipeline
    MaxBackups,   \* bound on the backups
    MaxRestores,  \* bound on the restores
    Mixed,        \* a whole file whose content is no version of the database
    Partial,      \* a file whose writer has not come to its end
    Missing       \* no file; of a checksum, no checksum

ASSUME BoundsAssumption ==
    /\ MaxVersion \in Nat \ {0}
    /\ MaxBackups \in Nat \ {0}
    /\ MaxRestores \in Nat \ {0}
ASSUME ContentsAssumption ==
    /\ {Partial, Missing} \cap Nat = {}
    /\ Partial # Missing /\ Mixed \notin {Partial, Missing}

VARIABLES
    main,      \* the live psx_analytics.duckdb
    copy,      \* copy[n]: backup n
    sum,       \* sum[n]: its .sha256, the content it is the checksum of
    snap,      \* snap[s]: pre-restore snapshot s
    backup,    \* backup.sh: next step, backup it makes, live file written since
    restore,   \* restore.sh: next step, backup, snapshot, what cp has read, and
               \* whether the live file has been written since its cp began
    version,   \* versions of the database so far
    restores,  \* restores begun so far
    archived,  \* history: archived[n], what backup n's cp has copied to its end
    latest,    \* history: the last backup that was given its checksum, 0 if none
    before,    \* history: the last whole content of the live file
    overtaken  \* history: it was written after a restore had begun its snapshot

vars == <<main, copy, sum, snap, backup, restore, version, restores,
          archived, latest, before, overtaken>>

Names == 1 .. MaxBackups
Slots == 1 .. MaxRestores
Whole == (1 .. MaxVersion) \cup {Mixed}
File == Whole \cup {Partial, Missing}

TypeOK ==
    /\ main \in File
    /\ copy \in [Names -> File]
    /\ sum \in [Names -> File]
    /\ snap \in [Slots -> File]
    /\ backup \in [pc : {"idle", "copy", "open_sum", "sum", "prune", "prune_sums"},
                   name : Names \cup {0}, moved : BOOLEAN]
    /\ restore \in [pc : {"idle", "snapshot", "snapping", "open", "write"},
                    name : Names, slot : Slots, got : File, moved : BOOLEAN]
    /\ version \in 0 .. MaxVersion
    /\ restores \in 0 .. MaxRestores
    /\ archived \in [Names -> Whole \cup {Missing}]
    /\ latest \in Names \cup {0}
    /\ before \in Whole \cup {Missing}
    /\ overtaken \in BOOLEAN

NoRestore == [pc |-> "idle", name |-> 1, slot |-> 1, got |-> Missing, moved |-> FALSE]

Init ==
    /\ main = Missing
    /\ copy = [n \in Names |-> Missing]
    /\ sum = [n \in Names |-> Missing]
    /\ snap = [s \in Slots |-> Missing]
    /\ backup = [pc |-> "idle", name |-> 0, moved |-> FALSE]
    /\ restore = NoRestore
    /\ version = 0
    /\ restores = 0
    /\ archived = [n \in Names |-> Missing]
    /\ latest = 0
    /\ before = Missing
    /\ overtaken = FALSE

\* The live file gets content c; a backup that is being made of it is spoilt.
WriteMain(c) ==
    /\ main' = c
    /\ backup' = [backup EXCEPT !.moved = TRUE]
    /\ before' = IF c \in Whole THEN c ELSE before

-----------------------------------------------------------------------------
(* The pipeline *)

\* A pipeline connection brings its commits into the file, also while restore.sh
\* reads it for its snapshot or writes it.  A partial file is not made whole by
\* a connection that was opened before cp truncated it, and no new one opens it.
Checkpoint ==
    /\ version < MaxVersion
    /\ version' = version + 1
    /\ WriteMain(IF main = Partial THEN Partial ELSE version + 1)
    /\ restore' = [restore EXCEPT !.moved = restore.pc \in {"snapping", "write"}]
    /\ overtaken' = IF main = Partial THEN overtaken
                    ELSE restore.pc \in {"snapping", "open"}
    /\ UNCHANGED <<copy, sum, snap, restores, archived, latest>>

-----------------------------------------------------------------------------
(* backup.sh *)

\* A WAL is warned of, and no more.
StartBackup ==
    LET n == backup.name + 1
    IN  /\ backup.pc = "idle"
        /\ main # Missing
        /\ n \in Names
        /\ backup' = [pc |-> "copy", name |-> n, moved |-> FALSE]
        /\ copy' = [copy EXCEPT ![n] = Partial]
        /\ UNCHANGED <<main, sum, snap, restore, version, restores, archived,
                       latest, before, overtaken>>

\* A file that was written during the copy, or was partial, gives a mixture.
EndCopy ==
    LET n == backup.name
        c == IF backup.moved \/ main = Partial THEN Mixed ELSE main
    IN  /\ backup.pc = "copy"
        /\ copy' = [copy EXCEPT ![n] = c]
        /\ archived' = [archived EXCEPT ![n] = c]
        /\ backup' = [backup EXCEPT !.pc = "open_sum"]
        /\ UNCHANGED <<main, sum, snap, restore, version, restores, latest, before, overtaken>>

\* The shell creates the checksum file before sha256sum has read the copy.
OpenSum ==
    /\ backup.pc = "open_sum"
    /\ sum' = [sum EXCEPT ![backup.name] = Partial]
    /\ backup' = [backup EXCEPT !.pc = "sum"]
    /\ UNCHANGED <<main, copy, snap, restore, version, restores, archived,
                   latest, before, overtaken>>

CloseSum ==
    LET n == backup.name
    IN  /\ backup.pc = "sum"
        /\ sum' = [sum EXCEPT ![n] = copy[n]]
        /\ latest' = n
        /\ backup' = [backup EXCEPT !.pc = "prune"]
        /\ UNCHANGED <<main, copy, snap, restore, version, restores, archived, before, overtaken>>

\* Mutant: "-mtime -30" for "-mtime +30": the young ones go.
YoungOnes(n) == {n}

\* The backup among the oldest up to which all may be past RETENTION_DAYS when
\* backup n, which is new, has been made.
MayBeOld(n) == 0 .. n - 1

\* The files of backups 1 to t are old.
WithoutOld(files, t) == [m \in Names |-> IF m <= t THEN Missing ELSE files[m]]

PruneBackups ==
    /\ backup.pc = "prune"
    /\ \E t \in MayBeOld(backup.name) : copy' = WithoutOld(copy, t)
    /\ backup' = [backup EXCEPT !.pc = "prune_sums"]
    /\ UNCHANGED <<main, sum, snap, restore, version, restores, archived,
                   latest, before, overtaken>>

PruneSums ==
    /\ backup.pc = "prune_sums"
    /\ \E t \in MayBeOld(backup.name) : sum' = WithoutOld(sum, t)
    /\ backup' = [backup EXCEPT !.pc = "idle"]
    /\ UNCHANGED <<main, copy, snap, restore, version, restores, archived,
                   latest, before, overtaken>>

\* Killed, or a command failed.
EndBackupEarly ==
    /\ backup.pc # "idle"
    /\ backup' = [backup EXCEPT !.pc = "idle"]
    /\ UNCHANGED <<main, copy, sum, snap, restore, version, restores, archived,
                   latest, before, overtaken>>

-----------------------------------------------------------------------------
(* restore.sh *)

\* Mutant: any file that is there will do.
Exists(n) == copy[n] # Missing

\* The backup and its checksum file are there and sha256sum --check agrees; it
\* does not with a checksum file that has no line yet.
Verified(n) == copy[n] # Missing /\ sum[n] # Partial /\ sum[n] = copy[n]

\* Mutant: one name for all snapshots.
OneSlot(s) == 1

\* The snapshot's name has the time of its restore.
Slot(s) == s

StartRestore(n) ==
    /\ restore.pc = "idle"
    /\ restores < MaxRestores
    /\ Verified(n)
    /\ restores' = restores + 1
    /\ restore' = [pc |-> IF main = Missing THEN "open" ELSE "snapshot",
                   name |-> n, slot |-> Slot(restores + 1), got |-> Missing,
                   moved |-> FALSE]
    /\ overtaken' = (overtaken /\ main = Partial)
    /\ UNCHANGED <<main, copy, sum, snap, backup, version, archived, latest, before>>

OpenSnapshot ==
    /\ restore.pc = "snapshot"
    /\ snap' = [snap EXCEPT ![restore.slot] = Partial]
    /\ restore' = [restore EXCEPT !.pc = "snapping", !.moved = FALSE]
    /\ UNCHANGED <<main, copy, sum, backup, version, restores, archived,
                   latest, before, overtaken>>

CloseSnapshot ==
    /\ restore.pc = "snapping"
    /\ snap' = [snap EXCEPT ![restore.slot] = IF restore.moved THEN Mixed ELSE main]
    /\ restore' = [restore EXCEPT !.pc = "open"]
    /\ UNCHANGED <<main, copy, sum, backup, version, restores, archived,
                   latest, before, overtaken>>

\* cp opens the backup, which a prune may have removed since it was verified,
\* and truncates the live file.
OpenLive ==
    /\ restore.pc = "open"
    /\ copy[restore.name] # Missing
    /\ WriteMain(Partial)
    /\ restore' = [restore EXCEPT !.pc = "write", !.got = copy[restore.name],
                                   !.moved = FALSE]
    /\ UNCHANGED <<copy, sum, snap, version, restores, archived, latest, overtaken>>

CloseLive ==
    /\ restore.pc = "write"
    /\ WriteMain(IF restore.moved THEN Mixed ELSE restore.got)
    /\ restore' = [restore EXCEPT !.pc = "idle"]
    /\ overtaken' = FALSE
    /\ UNCHANGED <<copy, sum, snap, version, restores, archived, latest>>

\* Killed, or a command failed.
EndRestoreEarly ==
    /\ restore.pc # "idle"
    /\ restore' = NoRestore
    /\ UNCHANGED <<main, copy, sum, snap, backup, version, restores, archived,
                   latest, before, overtaken>>

Next ==
    \/ Checkpoint
    \/ StartBackup
    \/ EndCopy
    \/ OpenSum
    \/ CloseSum
    \/ PruneBackups
    \/ PruneSums
    \/ EndBackupEarly
    \/ \E n \in Names : StartRestore(n)
    \/ OpenSnapshot
    \/ CloseSnapshot
    \/ OpenLive
    \/ CloseLive
    \/ EndRestoreEarly

Spec == Init /\ [][Next]_vars

-----------------------------------------------------------------------------
(* Properties *)

(***************************************************************************)
(* Retention and failed backups never take away the last way back: the     *)
(* latest backup that got its checksum passes the checks of restore.sh     *)
(* until a later one has its own, whatever is killed or pruned meanwhile.  *)
(***************************************************************************)
LatestRestorable == latest # 0 => Verified(latest)

(***************************************************************************)
(* "Refuses to restore if the checksum does not match": what a restore     *)
(* writes over the live file is what a backup has copied to its end, never *)
(* the file of a backup that was killed in its copy or is still at it.     *)
(***************************************************************************)
RestoresWholeBackups ==
    restore.pc = "write" =>
        /\ archived[restore.name] # Missing
        /\ restore.got = archived[restore.name]

(***************************************************************************)
(* The "safety net": when restores are killed, one after another, after    *)
(* they have begun to overwrite the live file, its last whole content is   *)
(* still there, in a snapshot.  The one exception is a content the         *)
(* pipeline wrote after the restore had begun its snapshot: nothing stops  *)
(* the pipeline, and line 63 truncates what it wrote.                      *)
(***************************************************************************)
LiveNotLost ==
    before # Missing /\ ~overtaken =>
        main = before \/ \E s \in Slots : snap[s] = before

=============================================================================
