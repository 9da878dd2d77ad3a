------------------------------ MODULE PsxIngest ------------------------------
(***************************************************************************)
(* scripts/psx_ingest.py: the raw/ and computed/ file stores and the       *)
(* manifest that says which file of a key is canonical.                    *)
(*                                                                         *)
(* Every operation loads the whole manifest, works on its own copy, writes *)
(* a Parquet file and saves the whole copy.  The processes of Procs (the   *)
(* Airflow task, an operator's shell) interleave between those steps, any  *)
(* step that writes may fail, and any process may be killed between two.   *)
(* That one load and one save are atomic for a single writer is what       *)
(* module ManifestFile shows; what two that save at the same time make of  *)
(* the one .tmp file they share is said at Save.                           *)
(*                                                                         *)
(* Data is reduced to what the properties tell apart: a CSV is its digest, *)
(* a Parquet file is the CSV it was converted from, and the path of a file *)
(* is the key of its directory and the time stamp in its name.             *)
(***************************************************************************)
EXTENDS Integers

CONSTANTS
    Keys,        \* (symbol, session_date) pairs, the manifest's keys
    Csvs,        \* contents of CSV files, that is, their SHA-256 digests
    ValidCsvs,   \* those validate_psx_csv accepts
    Procs,       \* processes that call into psx_ingest
    NoSha,       \* no digest: the entry has no "sha256" field
    ParquetSha,  \* the digest of a Parquet file, which no CSV has
    Resolution,  \* clock ticks in one second, the precision of a file name
    MaxNow,      \* bound on the clock, hence on the files written
    MaxVersion,  \* bound on the computed/ versions of one key
    Faults       \* what else may happen, see Possible faults

(***************************************************************************)
(* Possible faults: "crash", a process is killed; "lose", the manifest is  *)
(* lost; "rebuild", the operator rebuilds it from raw/; "redrop", a CSV is *)
(* replaced in the drop directory while it is being ingested.              *)
(***************************************************************************)
ASSUME KeysAssumption == Keys # {}
ASSUME ShaAssumption ==
    /\ ValidCsvs \subseteq Csvs
    /\ NoSha \notin Csvs
    /\ ParquetSha \notin Csvs
    /\ NoSha # ParquetSha
ASSUME BoundsAssumption ==
    /\ MaxNow \in Nat
    /\ MaxVersion \in Nat
    /\ Resolution \in Nat \ {0}

VARIABLES
    raw,       \* raw[k][s]: the file raw/<k>/..._<s>.parquet
    computed,  \* computed[k][v][s]: the file computed/v<v>/<k>/..._<s>.parquet
    manifest,  \* the saved manifest; one that does not exist is EmptyManifest
    job,       \* job[p]: the operation process p is in the middle of
    published, \* history only: published[k][v] is the file that was
               \* computed_path when version v of k first became current
    named,     \* history only: named[k] are the raw files of k that a saved
               \* manifest has ever called canonical
    now        \* the clock; creating a file takes it one tick further

vars == <<raw, computed, manifest, job, published, named, now>>

-----------------------------------------------------------------------------
(* Values *)

Stamps == 0 .. MaxNow
NoStamp == -1
Versions == 0 .. MaxVersion
NoVersion == -1

\* datetime.now().strftime("%Y%m%dT%H%M%S"): the clock cut to whole seconds.
Stamp(t) == t \div Resolution

Shas == Csvs \cup {ParquetSha, NoSha}
FileState == {"absent", "torn", "complete"}
RawFile == [st : FileState, csv : Csvs \cup {NoSha}, mtime : Stamps]
NoFile == [st |-> "absent", csv |-> NoSha, mtime |-> 0]

(***************************************************************************)
(* One entry of the manifest.  raw and prior are raw_path and              *)
(* prior_raw_path, files of the entry's own key; computed is computed_path,*)
(* a file of directory v<version>.  A missing field has the No... value.   *)
(***************************************************************************)
Entry == [raw : Stamps \cup {NoStamp}, sha : Shas, amended : BOOLEAN,
          prior : Stamps \cup {NoStamp}, version : Versions \cup {NoVersion},
          computed : Stamps \cup {NoStamp}]
NoEntry == [raw |-> NoStamp, sha |-> NoSha, amended |-> FALSE,
            prior |-> NoStamp, version |-> NoVersion, computed |-> NoStamp]

\* Every way an entry comes about gives it a computed_version.
Present(e) == e.version # NoVersion

\* The manifest's entries, whether it has its "_pipeline_last_run", and whether
\* the file is whole: json.load raises on one that is not.
Manifest == [entry : [Keys -> Entry], marked : BOOLEAN, whole : BOOLEAN]
EmptyManifest == [entry |-> [k \in Keys |-> NoEntry], marked |-> FALSE,
                  whole |-> TRUE]
TornManifest == [EmptyManifest EXCEPT !.whole = FALSE]

PC == {"idle", "openRaw", "closeRaw", "saveRaw",
       "openComputed", "closeComputed", "saveComputed",
       "saveMetadata", "saveRebuilt"}

Saving == {"saveRaw", "saveComputed", "saveMetadata", "saveRebuilt"}

\* pc: the next step; snap: the process's copy of the manifest; sha: the
\* digest taken of the CSV; file: the stamp of the file being written;
\* shared: whether another process was at its save when this one was.
Job == [pc : PC, key : Keys, sha : Csvs \cup {NoSha},
        file : Stamps \cup {NoStamp}, snap : Manifest, shared : BOOLEAN]
NoJob == [pc |-> "idle", key |-> CHOOSE k \in Keys : TRUE, sha |-> NoSha,
          file |-> NoStamp, snap |-> EmptyManifest, shared |-> FALSE]

TypeOK ==
    /\ raw \in [Keys -> [Stamps -> RawFile]]
    /\ computed \in [Keys -> [Versions -> [Stamps -> FileState]]]
    /\ manifest \in Manifest
    /\ job \in [Procs -> Job]
    /\ published \in [Keys -> [Versions -> Stamps \cup {NoStamp}]]
    /\ named \in [Keys -> SUBSET Stamps]
    /\ now \in Stamps

Init ==
    /\ raw = [k \in Keys |-> [s \in Stamps |-> NoFile]]
    /\ computed = [k \in Keys |-> [v \in Versions |->
                                     [s \in Stamps |-> "absent"]]]
    /\ manifest = EmptyManifest
    /\ job = [p \in Procs |-> NoJob]
    /\ published = [k \in Keys |-> [v \in Versions |-> NoStamp]]
    /\ named = [k \in Keys |-> {}]
    /\ now = 0

-----------------------------------------------------------------------------
(* load_manifest and save_manifest *)

\* A process begins with a load; one of a file that is not whole raises.
Loads(p) == job[p].pc = "idle" /\ manifest.whole

\* The operation of p ends, in whatever way.  Who is saving while p was has
\* had the same .tmp file open, or may have had.
End(p) ==
    job' = [q \in Procs |->
              IF q = p THEN NoJob
              ELSE [job[q] EXCEPT
                      !.shared = @ \/ {job[p].pc, job[q].pc} \subseteq Saving]]

Contended(p) == job[p].shared \/ \E q \in Procs \ {p} : job[q].pc \in Saving

(***************************************************************************)
(* save_manifest, and the end of process p's operation: m is renamed to    *)
(* the manifest.  If another process has .tmp open meanwhile, the rename   *)
(* may publish a file cut short or written over by the other, and if the   *)
(* other has renamed .tmp already, it raises and leaves the other's file.  *)
(* An overlay of two texts that parses all the same is not modelled.       *)
(***************************************************************************)
Save(p, m) ==
    /\ \/ manifest' = m
       \/ Contended(p) /\ manifest' \in {manifest, TornManifest}
    /\ named' = [k \in Keys |->
                   named[k] \cup ({manifest'.entry[k].raw} \ {NoStamp})]
    /\ End(p)

-----------------------------------------------------------------------------
(* ingest_psx_csv *)

(***************************************************************************)
(* What ingest_psx_csv does with CSV c for a key whose entry is e, up to   *)
(* its first write.  The three refusals raise and change nothing.          *)
(* "KeyError" is existing["sha256"] on an entry without that field.        *)
(***************************************************************************)
Verdict(e, c) ==
    IF c \notin ValidCsvs THEN "ValueError"
    ELSE IF ~Present(e) THEN "new"
    ELSE IF e.sha = NoSha THEN "KeyError"
    ELSE IF e.sha = c THEN "FileExistsError"
    ELSE "amendment"

StartIngest(p, k, c) ==
    /\ Loads(p)
    /\ Verdict(manifest.entry[k], c) \in {"new", "amendment"}
    /\ job' = [job EXCEPT ![p] = [NoJob EXCEPT
                 !.pc = "openRaw", !.key = k, !.sha = c, !.snap = manifest]]
    /\ UNCHANGED <<raw, computed, manifest, published, named, now>>

\* The CSV the rows are read from: the one the digest was taken of, unless it
\* was replaced in between, by one that nothing validates.
ReadBack(c) == IF "redrop" \in Faults THEN Csvs ELSE {c}

\* to_parquet creates the file, or truncates the one that has its name.
OpenRaw(p) ==
    /\ job[p].pc = "openRaw"
    /\ now < MaxNow
    /\ \E c \in ReadBack(job[p].sha) :
         raw' = [raw EXCEPT ![job[p].key][Stamp(now)] =
                   [st |-> "torn", csv |-> c, mtime |-> now]]
    /\ job' = [job EXCEPT ![p].pc = "closeRaw", ![p].file = Stamp(now)]
    /\ now' = now + 1
    /\ UNCHANGED <<computed, manifest, published, named>>

CloseRaw(p) ==
    /\ job[p].pc = "closeRaw"
    /\ raw' = [raw EXCEPT ![job[p].key][job[p].file] =
                 [st |-> "complete", csv |-> @.csv, mtime |-> now]]
    /\ job' = [job EXCEPT ![p].pc = "saveRaw"]
    /\ UNCHANGED <<computed, manifest, published, named, now>>

\* Mutant: the old entry is updated and its digest forgotten.
UpdatedEntry(existing, sha, file) ==
    [existing EXCEPT !.raw = file, !.amended = Present(existing),
                     !.prior = existing.raw,
                     !.version = IF Present(existing) THEN @ ELSE 0]

\* Mutant: an amendment of an amendment still names the first file.
FirstPriorEntry(existing, sha, file) ==
    [raw |-> file, sha |-> sha, amended |-> Present(existing),
     prior |-> IF existing.amended THEN existing.prior ELSE existing.raw,
     version |-> IF Present(existing) THEN existing.version ELSE 0,
     computed |-> NoStamp]

\* The new entry of the ingested key; existing is the one it supersedes.
IngestedEntry(existing, sha, file) ==
    [raw |-> file, sha |-> sha,
     amended |-> Present(existing),
     prior |-> IF Present(existing) THEN existing.raw ELSE NoStamp,
     version |-> IF Present(existing) THEN existing.version ELSE 0,
     computed |-> NoStamp]

\* Mutant: a manifest of the one new entry is saved.
SaveRawAlone(p) ==
    LET j == job[p]
    IN  /\ j.pc = "saveRaw"
        /\ Save(p, [EmptyManifest EXCEPT !.entry[j.key] =
                      IngestedEntry(j.snap.entry[j.key], j.sha, j.file)])
        /\ UNCHANGED <<raw, computed, published, now>>

SaveRaw(p) ==
    LET j == job[p]
    IN  /\ j.pc = "saveRaw"
        /\ Save(p, [j.snap EXCEPT !.entry[j.key] =
                      IngestedEntry(j.snap.entry[j.key], j.sha, j.file)])
        /\ UNCHANGED <<raw, computed, published, now>>

-----------------------------------------------------------------------------
(* create_computed_version *)

\* Mutant: a key that has a version keeps it.
SameVersion(e) == IF Present(e) THEN e.version ELSE 0

NewVersion(e) == e.version + 1

StartComputed(p, k) ==
    /\ Loads(p)
    /\ NewVersion(manifest.entry[k]) \in Versions
    /\ job' = [job EXCEPT ![p] = [NoJob EXCEPT
                 !.pc = "openComputed", !.key = k, !.snap = manifest]]
    /\ UNCHANGED <<raw, computed, manifest, published, named, now>>

OpenComputed(p) ==
    LET j == job[p]
    IN  /\ j.pc = "openComputed"
        /\ now < MaxNow
        /\ computed' = [computed EXCEPT
             ![j.key][NewVersion(j.snap.entry[j.key])][Stamp(now)] = "torn"]
        /\ job' = [job EXCEPT ![p].pc = "closeComputed",
                              ![p].file = Stamp(now)]
        /\ now' = now + 1
        /\ UNCHANGED <<raw, manifest, published, named>>

CloseComputed(p) ==
    LET j == job[p]
    IN  /\ j.pc = "closeComputed"
        /\ computed' = [computed EXCEPT
             ![j.key][NewVersion(j.snap.entry[j.key])][j.file] = "complete"]
        /\ job' = [job EXCEPT ![p].pc = "saveComputed"]
        /\ UNCHANGED <<raw, manifest, published, named, now>>

\* Mutant: the version is incremented twice.
TwiceVersionedEntry(existing, file) ==
    [existing EXCEPT !.version = NewVersion(existing) + 1, !.computed = file]

\* The entry keeps its other fields; a key without one gets the computed
\* fields and nothing else.
ComputedEntry(existing, file) ==
    [existing EXCEPT !.version = NewVersion(existing), !.computed = file]

FirstPublished(k, v, file) ==
    IF published[k][v] = NoStamp THEN [published EXCEPT ![k][v] = file]
    ELSE published

SaveComputed(p) ==
    LET j == job[p]
    IN  /\ j.pc = "saveComputed"
        /\ Save(p, [j.snap EXCEPT !.entry[j.key] =
                      ComputedEntry(j.snap.entry[j.key], j.file)])
        /\ published' = FirstPublished(j.key, NewVersion(j.snap.entry[j.key]),
                                       j.file)
        /\ UNCHANGED <<raw, computed, now>>

(***************************************************************************)
(* get_canonical_computed_path: the stamp of the file it returns, NoStamp  *)
(* for None.  With a version it looks at the directory of that version and *)
(* takes the last name, whatever the manifest says.                        *)
(***************************************************************************)
CurrentComputed(k) == manifest.entry[k].computed
LookupVersion(k, v) ==
    LET files == {s \in Stamps : computed[k][v][s] # "absent"}
    IN  IF ~Present(manifest.entry[k]) \/ files = {} THEN NoStamp
        ELSE CHOOSE s \in files : \A t \in files : t <= s

-----------------------------------------------------------------------------
(* update_serving_metadata, the pipeline's last write to the manifest *)

StartMetadata(p) ==
    /\ Loads(p)
    /\ job' = [job EXCEPT ![p] = [NoJob EXCEPT
                 !.pc = "saveMetadata", !.snap = manifest]]
    /\ UNCHANGED <<raw, computed, manifest, published, named, now>>

SaveMetadata(p) ==
    /\ job[p].pc = "saveMetadata"
    /\ Save(p, [job[p].snap EXCEPT !.marked = TRUE])
    /\ UNCHANGED <<raw, computed, published, now>>

-----------------------------------------------------------------------------
(* rebuild_manifest_from_raw *)

RawFiles(k) == {s \in Stamps : raw[k][s].st # "absent"}

\* Mutant: the first file by name wins.
FirstByName(k, files) == CHOOSE s \in files : \A t \in files : s <= t

\* The scan goes by name and replaces only on a strictly later mtime.
Latest(k, files) ==
    CHOOSE s \in files : \A t \in files :
        \/ raw[k][t].mtime < raw[k][s].mtime
        \/ raw[k][t].mtime = raw[k][s].mtime /\ s <= t

RebuiltEntry(k) ==
    IF RawFiles(k) = {} THEN NoEntry
    ELSE LET s == Latest(k, RawFiles(k))
             earlier == {t \in RawFiles(k) : t < s}
         IN  [raw |-> s, sha |-> ParquetSha,
              amended |-> earlier # {},
              prior |-> IF earlier = {} THEN NoStamp ELSE Latest(k, earlier),
              version |-> 0, computed |-> NoStamp]

StartRebuild(p) ==
    /\ "rebuild" \in Faults
    /\ job[p].pc = "idle"
    /\ job' = [job EXCEPT ![p] = [NoJob EXCEPT !.pc = "saveRebuilt",
                 !.snap = [entry |-> [k \in Keys |-> RebuiltEntry(k)],
                           marked |-> FALSE, whole |-> TRUE]]]
    /\ UNCHANGED <<raw, computed, manifest, published, named, now>>

SaveRebuilt(p) ==
    /\ job[p].pc = "saveRebuilt"
    /\ Save(p, job[p].snap)
    /\ UNCHANGED <<raw, computed, published, now>>

-----------------------------------------------------------------------------
(* The environment *)

(***************************************************************************)
(* A write raises: read_csv, mkdir or to_parquet before there is a file    *)
(* (to_parquet removes what it could not finish), or save_manifest after   *)
(* the Parquet file is complete.  The operation ends without its save.     *)
(***************************************************************************)
FailWrite(p) ==
    /\ job[p].pc \in {"openRaw", "openComputed"} \cup Saving
    /\ End(p)
    /\ UNCHANGED <<raw, computed, manifest, published, named, now>>

\* Process p is killed; what it had written stays as it is.
Crash(p) ==
    /\ "crash" \in Faults
    /\ job[p].pc # "idle"
    /\ End(p)
    /\ UNCHANGED <<raw, computed, manifest, published, named, now>>

\* The disk event after which the recovery path is to be used.
LoseManifest ==
    /\ "lose" \in Faults
    /\ manifest # EmptyManifest
    /\ manifest' = EmptyManifest
    /\ UNCHANGED <<raw, computed, job, published, named, now>>

Step(p) ==
    \/ \E k \in Keys, c \in Csvs : StartIngest(p, k, c)
    \/ OpenRaw(p)
    \/ CloseRaw(p)
    \/ SaveRaw(p)
    \/ \E k \in Keys : StartComputed(p, k)
    \/ OpenComputed(p)
    \/ CloseComputed(p)
    \/ SaveComputed(p)
    \/ StartMetadata(p)
    \/ SaveMetadata(p)
    \/ StartRebuild(p)
    \/ SaveRebuilt(p)
    \/ FailWrite(p)
    \/ Crash(p)

Next == LoseManifest \/ \E p \in Procs : Step(p)

Spec == Init /\ [][Next]_vars

-----------------------------------------------------------------------------
(* Properties *)

(***************************************************************************)
(* The path of a file and the digest of its content agree with the         *)
(* entry that names it: an entry with a raw_path names a file that is      *)
(* complete and holds the rows of the CSV whose SHA-256 the entry records. *)
(* Kills and failed writes must not break it: the file is closed before    *)
(* the entry is saved, and nothing writes to it again.                     *)
(***************************************************************************)
IntactEntry(k, e) ==
    e.raw # NoStamp => /\ raw[k][e.raw].st = "complete"
                       /\ e.sha \in {raw[k][e.raw].csv, ParquetSha}
CanonicalIntact == \A k \in Keys : IntactEntry(k, manifest.entry[k])

(***************************************************************************)
(* An amended entry still names what it superseded: an older, complete     *)
(* file of the same key with other content (ingest_psx_csv, is_amendment   *)
(* and prior_raw_path).  An entry that is not amended names none.          *)
(***************************************************************************)
SupersedesOlder(k, e) ==
    IF e.amended
    THEN /\ e.prior # NoStamp /\ e.prior < e.raw
         /\ raw[k][e.prior].st = "complete"
         /\ raw[k][e.prior].csv # raw[k][e.raw].csv
    ELSE e.prior = NoStamp
AmendmentChain == \A k \in Keys : SupersedesOlder(k, manifest.entry[k])

(***************************************************************************)
(* "New ingest for an existing key supersedes the prior file": no save     *)
(* takes the canonical file of a key back to an older one or to none.  Of  *)
(* an operation that works on an old copy of the manifest, the save does.  *)
(***************************************************************************)
CanonicalForward ==
    [][manifest'.whole =>
         \A k \in Keys : manifest.entry[k].raw <= manifest'.entry[k].raw]_vars

(***************************************************************************)
(* "No raw/ file is ever deleted or overwritten": a raw file that is       *)
(* complete stays as it is, whatever is ingested, rebuilt or killed later. *)
(***************************************************************************)
RawAppendOnly ==
    [][\A k \in Keys, s \in Stamps :
         raw[k][s].st = "complete" => raw'[k][s] = raw[k][s]]_vars

(***************************************************************************)
(* What the recovery contract rests on: when no operation is under way, a  *)
(* rebuild from raw/ would choose the file the manifest says is canonical, *)
(* unless an ingest wrote a later one and ended before its entry was       *)
(* saved.  It never goes back to a file that was canonical before.         *)
(***************************************************************************)
RebuildAgrees ==
    \A k \in Keys :
        LET e == manifest.entry[k]
            r == RebuiltEntry(k)
        IN  e.raw # NoStamp /\ (\A p \in Procs : job[p].pc = "idle") =>
              r.raw = e.raw \/ (e.raw < r.raw /\ r.raw \notin named[k])

(***************************************************************************)
(* F-024: "a study run before a corporate action can be reproduced by      *)
(* passing version=N where N was current at study time": whenever the key  *)
(* has an entry, a lookup of a version that was ever current returns the   *)
(* file that was current then; a lookup without a version that finds a     *)
(* file finds that of the entry's version.                                 *)
(***************************************************************************)
ReplayStable ==
    \A k \in Keys :
        LET e == manifest.entry[k]
        IN  Present(e) =>
              /\ \A v \in Versions :
                    published[k][v] # NoStamp => LookupVersion(k, v) = published[k][v]
              /\ CurrentComputed(k) \in {NoStamp, published[k][e.version]}

(***************************************************************************)
(* The ledger seen in the code's state: the retained contents are those of *)
(* the complete raw files, the canonical content is the one in the file    *)
(* the entry names.                                                        *)
(***************************************************************************)
Ledger == INSTANCE CanonicalLedger WITH
    Contents <- Csvs,
    Nothing <- NoSha,
    archive <- [k \in Keys |->
        {raw[k][s].csv : s \in {t \in Stamps : raw[k][t].st = "complete"}}],
    canonical <- [k \in Keys |->
        IF manifest.entry[k].raw = NoStamp THEN NoSha
        ELSE raw[k][manifest.entry[k].raw].csv],
    version <- [k \in Keys |-> manifest.entry[k].version]

(***************************************************************************)
(* With one process at a time and no recovery under way, whatever is       *)
(* killed, psx_ingest.py implements the ledger: load, write, save moves    *)
(* the canonical content of one key forward, and nothing else.             *)
(***************************************************************************)
ImplementsLedger == Ledger!LedgerSpec

=============================================================================
