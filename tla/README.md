# A TLA+ verification of psx-equity-analytics

The system ingests end-of-day CSV files of the Philippine Stock Exchange into
Parquet files, keeps in `manifest.json` which of them is canonical, transforms
them with dbt into a DuckDB mart and serves the mart over HTTP. These modules
model its state and its steps as the source has them, TLC checks them on small
instances, and TLAPS proves the main results for instances of any size.

## Inventory

| Component | State | Operations | Correct when |
|---|---|---|---|
| Manifest file (`scripts/psx_ingest.py` 71-103) | `manifest.json`, `manifest.json.tmp` | `load_manifest`, `save_manifest` | a load sees one whole saved manifest |
| Raw and computed stores (`scripts/psx_ingest.py`) | `raw/`, `computed/`, the manifest's entries | `ingest_psx_csv`, `create_computed_version`, `get_canonical_computed_path`, `rebuild_manifest_from_raw` | an entry names a complete file with its own content; raw files never change; a published version can be replayed; a lost manifest can be rebuilt |
| Detect and ingest tasks (`airflow/dags/psx_pipeline_dag.py` 84-169) | the drop directory, XCom, the manifest | `detect_psx_csv_drop`, `validate_and_ingest_csv` | every valid file comes in, once, whatever else is in the drop; a run over a drop that did not change changes nothing |
| Pipeline DAG (same file, 172-392) | task states, `run_results.json`, `_pipeline_last_run` | ten tasks in a chain | tasks take turns; a run is marked complete only behind a passed gate; a run ends |
| Settlement enrichment (`scripts/settlement_enrichment.py`) | `settlement_<date>.parquet` | `fetch_and_write` | a file is there after every call, and holds what was answered |
| Daily analytics mart (`dbt/models/marts/fact_daily_analytics.py`) | table `fact_daily_analytics` | the dbt model | one row per symbol and session; a symbol's failure stays its own; an amount stands beside the date it is for |
| Staging view (`dbt/models/staging/stg_psx_eod.sql`) | none | a view over the canonical raw files | only canonical rows |
| DuckDB connections (`scripts/duckdb_manager.py`) | the database, its WAL, DuckDB's lock on it | `serving_connection`, `pipeline_connection`, `initialize_schema`, `validate_date_range` | the file is given up by whoever has it; only the pipeline keeps readers out; the schema is whole before it is used |
| Serving API (`serving/psx_analytics_api.py`) | none of its own | daily, tick, SARIMA status, canonical path, readiness | every request ends; none makes a file or a table |
| Old API (`app/api.py`) | none | the same endpoints | |
| Backup and restore (`scripts/backup.sh`, `restore.sh`) | backup files, checksums | copy, verify, replace | the latest backup can be restored; a killed restore loses nothing that was there before it |
| Metrics exporter (`prometheus/exporters/duckdb_metrics.py`) | none | a read-only scrape | never disturbs the writer |

How they interact. The DAG's tasks call the functions of `psx_ingest.py` in the
worker's process; the operator calls the same functions from a shell
(README.md 284 and 303 of the repository) and the API loads the manifest in a
third. They share files and no lock: what one saves another may be about to
overwrite with the copy it loaded before. Tasks hand each other data through
XCom (the detected files), the file system (settlement files, dbt's
`run_results.json`) and DuckDB. The database file is locked by DuckDB itself:
four tasks of the DAG open it for writing, each from its own process, the API's
workers and the exporter for reading, and an open that the lock forbids raises
on either side. Nobody waits and nobody retries but Airflow.

What is hard here: read-modify-write of a shared JSON file by several processes;
kills between a data file and the manifest that names it; time stamps as
names; recovery that infers the past from modification times; a drop
directory that is scanned again by every run and every retry; trigger rules
that cannot tell one failure from another; results files that outlive the
command they belong to; a file lock that turns a request of a reader into a
failed attempt of a task, and the other way round; dbt commands that outlive a
killed worker. `PROJECT.json` lists each hazard at its line.

## Modules

| Module | Models | Depends on |
|---|---|---|
| `ManifestFile`, `MCManifestFile` | load and save at the level of open, write, rename | refines `ManifestRegister` |
| `ManifestRegister` | abstract: the manifest is one value, replaced at once | |
| `ManifestFileProofs` | the proofs about `ManifestFile`, the refinement among them | |
| `PsxIngest`, `MCPsxIngest` | the raw and computed stores and the manifest's entries | refines `CanonicalLedger`; load and save as single steps, as `ManifestFile` shows for one writer; what two savers make of one `.tmp` is among the outcomes of a save |
| `CanonicalLedger` | abstract: canonical content per key, retained, moving forward | |
| `PsxIngestProofs` | type correctness for any processes; files and amendment chains for one | |
| `SerialIngestProofs` | replay, recovery and the refinement, for one process at a time | EXTENDS `PsxIngestProofs` |
| `IngestTask`, `MCIngestTask` | the first two tasks, run after run | `ingest_psx_csv` as one step, as `PsxIngest` shows for one process |
| `IngestTaskProofs` | the proofs about the first two tasks | |
| `PsxPipelineDag` | one run of the whole DAG after another | outcomes of the tasks only |
| `PsxPipelineDagProofs` | the proofs about the DAG | |
| `ServingApi` | the API's workers and the exporter next to the DAG, over DuckDB's file lock | EXTENDS `PsxPipelineDag`, whose actions it composes |
| `ServingApiProofs` | the proofs about the composition, which implements `PsxPipelineDag` | EXTENDS `PsxPipelineDagProofs` |
| `Settlement` | `fetch_and_write`, step by step | |
| `DailyMart`, `MCDailyMart` | the staging view and a build of the mart, symbol by symbol | EXTENDS `Settlement`, whose files it merges |
| `DailyMartProofs` | the proofs about settlement and mart | |
| `BackupRestore` | `backup.sh` and `restore.sh` | |
| `BackupRestoreProofs` | the proofs about the two scripts | |

### ManifestFile

`manifest` and `tmp` are the names in the directory, `data` what the files
hold, `io[p]` the load or save process p is in. `OpenTmp`, `WritePiece`,
`Rename` are lines 99 to 102 of `psx_ingest.py`, `OpenManifest` and `ReadPiece`
lines 90 to 93. The data of a manifest is one value written in `Size` pieces; a
reader that meets pieces of two, or a piece not yet written, gets `Torn`, on
which `json.load` raises. `Crash` kills a process at any step and leaves files
and names as they are. What a disk keeps after a power failure is not modelled.
`Register` is the refinement mapping: the value of the register is what the
file named `manifest.json` decodes to, the view of a loading process what the
file it has open does.

### PsxIngest

A CSV is its digest, a Parquet file the CSV it came from, a path the key of its
directory and the stamp in its name. `raw`, `computed` and `manifest` are what
is on disk; `job[p]` holds the step process p has reached and its copy of the
manifest. An ingest is the steps `StartIngest` (validate, digest, load, check;
nothing is written), `OpenRaw` and `CloseRaw` (`to_parquet`) and `SaveRaw`
(`save_manifest`); `create_computed_version` and `update_serving_metadata`
likewise; `rebuild_manifest_from_raw` scans in one step and saves in another.
Any step that writes may fail (`FailWrite`): before there is a Parquet file, or,
in `save_manifest`, when it is complete (228, 284); the DAG notes the error
(156) and goes on. `Faults` says what else may happen: processes killed, the
manifest lost, a rebuild, a CSV replaced between its digest and its read.

`Save` is one step, which `ManifestFile` justifies for one saver. Two that save
at a time have one `.tmp` between them (99-102): if anyone else was at a save
during this one (`Contended`), the rename may also publish a file that no
`json.load` accepts (`TornManifest`, from which only a rebuild leads out), or
raise because the other has taken the file away. That the text of one lies over
that of the other and still parses is left out.

Two variables are history: `published`, which file was current as version v of
a key, and `named`, which files a saved manifest has ever called canonical.

The clock `now` goes one tick further with every file that is created and a
name is the tick divided by `Resolution`. With `Resolution = 1` no two files of
the model share a name, which is the case of operations at least a second
apart; with a larger one several creations fall into one second.

### IngestTask

`drop` is the drop directory, `canonical` the digest of each key's entry, or
`NoSha` if the entry has none. A run starts (`StartRun`), lists the directory in
the order of names (`Detect`) and ingests file after file. `IngestItem` is an
ingest that goes as the file and the entry decide (`Verdict`): a new content
comes in, a known one is `FileExistsError`, an invalid one `ValueError`, and an
entry without a digest, which `create_computed_version` makes for a key never
ingested (`ComputeFirst`), a `KeyError` in this run and every other. `FailItem`
is the rest of `except Exception` (156): a valid file that meets an error of the
disk is noted and passed over. `EndAttempt` fails the attempt if anything was
noted, `CrashTask` kills it, and either way the task is retried while it has
tries. Files are delivered or replaced at any time (`Deliver`). `touched`,
`settled` and `left` are history: whether a file was delivered since the
detection, whether a whole attempt has gone over the drop as it is, and what
that attempt noted. `MCIngestTask` gives the directory of the run: two names
with dates, one key each. What other names lead to is listed under
Disagreements.

### PsxPipelineDag

`state[t]` and `tries[t]` are Airflow's; `bad` is the set of dbt tests that
fail on the data as it is, `results` what `run_results.json` has recorded,
`marked` the completion mark. `Triggered`, `Schedule` and `EndTask` follow
Airflow's rules for trigger rules, retries and skips and are external.
`Gate` is lines 246 to 279: it judges the failures that are recorded and not
the exit code. `TaggedTests` are the tests whose id has one of the gate's two
tags (none in `dbt/models`), `TestMayNotRun` says whether `dbt test` may end
before it writes its results, so that the gate judges those of another command.
`fresh` is history: a `dbt test` of the gate has written its results and no dbt
command has touched the data since.

A worker that is killed with SIGKILL fails its attempt; the dbt command it had
started with `subprocess.run` (196, 243) goes on as an orphan. `LateDbt` is the
end of such a command, at any time and in whatever state Airflow has its task:
it changes the data and `run_results.json` and no task state.

### ServingApi

`exists` and `tables` are the database file and how much of `SCHEMA_SQL` is in
it, `conn[c]` the mode in which a reader, a task or an orphaned command has the
file open, `request[r]` where a reader is: a reader is the exporter or a thread
of one of the API's processes, which answers one request at a time. Threads of
one process share its lock; as long as they only read that is no different from
threads of several processes, and they need not be told apart.
`Blockers` is DuckDB's lock: any number of processes that read, or one that
writes. `Begin` is a request that has passed its checks, `Scrape` a scrape,
`Connect` opens the file or is refused it, and `EndRequest` answers, or the
process is killed, and closes either way. What turns a request down before it
opens the database, `validate_date_range` for one, is not modelled: it has no
state. `health` and `manifest/canonical` open no database; the second loads the
manifest, as the readers of `ManifestFile` do.

A task of the DAG that uses the database becomes three steps: `Acquire` opens it
for writing, `Refused` is an attempt that ends because it cannot, `EndAttempt`
takes the task's own action from `PsxPipelineDag` and closes. For
`dq_assertions` a refusal is not an error: `dbt test` ends, its exit code is
ignored, and the gate judges the results that are there. `CreateTable` is one
statement of the schema, and `SchemaDone` what the task's success presupposes.
`KillWorker` kills the worker alone: Airflow has the attempt failed, and its
dbt command becomes one of `Children`, with the file if it had it. The retry
then meets it (`Refused`). `ChildOpens` and `ChildRefused` are its open if it
had not come to that, `ChildEnds` is `LateDbt` of its task, and only that gives
the file up.

### Settlement and DailyMart

`Settlement` has the one call of `fetch_and_write` that is under way: `Start`
to `CloseFile` are its paths, `WriteFails` and `MkdirFails` its disk errors. A
row of a file has the date that R5's payload names (106), which nobody compares
with the date that was asked for and that is in the file's name.

In `DailyMart` a build is the steps of `model()`: `BeginBuild` reads the view
and aggregates, `Fit` is one turn of the loop over the symbols (165-214), in
any order, with a fit that converges or raises, `Assemble` merges the settlement
file there is by then, and dbt replaces the mart in one transaction;
`KillBuild` is a kill anywhere before that. Calls of `fetch_and_write` go on
meanwhile. `Staging` is the view: `Validated` its filter on prices, volumes and
dates, then the two joins that give a row its keys. `Daily` aggregates,
`PriorClose` and `Amihud` lag and divide within a `Group`, `SarimaStatus` has
the branches of the loop, `Loaded` and `Merged` are the settlement file and its
join on the date inside the file. `staged` is history: what the view held at the
build the mart is of. Measures are kept as the numbers they are computed from,
so that a division by zero can be seen, and floating point is left out; open,
high, low, VWAP and price impact are aggregates like those modelled.

Two things keep a build from getting that far as the repository is, and
`Columns` says whether they do: the model reads a column `price` that the view
does not return (114), and the view joins `dim_session` on a column
`session_date_key` that the schema does not create. The run `MartAsShipped` has
the columns there are, and every build raises; the run `MartRuns` adds the two,
so that what comes after them can be checked at all. `fact_daily_analytics.py`
also begins with SQL comments and does not parse as Python; what is modelled is
its text from line 29 on. The date of the merge is `vars.execution_date` of the
model's config, which nothing in the repository sets; `Assemble` has any date
and none.

### BackupRestore

`main` is the live DuckDB file, `copy` and `sum` the backups and their checksum
files, `snap` the snapshots of `restore.sh`. A file is the version of the
database it holds, `Mixed` if it is whole and holds none (a copy made while the
file was written), `Partial` while its writer is at it or after the writer was
killed. Each `cp`, the checksum and each `find -delete` is a step or two, and
both scripts end early at any of them. The pipeline writes the live file
(`Checkpoint`) at any time: neither script stops it, and the restore procedures
of `governance/P3-RUNBOOK.md` (3.2 and 4) do not either. A write while a `cp`
reads or writes the live file makes a mixture (`moved`). A file that `cp` has
truncated is not made whole by a connection opened before. `before` and
`overtaken` are history: the last whole content of the live file, and whether
the pipeline wrote that after a restore had begun its snapshot. Backups and
restores begin in different seconds, which is what their names tell apart. A
checksum is identified with the content it was taken of, and the file passed to
`restore.sh` with the one its checksum file names.

## Runs

Each run answers one question. A run that expects a violation checks the one
property its finding in `PROJECT.json` quotes.

| Run | Question | Answer |
|---|---|---|
| `ManifestOneWriter` | do the two files behave as a register for one writer and two readers, killed anywhere? | yes: no torn load, `ManifestRegister` is implemented |
| `IngestSerial` | what does one process at a time give its callers, if it is killed and its writes fail? | entries intact, amendment chains, canonical files that only move forward, replay of every version, the ledger `CanonicalLedger` |
| `IngestLostUpdate` | and two processes, without any fault? | no: a save takes back what the other has ingested |
| `IngestRecovery` | does a rebuild find what was canonical, with kills, failed saves, lost manifests and CSVs replaced while they are read? | that, or a later file that was written and never named; never one that was superseded |
| `IngestRebuildAfterCrash` | is what it finds whole? | no: it may choose a torn file |
| `IngestSameSecond` | are file names unique? | not within a second |
| `IngestTaskRuns` | does every valid file come in, once, and does a rerun change nothing? | yes, for names that have one key each, but for the files that met an error of their own in the last attempt |
| `MartRuns` | is the mart complete, its lag right, its divisions defined, its amounts answered? | yes, whatever fits, disk, R5 and kills do, if the columns the model reads are there |
| `MartAsShipped` | are they? | no: every build raises |
| `ServingRuns` | do turns, the gate before the mark, the schema and the end of every run and request survive readers and pipeline refusing each other the file, and orphaned dbt commands? | yes, and no reader is refused by another, none makes a file or a table, and the file is always given up again |
| `ServingStaleGate` | does the gate still see every failed test next to readers? | no: a refused `dbt test` leaves it the results of `dbt run` |
| `BackupRuns` | is there a way back whatever is killed, pruned or restored? | yes: the latest backup passes the checks, and what was live before a restore is in the live file or a snapshot; not what the pipeline wrote during the restore |

Bounds. `ManifestFile`: two pieces are enough for a content that is half one
manifest and half another; four files are the two with names and those that two
processes still have open. `PsxIngest`: two keys where one has to be left alone;
one where the violation is on one; `MaxNow` creations (3 or 4) allow an
original, an amendment and an amendment of it, or a version before and one
after; `MaxVersion` cuts the versions of a key. `IngestTask`: two files, two
days, two retries as in the DAG, two faults, kills or errors of a file, so that
an attempt can meet one after the other. `DailyMart`: two symbols; sessions 1 to
3, of which one symbol leaves one out, so that the lag crosses a gap; a session
of two ticks whose last is not its highest; a day without volume; and a second
set of rows with one of every kind the view turns down (zero price, negative
volume, future day, unknown symbol). `MinRows` is 2 where the code has 10, so
that one symbol is above and one at the limit. Two dates, so that a payload can
be for another date than the one asked for, and one amount; no bound on calls
and builds. `ServingApi`: one thread of the API and the exporter, which is
enough for one reader to meet another and for both to meet a task; one orphaned
command at a time, which is enough to meet the retry of its own task, a later
task and a reader; one retry where the DAG has two, which leaves an attempt that
is retried and one that is the last; one test. Theorems have any number of all
of these. `ServingStaleGate` takes it that `dbt test` always writes its results
when it has the database, and has no orphans, so that only the lock is left to
keep the results from the gate. `BackupRestore`: three backups, so that one is
pruned, one is the way back and one is being made; two restores, so that the
second begins after the first was killed; two versions. Nothing obliges anyone
to call the scripts, so the system may stop and the run does not check for
deadlock; neither does `IngestLostUpdate`, where two savers may leave a manifest
that no operation loads. Symmetry is used for model values the code does not
tell apart (accepted CSVs, processes, inodes), in runs without liveness
properties.

Fairness. `IngestTask` has weak fairness of `StartRun`, `Detect`, `IngestItem`
and `EndAttempt` together: the scheduler starts runs on its schedule and a
worker goes on with a task it has begun. Kills and errors of a file are bounded
by `MaxFaults`, since a file that meets one every time is never ingested.
`ServingApi` has weak fairness of the pipeline (`PipelineNext`): the scheduler
schedules what it may and a running task ends in some way. The second is an
assumption about dbt: `run_dbt` calls `subprocess.run` without a timeout and the
DAG sets none, so a dbt that hangs stops everything. The same assumption is made
of an orphaned command (`ChildStep`). A reader's `Proceed` is weakly fair: a
thread that has a request goes on with it and a query ends. Nobody is obliged to
send requests or to kill anyone, and neither side is given strong fairness for
the file, since neither waits for it.

## Proofs

Eight modules hold proofs. Each has an inductive invariant that is a conjunction
of named parts, lemmas that say what a group of steps keeps of it, and short
theorems at its end.

`PsxIngestProofs` proves, for any set of keys and CSVs and any bounds:

* `TypeCorrect`: `Spec => []TypeOK`, for any number of processes and all faults.
* `CanonicalFilesIntact` (`CanonicalIntact`) and `AmendmentsChained`
  (`AmendmentChain`), both under `Undisturbed`: one process works on the stores,
  names are unique (`Resolution = 1`) and neither a rebuild nor a replaced CSV
  is among the faults. Kills, failed writes and a loss of the manifest may be.
  `IngestSameSecond` and `IngestRebuildAfterCrash` show that unique names and the
  absence of rebuilds cannot be dropped; that a replaced CSV cannot follows from
  the code, since the digest is then that of another file. More than one process
  is left out because two that save publish what neither of them wrote.

`CanonicalIntact` is not inductive: a process saves an entry it made up from its
copy of the manifest. The inductive invariant `IngestInv` says of every copy
what the property says of the manifest: all entries of all copies name complete
files with their content and predecessors. To that it adds what is known of the
file a process is writing (its stamp lies in the past, it is torn until it is
closed, it holds the CSV whose digest was taken) and that stamps from now on are
free. The lemmas follow that shape: `SoundStays` and `CompleteStays` say that an
entry stays sound when files are only added; `SavesAlone` that one saver
publishes what it wrote; `SaveKeeps` is shared by all steps that save; one lemma
per step of an ingest follows. `LatestExists`, that the rebuild's choice of the
latest file is defined, rests on well-foundedness of the natural numbers.

`SerialIngestProofs` proves, for one process that works on the stores at a time
(`OneProcess`; the DAG has `max_active_runs = 1`), any keys, CSVs and bounds:

* `VersionsReplay`: `Spec => []ReplayStable`, if the manifest is neither lost
  nor rebuilt (`ManifestKept`). It holds for every `Resolution`, that is also if
  several files are created in one second. `ReplayInv` is the inductive
  invariant: the process's copy is the manifest as it is (`CopyCurrent`), what
  was published for a version is the last file of that version's directory, a
  version the key has had (`PublishedLast`), and a file that is being written is
  the last of the directory of the next version, of which nothing is published
  yet (`WritesLast`). A rebuild has to be excluded: it starts the versions of a
  key again from 0, as said under Disagreements.
* `RebuildsAgree`: `Spec => []RebuildAgrees`, with all faults and every
  `Resolution`. `RecoveryInv` orders the files by the two measures the code uses,
  their names and their times: a file that was ever canonical was the last of its
  key by both when its ingest saved it (`NamedInOrder`), and the one an entry
  names is not before any other of them (`NamesLast`). So a rebuild never goes
  back to a file that was superseded; what it may do is go on to one that no
  entry named.
* `CanonicalNeverBack`: `Spec => CanonicalForward` under `ManifestKept`, for every
  `Resolution`, from the two invariants before. `IngestLostUpdate` shows that one
  process is needed.
* `IngestImplementsLedger`: `Spec => ImplementsLedger`, the refinement of
  `CanonicalLedger`, under `LedgerKept` (`Undisturbed` and `ManifestKept`).
  Closing a raw file stores a content, saving an entry makes it canonical,
  saving a computed version adjusts a key; one lemma per step says which, and
  that all others, kills among them, are invisible. The invariant it needs is
  `IngestInv` and `ReplayInv` together: that an entry's file is complete, and
  that the copy that is saved is current, so that no other key goes back.

`IngestTaskProofs` proves, for any drop directory, retries, faults and days:
`TypeCorrect`; `WholeDropIngested` (`DropIngested`), if no two names share a
key on any two days (`OneKeyEach`); and `RerunsChangeNothing`
(`RerunIdentical`), if every name has its date as well (`Dated`). `TaskInv` says
that the list pushed has each file of the drop under its own key (`OwnKeys`) and
that an attempt has already brought in, or noted among its errors, what lies
before its place in the list (`AttemptSound`). Both assumptions are
about names, are what the documentation announces, and what becomes of other
names is listed under Disagreements.

`ManifestFileProofs` proves, for one writer (`OneWriter`) and any readers,
manifests, files and writes per manifest: `FileTypeCorrect`; `LoadsWhole`,
which is `LoadNotTorn`; and `FilesImplementRegister`, that `Spec` implements
`ManifestRegister`. `FileInv` says that the file with the name is complete and
is not the one being written (`NamedWhole`), that a save has written in order
and to `manifest.json.tmp` (`SaveUnderWay`), and that a load holds a complete
file other than that one, whatever its name is by now (`LoadUnderWay`). A rename
is then a put, an open a look, and every other step but the end of a load
leaves the register alone. `OneWriter` is needed: see the first point under
Disagreements.

`PsxPipelineDagProofs` proves, for any tests, tags and retries, over any number
of runs, with orphaned dbt commands ending at any time, and whether `dbt test`
always writes its results or not: `DagTypeCorrect`, `TasksTakeTurns`
(`OneAtATime`) and `GateGuardsMark` (`MarkedAfterGate`). `OneAtATime` by itself
is not inductive: `DagInv` adds that what has begun has all before it ended
(`ChainOrder`), that what was tried under the default rule follows a success
(`AfterSuccess`), how tries are counted (`TriesCounted`) and whose the mark is
(`MarkedByTask`). `TaskStep` is what the steps of all tasks share, so that
`StepKeeps` is proved once. `Judged` adds what the gate knows: results that are
`fresh` are the failures there are. `HardFailBlocks`, which has no `fresh`, is no
theorem: `ServingStaleGate` refutes it.

`ServingApiProofs` proves of the composition, for any number of readers and
orphans: `ServingTypeCorrect`, `StagingFindsSchema` (`StagingHasSchema`) and, if
the API opens read only, `ReadersDoNotBlock` (`RefusedOnlyByPipeline`) and
`ServingOnlyReads` (`ServingNeverWrites`). `ServingInv` keeps `DagInv`; it adds
that a reader has the file while its query runs and a task while it is running
(`Attended`), that no reader writes (`ReadersRead`), and that a schema task which
has succeeded left all tables (`SchemaMade`); `AfterSuccess` of `DagInv` then
gives them to the staging run. `ServingImplementsDag` is `ServingSpec => Spec`
for `TestMayNotRun = TRUE`: next to readers that lock it out, the pipeline does
nothing that the DAG by itself may not. A refused `dbt test` is one that writes
no results, which is why that constant has to be true and is in `ServingRuns`.
`MarkGuardedServing` carries `OneAtATime` and `MarkedAfterGate` over with it.

`DailyMartProofs` proves, for any raw rows, keys, fits, dates, amounts and
columns: `SuccessWritesFile` (`SuccessMeansWhole`), `NoSymbolLost`
(`MartComplete`), `OnlyAnswersShown` (`MartShowsAnswers`), `MartTypeCorrect`
(`MartTypeOK`), `CloseIsLagged` (`LaggedClose`) and `NoDivisionByZero`
(`MeasuresFinite`). `BuildInv` is the invariant of the loop over the symbols: the
rows so far are those of the symbols it has come to, each with the outcome of its
fit (`Fitted`), of what was staged at the beginning; `BeginKeeps` and `FitKeeps`
are its steps, and `MartChange` concludes that a mart which changes is what the
whole of the model computes (`Model`), or empty. `OnlyAnswersShown` needs that
every row of every file, and of the call under way, is `NoFlow` or was answered
for the date it carries (`RowsAnswered`). The facts about a build rest on what
the staging view lets through (`RowsSound`) and what the aggregates make of it
(`DailySound`), and on three lemmas about the operators: `Largest`, that finitely
many rows have a last one; `PriorIsLatest`, that the row one place before is the
latest earlier session, which is a count of two sets that differ by one element;
and `SumIsNatural`, that the fold of `MapThenSumSet` adds up to a natural number.
They assume of raw files that they are finite and of `Null` that it is neither
a number nor a record of measures.

`BackupRestoreProofs` proves, for any number of backups, restores and versions,
with the pipeline writing at any time: `BackupTypeCorrect`, `WayBack`
(`LatestRestorable`), `WholeBackupsRestored` (`RestoresWholeBackups`) and
`SnapshotsSaveLive` (`LiveNotLost`). `KeepInv` says what the files of a backup
may hold by what its `cp` has copied to its end (`FilesArchived`), that prunes
stay behind the latest backup (`BackupOrder`), that what a restore has verified
had been copied to its end (`RestoreUnderWay`), and that the live file is in a
snapshot from when it is opened for writing until it is whole again, or was
written too late for that (`LiveKept`), a snapshot that no later restore
overwrites (`SnapshotsNew`).

Induction. The library's induction theorems take an operator as a parameter and
cannot be applied here. Where induction is needed it is done with sets instead:
the numbers, or the subsets of a finite set, for which something fails would
have a least element, by the well-foundedness theorems, which have no such
parameter (`NaturalsIn`, `SubsetsIn`, `LeastNat`). The function that a fold
defines by recursion is shown to exist and to be typed in that way; what it
computes beyond that is left to TLC.

Only model-checked: liveness under fairness (`RunEnds`, `RequestsEnd`, `LockFreed`,
`EventuallyCanonical`), which is out of the prover's reach. Every invariant and
every action property of the passing runs is proved, under assumptions that the
instance of the run satisfies. The runs with violations show what happens
without some of them.

## Disagreements met while modelling, without a run

The five runs that expect a violation show the disagreements of code and
documentation that bear on the properties proved or checked here. These others
were met on the way. They follow from the lines quoted; the modules have the
code's behaviour, where the part is modelled.

* Two processes that save share `manifest.json.tmp` (`scripts/psx_ingest.py`
  99): the first one's rename publishes what the second has written so far, and
  a load meanwhile raises. 97 says "Atomically write manifest"; 284 and 303 of
  `README.md` have an operator call such functions while the DAG may run. This
  is why `ManifestOneWriter` has one writer, why `Save` of `PsxIngest` may tear
  the manifest, and why the theorems assume one process.
* An ingest whose `save_manifest` raises (228) leaves a complete raw file that no
  entry names. The DAG notes an error (156), and a rebuild later makes that file
  canonical, ahead of the one the manifest had; 336 calls the rebuild
  "data-safe". `RebuildAgrees` allows this and nothing more.
* A rebuild records the SHA-256 of the Parquet file where an ingest records the
  CSV's (`scripts/psx_ingest.py` 353, 171), so the canonical CSV delivered again
  counts as an amendment; `README.md` 258 says "no manifest update".
* A rebuild sets `computed_version` to 0 (358), so versions are given out a
  second time and a replay of version N finds another file than before the
  rebuild; the docstring at 303 promises the replay.
* An ingest of a key that has computed versions only raises `KeyError` (178), in
  every run, so that the file never comes in; 160-162 document `ValueError` and
  `FileExistsError`. `DropIngested` says so of it.
* The entry of an amendment drops `computed_path` (218); a lookup without a
  version then returns `None`, where 300 says "current canonical version".
* The first computed file of an ingested key is version 1 (264); 255 says 0.
* A CSV replaced between its digest (171) and its rows (206) leaves an entry
  that describes other rows, and the first CSV is refused from then on; 162.
* `airflow/dags/psx_pipeline_dag.py` 97 lists the whole drop directory, which
  nothing empties: a day without new files is not skipped, as 90 says it is.
* The pattern at 107 does not match `PSX_EOD_<date>.csv`, which 87 announces:
  such a file is ingested under the date of every run.
* Two names of one key (`ALI.csv` and `ALI_<date>.csv` on that date, 113) amend
  each other on every attempt; 12-13 say re-running is deterministic.
* `dbt_marts_run` has the trigger rule `all_done` (365) and runs after a skipped
  detection, and so do the gate and the completion mark after it; the docstring
  of the detection (91-92) says that "all downstream tasks" are skipped. After a
  failed ingest it runs as well, and such a run is marked complete (284).
* A worker killed by SIGKILL leaves its dbt command running (196), which keeps
  the database from the task's retry and writes `run_results.json` when it ends;
  315 has "Serialized: pipeline holds DuckDB write lock".
* A request is refused while a task has the database
  (`scripts/duckdb_manager.py` 80; `Connect`), where 75-76 say that the pipeline
  runs in parallel without blocking queries and 12 to 17 of the API that they
  never meet; and a request refuses a task, which fails an attempt
  (`Refused`), where `README.md` 328 names two pipelines as the only cause. A
  second writer is refused as well, where `README.md` 130 says it blocks.
* `PSX_SERVING_READ_ONLY` (`scripts/duckdb_manager.py` 52) makes the API's
  connections writable; `README.md` 94 calls them permanently read only.
* Nothing in the API reads the completion mark, where 285 of the DAG says that
  the serving layer does: marts are served before the gate has judged them, and
  when it has turned them down.
* `app/api.py` is there, with the endpoints of the API as they were before its
  logging changed; `KNOWN_ISSUES.md` 17 says it was deleted.
* The gate's tags (259) are in no test's id, so a zero price does not block in
  soft mode, where 233 says it always does.
* The pool `psx_pool` (347) is created nowhere in the repository; 36-37 say the
  pipeline is never blocked by the enrichment.
* `fetch_and_write` creates its directory outside the `try` (82) and may raise
  in the handler (136); line 9 says it never raises. A call repeated while R5
  is away replaces an amount by an empty frame.
* The mart is rebuilt as a whole and merges one date's settlement file
  (`fact_daily_analytics.py` 260): earlier dates lose their amounts;
  `dbt/models/marts/schema.yml` 136-137.
* The row of a settlement file has the date of R5's payload, unchecked
  (`settlement_enrichment.py` 106): asked for one date, R5 may answer for
  another, the file of the first then holds a row that joins with nothing, and
  its `settlement_data_available` may be true all the same.
* The mart's text does not parse as Python, and neither `vars.execution_date`
  nor `staging_source_list.json` is written by anything, so that no settlement
  file is ever merged and no raw file is staged. The daily query joins
  `dim_session` on `session_date_key` as the view does, which the table of
  `scripts/duckdb_manager.py` 231 to 237 does not have.
* `validate_date_range` compares the difference of two days that both belong to
  the range (`scripts/duckdb_manager.py` 158), so that a limit of 90 lets 91
  inclusive days through; `governance/hardening-log.md` 86 and
  `governance/closure-declaration.md` 78 count inclusive days, of which
  `README.md` 91 rejects more than 90.
* Every row of the mart has `computed_version` 0 (226), so a query for any
  other version finds nothing; `README.md` 95 says the API serves any historical version.
* `backup.sh` copies a file that may be changing and takes the checksum of the
  copy (53, 56), so "verify checksum after restore" (42) cannot tell; it leaves
  out the WAL, and `restore.sh` leaves the live WAL beside the restored file.
* What the pipeline writes between the snapshot and line 63 of `restore.sh` is
  in neither of them afterwards; 55 calls the snapshot a "safety net".
* `sha256sum --check` (`restore.sh` 44) checks the file at the path recorded in
  the checksum file, not the one passed in, which a moved backup is not.

## Plan

The modules were written in the order of the table above, the core first. What
was planned as a module of its own for DuckDB's connections is part of
`ServingApi`, where the lock has its effect, and the composition of DAG and API
is that module too.

The proofs planned are done: every invariant and action property that a passing
run checks is a theorem. What is left is to weaken assumptions, such as that of
`VersionsReplay` for several processes that work on different keys at different
times, and an orphaned command in `ServingStaleGate`, a second way to its
violation.

## Not modelled

* DuckDB's WAL: what an open recovers from it after a kill, and what it makes
  of the WAL of another database after a restore, is DuckDB's own code, of which
  the repository shows no use; a model would check our assumptions about it.
* What a file system keeps of an unsynced file after a power failure
  (`scripts/psx_ingest.py` 99-102), for the same reason.
* `validate_date_range` and the SQL of the API's queries: pure functions of one
  request, without state that another step reads. What is wrong with them is
  listed above.
* The overlay of two manifests by two savers that parses all the same: which
  entries it has depends on the lengths of the two texts.
* `app/api.py`, an older copy of the API that nothing starts.
* CSV parsing beyond accepted or not, floating point, SARIMA itself, memory
  limits, the text of metrics and logs: no state that another part reads.
* `scripts/rotate_secrets.sh`, containers, CI, dashboards and scrape
  configuration: they touch none of the data modelled.
