# Verification of ASM Clean-Up

ASM Clean-Up connects to an Oracle host over SSH, finds the data files that ASM keeps
under user aliases or that are not Oracle managed (OMF), and generates `ALTER DATABASE
MOVE` scripts that a DBA runs later. It has a web application (FastAPI, SQLAlchemy on
SQLite, a page that polls) and a command line over the same database, and a library that
walks ASM with a thread pool and writes files.

This directory has TLA+ models of its core, TLC configurations that check them on small
instances, and proofs that TLAPS checks. Paths below are relative to `src/asm_cleanup/`
unless they begin with `src/`.

```
tlc -config scan_lifecycle.cfg MCScanLifecycle.tla      # one run
tlapm ScanLifecycleProofs.tla                           # the proofs of one module, a minute or two
```

## 1. Inventory

| component | state it keeps | operations | what is hard | what makes it correct |
|---|---|---|---|---|
| Scan lifecycle: `web/routers/scans.py`, `cli.py` (`cmd_run`), `services/scan_service.py` (`run`), `discovery/target_discovery_runner.py` | tables `scans`, `scan_aliases`; background tasks (memory only) | trigger (check, insert, queue), load rows, run phase by phase, complete, fail; cascade delete from `targets.py` | concurrent requests over transactions that do not span a SELECT; crash between any two commits; failed commits; keys SQLite reuses; the row deleted under a run | an active row has a run behind it; a run writes its own row; a row says what its run did; records start once, end once; accepted scans end |
| Targets and SSH keys: `web/routers/targets.py`, `auth/ssh_key_store.py`, `ScanService._ssh_connection` | table `targets`; the encrypted key file | create, update, delete, look up a key, move a plain text key over | two stores without a common transaction; table keys reused; check, then write | no target finds another's key; a pasted key wins; moving a key loses nothing |
| Host discovery: `discovery/host_discovery.py`, `transport/database_catalog.py` | none | Grid home, disk groups, databases, one dictionary query per database | failures that look like empty answers | later stages are right for what was answered |
| ASM walk: `walk/`, `domain/alias_record.py`, `domain/paths.py`, `pipeline/walk_scope_resolver.py` | listings | roots, recursion, parsing rows | partial listings; depth; duplicates | every alias shown is recorded once |
| Alias enrichment: `services/alias_enrichment.py` | alias rows, records for the emitter | join of walk and dictionaries | both sides partial; letter case; PDB GUIDs shared by copies of a database | each file once, under its dictionary's path |
| MOVE SQL emitter: `sql/move_sql_emitter.py` | script text | sort, group by database, switch containers, MOVE | the container is state of the session, changed by earlier statements | a MOVE runs in its file's container |
| Walk pipeline: `pipeline/pipeline_orchestrator.py`, `asm_session.py`, `walk_results.py`, `walk/transcript.py` | artifacts of a day in a directory, connections | walk paths in a thread pool, write transcript, SQL, JSON; walk from a transcript | first error wins; stale files of the same day; a port per thread; files half written | a connection is one thread's and is closed; results in the order of the paths; an artifact on disk is the one its summary says; every call ends |
| PDB GUID collector: `transport/pdb_guid_map_collector.py`, `database_catalog.py` | a map | srvctl and sqlplus per database | partial failures, precedence over the configured map | an unmapped GUID stops the script, and nothing else does |
| Web page: `static/app.js` | selected target and scan, one poller | select, trigger, poll, redraw | answers out of order; a tick in flight when the poller is replaced | the page shows the selected scan, and learns of its end |
| Authentication: `auth/`, `web/routers/auth.py`, `web/deps.py` | none | log in, check a token | none: stateless | - |
| Transport: `transport/ssh.py`, `local.py`, `services/connection_factory.py` | connections | run a command | no timeouts | - |
| Database set-up: `db/db_manager.py`, `src/migrations/`, `db/demo_seed.py`, `src/scripts/build_demo_db.py` | schema, stamped version, the demo file | migrations at start-up, demo build | starters without a lock; DDL that is not rolled back; a build over a file | a stamp is true; who starts has the schema; no build touches the production file |
| Reports, configuration: `report/`, `config/` | none | formatting, validation | - | - |

How they interact: a POST to `/api/targets/{id}/scan` inserts a `scans` row and queues
`run_discovery_async`, which loads scan and target by key in a session of its own and calls
`ScanService.run`. The run reads the SSH key (and may write both stores), connects, asks
`HostDiscovery`, walks with `AsmWalker`, joins with `AliasEnricher`, emits with
`MoveSqlEmitter`, and commits its progress after every stage. The page polls the row.
`delete_target` removes key, target, scans and aliases at any time. The command line does
the same in another process on the same SQLite file. The library pipeline
(`PipelineOrchestrator.run`) uses the walk and the emitter without a database. The web server
and every command first bring the database to its latest revision.

PROJECT.json lists the hazards at the lines where they bite, with the properties that
cover them, or with what is known where none does: several are real, are in the models, and are what a
property has to except.

## 2. Modules

| module | models |
|---|---|
| `ScanRecord` | abstract: what a client that polls may see happen to one scan record |
| `ScanLifecycle` | trigger, background task, command, run, delete, crash and failed commit, over the three tables |
| `ScanLifecycleProofs` | the inductive invariant of `ScanLifecycle` and the theorems |
| `ScanData` | what one run computes: discovery, walk, enrichment, scripts, with remote failures |
| `ScanDataProofs` | its inductive invariant and theorems |
| `TargetKeys` | target requests and the key lookup of a scan, over table and key store |
| `TargetKeysProofs` | its inductive invariant and theorems |
| `Frontend` | the page: selection, poller, answers in any order, over a server whose scans follow `ScanRecord` |
| `FrontendProofs` | its inductive invariant and theorems |
| `PathRuns` | abstract: what a caller of the library pipeline is promised |
| `WalkPipeline` | `run` and `process_path`: the pool, connections and artifacts of concurrent calls; implements `PathRuns` |
| `WalkPipelineProofs` | its inductive invariant, theorems, and the refinement |
| `PathRun` | one path of such a run: scope, walk, transcript, aliases, PDB GUIDs, script |
| `PathRunProofs` | its invariants and theorems |
| `Loops` | the loops over a list that `PathRun` has: with a condition, and without what was seen before |
| `LoopsProofs` | lemmas about them, about `FlattenSeq` and about prefixes, for any lists |
| `DatabaseSetup` | migrations by several starters, the demo build, kills and failing statements |
| `DatabaseSetupProofs` | its inductive invariant and theorems |
| `MCScanLifecycle`, `MCScanData`, `MCTargetKeys`, `MCFrontend`, `MCWalkPipeline`, `MCPathRun`, `MCDatabaseSetup` | instances for TLC: symmetry sets, hosts, scopes, calls, paths, a state constraint |

How they compose: `ScanLifecycle` and `WalkPipeline` each implement an abstract
specification (`ScanRecord`, `PathRuns`); `Frontend` runs over `ScanRecord` in place of the
server. `ScanData` and `PathRun` say what is computed inside a phase of the one and a thread of
the other.

### ScanLifecycle

Each request, task and command is a process (`WebRun`, `CliRun`, `Deleter`) with a program
counter. One action is one database transaction together with the SELECTs before it, unless
another process can come between them and matter; then each has its own. That is the real grain: pysqlite begins a transaction at the first INSERT, UPDATE or DELETE, so
a SELECT protects nothing; and there is no `PRAGMA foreign_keys`, so SQLite enforces no
reference. `SelectTarget`, `CheckActive`, `Insert`, `Queue` are `trigger_scan` (and
`cmd_run`, which does not check); `LoadRows` and `Refresh` are what the task and the
command do before `run()`; `Start`, `NextPhase`, `Complete` are `run()`, with its phases
connect, discover, walk, enrich, emit; `ReadTarget` is the last read of `self.target` in a phase (a commit expires
the row, so the read is a SELECT of its own, and a target deleted after it does the phase no harm);
`Fail` is the exception handler; `RowGone` is the handler
when its own commit raises because the row is gone; `CommitFails` is a flush or commit that fails and
leaves the session to be rolled back, which the handler does not do, or a statement that fails before `run()` begins
(the SELECTs of the task, the refresh after the insert). `DeleteSelect`,
`DeleteCascade`, `DeleteCommit` are `delete_target`: the ORM cascade deletes the rows it
loaded, not those there are at the commit. `CrashServer` and `KillCommand` lose processes,
never rows. `CreateTarget` gives a deleted target's key to a new one.

The auxiliary variables `used`, `reused`, `dangled`, `saw` are written and never read by
actions. `reused` is needed because `scans.id` has no AUTOINCREMENT: when the row with the
largest key is deleted SQLite gives that key out again, and a run that still holds it then
updates a stranger's row. The properties say what holds as long as that has not happened.

Left out: columns nothing reads, the commits inside one phase (they change the wording of
the progress message), what remote commands return (`ScanData`).

### ScanData

The host is chosen in `Init`: each file has a database, a container, a disk group and a
kind (known to its dictionary by OMF path, by alias, by a loose path, or not at all; with
an alias in ASM or without). `DiscoverDiskGroups`, `DiscoverDatabases`, `Collect`, `ResolvePaths`, `WalkPath`, `EndWalk`,
`Enrich`, `Emit` (one record at a time) and `Complete` are the stages of `ScanService.run` in order. `RemoteFails` lets each
remote command fail as the code sees it: a failed `asmcmd ls +` is `+DATA`, a failed `srvctl` leaves the databases that oratab
or the processes show (any part of them, or none), a failed
sqlplus is a database without files, a failed listing is an empty directory
(`fail_loud=False`), and a lost connection is an exception, which ends the scan before the
walk (`Abort`) and marks one path during it. `Remap` and `Standalone` are the loops of
`enrich_and_persist`, `Switch` is the one decision in the loop of `emit`. `scripts` grows with that loop;
the code stores it when it is complete, and the properties speak of it then only.

A path is not spelled out. It is the OMF name or the alias of a file, written as the walk or as the
dictionary writes it; the two differ in letter case only, which the join ignores
and Oracle does not. Disk group and database of a walked alias are those of the path it was
listed under, as `from_listing_line` takes them. Assumed of ASM: one user alias per file, OMF paths contain the GUID of
a PDB's file. A placeholder is named after the whole GUID (the code takes 8 digits).

### TargetKeys

`CreateCheck`, `CreateInsert`, `CreateRefresh`, `SetPasted` are `create_target`;
`UpdateCheck`, `SetPasted`, `UpdateCommit` are `update_target`; `DeleteSelect`, `DeleteKey`
(or `DeleteKeyFails`, the swallowed exception), `DeleteCommit` are `delete_target`;
`LoadKey`, `SetLegacy`, `ClearLegacy` are `load_pasted_ssh_key` and the commit after it.
The ORM writes only changed columns: `UpdateCommit` has no statement when nothing changed.
Three faults strike anywhere they can: `CommitFails`, `SetFails` (the store raises: a create
then answers 500 though its row is there, and nothing in the repository promises otherwise)
and `CrashServer`. A call of the key store is atomic, as it is for `MemorySshKeyStore`; `keyrings.cryptfile`
rewrites its file without a lock, which is outside this repository and not modelled. The
auxiliary `strayed` notes keys written while their target was being deleted or whose
removal failed, `outrun` keys pasted while a scan moved the plain text.

### Frontend

JavaScript runs one handler at a time, so an action is what runs between two awaits. An
async call under way is a task that waits for one answer: sent, answered (with what the
server saw then), delivered. `SelectScan`, `SelectTarget`, `TriggerTargetScan` are the
clicks; `ShowScanDetails` and `ScanIsMissing` are `loadScanDetails` after its await,
`PollerFires` and `ShowTick` the interval of `startPolling`, `ShowScans` is `fetchScans` with what
its caller does next, `ScanQueued` the rest of `triggerTargetScan`, `RequestFails` the catch clauses.
The server is `ScanRecord` for each scan (`ServerStep`: other clients and the runs), read
by `AnswerGet` and extended by `AnswerPost`. As `ScanLifecycle` implements `ScanRecord` only
until a scan key is reused, `ScanRecord` as used here is more liberal than the server: a key whose row is
gone may be submitted again, as SQLite does.

The auxiliary `mishaps` names what the code does not guard against: a tick that is answered
after its poller was replaced or stopped ("late"), details that arrive after another scan was
selected ("crossed"), details that never come ("failed"). The properties say what holds
until one of these happened, so that they are exactly the ways the page can go wrong.

Left out: sign-in, the target form, deleting a target from the page (another client's
`Remove` covers what it does to scans), tables and banners, sidebar badges.

### WalkPipeline

Calls (`Run`) are processes, and the threads of a call work on its paths. `Call`, `Take` and
`Leave` are `AsmSession.open` with `PipelineOrchestrator.run`: handing out the paths, taking futures as they complete,
leaving the pool and closing the session. `Begin`, `Walk` or `Load`, `Policy`, `Summarise`,
`WriteFile`, `Close` are `process_path` in a thread, cut wherever another thread or process can come between:
a walk, GUID fetch or serialisation touches nothing shared until a file is opened (which empties it),
and the file is written in a step of its own. A command that fails raises (`fail_loud`), and so does a missing policy or a file
that cannot be opened, at the script and at the summary too (`Raises`). Errors that block a script are
caught and the path still has its summary. `Kill` takes the process at any point. Names of
artifacts hold the day, the slug of the path and its place in a run over several paths, so all runs of a
day share them. Two paths may have one slug (`SlugOf`; `asm_path_slug` writes `_` for whatever a file name should not
have), so that runs of one path each share files though their paths differ. And `disk` has whose text each file holds and how much of it is there.
The auxiliary `crossed` notes artifacts on which two runs worked side by side.

### PathRun

One path, single-threaded, with the data the threads of `WalkPipeline` abstract from. A name
is a word with its spelling (upper case or not): ASM folds case, `srvctl` does not. `Discover`
and `Resolve` are `WalkScopeResolver`; `List` is one directory of `AsmWalker._walk_one` (a stack in
place of the recursion); `Aliases` is `AsmInventory.extract_aliases`, with
the database of each alias by `NamesDatabase`: the segment after the disk group, unless it is in `NoDatabase`, the words that look
like a data file, a type of file or a GUID. So an alias in the root of a disk group is taken for a database of its own name,
which the map of GUIDs is then asked for, or has the database of its target; `ToTranscript` and
`Read` are `walk/transcript.py`, line by line; `ResolvePolicy`, `Collect`, `Merge` are
`resolve_move_policy_for_emit` and `PdbGuidMapCollector` with its retry in upper case; `Emit`
is the emitter's refusal of unmapped GUIDs and the containers it gives. Output of `srvctl` and
sqlplus is their parsed outcome. Each command may fail. Of a host it is assumed (`IsHost`) that no directory
lists two subdirectories of one name, as in any file system; without it the walk would list one twice.
The loops of the code that go over a list with a condition (`Filtered`) or leave out what they
have seen (`FirstOfEach`) are recursive functions of `Loops`, so that they can be proved about.

### DatabaseSetup

`Start`, `ReadVersion`, `CheckTable`, `CreateTable`, `Create`, `Stamp` are `run_migrations`, statement by statement, over
the three revisions of `src/migrations/versions`; `SaveRows` stands for whatever the started
process writes. `Build`, `Unlink`, `Seed` are `build_demo_database`, with the path resolved to the file it is. A file
is refused when it is one of `Protected`, those whose base name is `asm_cleanup.db`, wherever they are. `DATABASE_URL` is assumed to
name one of them (`SetupAssumption`), as it does by default.
External, and modelled from how Alembic and pysqlite are used here: there is no lock between
upgrades, each CREATE and ALTER is final when it ran, a revision's stamp is a commit of its own, an unstamped file first gets the
version table (looked for, then created, so that two starts can collide there without a fault), and a CREATE or ADD COLUMN of what is
there raises. `Kill` and `StatementFails` are the faults, the second at every statement and at the removal of the old file; a process that ended may start again.

## 3. Runs

| run | instance | properties |
|---|---|---|
| `scan_lifecycle` | 2 web requests, 1 command, 1 delete, 1 target key, 3 scan keys, 1 crash, 1 failed commit; 2.0 M states | `TypeOK`, `ActiveIsAttended`, `OneWriter`, `RecordTellsRun`, `CheckSerialises`, `RecordsKeepPromise` |
| `scan_progress` | 1 web request, 1 command, 1 delete, 2 target keys, no faults; 56 k states | `ScansEnd` |
| `scan_data` | 2 files of 5 kinds, 2 databases (one a copy of the other: a shared GUID, a renamed PDB), 2 disk groups, all failures; 6.9 M states | `TypeOK`, `MovesEachFileOnce`, `MovesRunAtHome` |
| `target_keys` | 2 creates, 1 update, 1 delete, 1 scan, 2 names, 2 target keys, 1 fault; 1.0 M states | `TypeOK`, `KeysBelong`, `PastedKeyWins`, `PlainTextNotLost` |
| `page` | 2 scans of 2 targets, 2 clicks, 2 async calls, 1 lost request, up to the first late tick or missing details; 2.2 M states | `TypeOK`, `ActiveIsPolled`, `PaneIsOfSelection`, `CopyGivesDrawn` |
| `page_progress` | 1 scan, 2 clicks, 2 async calls, nothing lost; 236 k states | `PageLearns` |
| `walk_pipeline` | 2 calls over 2 paths of one slug or 1, with 2 workers or 1, over SSH or not, live or from a transcript, 1 fault; 239 k states | `TypeOK`, `PortsAreOwn`, `ConnectionsClosed`, `SummaryTellsFiles`, `RunsKeepPromise`, `CallsEnd` |
| `path_run` | 8 hosts of 2 disk groups and 2 databases, scopes with repeated and differently spelt names, exclusions, depths 0 to 2, 7 policies; 39 k states | `TypeOK`, `RootsAreTheScope`, `WalkIsExact`, `TranscriptReadsBack`, `ScriptIsMapped`, `BlockedForCause`, `PathEnds` |
| `database_setup` | 2 starters from any version, the demo build with 4 paths (one a link, one a file of the protected name elsewhere), 2 faults; 115 k states | `TypeOK`, `StampIsTrue`, `ReadyHasSchema`, `OnlyFaultsStrand`, `ProductionKept`, `MigrationsComplete` |
| `double_scan` | 2 web requests | violates `OneActiveScanPerTarget` |
| `stuck_running` | 1 web request, 1 failed commit | violates `NoScanLeftRunning` |
| `row_container` | 1 file | violates `RowsAgreeWithScripts` |

What the passing runs show:

- `ActiveIsAttended`: the only ways to leave a scan pending or running for ever (and so its
  target blocked with 409) are a crash, a lost commit, and a row that outlived its target.
- `OneWriter`, `RecordTellsRun`: until a scan key is reused, rows and aliases of two runs
  never mix, and a completed row has its own SQL and all its aliases.
- `CheckSerialises`: the active-scan check does serialise every pair of requests that do not
  overlap between their check and their insert. `double_scan` is exactly the other case.
- `RecordsKeepPromise`: `ScanLifecycle` implements `ScanRecord`, each record starting and
  ending at most once, until a key is reused.
- `MovesEachFileOnce`: whatever failed, a completed scan moves each file that it saw and
  that needs it once, under the letters its dictionary has, and nothing else.
- `MovesRunAtHome`: no MOVE runs in another PDB than its file's. It may run in CDB$ROOT when no path
  the scan read shows the GUID, or after a placeholder no session can switch to, when the
  dictionary was not read. A GUID shared by PDBs of different names is excepted: the map
  from GUIDs to names is one for all databases.
- `KeysBelong`: though table keys are reused and the stores share no transaction, no target
  finds the key of another one, with two exceptions that `strayed` names.
- `PastedKeyWins`, `PlainTextNotLost`: the one-time move of a plain text key loses no key at
  any crash point, and overwrites a pasted one only in the window between its lookup and its write.
- `ActiveIsPolled`: a scan shown as pending or running without a poller is always the work of a
  late tick (which stops whichever poller there is, or redraws `running` after the end) or of
  details that did not come. Both do happen: checked without the
  exception, the property is violated by a late tick.
- `PaneIsOfSelection`: details, badge and selection are of one scan unless an answer came late,
  crossed another choice or failed.
- `PageLearns`: with the poller alone, and no further click, the page learns of the end of a scan.
- `CopyGivesDrawn`: with the details of a scan drawn, Copy Script and Download Script give that scan's
  scripts or none. The exception is a target without scans: `selectTarget` (`static/app.js:313`) clears the
  pane but not the scripts, and the buttons then still give those of the scan before.
- `PortsAreOwn`, `ConnectionsClosed`: a Fabric connection is never in two threads, and whatever
  raised in whichever thread, a call that is over has closed all of them.
- `RunsKeepPromise`, `CallsEnd`: `run()` answers after the last path came to an outcome, with
  results in the order of the paths or an error, also when a path fails while others still
  wait for a worker, and it does answer.
- `SummaryTellsFiles`: a summary that claims a script lies beside that script unless a
  later run died, failed or is at work between the files, or two runs worked on them side by
  side. So a rerun that is blocked leaves the older fix SQL in place, with a summary that does
  not claim it.
- `RootsAreTheScope`, `WalkIsExact`: the roots are the product of disk groups and databases
  that the scope, its filter and its exclusions ask for, each directory once; the walk lists all and only what
  the depth limit reaches through directory rows.
- `TranscriptReadsBack`: a transcript cut anywhere reads as a beginning of the walk, never as
  something else, so a run from it can miss aliases but invents none.
- `ScriptIsMapped`, `BlockedForCause`: a script has each alias once with a container that the
  manual map or a database gives, and is blocked only when an unmapped GUID could not be had.
- `StampIsTrue`, `ReadyHasSchema`: for all interleavings of starters, kills and failed
  statements a database has what its stamp says, and a process that goes on has the latest schema.
- `OnlyFaultsStrand`, `MigrationsComplete`: starters that collide lose all but one, which
  brings the schema to its end. Only a kill or an error leaves a revision half made; then every later start fails on
  "already exists", which nothing in the code repairs.
- `ProductionKept`: no build removes, fills or empties the production file, also through a link. It is
  assumed to be named `asm_cleanup.db`, the name `assert_not_production_database` looks for: a `DATABASE_URL` with another base name is
  not protected, though the module's docstring speaks of the production database (`db/demo_seed.py:3-5`).

What the violations show: two concurrent triggers make two active scans though 409 is
documented; a failed commit leaves `running` behind though the handler is there to prevent
it; and a PDB's file outside a GUID directory gets the right container in its row and the
wrong one (CDB$ROOT) in the script.

Behaviours that the models have and no text of the repository speaks against, so that no run calls them wrong: a scan inserted
while its target is deleted survives it (`dangled`); an update that loses a race for a name answers 500; a create
whose key cannot be stored answers 500 and keeps its row.

Why the bounds are enough: the races here are between two actors and one shared row or
key, so two of a kind and one of each other kind reach every pair; three scan keys are one
for each run; one fault may strike between any two steps, and the faults leave nothing in memory for a
second one to disturb. More targets and more
faults are left to the proofs, which hold for any number. Two files make every pair of
kinds meet in one script, in the same database or in two, in all orders; two disk groups
and two databases give four paths, some failed and some not. CHECK_DEADLOCK is FALSE but in
`database_setup`: a scan or a call
ends, a server without requests rests, and so does a page without clicks. On the page the races are between
one call under way and the next, or between one call and a click: two of each, and two scans, make every pair;
`page` stops a behaviour after a late tick or missing details (`NotExcused`), where its two
properties with an excuse hold whatever happens next; `page_progress` has no such constraint.

For `WalkPipeline` two paths and two workers make every pair of threads of a call, one worker makes paths wait, and two calls
make every pair of runs over one artifact; a
second fault is left to the proofs. In `path_run` a tree of three levels has an alias at each, one of them at the root of a disk group, and limits 0, 1 and 2 cut it below each; names
come in both spellings and twice. In `database_setup` the number of revisions is the real
one, two starters collide in every revision, and two faults leave a half-made file behind and strike again.

Symmetry is used in safety runs only, over requests and names that no definition tells
apart.

### Fairness

`PageLearns` uses `Frontend!FairSpec`: the browser fires the interval and delivers answers, the server
answers each request, and its scans begin and end, which is what `ScansEnd` shows of
them. The user need not click and other clients need not do anything.

`ScansEnd` uses `FairSpec`: weak fairness of each process that has begun (`RequestStep` and
`ServiceStep`). Requests and tasks run on the server's thread pool, a command in its own
process, and the operating system schedules both. It assumes that remote commands return
or raise: `connection.run` has no timeout, so that is a property of the network. New
requests need not come, and `ScansEnd` is checked without crashes and failed commits,
which do leave scans active (`stuck_running`).

`CallsEnd` uses `WalkPipeline!FairSpec`: weak fairness of the caller's loop and of each thread on its
path, again the operating system's scheduling and remote commands that come back; kills and
errors may strike, and new calls need not come. `PathEnds` assumes weak fairness of the one
thread there is. `MigrationsComplete` assumes that each process that runs goes on
(`Step`); nothing is assumed of who starts one, again or at all.

## 4. Proofs

Eight modules hold proofs, for any value of the constants (any sets of requests, calls,
paths, scans, targets, files; any bounds; any number of faults), from the assumptions on
constants that each model states.

| module | theorem | states |
|---|---|---|
| `ScanLifecycleProofs` | `TypeCorrect` | `Spec => []TypeOK` |
| | `NoScanForgotten` | `Spec => []ActiveIsAttended` |
| | `OneWriterPerScan` | `Spec => []OneWriter` |
| | `RecordsAreTrue` | `Spec => []RecordTellsRun` |
| | `ChecksSerialise` | `Spec => []CheckSerialises` |
| | `RecordsImplementPromise` | `Spec => RecordsKeepPromise` (refinement) |
| `TargetKeysProofs` | `TypesHold` | `Spec => []TypeOK` |
| | `NoForeignKey` | `Spec => []KeysBelong` |
| | `KeyIsNotLost` | `Spec => []PlainTextNotLost` |
| | `PastedKeyStays` | `Spec => PastedKeyWins` (action property) |
| `FrontendProofs` | `TypesHold` | `Spec => []TypeOK` |
| | `ShownIsPolled` | `Spec => []ActiveIsPolled` |
| | `PaneFollowsSelection` | `Spec => []PaneIsOfSelection` |
| | `ScriptsAreOfDrawn` | `Spec => []CopyGivesDrawn` |
| `WalkPipelineProofs` | `TypesHold` | `Spec => []TypeOK` |
| | `ConnectionsAreOwn` | `Spec => []PortsAreOwn` |
| | `AllConnectionsClose` | `Spec => []ConnectionsClosed` |
| | `PromiseIsKept` | `Spec => RunsKeepPromise` (refinement) |
| | `SummariesTellFiles` | `Spec => []SummaryTellsFiles` |
| `PathRunProofs` | `TypeCorrect` | `Spec => []TypeOK` |
| | `RootsCorrect` | `Spec => []RootsAreTheScope` |
| | `WalkCorrect` | `Spec => []WalkIsExact` |
| | `TranscriptCorrect` | `Spec => []TranscriptReadsBack` |
| | `ScriptCorrect` | `Spec => []ScriptIsMapped` |
| | `BlockedCorrect` | `Spec => []BlockedForCause` |
| `ScanDataProofs` | `TypesHold` | `Spec => []TypeOK` |
| | `EachFileMovesOnce` | `Spec => []MovesEachFileOnce` |
| | `RunsAtHome` | `Spec => []MovesRunAtHome` |
| `DatabaseSetupProofs` | `TypesHold` | `Spec => []TypeOK` |
| | `StampsAreTrue` | `Spec => []StampIsTrue` |
| | `ReadyStandsOnSchema` | `Spec => []ReadyHasSchema` |
| | `StartsNeverStrand` | `Spec => []OnlyFaultsStrand` |
| | `ProductionIsKept` | `Spec => ProductionKept` (action property) |

Each module has an inductive invariant `IInv` (`WalkPipelineProofs` has a second, `FileInv`, on top of it; `PathRunProofs` has
`RootsInv`, `WalkInv` and `FetchInv`, each on top of `TypeOK`), model-checked on the instance of its run before it was proved, a lemma that `Init` implies it and that
each action preserves it, and theorems that take what they need from it. `LoopsProofs` has lemmas only.

`ScanLifecycleProofs`: `IInv == TypeOK /\ KeyInv /\ DanglingNoted /\ Attention /\ Telling /\ Settled`,
with one lemma per conjunct and a case per action. `TypeOK` is not inductive without `HoldsKey`
(what a run past its insert writes is a row only if it holds a key). `RowsHaveMakers` and `KeysAreUsed` say
whose a row is and that two runs hold one key only if it was given out twice; every other
part rests on them. `Attention` strengthens `ActiveIsAttended` with how far the attending
run is: a run that has not started may yet find its target gone and return. `Telling`
adds to `RecordTellsRun` that the aliases are in place before the SQL is. `Settled` extends
`CheckSerialises` back to the moment of the check, and `DanglingNoted` justifies `dangled`.

`TargetKeysProofs`: between the two stores stands what the requests under way have read. `Roles`
says what each has at each point, `Whole` that a missing row is nothing else; `Cleared` that a delete comes to its commit with
the key gone, so that the next target of that table key starts without one; `Settled` that the request whose
key is stored keeps the row it was for. `NoneFound` carries a scan's empty lookup to its
write, which is the window `PastedKeyWins` names. `Stored` says that whoever is about to clear
the plain text has stored a key.

`FrontendProofs`: `ActiveIsPolled` is inductive once calls are known to be well formed (`Calls`). A tick
draws on whatever is shown, so `PaneIsOfSelection` needs `PollsSelected`: until something came late, crossed or
failed, only the selected scan is polled and its details are drawn.

`WalkPipelineProofs`: `Connected` (a thread works on the port chosen for it, which is open) and
`Used` (an open connection is the session of a call that is not over or of a thread at
work) give the properties of connections with `Quiet` (nothing of a call that is over
works). The refinement needs `InPlace` (a result is in its path's place and of a path that
ended well), `Assigned` and `GaveUp` (who leaves with an error saw a path fail); each action maps to a
step of `PathRuns` or a stutter.

The files of a day are `FileInv`. `Exclusive`: on a name on which no two runs crossed at most one
thread is at work. `Signed`: the run that a file names has come past the step that writes it, and past all of them if
the file is a whole summary. `FilesInPlace`: what the thread at work has written by now is in the files, whoever wrote them
before. `InOrder`: a thread before the step that writes the script claims none.
`AllTell` is the property, by name; its excuse, a later run that wrote the script but no summary, stays one
because by `Exclusive` and `Signed` that run is over, or is the one at work that will write its own summary beside its own script.

`LoopsProofs`: the induction theorems of the library take an operator, so that a statement about all lengths is proved
as one about the set of lengths it holds for (`SetInduction`, from the well-foundedness of the naturals). With it a
recursive function is shown to exist (`Recursion`), and what `Pick`, and so `Filtered` and
`FirstOfEach`, and `FlattenSeq` have at each place.

`PathRunProofs`: `HasPolicy` (GUIDs are fetched for a policy only) makes `TypeOK` inductive. `RootsInv` carries what `Discover` found to `Resolve`, which
gives the roots by the lemmas on the loops. `WalkInv` is of the walk half way: the stack holds only
directories that are to be listed (`StackUnder`), what was listed is reachable (`ListedReached`), each directory
that is reachable is listed or below one of the stack (`NoneForgotten`), no two of the stack are one
inside the other (`StackApart`), nothing of the stack is in what was listed (`ListedAside`), and a directory was listed
after the one it is in (`ListedInOrder`). That the reading of a transcript gives the inventory is an induction over the
directories of it, with one over the rows of a directory inside (`EveryInventoryReadsBack`); it holds at
every moment of a run, not only at the end of the walk. `FetchInv` says where each GUID that was fetched
comes from (`FetchedFrom`), that what is left to ask are databases of scope and aliases
(`LeftAsked`), that each of them was asked when none is left (`AllAsked`), and what the map of the emit is (`MapFrom`, `MapCause`).

`DatabaseSetupProofs`: no lock orders the starters, but the first object of a revision does:
whoever made it owns the revision, and everyone else fails on it. `Underway` says what a process
at a revision has under it, `OneOwner` that no two own one on a file, `Exact` that without a fault a file
is its stamp's schema and what the owner of the next revision has made.

`ScanDataProofs`: at every stage the invariant relates what the scan has to the host. `Read`: the maps hold what
the dictionaries that were read say, and no more; `Listed`: a record for each alias seen; `Joined`: the
records are the join of both. `RecordsAre` then shows that there is exactly one for each file that is to be
moved (`ToMove`), by cases on what names the file. `Placed` gives each record that was emitted one place,
and `Ran` says that the last switch before it, if any, is to the container it was resolved to.

Only model-checked: liveness (`ScansEnd`, `PageLearns`, `CallsEnd`, `PathEnds`, `MigrationsComplete`), which is
out of the prover's reach. Every other property of a passing run is a theorem.

## 5. Not modelled, and why

- Authentication and token checks: stateless.
- Reports, logging, configuration: formatting and validation of values.
- Host discovery, in part: Grid home and SID detection and the parsing of rows (wording); its failures are in `ScanData`.
- Transport, in part: the environment wrapper, the temporary key file, the missing time-out of
  `connection.run` (a command that never returns keeps its scan active for ever; the fairness
  assumptions exclude it).
- The page, in part: sign-in, the target form, tables and banners.
- Command line, in part: commands that only read.
- `do_analyze` and `do_fix` switched off (they skip steps), downgrades (never run by the program), what `keyrings.cryptfile`
  does inside one call, which is another project's code.
- `scripts/` for screenshots and logos: build tools.

## 6. Plan

Done: the scan lifecycle, the data of a scan, target keys, page, library pipeline, the run of a path and database
set-up, each modelled, checked and proved but for liveness.

What is left: `destination_disk_group`, which `ScanService.run` reads twice (`services/scan_service.py:237`, `:272`), once the
columns of a target other than its key are part of `ScanLifecycle`.
