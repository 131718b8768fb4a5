----------------------------- MODULE DatabaseSetup -----------------------------
(***************************************************************************)
(* How the SQLite database comes to its schema.  The web server, every      *)
(* command-line run and `db upgrade` call DbManager.run_migrations first,   *)
(* side by side and without a lock; the demo database is built in a file of *)
(* its own, over what is there.                                            *)
(*                                                                         *)
(* Alembic brings the database from its stamped version to the latest, one  *)
(* revision after the other.  On SQLite every CREATE and ALTER is there for *)
(* good as soon as it ran; the stamp of a revision is a commit of its own.  *)
(***************************************************************************)
EXTENDS Naturals, Sequences

CONSTANTS
  Starter,     \* web servers and commands on the production database
  Builder,     \* the build of the demo database
  Output,      \* the paths a build may be given
  FileAt,      \* the file that each path resolves to
  File,        \* the database files
  Protected,   \* the files named asm_cleanup.db (PRODUCTION_DB_BASENAMES), in any directory
  Production,  \* the file that DATABASE_URL names: one of them, as by default
  None,        \* no file
  MaxFaults    \* bound: killed processes and statements that fail (locked, disk full)

Process == Starter \cup {Builder}

ASSUME SetupAssumption ==
  /\ Builder \notin Starter /\ MaxFaults \in Nat
  /\ Production \in Protected /\ Protected \subseteq File /\ None \notin File
  /\ FileAt \in [Output -> File]

\* What each revision under migrations/versions creates, in order, and their order by
\* down_revision.
CreateTables == <<"targets", "ix_targets_name", "scans", "scan_aliases">>
AddProgressMessage == <<"scans.progress_message">>
AddMoveOnline == <<"targets.move_online">>
Revisions == <<CreateTables, AddProgressMessage, AddMoveOnline>>
Latest == 3
ObjectsOf(rev) == {Revisions[rev][i] : i \in 1 .. Len(Revisions[rev])}
Schema(version) == UNION {ObjectsOf(rev) : rev \in 1 .. version}

VARIABLES
  configured,  \* alembic.ini is found
  db,          \* each file: the objects in it, its version table and the version stamped there
               \* (0: none), and whose rows it has
  process,     \* where each process is, its file, the version it is at, the next object
  faults       \* faults so far

vars == <<configured, db, process, faults>>

Rows == {"none", "real", "demo"}
Nothing == [objects |-> {}, table |-> FALSE, version |-> 0, rows |-> "none"]
Idle == [at |-> "idle", file |-> None, version |-> 0, next |-> 1]
Migrating == {"create", "stamp"}
Reading == {"open", "check", "table"}
Working == Migrating \cup Reading \cup {"unlink", "seed"}
Ended == {"ready", "refused", "failed", "killed"}

\* The production database is new, or an earlier release left it whole at its version.
Init ==
  /\ configured \in BOOLEAN
  /\ \E version \in 0 .. Latest :
       db = [f \in File |->
              IF f = Production
              THEN [objects |-> Schema(version), table |-> version # 0, version |-> version,
                    rows |-> IF version = 0 THEN "none" ELSE "real"]
              ELSE Nothing]
  /\ process = [p \in Process |-> Idle]
  /\ faults = 0

At(p, label) == process[p].at = label
Goto(p, label) == process' = [process EXCEPT ![p].at = label]
Here(p) == db[process[p].file]
Fault == faults < MaxFaults /\ faults' = faults + 1

\* Mutant: run_migrations logs the error and returns.
LogsOnly == "ready"

\* The exception ends the start (or the build); the connection is closed.
Failed == "failed"

\* Any statement may fail, and any operation on a file.
StatementFails(p) == Fault /\ Goto(p, Failed) /\ UNCHANGED db
-----------------------------------------------------------------------------
(* The callers of run_migrations. *)

\* lifespan, cmd_run and cmd_db upgrade; one that ended may be started again (the web
\* server's container restarts unless stopped).
Start(p) ==
  /\ p \in Starter /\ process[p].at \in {"idle", "failed", "killed"}
  /\ process' = [process EXCEPT ![p] = [Idle EXCEPT !.at = "open", !.file = Production]]
  /\ UNCHANGED <<configured, db, faults>>

\* The server saves a target or a scan: every column of the models must be there.
SaveRows(p) ==
  /\ p \in Starter /\ At(p, "ready")
  /\ Schema(Latest) \subseteq db[Production].objects
  /\ db' = [db EXCEPT ![Production].rows = "real"]
  /\ UNCHANGED <<configured, process, faults>>

\* Mutant: the path is checked before it is resolved.
IsNamedProduction(path) == path = "asm_cleanup.db"

\* assert_not_production_database: the name of the file, once the path is resolved.
IsProduction(path) == FileAt[path] \in Protected

\* build_demo_database: refused, or what is at the destination is removed first.
Build(path) ==
  /\ process[Builder].at \notin Working
  /\ process' = [process EXCEPT ![Builder] =
       IF IsProduction(path) THEN [Idle EXCEPT !.at = "refused"]
       ELSE [Idle EXCEPT !.at = "unlink", !.file = FileAt[path]]]
  /\ UNCHANGED <<configured, db, faults>>

Unlink(p) ==
  /\ At(p, "unlink")
  /\ \/ /\ db' = [db EXCEPT ![process[p].file] = Nothing]
        /\ Goto(p, "open") /\ UNCHANGED faults
     \/ StatementFails(p)
  /\ UNCHANGED configured

\* The targets, their scans, aliases and scripts, in one commit.
Seed(p) ==
  /\ At(p, "seed")
  /\ \/ /\ Schema(Latest) \subseteq Here(p).objects
        /\ db' = [db EXCEPT ![process[p].file].rows = "demo"]
        /\ Goto(p, "ready") /\ UNCHANGED faults
     \/ /\ ~ Schema(Latest) \subseteq Here(p).objects
        /\ Goto(p, Failed) /\ UNCHANGED <<db, faults>>
     \/ StatementFails(p)
  /\ UNCHANGED configured
-----------------------------------------------------------------------------
(* run_migrations: alembic upgrade head. *)

\* run_migrations has returned.
Migrated(p) == IF p = Builder THEN "seed" ELSE "ready"

\* Where a process is that has read or stamped a version.
Onward(p, version) ==
  [process EXCEPT ![p].version = version, ![p].next = 1,
                  ![p].at = IF version < Latest THEN "create" ELSE Migrated(p)]

\* Without alembic.ini nothing is done; else the stamped version is read.  Where there is
\* none alembic makes sure of its version table first.
ReadVersion(p) ==
  /\ At(p, "open")
  /\ \/ /\ ~ configured
        /\ Goto(p, Migrated(p)) /\ UNCHANGED <<db, faults>>
     \/ /\ configured
        /\ IF Here(p).version = 0 THEN Goto(p, "check") ELSE process' = Onward(p, Here(p).version)
        /\ UNCHANGED <<db, faults>>
     \/ configured /\ StatementFails(p)
  /\ UNCHANGED configured

\* Is the version table there?
CheckTable(p) ==
  /\ At(p, "check")
  /\ \/ /\ IF Here(p).table THEN process' = Onward(p, 0) ELSE Goto(p, "table")
        /\ UNCHANGED <<db, faults>>
     \/ StatementFails(p)
  /\ UNCHANGED configured

\* CREATE TABLE alembic_version.  It fails when another process ran it since.
CreateTable(p) ==
  /\ At(p, "table")
  /\ \/ /\ ~ Here(p).table
        /\ db' = [db EXCEPT ![process[p].file].table = TRUE]
        /\ process' = Onward(p, 0) /\ UNCHANGED faults
     \/ Here(p).table /\ Goto(p, Failed) /\ UNCHANGED <<db, faults>>
     \/ StatementFails(p)
  /\ UNCHANGED configured

Revision(p) == Revisions[process[p].version + 1]

\* Mutant: the stamp comes with the first object, as if the statements were one transaction.
StampsEarly(p) == TRUE

\* Mutant: one statement too many.
StampsLate(p) == process[p].next > Len(Revision(p))

StampIsNext(p) == process[p].next = Len(Revision(p))

\* The next statement of the revision.  It fails when another process ran it since.
Create(p) ==
  /\ At(p, "create")
  /\ LET object == Revision(p)[process[p].next]
     IN  \/ /\ object \notin Here(p).objects
            /\ db' = [db EXCEPT ![process[p].file].objects = @ \cup {object}]
            /\ process' = [process EXCEPT ![p].next = @ + 1,
                                          ![p].at = IF StampIsNext(p) THEN "stamp" ELSE "create"]
            /\ UNCHANGED faults
         \/ /\ object \in Here(p).objects
            /\ Goto(p, Failed) /\ UNCHANGED <<db, faults>>
         \/ StatementFails(p)
  /\ UNCHANGED configured

\* Mutant: the revision is run and never stamped.
NoStamp(p) == Here(p).version

\* The version table is set to the revision.
Stamped(p) == process[p].version + 1

Stamp(p) ==
  /\ At(p, "stamp")
  /\ \/ /\ db' = [db EXCEPT ![process[p].file].version = Stamped(p)]
        /\ process' = Onward(p, process[p].version + 1)
        /\ UNCHANGED faults
     \/ StatementFails(p)
  /\ UNCHANGED configured

Kill(p) ==
  /\ process[p].at \in Working \cup {"ready"}
  /\ Fault /\ Goto(p, "killed")
  /\ UNCHANGED <<configured, db>>

Step(p) ==
  \/ Unlink(p) \/ Seed(p)
  \/ ReadVersion(p) \/ CheckTable(p) \/ CreateTable(p) \/ Create(p) \/ Stamp(p)

Next ==
  \/ \E p \in Process : Kill(p) \/ Step(p)
  \/ \E p \in Starter : Start(p) \/ SaveRows(p)
  \/ \E path \in Output : Build(path)

Spec == Init /\ [][Next]_vars

\* A process that runs goes on; nothing is assumed of who starts one, again or at all.
FairSpec == Spec /\ \A p \in Process : WF_vars(Step(p))
-----------------------------------------------------------------------------
(* Properties. *)

TypeOK ==
  /\ configured \in BOOLEAN /\ faults \in 0 .. MaxFaults
  /\ db \in [File ->
                [objects : SUBSET Schema(Latest), table : BOOLEAN, version : 0 .. Latest, rows : Rows]]
  /\ process \in [Process -> [at : Working \cup Ended \cup {"idle"}, file : File \cup {None},
                               version : 0 .. Latest, next : 1 .. 5]]
  /\ \A p \in Process : At(p, "create") =>
       process[p].version < Latest /\ process[p].next <= Len(Revision(p))

\* A stamp is believed by every later start: whatever order starts, kills and failed
\* statements come in, the objects of the stamped revisions are all there
\* (run_migrations, and the stamp after each upgrade()).
StampIsTrue == \A f \in File : Schema(db[f].version) \subseteq db[f].objects

\* Whoever gets past run_migrations with an alembic.ini has the latest schema under it, even
\* when others were migrating the same file (lifespan, cmd_run).
ReadyHasSchema ==
  \A p \in Process : configured /\ process[p].at \in {"ready", "seed"} =>
    Schema(Latest) \subseteq Here(p).objects /\ Here(p).version = Latest

\* A revision is left half made, so that every later start fails on "already exists", only by
\* a fault: the starts alone, which take no lock, never leave one behind them
\* (run_migrations side by side).
OnlyFaultsStrand ==
  \A f \in File :
    \/ db[f].objects = Schema(db[f].version)
    \/ \E p \in Process : process[p].file = f /\ process[p].at \in Migrating
    \/ faults > 0

\* Real rows are never lost and never mixed with demo rows, under whatever path or link a
\* build names the production file (demo_seed's promise).
ProductionKept ==
  [][ /\ db[Production].rows = "real" => db'[Production].rows = "real"
      /\ db'[Production].rows # "demo"
      /\ db[Production].objects \subseteq db'[Production].objects ]_db

\* Starts that meet end with the latest schema unless something fails: of those that collide
\* one goes on.
MigrationsComplete ==
  \A p \in Starter :
    (configured /\ At(p, "open")) ~> (db[Production].version = Latest \/ faults > 0)
===============================================================================
