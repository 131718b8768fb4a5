---------------------------- MODULE ScanLifecycle ----------------------------
(***************************************************************************)
(* The life of a scan: the web request (web/routers/scans.py) or command   *)
(* line (cli.py) that inserts the scan row, the background task that runs  *)
(* ScanService.run on it, and the requests that delete the row's target    *)
(* while all this goes on.                                                 *)
(*                                                                         *)
(* Every request is a process.  One action is one database transaction, or *)
(* the SELECTs between two of them: pysqlite opens a transaction at the    *)
(* first INSERT, UPDATE or DELETE only, so nothing holds from one SELECT   *)
(* to the next statement, and FOREIGN KEY clauses are not enforced (no     *)
(* PRAGMA foreign_keys), so a row may outlive the row it refers to.        *)
(*                                                                         *)
(* Abstracted: columns no property speaks about; the commits inside one    *)
(* phase of a run, which change the wording of the progress message only;  *)
(* what the remote commands return (modules to come).                      *)
(***************************************************************************)
EXTENDS Naturals, FiniteSets

CONSTANTS
  WebRun,         \* POST /api/targets/{id}/scan requests
  CliRun,         \* "asm-cleanup run" processes
  Deleter,        \* DELETE /api/targets/{id} requests
  None,           \* SQL NULL, and "not chosen yet"
  MaxTargetId,    \* bound: target keys are 1 .. MaxTargetId
  MaxScanId,      \* bound: scan keys are 1 .. MaxScanId
  MaxCrashes,     \* bound: how often a process is killed
  MaxLockouts     \* bound: how often a commit or a read fails ("database is locked")

Run == WebRun \cup CliRun
TargetId == 1 .. MaxTargetId
ScanId == 1 .. MaxScanId

ASSUME ActorsAssumption ==
  /\ WebRun \cap CliRun = {}
  /\ None \notin Run \cup TargetId \cup ScanId
ASSUME BoundsAssumption ==
  MaxTargetId \in Nat /\ MaxScanId \in Nat /\ MaxCrashes \in Nat /\ MaxLockouts \in Nat

VARIABLES
  targets,    \* keys of the rows of table targets
  scans,      \* table scans: a row for each key, AbsentRow where there is none
  aliases,    \* table scan_aliases: which run wrote alias rows under which scan key
  pc,         \* where each run is
  known,      \* the runs that have read self.target since their last commit
  tid, sid,   \* the target key and the scan key each run holds
  del,        \* each delete request: where it is, its target, the rows it loaded
  crashes,    \* processes killed so far
  lockouts,   \* failed commits and reads so far
  \* Auxiliary, read by no action:
  used,       \* scan keys ever given to a row
  reused,     \* some scan key was given to a second row
  dangled,    \* scan rows that existed while their target row did not
  saw         \* for each run, the runs whose row was in the table at its check

rows == <<targets, scans, aliases>>
env == <<crashes, lockouts>>
aux == <<used, reused, dangled, saw>>
vars == <<rows, pc, known, tid, sid, del, env, aux>>

Active == {"pending", "running"}
Terminal == {"completed", "failed"}
Status == {"absent"} \cup Active \cup Terminal

\* The phases ScanService.run reports as progress, in order.
Phase == {"connect", "discover", "walk", "enrich", "emit"}
After == [connect |-> "discover", discover |-> "walk", walk |-> "enrich", enrich |-> "emit"]
Progress == Phase \cup {"queued", None}
\* The phases whose code reads self.target, which every commit has expired.
ReadsTarget == {"connect", "discover", "enrich"}

ScanRow == [status : Status, target : TargetId \cup {None}, progress : Progress,
            result : Run \cup {None}, error : BOOLEAN,
            by : Run \cup {None}]                   \* by: auxiliary, who inserted it
AbsentRow == [status |-> "absent", target |-> None, progress |-> None,
              result |-> None, error |-> FALSE, by |-> None]
PendingRow(r, t) ==
  [status |-> "pending", target |-> t,
   progress |-> IF r \in WebRun THEN "queued" ELSE None,
   result |-> None, error |-> FALSE, by |-> r]

Present(s) == scans[s].status # "absent"
PresentIds == {s \in ScanId : Present(s)}

\* The key SQLite gives to a new row of a table declared without AUTOINCREMENT:
\* one more than the largest key in the table, so a deleted largest key comes back.
IsNextRowId(id, ids) == (\A i \in ids : i < id) /\ (id = 1 \/ id - 1 \in ids)

Working == {"inserted", "queued", "loaded"} \cup Phase
PC == Working \cup {"idle", "found", "clear", "refused", "skipped", "ended", "lost"}

NoDelete == [at |-> "idle", tid |-> None, scans |-> {}, aliases |-> {}]

Init ==
  /\ targets = {1} \cap TargetId
  /\ scans = [s \in ScanId |-> AbsentRow]
  /\ aliases = {}
  /\ pc = [r \in Run |-> "idle"] /\ known = {}
  /\ tid = [r \in Run |-> None]
  /\ sid = [r \in Run |-> None]
  /\ del = [d \in Deleter |-> NoDelete]
  /\ crashes = 0 /\ lockouts = 0
  /\ used = {} /\ reused = FALSE /\ dangled = {}
  /\ saw = [r \in Run |-> {}]
-----------------------------------------------------------------------------
Goto(r, label) == pc' = [pc EXCEPT ![r] = label] /\ known' = known \ {r}

(* The request: trigger_scan and cmd_run. *)

\* SELECT the target: 404, or the command's "not found" message, when it is missing.
SelectTarget(r, t) ==
  /\ pc[r] = "idle"
  /\ tid' = [tid EXCEPT ![r] = t]
  /\ Goto(r, IF t \in targets THEN "found" ELSE "refused")
  /\ UNCHANGED <<rows, sid, del, env, aux>>

\* Mutant: a queued scan does not count as active.
CheckRunning(r) ==
  /\ r \in WebRun /\ pc[r] = "found"
  /\ Goto(r, IF \E s \in ScanId : scans[s].target = tid[r] /\ scans[s].status = "running"
             THEN "refused" ELSE "clear")
  /\ saw' = [saw EXCEPT ![r] = {scans[s].by : s \in PresentIds}]
  /\ UNCHANGED <<rows, tid, sid, del, env, used, reused, dangled>>

\* SELECT a pending or running scan of the target: 409 when there is one.
CheckActive(r) ==
  /\ r \in WebRun /\ pc[r] = "found"
  /\ Goto(r, IF \E s \in ScanId : scans[s].target = tid[r] /\ scans[s].status \in Active
             THEN "refused" ELSE "clear")
  /\ saw' = [saw EXCEPT ![r] = {scans[s].by : s \in PresentIds}]
  /\ UNCHANGED <<rows, tid, sid, del, env, used, reused, dangled>>

\* INSERT the pending row and commit.  The command line never looks for an active scan.
Insert(r) ==
  /\ pc[r] = IF r \in WebRun THEN "clear" ELSE "found"
  /\ \E s \in ScanId :
       /\ IsNextRowId(s, PresentIds)
       /\ scans' = [scans EXCEPT ![s] = PendingRow(r, tid[r])]
       /\ sid' = [sid EXCEPT ![r] = s]
       /\ used' = used \cup {s}
       /\ reused' = (reused \/ s \in used)
       /\ dangled' = IF tid[r] \in targets THEN dangled \ {s} ELSE dangled \cup {s}
  /\ Goto(r, "inserted")
  /\ UNCHANGED <<targets, aliases, tid, del, env, saw>>

\* Mutant: the task is queued for the newest scan of the table.
QueueNewest(r) ==
  /\ r \in WebRun /\ pc[r] = "inserted"
  /\ IF Present(sid[r]) /\ tid[r] \in targets
     THEN /\ \E s \in PresentIds : /\ \A i \in PresentIds : i <= s
                                   /\ sid' = [sid EXCEPT ![r] = s]
          /\ Goto(r, "queued")
     ELSE Goto(r, "skipped") /\ UNCHANGED sid
  /\ UNCHANGED <<rows, tid, del, env, aux>>

\* The request reads its rows back (refresh(scan); target.id after the commit) and queues
\* the background task.  A row that is gone by now raises: a 500, and no task.
Queue(r) ==
  /\ r \in WebRun /\ pc[r] = "inserted"
  /\ Goto(r, IF Present(sid[r]) /\ tid[r] \in targets THEN "queued" ELSE "skipped")
  /\ UNCHANGED <<rows, tid, sid, del, env, aux>>

\* run_discovery_async: the background task loads both rows by key, or returns.
LoadRows(r) ==
  /\ r \in WebRun /\ pc[r] = "queued"
  /\ Goto(r, IF Present(sid[r]) /\ tid[r] \in targets THEN "loaded" ELSE "skipped")
  /\ UNCHANGED <<rows, tid, sid, del, env, aux>>

\* cmd_run refreshes the scan it inserted and goes on in the same session.
Refresh(r) ==
  /\ r \in CliRun /\ pc[r] = "inserted"
  /\ Goto(r, IF Present(sid[r]) THEN "loaded" ELSE "lost")
  /\ UNCHANGED <<rows, tid, sid, del, env, aux>>
-----------------------------------------------------------------------------
(* ScanService.run. *)

\* An UPDATE by primary key: it writes whatever row has the key now.  When there is none
\* it matches no row and raises (RowGone).
WriteRow(r, row) ==
  /\ Present(sid[r])
  /\ scans' = [scans EXCEPT ![sid[r]] = row]

OwnAliases(r) == [scan : {sid[r]}, by : {r}]

\* status = "running" and the first progress message, in one commit.
Start(r) ==
  /\ pc[r] = "loaded"
  /\ WriteRow(r, [scans[sid[r]] EXCEPT !.status = "running", !.progress = "connect"])
  /\ Goto(r, "connect")
  /\ UNCHANGED <<targets, aliases, tid, sid, del, env, aux>>

\* The last of the reads of self.target in a phase; from then on the phase does not need the
\* row.  When it is gone the read raises (Fail).
ReadTarget(r) ==
  /\ pc[r] \in ReadsTarget /\ r \notin known
  /\ tid[r] \in targets
  /\ known' = known \cup {r}
  /\ UNCHANGED <<rows, pc, tid, sid, del, env, aux>>

\* The work of one phase succeeded; the commit of the next phase's progress message also
\* writes what the session holds: after "enrich", the alias rows.
NextPhase(r) ==
  /\ pc[r] \in DOMAIN After
  /\ pc[r] \in ReadsTarget => r \in known
  /\ WriteRow(r, [scans[sid[r]] EXCEPT !.progress = After[pc[r]]])
  /\ aliases' = IF pc[r] = "enrich" THEN aliases \cup OwnAliases(r) ELSE aliases
  /\ Goto(r, After[pc[r]])
  /\ UNCHANGED <<targets, tid, sid, del, env, aux>>

\* Mutant: the last progress message is left in the completed row.
CompleteKeepsMessage(r) ==
  /\ pc[r] = "emit"
  /\ WriteRow(r, [scans[sid[r]] EXCEPT !.status = "completed", !.result = r])
  /\ Goto(r, "ended")
  /\ UNCHANGED <<targets, aliases, tid, sid, del, env, aux>>

\* The SQL is generated: completed, no progress message, one commit.
Complete(r) ==
  /\ pc[r] = "emit"
  /\ WriteRow(r, [scans[sid[r]] EXCEPT !.status = "completed", !.progress = None, !.result = r])
  /\ Goto(r, "ended")
  /\ UNCHANGED <<targets, aliases, tid, sid, del, env, aux>>

\* Mutant: the handler only logs.
FailSilently(r) ==
  /\ pc[r] \in Phase
  /\ Present(sid[r])
  /\ Goto(r, "ended")
  /\ UNCHANGED <<rows, tid, sid, del, env, aux>>

\* Mutant: the handler puts the scan back into the queue.
FailRequeues(r) ==
  /\ pc[r] \in Phase
  /\ WriteRow(r, [scans[sid[r]] EXCEPT !.status = "pending", !.progress = "queued"])
  /\ Goto(r, "queued")
  /\ UNCHANGED <<targets, aliases, tid, sid, del, env, aux>>

\* Mutant: the handler shows the error as the progress message.
FailShowsProgress(r) ==
  /\ pc[r] \in Phase
  /\ WriteRow(r, [scans[sid[r]] EXCEPT !.status = "failed", !.progress = "error"])
  /\ Goto(r, "ended")
  /\ UNCHANGED <<targets, aliases, tid, sid, del, env, aux>>

\* Any exception of a phase's work, a missing target row among them: the handler records
\* the failure.  Its commit also writes the alias rows an interrupted "enrich" added.
Fail(r) ==
  /\ pc[r] \in Phase
  /\ WriteRow(r, [scans[sid[r]] EXCEPT !.status = "failed", !.progress = None, !.error = TRUE])
  /\ \/ UNCHANGED aliases
     \/ pc[r] = "enrich" /\ aliases' = aliases \cup OwnAliases(r)
  /\ Goto(r, "ended")
  /\ UNCHANGED <<targets, tid, sid, del, env, aux>>

\* The row was deleted: the next flush raises, and the handler's own commit raises again
\* on the session that was not rolled back.  The exception leaves run().
RowGone(r) ==
  /\ pc[r] \in {"loaded"} \cup Phase
  /\ ~Present(sid[r])
  /\ Goto(r, "lost")
  /\ UNCHANGED <<rows, tid, sid, del, env, aux>>

\* A commit, or a read before run() begins, fails ("database is locked").  In the request
\* that is a 500, in the task and the command the end; in run() the handler commits on a
\* session in need of a rollback, which raises: nothing is written.
CommitFails(r) ==
  /\ lockouts < MaxLockouts
  /\ pc[r] \in Working \cup {"found", "clear"}
  /\ lockouts' = lockouts + 1
  /\ Goto(r, "lost")
  /\ UNCHANGED <<rows, tid, sid, del, crashes, aux>>
-----------------------------------------------------------------------------
(* The targets: create_target and delete_target, as far as scans can tell. *)

CreateTarget(t) ==
  /\ IsNextRowId(t, targets)
  /\ targets' = targets \cup {t}
  /\ UNCHANGED <<scans, aliases, pc, known, tid, sid, del, env, aux>>

\* SELECT the target, 404 when it is missing.
DeleteSelect(d, t) ==
  /\ del[d].at = "idle"
  /\ del' = [del EXCEPT ![d] = [NoDelete EXCEPT !.at = IF t \in targets THEN "found" ELSE "done",
                                                !.tid = t]]
  /\ UNCHANGED <<rows, pc, known, tid, sid, env, aux>>

\* db.delete(t): the ORM cascade loads the scans of the target and their aliases.
DeleteCascade(d) ==
  /\ del[d].at = "found"
  /\ LET mine == {s \in ScanId : scans[s].target = del[d].tid}
     IN  del' = [del EXCEPT ![d] = [at |-> "loaded", tid |-> del[d].tid, scans |-> mine,
                                    aliases |-> {a \in aliases : a.scan \in mine}]]
  /\ UNCHANGED <<rows, pc, known, tid, sid, env, aux>>

\* The commit deletes the rows that were loaded and the target, all by primary key.
DeleteCommit(d) ==
  /\ del[d].at = "loaded"
  /\ targets' = targets \ {del[d].tid}
  /\ scans' = [s \in ScanId |-> IF s \in del[d].scans THEN AbsentRow ELSE scans[s]]
  /\ aliases' = aliases \ del[d].aliases
  /\ dangled' = (dangled \ del[d].scans) \cup
                  {s \in PresentIds \ del[d].scans : scans[s].target = del[d].tid}
  /\ del' = [del EXCEPT ![d] = [NoDelete EXCEPT !.at = "done", !.tid = del[d].tid]]
  /\ UNCHANGED <<pc, known, tid, sid, env, used, reused, saw>>
-----------------------------------------------------------------------------
\* The server is killed: its requests and its background tasks, which live in memory only,
\* are gone.  Startup runs the migrations and does not look at the scans.
CrashServer ==
  /\ crashes < MaxCrashes
  /\ crashes' = crashes + 1
  /\ pc' = [r \in Run |-> IF r \in WebRun /\ pc[r] \in Working \cup {"found", "clear"}
                          THEN "lost" ELSE pc[r]]
  /\ known' = known \cap CliRun
  /\ del' = [d \in Deleter |-> IF del[d].at \in {"found", "loaded"}
                               THEN [NoDelete EXCEPT !.at = "done", !.tid = del[d].tid]
                               ELSE del[d]]
  /\ UNCHANGED <<rows, tid, sid, lockouts, aux>>

\* A command is interrupted: KeyboardInterrupt passes every "except Exception".
KillCommand(r) ==
  /\ crashes < MaxCrashes
  /\ r \in CliRun /\ pc[r] \in Working \cup {"found"}
  /\ crashes' = crashes + 1
  /\ Goto(r, "lost")
  /\ UNCHANGED <<rows, tid, sid, del, lockouts, aux>>

RequestStep(r) == CheckActive(r) \/ Insert(r) \/ Queue(r) \/ LoadRows(r) \/ Refresh(r)
ServiceStep(r) ==
  Start(r) \/ ReadTarget(r) \/ NextPhase(r) \/ Complete(r) \/ Fail(r) \/ RowGone(r)

Next ==
  \/ \E r \in Run : (\E t \in TargetId : SelectTarget(r, t))
                    \/ RequestStep(r) \/ ServiceStep(r) \/ CommitFails(r) \/ KillCommand(r)
  \/ \E t \in TargetId : CreateTarget(t)
  \/ \E d \in Deleter : (\E t \in TargetId : DeleteSelect(d, t))
                        \/ DeleteCascade(d) \/ DeleteCommit(d)
  \/ CrashServer

Spec == Init /\ [][Next]_vars

\* Requests and background tasks run on the server's thread pool and the command in its own
\* process: each one that has begun goes on.  The remote commands of a phase are assumed to
\* return or to raise; new requests are not assumed to come.
Fairness == \A r \in Run : WF_vars(RequestStep(r) \/ ServiceStep(r))
FairSpec == Spec /\ Fairness
-----------------------------------------------------------------------------
(* Properties. *)

\* Every table, process and counter stays within its type.
TypeOK ==
  /\ targets \subseteq TargetId
  /\ scans \in [ScanId -> ScanRow]
  /\ aliases \subseteq [scan : ScanId, by : Run]
  /\ pc \in [Run -> PC] /\ known \subseteq Run
  /\ tid \in [Run -> TargetId \cup {None}]
  /\ sid \in [Run -> ScanId \cup {None}]
  /\ del \in [Deleter -> [at : {"idle", "found", "loaded", "done"}, tid : TargetId \cup {None},
                         scans : SUBSET ScanId, aliases : SUBSET [scan : ScanId, by : Run]]]
  /\ crashes \in 0 .. MaxCrashes /\ lockouts \in 0 .. MaxLockouts
  /\ used \subseteq ScanId /\ reused \in BOOLEAN /\ dangled \subseteq ScanId
  /\ saw \in [Run -> SUBSET (Run \cup {None})]

\* A scan shown as pending or running has someone at work on it: a live run holds its key,
\* or the run was killed or lost its last commit, or the row outlived its target.  There is
\* no other way to leave a scan active, and an active scan blocks its target (409).
IsAttended(s) == \E r \in Run : sid[r] = s /\ pc[r] \in Working \cup {"lost"}
ActiveIsAttended ==
  \A s \in ScanId : scans[s].status \in Active => IsAttended(s) \/ s \in dangled

\* As long as SQLite has not given a deleted scan's key to a new scan, a run updates the row
\* it inserted and no other, and the alias rows under a scan come from that scan's own run.
OneWriter ==
  ~reused => /\ \A r \in Run : sid[r] # None /\ Present(sid[r]) => scans[sid[r]].by = r
             /\ \A a \in aliases : Present(a.scan) => scans[a.scan].by = a.by

\* What a row says is what its run did: a running row names the phase its run is in, or was
\* in when it was lost; a completed row holds its own run's SQL, all its aliases, no message
\* and no error; a failed row holds an error and no SQL.
RowTells(row, r) ==
  /\ row.target = tid[r]
  /\ row.status = "pending" => pc[r] \in {"inserted", "queued", "loaded", "skipped", "lost"}
  /\ row.status = "running" => row.progress \in Phase /\ pc[r] \in {row.progress, "lost"}
  /\ row.status = "completed" => OwnAliases(r) \subseteq aliases
  /\ row.status \in Terminal => pc[r] = "ended" /\ row.progress = None
  /\ row.error <=> row.status = "failed"
  /\ row.result = IF row.status = "completed" THEN r ELSE None
RecordTellsRun ==
  ~reused => \A s \in PresentIds : /\ scans[s].by \in Run
                                   /\ sid[scans[s].by] = s
                                   /\ RowTells(scans[s], scans[s].by)

\* A request is accepted only after every run it could see on its target is over, and none
\* of them comes back: two scans of one target are active together only if neither request
\* looked at the table after the other's insert (or no request looked: the command line).
CheckSerialises ==
  ~reused => \A r \in WebRun : \A q \in saw[r] \ {None} :
    sid[r] # None /\ tid[q] = tid[r] => scans[sid[q]].status \notin Active

\* Each scan record lives the life ScanRecord promises its readers: it starts once, ends
\* once, and only disappears after that, unless its key has been used twice.
RowStatus == [s \in ScanId |-> scans[s].status]
Record == INSTANCE ScanRecord WITH status <- RowStatus
RecordStep == reused' \/ Record!RecordNext \/ UNCHANGED RowStatus
RecordsKeepPromise == Record!RecordInit /\ [][RecordStep]_vars

\* Where no process is killed and no commit fails, a scan does not stay pending or running
\* for ever, except a row that outlived its target before its task began.
ScansEnd ==
  \A s \in ScanId : scans[s].status \in Active
                   ~> scans[s].status \notin Active \/ s \in dangled
-----------------------------------------------------------------------------
(* What the repository says, and the code does not do. *)

\* trigger_scan documents "409 when a scan is active": one active scan per target.
OneActiveScanPerTarget ==
  \A s1, s2 \in ScanId : /\ s1 # s2
                         /\ scans[s1].status \in Active /\ scans[s2].status \in Active
                         => scans[s1].target # scans[s2].target

\* The comment at the handler of ScanService.run: it keeps the thread "from crashing and
\* leaving scan in running state".
NoScanLeftRunning ==
  \A s \in ScanId : scans[s].status = "running"
                   => \E r \in Run : sid[r] = s /\ pc[r] \in Working
=============================================================================
