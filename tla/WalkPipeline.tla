----------------------------- MODULE WalkPipeline -----------------------------
(***************************************************************************)
(* The library pipeline: PipelineOrchestrator.run over the paths of a      *)
(* scope, with its pool of threads, a connection for each of them, and the *)
(* artifacts of one day in one directory (walk transcript, fix SQL, JSON   *)
(* summary), which every run of that day shares by name.                   *)
(*                                                                         *)
(* Calls are made in processes of their own, one after the other or side   *)
(* by side.  One action is what a thread does between two points where     *)
(* another thread or process can see or disturb it: a walk up to the       *)
(* opening of its file (which empties it), the writing of the file, and so *)
(* on for the fetch of the PDB GUIDs with the SQL, and for the summary.     *)
(* Which paths a scope resolves to and what a walk and the GUID fetch find  *)
(* is in PathRun; here a listing has aliases or not, a script is written or *)
(* blocked.                                                                *)
(***************************************************************************)
EXTENDS Naturals, FiniteSets

CONSTANTS
  Run,        \* calls of AsmSession.run
  Paths,      \* the scope resolves to the paths 1 .. Paths
  SlugOf,     \* the file name made of each path (asm_path_slug), which two paths may share
  Requests,   \* what each call may ask for, see Request
  None,       \* no run, no port, no result
  MaxFaults   \* bound: commands, connections and files that fail, and processes killed

Path == 1 .. Paths

\* A call: for the whole scope or one explicit path, over SSH or local commands, with a live
\* walk or from the transcript of the day (do_walk), by at most so many threads (max_workers).
\* Some are only made when no other run is under way, and keep others from it.
Request == [paths : {Path} \cup {{p} : p \in Path}, ssh : BOOLEAN, walks : BOOLEAN,
            workers : Nat \ {0}, apart : BOOLEAN]

ASSUME PipelineAssumption ==
  /\ Paths \in Nat \ {0} /\ MaxFaults \in Nat
  /\ Requests \in [Run -> SUBSET Request]
  /\ None \notin Run /\ None \notin Path /\ \A r \in Run : None \notin Requests[r]

VARIABLES
  call,       \* where each call is, what it asked for, the results it has taken
  task,       \* for each call and path: where the work is, its port, what it found
  open,       \* the SSH connections of the with blocks that are entered
  disk,       \* the artifacts
  faults,     \* faults so far
  crossed     \* auxiliary, read by no action: artifacts two runs worked on side by side

vars == <<call, task, open, disk, faults, crossed>>

CallAt == {"idle", "pool", "leaving", "returned", "raised", "killed"}
Running == {"pool", "leaving"}
Over == {"returned", "raised", "killed"}

\* The steps of process_path, in order, and how it ends.
Busy == {"walk", "load", "saving", "policy", "fixing", "json", "jsoning", "close", "fail"}
Ended == {"ok", "failed", "dead"}
TaskAt == {"none", "queued"} \cup Busy \cup Ended

\* An artifact is named by the slug of its path and, in a run over several paths, by its place
\* among them.
Name == [slug : {SlugOf[p] : p \in Path}, place : Path \cup {None}]
NameIn(q, p) == [slug |-> SlugOf[p], place |-> IF Cardinality(q.paths) = 1 THEN None ELSE p]
Kind == {"walk", "fix", "json"}
Port == Run \X (Path \cup {None})

\* A file: who opened or wrote it last, how much of its text is there, and what the text says:
\* of a transcript, that there are aliases; of a summary, that a script was written.
File == [by : Run \cup {None}, text : {"absent", "empty", "part", "whole"}, says : BOOLEAN]
Absent == [by |-> None, text |-> "absent", says |-> FALSE]
Emptied(r) == [by |-> r, text |-> "empty", says |-> FALSE]

NoTask == [at |-> "none", port |-> None, finds |-> FALSE, fixed |-> FALSE]

Init ==
  /\ call = [r \in Run |-> [at |-> "idle", asks |-> None, results |-> [p \in Path |-> None]]]
  /\ task = [r \in Run |-> [p \in Path |-> NoTask]]
  /\ open = {}
  /\ disk = [k \in Kind |-> [n \in Name |-> Absent]]
  /\ faults = 0 /\ crossed = {}

Asked(r) == IF call[r].asks = None THEN {} ELSE call[r].asks.paths
Alone(r) == Cardinality(Asked(r)) = 1
NameOf(r, p) == NameIn(call[r].asks, p)
Session(r) == <<r, None>>
Goto(r, p, label) == task' = [task EXCEPT ![r][p].at = label]
Fault == faults < MaxFaults /\ faults' = faults + 1
-----------------------------------------------------------------------------
(* run(): hand out the paths, take the outcomes. *)

\* AsmSession.open and run up to the submission of every path, in order.
Call(r, q) ==
  /\ call[r].at = "idle"
  /\ \A s \in Run : call[s].at \in Running => ~q.apart /\ ~call[s].asks.apart
  /\ call' = [call EXCEPT ![r].at = "pool", ![r].asks = q]
  /\ task' = [task EXCEPT ![r] = [p \in Path |-> IF p \in q.paths THEN [NoTask EXCEPT !.at = "queued"]
                                                   ELSE NoTask]]
  /\ open' = IF q.ssh THEN open \cup {Session(r)} ELSE open
  /\ UNCHANGED <<disk, faults, crossed>>

\* Mutant: results are appended as they come.
AppendResult(r, p) ==
  LET next == CHOOSE i \in Asked(r) : /\ call[r].results[i] = None
                                      /\ \A j \in Asked(r) : j < i => call[r].results[j] # None
  IN  [call EXCEPT ![r].results[next] = p]

\* results[idx] = res
PutResult(r, p) == [call EXCEPT ![r].results[p] = p]

\* The caller takes a finished future.  The first that failed ends the loop.
Take(r, p) ==
  /\ call[r].at = "pool" /\ p \in Asked(r)
  /\ \/ /\ task[r][p].at = "ok" /\ \A i \in Path : call[r].results[i] # p
        /\ call' = PutResult(r, p)
     \/ /\ task[r][p].at = "failed"
        /\ call' = [call EXCEPT ![r].at = "leaving"]
  /\ UNCHANGED <<task, open, disk, faults, crossed>>

\* The pool is left when every future is done, whether run() returns or raises; then the
\* session is closed.
Leave(r) ==
  /\ \A p \in Asked(r) : task[r][p].at \in Ended
  /\ \/ /\ call[r].at = "pool" /\ \A p \in Asked(r) : call[r].results[p] # None
        /\ call' = [call EXCEPT ![r].at = "returned"]
     \/ /\ call[r].at = "leaving"
        /\ call' = [call EXCEPT ![r].at = "raised"]
  /\ open' = open \ {Session(r)}
  /\ UNCHANGED <<task, disk, faults, crossed>>
-----------------------------------------------------------------------------
(* process_path in a thread of the pool, or in the caller's when there is one path. *)

\* Mutant: no clone of the connection.
SharedPort(r, p) == IF call[r].asks.ssh THEN Session(r) ELSE None

\* _get_port_for_path: over SSH a connection of the thread's own; the session's when the call
\* has one path only.  Local commands have no connection.
TaskPort(r, p) ==
  IF ~call[r].asks.ssh THEN None ELSE IF Alone(r) THEN Session(r) ELSE <<r, p>>

\* Mutant: the pool is left at the first error, and starts nothing after it.
PoolIsOpen(r) == call[r].at = "pool"

\* The pool works on until it is left, also after an error.
PoolRuns(r) == call[r].at \in Running

\* Mutant: max_workers is not passed on, and the pool has a thread for each path.
AnyWorker(r) == Cardinality({p \in Path : task[r][p].at \in Busy}) < Paths

\* A thread of the pool is free.
HasWorker(r) == Cardinality({p \in Path : task[r][p].at \in Busy}) < call[r].asks.workers

\* A worker takes the first path that waits, and opens its port, which may raise.
Begin(r, p) ==
  /\ task[r][p].at = "queued" /\ PoolRuns(r)
  /\ \A q \in Path : q < p => task[r][q].at # "queued"
  /\ HasWorker(r)
  /\ \/ /\ task' = [task EXCEPT ![r][p].at = IF call[r].asks.walks THEN "walk" ELSE "load",
                                ![r][p].port = TaskPort(r, p)]
        /\ open' = IF TaskPort(r, p) = None THEN open ELSE open \cup {TaskPort(r, p)}
        /\ UNCHANGED faults
     \/ call[r].asks.ssh /\ ~Alone(r) /\ Fault /\ Goto(r, p, "failed") /\ UNCHANGED open
  /\ crossed' = IF \E s \in Run \ {r} : \E q \in Path :
                     task[s][q].at \in Busy /\ NameOf(s, q) = NameOf(r, p)
                THEN crossed \cup {NameOf(r, p)} ELSE crossed
  /\ UNCHANGED <<call, disk>>

\* What raises in process_path ends it, but for what blocks the script.
Raises(r, p) ==
  /\ Fault
  /\ Goto(r, p, "fail")
  /\ UNCHANGED <<call, open, disk, crossed>>

\* write_text opens the file, which empties it.
OpenFile(r, p, k) == disk' = [disk EXCEPT ![k][NameOf(r, p)] = Emptied(r)]

\* walk_path, or load_transcript of a file the caller names (from_transcript: one path and no
\* connection), and the opening of the transcript.  A command that fails raises (fail_loud):
\* the path has no inventory.
Walk(r, p) ==
  /\ task[r][p].at = "walk"
  /\ \/ /\ \E finds \in BOOLEAN :
             task' = [task EXCEPT ![r][p].at = "saving", ![r][p].finds = finds]
        /\ OpenFile(r, p, "walk")
        /\ UNCHANGED <<call, open, faults, crossed>>
     \/ Raises(r, p)

\* load_transcript, when there is one.  A text cut short has fewer directories, and raises only
\* when the cut is in its header.
Load(r, p) ==
  /\ task[r][p].at = "load"
  /\ LET file == disk["walk"][NameOf(r, p)]
         found == CASE file.text = "whole" -> {file.says}
                    [] file.text = "part" -> BOOLEAN
                    [] OTHER -> {FALSE}
     IN  \/ \E finds \in found :
              task' = [task EXCEPT ![r][p].at = IF finds THEN "policy" ELSE "json",
                                   ![r][p].finds = finds]
         \/ file.text = "part" /\ Goto(r, p, "fail")
  /\ UNCHANGED <<call, open, disk, faults, crossed>>

\* resolve_move_policy_for_emit and emit_sql, and the opening of the fix SQL.  The errors the two
\* raise of a script that must not be written block it and are caught; any other ends the path.
Policy(r, p) ==
  /\ task[r][p].at = "policy"
  /\ \/ /\ \/ Goto(r, p, "fixing") /\ OpenFile(r, p, "fix")
           \/ Goto(r, p, "json") /\ UNCHANGED disk
        /\ UNCHANGED <<call, open, faults, crossed>>
     \/ Raises(r, p)

\* The opening of the summary.
Summarise(r, p) ==
  /\ task[r][p].at = "json"
  /\ \/ /\ Goto(r, p, "jsoning") /\ OpenFile(r, p, "json")
        /\ UNCHANGED <<call, open, faults, crossed>>
     \/ Raises(r, p)

\* Mutant: a blocked script counts as written.
SaysAliases(t) == t.finds

\* WalkResult.fix_written
SaysFixed(t) == t.fixed

\* The file a thread writes, what its text says, and what follows it in process_path.
Writes(t) == CASE t.at = "saving" -> "walk" [] t.at = "fixing" -> "fix" [] t.at = "jsoning" -> "json"
Says(t) == CASE t.at = "saving" -> t.finds [] t.at = "fixing" -> TRUE [] t.at = "jsoning" -> SaysFixed(t)
After(t) == CASE t.at = "saving" -> IF t.finds THEN "policy" ELSE "json"
              [] t.at = "fixing" -> "json"
              [] t.at = "jsoning" -> "close"

\* The file is written.  Over the text of another run that came in between, some of that may
\* stay; an error (no space left) leaves the part before it.
WriteFile(r, p) ==
  /\ task[r][p].at \in {"saving", "fixing", "jsoning"}
  /\ LET t == task[r][p]
         file == disk[Writes(t)][NameOf(r, p)]
         put(text) == disk' = [disk EXCEPT ![Writes(t)][NameOf(r, p)] =
                                 [by |-> r, text |-> text, says |-> Says(t)]]
     IN  \/ /\ put("whole") \/ (file.text # "empty" /\ put("part"))
            /\ task' = [task EXCEPT ![r][p].at = After(t), ![r][p].fixed = @ \/ t.at = "fixing"]
            /\ UNCHANGED <<call, open, faults, crossed>>
         \/ /\ put("part") /\ Fault /\ Goto(r, p, "fail")
            /\ UNCHANGED <<call, open, crossed>>

\* Mutant: the connection of a thread is closed on success only.
CloseIfFine(r, p) ==
  IF task[r][p].at = "close" THEN open \ {<<r, p>>} ELSE open

\* The connection of a thread is closed however process_path ended.
ClosePort(r, p) == open \ {<<r, p>>}

\* The thread leaves its with block, and the future is done.
Close(r, p) ==
  /\ task[r][p].at \in {"close", "fail"}
  /\ open' = ClosePort(r, p)
  /\ Goto(r, p, IF task[r][p].at = "close" THEN "ok" ELSE "failed")
  /\ UNCHANGED <<call, disk, faults, crossed>>

\* The process is killed.  Its connections go, its files stay as they are.
Kill(r) ==
  /\ call[r].at \in Running
  /\ Fault
  /\ call' = [call EXCEPT ![r].at = "killed"]
  /\ task' = [task EXCEPT ![r] = [p \in Path |-> IF @[p].at \in Busy \cup {"queued"}
                                                 THEN [@[p] EXCEPT !.at = "dead"] ELSE @[p]]]
  /\ open' = {c \in open : c[1] # r}
  /\ UNCHANGED <<disk, crossed>>

CallStep(r) == Leave(r) \/ \E p \in Path : Take(r, p)
TaskStep(r, p) ==
  \/ Begin(r, p) \/ Walk(r, p) \/ Load(r, p) \/ Policy(r, p) \/ Summarise(r, p)
  \/ WriteFile(r, p) \/ Close(r, p)

Next ==
  \E r \in Run :
    \/ \E q \in Requests[r] : Call(r, q)
    \/ CallStep(r)
    \/ \E p \in Path : TaskStep(r, p)
    \/ Kill(r)

Spec == Init /\ [][Next]_vars

\* Threads are scheduled, and remote commands return or raise.
FairSpec == Spec /\ \A r \in Run : WF_vars(CallStep(r)) /\ \A p \in Path : WF_vars(TaskStep(r, p))
-----------------------------------------------------------------------------
(* Properties. *)

\* Every variable stays within its type, and no more threads are busy than there are workers.
TypeOK ==
  /\ call \in [Run -> [at : CallAt, asks : (UNION {Requests[r] : r \in Run}) \cup {None},
                       results : [Path -> Path \cup {None}]]]
  /\ \A r \in Run : call[r].at = "idle" <=> call[r].asks = None
  /\ task \in [Run -> [Path -> [at : TaskAt, port : Port \cup {None}, finds : BOOLEAN, fixed : BOOLEAN]]]
  /\ \A r \in Run : call[r].asks # None =>
       Cardinality({p \in Path : task[r][p].at \in Busy}) <= call[r].asks.workers
  /\ open \subseteq Port
  /\ disk \in [Kind -> [Name -> File]]
  /\ faults \in 0 .. MaxFaults /\ crossed \subseteq Name

\* A Fabric connection must not be used by two threads at once: while threads of the pool walk
\* or fetch GUIDs, each does so on an open connection that no other thread has.
PortsAreOwn ==
  \A r \in Run : \A p \in Path :
    task[r][p].port # None /\ task[r][p].at \in Busy =>
      /\ task[r][p].port \in open
      /\ \A q \in Path \ {p} : task[r][q].at \in Busy => task[r][q].port # task[r][p].port

\* Whatever raised, in one thread or in several, a call that is over leaves no connection open.
ConnectionsClosed ==
  \A c \in open : call[c[1]].at \notin Over \cup {"idle"}

\* The thread of run r on the artifact n came to its end, with a summary.
Summarised(r, n) ==
  r # None /\ \E p \in Asked(r) : NameOf(r, p) = n /\ task[r][p].at \in {"close", "ok"}

\* Every run of a day writes under the same names.  Still a summary on disk that says a script
\* was written lies beside that very script, and the transcript of a live walk beside its
\* summary, unless a later run died or failed between the files, is between them now, or worked
\* on them side by side with another.
SummaryTellsFiles ==
  \A n \in Name \ crossed :
    LET json == disk["json"][n]
        own(k) == \/ disk[k][n] = [by |-> json.by, text |-> "whole", says |-> disk[k][n].says]
                  \/ disk[k][n].by # json.by /\ ~Summarised(disk[k][n].by, n)
    IN  json.text = "whole" => /\ json.says => own("fix")
                               /\ call[json.by].asks.walks => own("walk")

\* What became of each path of a call, and what the call was answered.
Outcomes ==
  [r \in Run |-> [p \in Path |->
    CASE task[r][p].at = "none" -> "none"
      [] task[r][p].at \in {"ok", "failed"} -> task[r][p].at
      [] task[r][p].at = "dead" -> "lost"
      [] OTHER -> "open"]]
Answers ==
  [r \in Run |->
    IF call[r].at \notin Over THEN [kind |-> "pending", results |-> [p \in Path |-> None]]
    ELSE [kind |-> call[r].at,
          results |-> IF call[r].at = "returned" THEN call[r].results ELSE [p \in Path |-> None]]]
Promise == INSTANCE PathRuns WITH outcome <- Outcomes, answer <- Answers

\* Each path comes to an outcome of its own, run() answers after the last of them, and its
\* results are in the order of the paths whatever order the threads end in.
RunsKeepPromise == Promise!PromiseSpec

\* A call that was made ends, also when a thread raised and others still wait for a worker.
CallsEnd == \A r \in Run : call[r].at = "pool" ~> call[r].at \in Over
===============================================================================
