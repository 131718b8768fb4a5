------------------------------ MODULE Frontend ------------------------------
(***************************************************************************)
(* The page, static/app.js: the selected scan, the poller that follows a   *)
(* scan while it runs, and the answers of the server, which arrive in any  *)
(* order while the user clicks on.  The server's scans live the life of    *)
(* ScanRecord, which ScanLifecycle implements.                             *)
(*                                                                         *)
(* One action is one uninterrupted piece of script: an event handler up to *)
(* its first await, or what comes between one answer and the next await.   *)
(* An async call under way is a task: it waits for one answer at a time.   *)
(*                                                                         *)
(* Left out: signing in and out, the target form, the tables of a scan and *)
(* its banners, which are drawn together with its badge or its SQL.         *)
(***************************************************************************)
EXTENDS Naturals, FiniteSets

CONSTANTS
  Target,         \* connection profiles
  MaxScanId,      \* bound: scan keys are 1 .. MaxScanId
  TargetOf,       \* the target of each scan
  Task,           \* bound: async calls that may be under way together
  None,           \* null
  MaxClicks,      \* bound: clicks of the user
  MaxFailures     \* bound: requests that get no answer, or a 500

ScanId == 1 .. MaxScanId

ASSUME PageAssumption ==
  /\ TargetOf \in [ScanId -> Target]
  /\ None \notin ScanId \cup Target /\ None \notin {"sent", "answered"}
  /\ MaxScanId \in Nat /\ MaxClicks \in Nat /\ MaxFailures \in Nat

VARIABLES
  status,          \* the server's scans
  selectedTarget,  \* state.selectedTargetId
  selectedScan,    \* state.selectedScanId
  listed,          \* state.scans: the scans in the sidebar (their badges are left out)
  poller,          \* the scan state.pollIntervalId asks for
  pane,            \* the details and SQL: whose they are, the badge above and whose it is
  scripts,         \* whose scripts state.sqlScriptsByDatabase holds
  tasks,           \* the async calls under way
  clicks, failures,
  \* Auxiliary, read by no action:
  mishaps          \* what has gone wrong: "late", "crossed", "failed", see below

page == <<selectedTarget, selectedScan, listed, poller, pane, scripts>>
vars == <<status, page, tasks, clicks, failures, mishaps>>

Server == INSTANCE ScanRecord
Active == {"pending", "running"}

\* A call: loadScanDetails(scan); a tick of the poller for scan; fetchScans(), and then
\* loadScanDetails(scan) or selectScan(scan); the POST that triggers a scan of target.
Idle == [does |-> "nothing", scan |-> None, target |-> None, at |-> None, seen |-> {}]
Call(does, s, t) == [does |-> does, scan |-> s, target |-> t, at |-> "sent", seen |-> {}]
Details(s) == Call("details", s, None)
Tick(s) == Call("tick", s, None)
ListThenDetails(s) == Call("list-details", s, None)
ListThenSelect(s) == Call("list-select", s, None)
Post(t) == Call("post", None, t)
Lists == {"list-details", "list-select"}

Starts(q, call) == tasks[q] = Idle /\ tasks' = [tasks EXCEPT ![q] = call]
Continues(q, call) == tasks' = [tasks EXCEPT ![q] = call]
Ends(q) == tasks' = [tasks EXCEPT ![q] = Idle]
Answered(q, does) == tasks[q].at = "answered" /\ tasks[q].does = does
Seen(q) == CHOOSE st \in tasks[q].seen : TRUE      \* the status in the answer about one scan
Mishap(what, happened) == mishaps' = IF happened THEN mishaps \cup {what} ELSE mishaps

\* The page is opened at any moment of the server's life.
Init ==
  /\ status \in [ScanId -> Server!Status]
  /\ selectedTarget = None /\ selectedScan = None
  /\ listed = {s \in ScanId : status[s] # "absent"}
  /\ poller = None
  /\ pane = [scan |-> None, badge |-> "ready", of |-> None]
  /\ scripts = None
  /\ tasks = [q \in Task |-> Idle]
  /\ clicks = 0 /\ failures = 0 /\ mishaps = {}
-----------------------------------------------------------------------------
(* The user. *)

Click == clicks < MaxClicks /\ clicks' = clicks + 1 /\ UNCHANGED <<status, failures, mishaps>>

\* Mutant: the poller of the scan before goes on.
SelectStillPolled(q, s) ==
  /\ Click
  /\ s \in listed
  /\ selectedScan' = s
  /\ Starts(q, Details(s))
  /\ UNCHANGED <<selectedTarget, listed, poller, pane, scripts>>

\* selectScan: stop polling and load the details.
SelectScan(q, s) ==
  /\ Click
  /\ s \in listed
  /\ selectedScan' = s /\ poller' = None
  /\ Starts(q, Details(s))
  /\ UNCHANGED <<selectedTarget, listed, pane, scripts>>

\* The newest of the target's scans in the sidebar.
IsPrevScan(s, t) ==
  /\ s \in listed /\ TargetOf[s] = t
  /\ \A u \in listed : TargetOf[u] = t => u <= s

\* selectTarget: clear the pane, then select the target's newest scan, if there is one.
SelectTarget(q, t) ==
  /\ Click
  /\ selectedTarget' = t /\ poller' = None
  /\ pane' = [scan |-> None, badge |-> "ready", of |-> None]
  /\ \/ \E s \in ScanId : IsPrevScan(s, t) /\ selectedScan' = s /\ Starts(q, Details(s))
     \/ (\A s \in ScanId : ~IsPrevScan(s, t)) /\ selectedScan' = None /\ UNCHANGED tasks
  /\ UNCHANGED <<listed, scripts>>

\* triggerTargetScan, from the button of the target that is shown.
TriggerTargetScan(q) ==
  /\ Click
  /\ selectedTarget # None
  /\ Starts(q, Post(selectedTarget))
  /\ UNCHANGED page
-----------------------------------------------------------------------------
(* The server: other clients and its own tasks go on, and requests are answered. *)

ServerStep ==
  /\ Server!RecordNext
  /\ UNCHANGED <<page, tasks, clicks, failures, mishaps>>

\* GET /api/scans/{id}, the scan as it is now, and GET /api/scans, those there are now.
AnswerGet(q) ==
  /\ tasks[q].at = "sent" /\ tasks[q].does # "post"
  /\ Continues(q, [tasks[q] EXCEPT !.at = "answered",
       !.seen = IF tasks[q].does \in Lists THEN {s \in ScanId : status[s] # "absent"}
                ELSE {status[tasks[q].scan]}])
  /\ UNCHANGED <<status, page, clicks, failures, mishaps>>

\* The POST is accepted.  Its check for an active scan of the target is not atomic with its
\* insert (ScanLifecycle), so that it may be accepted beside an active scan too.
AnswerPost(q, s) ==
  /\ tasks[q].at = "sent" /\ tasks[q].does = "post"
  /\ TargetOf[s] = tasks[q].target
  /\ Server!Submit(s)
  /\ Continues(q, [tasks[q] EXCEPT !.at = "answered", !.scan = s])
  /\ UNCHANGED <<page, clicks, failures, mishaps>>

\* A 409 while the target has an active scan, a 404 when the target is gone: a toast.
RefusePost(q) ==
  /\ tasks[q].at = "sent" /\ tasks[q].does = "post"
  /\ Ends(q)
  /\ UNCHANGED <<status, page, clicks, failures, mishaps>>
-----------------------------------------------------------------------------
(* loadScanDetails, once it has its answer. *)

\* Mutant: a queued scan is not polled.
ShowUnpolled(q) ==
  /\ Answered(q, "details") /\ Ends(q)
  /\ LET s == tasks[q].scan
         st == Seen(q)
     IN  /\ st # "absent"
         /\ selectedTarget' = TargetOf[s]
         /\ pane' = [scan |-> s, badge |-> st, of |-> s]
         /\ poller' = IF st = "running" THEN s ELSE poller
         /\ scripts' = IF st = "completed" THEN s ELSE None
         /\ Mishap("crossed", s # selectedScan)
  /\ UNCHANGED <<status, selectedScan, listed, clicks, failures>>

\* Mutant: a 404 is drawn like any answer.
ShowWhatever(q) ==
  /\ Answered(q, "details") /\ Ends(q)
  /\ LET s == tasks[q].scan
         st == Seen(q)
     IN  /\ selectedTarget' = TargetOf[s]
         /\ pane' = [scan |-> s, badge |-> st, of |-> s]
         /\ poller' = IF st \in Active THEN s ELSE poller
         /\ scripts' = IF st = "completed" THEN s ELSE None
         /\ Mishap("crossed", s # selectedScan)
  /\ UNCHANGED <<status, selectedScan, listed, clicks, failures>>

\* Mutant: the scripts of the scan before stay until there are new ones.
ShowKeepsScripts(q) ==
  /\ Answered(q, "details") /\ Ends(q)
  /\ LET s == tasks[q].scan
         st == Seen(q)
     IN  /\ st # "absent"
         /\ selectedTarget' = TargetOf[s]
         /\ pane' = [scan |-> s, badge |-> st, of |-> s]
         /\ poller' = IF st \in Active THEN s ELSE poller
         /\ scripts' = IF st = "completed" THEN s ELSE scripts
         /\ Mishap("crossed", s # selectedScan)
  /\ UNCHANGED <<status, selectedScan, listed, clicks, failures>>

\* Draws everything of the scan it asked for and polls it while it is active.  The answer
\* crosses the user's next choice when that scan is not the selected one any more.
ShowScanDetails(q) ==
  /\ Answered(q, "details") /\ Ends(q)
  /\ LET s == tasks[q].scan
         st == Seen(q)
     IN  /\ st # "absent"
         /\ selectedTarget' = TargetOf[s]
         /\ pane' = [scan |-> s, badge |-> st, of |-> s]
         /\ poller' = IF st \in Active THEN s ELSE poller
         /\ scripts' = IF st = "completed" THEN s ELSE None
         /\ Mishap("crossed", s # selectedScan)
  /\ UNCHANGED <<status, selectedScan, listed, clicks, failures>>

\* A 404: a toast, and all stays as it was.
ScanIsMissing(q) ==
  /\ Answered(q, "details") /\ Ends(q)
  /\ Seen(q) = "absent"
  /\ Mishap("failed", TRUE)
  /\ UNCHANGED <<status, page, clicks, failures>>
-----------------------------------------------------------------------------
(* startPolling, fetchScans and the rest of triggerTargetScan. *)

\* The interval fires, whether or not the tick before it has had its answer.
PollerFires(q) ==
  /\ poller # None
  /\ Starts(q, Tick(poller))
  /\ UNCHANGED <<status, page, clicks, failures, mishaps>>

\* Mutant: a tick that sees the end of the scan stops the poller, and no more.
TickOnlyStops(q) ==
  /\ Answered(q, "tick") /\ Ends(q)
  /\ LET s == tasks[q].scan
         st == Seen(q)
     IN  /\ pane' = IF st \in Active THEN [pane EXCEPT !.badge = st, !.of = s] ELSE pane
         /\ poller' = IF st \in Active \cup {"absent"} THEN poller ELSE None
         /\ Mishap("late", st # "absent" /\ poller # s)
  /\ UNCHANGED <<status, selectedTarget, selectedScan, listed, scripts, clicks, failures>>

\* A tick draws the badge, whatever is shown, and at the end of the scan stops the poller,
\* whichever it is, and fetches the list.  It is late when its poller is not there any more.
\* After a 404 it does nothing, and the poller goes on.
ShowTick(q) ==
  /\ Answered(q, "tick")
  /\ LET s == tasks[q].scan
         st == Seen(q)
     IN  IF st = "absent" THEN Ends(q) /\ UNCHANGED <<poller, pane, mishaps>>
         ELSE /\ pane' = [pane EXCEPT !.badge = st, !.of = s]
              /\ IF st \in Active THEN Ends(q) /\ UNCHANGED poller
                 ELSE Continues(q, ListThenDetails(s)) /\ poller' = None
              /\ Mishap("late", poller # s)
  /\ UNCHANGED <<status, selectedTarget, selectedScan, listed, scripts, clicks, failures>>

\* What follows fetchScans, which catches every exception: loadScanDetails or selectScan.
AfterList(q) ==
  LET s == tasks[q].scan
  IN  /\ Continues(q, Details(s))
      /\ IF tasks[q].does = "list-select" THEN selectedScan' = s /\ poller' = None
         ELSE UNCHANGED <<selectedScan, poller>>

ShowScans(q) ==
  /\ tasks[q].at = "answered" /\ tasks[q].does \in Lists
  /\ listed' = tasks[q].seen
  /\ AfterList(q)
  /\ UNCHANGED <<status, selectedTarget, pane, scripts, clicks, failures, mishaps>>

\* The scan is queued: fetch the list and select the new scan.
ScanQueued(q) ==
  /\ Answered(q, "post")
  /\ Continues(q, ListThenSelect(tasks[q].scan))
  /\ UNCHANGED <<status, page, clicks, failures, mishaps>>

\* A request is refused, or it or its answer is lost: a toast (the catch of triggerTargetScan,
\* and likewise of loadScanDetails and fetchScans) or a line in the console (a tick).
RequestFails(q) ==
  /\ tasks[q] # Idle
  /\ failures < MaxFailures /\ failures' = failures + 1
  /\ IF tasks[q].does \in Lists THEN AfterList(q)
     ELSE Ends(q) /\ UNCHANGED <<selectedScan, poller>>
  /\ Mishap("failed", tasks[q].does = "details")
  /\ UNCHANGED <<status, selectedTarget, listed, pane, scripts, clicks>>

Deliver(q) == ShowScanDetails(q) \/ ScanIsMissing(q) \/ ShowTick(q) \/ ShowScans(q) \/ ScanQueued(q)

Next ==
  \/ \E q \in Task : \/ \E s \in ScanId : SelectScan(q, s) \/ AnswerPost(q, s)
                     \/ \E t \in Target : SelectTarget(q, t)
                     \/ TriggerTargetScan(q) \/ PollerFires(q)
                     \/ AnswerGet(q) \/ RefusePost(q) \/ Deliver(q) \/ RequestFails(q)
  \/ ServerStep

Spec == Init /\ [][Next]_vars

\* The browser fires the interval and delivers answers, the server answers, and its scans
\* begin and end (ScanLifecycle!ScansEnd).
Fairness ==
  /\ WF_vars(\E q \in Task : PollerFires(q))
  /\ \A q \in Task : WF_vars(AnswerGet(q) \/ RefusePost(q)) /\ WF_vars(Deliver(q))
  /\ \A s \in ScanId : WF_vars(ServerStep /\ (Server!Begin(s) \/ Server!Finish(s)))
FairSpec == Spec /\ Fairness
-----------------------------------------------------------------------------
(* Properties. *)

Badge == Server!Status \cup {"ready"}
IsTask(c) ==
  /\ c.does \in {"nothing", "details", "tick", "post"} \cup Lists
  /\ c.does = "nothing" <=> c = Idle
  /\ c.scan \in ScanId \cup {None} /\ c.target \in Target \cup {None}
  /\ c.does \in {"details", "tick"} \cup Lists => c.scan # None
  /\ c.at \in {"sent", "answered", None}
  /\ c.seen \subseteq IF c.does \in Lists THEN ScanId ELSE Server!Status

\* Every variable stays within its type, and an answer 404 is never drawn as a scan
\* (loadScanDetails).  A scan that is removed later stays on the page.
TypeOK ==
  /\ status \in [ScanId -> Server!Status] /\ listed \subseteq ScanId
  /\ selectedTarget \in Target \cup {None} /\ selectedScan \in ScanId \cup {None}
  /\ poller \in ScanId \cup {None}
  /\ pane \in [scan : ScanId \cup {None}, badge : Badge \ {"absent"}, of : ScanId \cup {None}]
  /\ scripts \in ScanId \cup {None}
  /\ \A q \in Task : IsTask(tasks[q])
  /\ clicks \in 0 .. MaxClicks /\ failures \in 0 .. MaxFailures
  /\ mishaps \subseteq {"late", "crossed", "failed"}

Loading(s) == \E q \in Task : tasks[q].does = "details" /\ tasks[q].scan = s
IsShownActive(s) == pane.of = s /\ pane.badge \in Active

\* A scan the page shows as pending or running is polled, or about to be replaced by the
\* scan the user has selected since.  The exceptions are a tick that came late and details
\* that did not come.
ActiveIsPolled ==
  mishaps \subseteq {"crossed"} =>
    \A s \in ScanId : IsShownActive(s) => poller = s \/ Loading(selectedScan)

\* The details, the badge above them and the scan marked in the sidebar are of one scan, once
\* the details of the selected scan are there, as long as no answer came late, crossed
\* another choice or failed.
PaneIsOfSelection ==
  mishaps = {} => pane.of = pane.scan /\ (pane.scan = selectedScan \/ Loading(selectedScan))

\* The page learns of the end of a scan it shows as active, without a click of the user.
PageLearns ==
  \A s \in ScanId : IsShownActive(s) ~> ~IsShownActive(s) \/ status[s] = "absent" \/ mishaps # {}

\* Copy Script and Download Script prefer the scripts the page holds to the text it shows: with
\* the details of a scan drawn, these are of no other scan.  A target without scans
\* (pane.scan = None) is drawn over them, and they stay.
CopyGivesDrawn == pane.scan # None => scripts \in {None, pane.scan}
=============================================================================
