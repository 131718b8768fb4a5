---------------------------- MODULE FrontendProofs ----------------------------
(***************************************************************************)
(* Proofs about Frontend for any number of scans, targets, async calls,    *)
(* clicks and lost requests.                                               *)
(***************************************************************************)
EXTENDS Frontend, TLAPS

(***************************************************************************)
(* The inductive invariant.  What the page shows is tied to what the user  *)
(* selected through the poller, which draws on whatever is shown.          *)
(***************************************************************************)

\* A call that lists scans has seen keys, any other call states of its scan.
CallRow(kinds, sees) ==
  [does : kinds, scan : ScanId \cup {None}, target : Target \cup {None},
   at : {"sent", "answered", None}, seen : SUBSET sees]
CallRows == CallRow(Lists, ScanId) \cup CallRow({"nothing", "details", "tick", "post"}, Server!Status)

\* An answer about a scan tells its state, and an accepted POST has made one.
Told(c) ==
  c.at = "answered" =>
    /\ c.does \in {"details", "tick"} => c.seen # {}
    /\ c.does = "post" => c.scan # None

Calls == tasks \in [Task -> CallRows] /\ \A q \in Task : Told(tasks[q])

\* As long as nothing came late, crossed or failed only the selected scan is polled, and its
\* details are drawn.
PollsSelected == mishaps = {} => poller = None \/ (poller = selectedScan /\ poller = pane.scan)

IInv == TypeOK /\ Calls /\ ActiveIsPolled /\ PollsSelected /\ PaneIsOfSelection /\ CopyGivesDrawn

(***************************************************************************)
(* One call changes at a time.                                             *)
(***************************************************************************)

Good(c) == c \in CallRows /\ IsTask(c) /\ Told(c)

\* The calls the page makes are what TypeOK and Calls ask for.
LEMMA NewCalls ==
  /\ Good(Idle)
  /\ \A s \in ScanId : Good(Details(s)) /\ Good(Tick(s)) /\ Good(ListThenDetails(s)) /\ Good(ListThenSelect(s))
  /\ \A t \in Target : Good(Post(t))
<1> USE PageAssumption DEF Good, CallRows, CallRow, IsTask, Told, Idle, Lists
<1>1. Good(Idle)
  BY DEF Server!Status
<1>2. ASSUME NEW s \in ScanId  PROVE Good(Details(s))
  BY <1>2 DEF Details, Call
<1>3. ASSUME NEW s \in ScanId  PROVE Good(Tick(s))
  BY <1>3 DEF Tick, Call
<1>4. ASSUME NEW s \in ScanId  PROVE Good(ListThenDetails(s))
  BY <1>4 DEF ListThenDetails, Call
<1>5. ASSUME NEW s \in ScanId  PROVE Good(ListThenSelect(s))
  BY <1>5 DEF ListThenSelect, Call
<1>6. ASSUME NEW t \in Target  PROVE Good(Post(t))
  BY <1>6 DEF Post, Call
<1> HIDE DEF Good
<1> QED
  BY <1>1, <1>2, <1>3, <1>4, <1>5, <1>6

\* What TypeOK and Calls say of all calls together.
LEMMA AllGood ==
  /\ TypeOK /\ Calls => tasks \in [Task -> CallRows] /\ \A q \in Task : Good(tasks[q])
  /\ tasks' \in [Task -> CallRows] /\ (\A q \in Task : Good(tasks'[q]))
       => Calls' /\ \A q \in Task : IsTask(tasks[q])'
  BY DEF TypeOK, Calls, Good, IsTask, Told

\* Call q becomes c.
Only(q, c) ==
  /\ tasks' \in [Task -> CallRows]
  /\ tasks'[q] = c
  /\ \A u \in Task : u # q => tasks'[u] = tasks[u]

\* A step that changes one call into a good one keeps all calls good.
LEMMA OneCall ==
  ASSUME TypeOK, Calls, NEW q \in Task, NEW c, Good(c), tasks' = [tasks EXCEPT ![q] = c]
  PROVE  Only(q, c) /\ Calls' /\ \A u \in Task : IsTask(tasks[u])'
<1>1. tasks \in [Task -> CallRows] /\ \A u \in Task : Good(tasks[u])
  BY AllGood
<1>2. c \in CallRows
  BY DEF Good
<1>3. Only(q, c)
  BY <1>1, <1>2 DEF Only
<1>4. \A u \in Task : Good(tasks'[u])
  BY <1>1, <1>3 DEF Only
<1> QED
  BY <1>3, <1>4, AllGood DEF Only

\* A step that leaves all calls alone.
LEMMA NoCall ==
  ASSUME TypeOK, Calls, UNCHANGED tasks
  PROVE  Calls' /\ \A u \in Task : IsTask(tasks[u])'
  BY AllGood DEF Good

\* What a call is about, and the answer it has had.
LEMMA CallFacts ==
  ASSUME TypeOK, Calls, NEW q \in Task
  PROVE  /\ tasks[q].does \in {"details", "tick"} \cup Lists => tasks[q].scan \in ScanId
         /\ Answered(q, "details") \/ Answered(q, "tick") => Seen(q) \in Server!Status
         /\ tasks[q].at = "answered" /\ tasks[q].does \in Lists => tasks[q].seen \subseteq ScanId
         /\ tasks[q].at \in {"sent", "answered"} => tasks[q].does # "nothing"
<1>1. tasks[q] \in CallRows /\ IsTask(tasks[q]) /\ Told(tasks[q])
  BY AllGood DEF Good
<1>2. tasks[q].does \in {"details", "tick"} \cup Lists => tasks[q].scan \in ScanId
  BY <1>1 DEF IsTask
<1>3. ASSUME Answered(q, "details") \/ Answered(q, "tick")  PROVE Seen(q) \in Server!Status
  <2>1. tasks[q].seen # {} /\ tasks[q].seen \subseteq Server!Status
    BY <1>1, <1>3 DEF Answered, Told, IsTask, Lists
  <2> QED
    BY <2>1 DEF Seen
<1>4. tasks[q].at = "answered" /\ tasks[q].does \in Lists => tasks[q].seen \subseteq ScanId
  BY <1>1 DEF IsTask
<1>5. tasks[q].at \in {"sent", "answered"} => tasks[q].does # "nothing"
  BY <1>1, PageAssumption DEF IsTask, Idle
<1> QED
  BY <1>2, <1>3, <1>4, <1>5

(***************************************************************************)
(* The clicks.                                                             *)
(***************************************************************************)

Pane == [scan : ScanId \cup {None}, badge : Badge \ {"absent"}, of : ScanId \cup {None}]

\* selectScan
LEMMA SelectScanStep ==
  ASSUME IInv, NEW q \in Task, NEW s \in ScanId, SelectScan(q, s)
  PROVE  IInv'
<1> USE DEF IInv
<1>1. tasks' = [tasks EXCEPT ![q] = Details(s)] /\ Good(Details(s))
  BY NewCalls DEF SelectScan, Starts
<1>2. Only(q, Details(s)) /\ Calls' /\ \A u \in Task : IsTask(tasks[u])'
  BY <1>1, OneCall
<1>3. selectedScan' = s /\ poller' = None
      /\ UNCHANGED <<status, selectedTarget, listed, pane, scripts, failures, mishaps>>
      /\ clicks < MaxClicks /\ clicks' = clicks + 1
  BY DEF SelectScan, Click
<1>4. TypeOK'
  BY <1>2, <1>3, PageAssumption DEF TypeOK
<1>5. Loading(selectedScan)'
  BY <1>2, <1>3 DEF Loading, Only, Details, Call
<1>6. ActiveIsPolled'
  BY <1>5 DEF ActiveIsPolled
<1>7. PollsSelected' /\ CopyGivesDrawn'
  BY <1>3 DEF PollsSelected, CopyGivesDrawn
<1>8. PaneIsOfSelection'
  BY <1>3, <1>5 DEF PaneIsOfSelection
<1> QED
  BY <1>2, <1>4, <1>6, <1>7, <1>8

\* selectTarget
LEMMA SelectTargetStep ==
  ASSUME IInv, NEW q \in Task, NEW t \in Target, SelectTarget(q, t)
  PROVE  IInv'
<1> USE DEF IInv
<1>1. /\ selectedTarget' = t /\ poller' = None
      /\ pane' = [scan |-> None, badge |-> "ready", of |-> None]
      /\ UNCHANGED <<status, listed, scripts, failures, mishaps>>
      /\ clicks < MaxClicks /\ clicks' = clicks + 1
  BY DEF SelectTarget, Click
<1>2. /\ Calls' /\ \A u \in Task : IsTask(tasks[u])'
      /\ selectedScan' \in ScanId \cup {None}
      /\ selectedScan' = None \/ Loading(selectedScan)'
  <2>1. CASE \E s \in ScanId : selectedScan' = s /\ Starts(q, Details(s))
    <3>1. PICK s \in ScanId : selectedScan' = s /\ Starts(q, Details(s))
      BY <2>1
    <3>2. tasks' = [tasks EXCEPT ![q] = Details(s)] /\ Good(Details(s))
      BY <3>1, NewCalls DEF Starts
    <3>3. Only(q, Details(s)) /\ Calls' /\ \A u \in Task : IsTask(tasks[u])'
      BY <3>2, OneCall
    <3>4. Loading(selectedScan)'
      BY <3>1, <3>3 DEF Loading, Only, Details, Call
    <3> QED
      BY <3>1, <3>3, <3>4
  <2>2. CASE selectedScan' = None /\ UNCHANGED tasks
    BY <2>2, NoCall
  <2> QED
    BY <2>1, <2>2 DEF SelectTarget
<1>3. pane' \in Pane
  BY <1>1 DEF Pane, Badge
<1>4. TypeOK'
  BY <1>1, <1>2, <1>3, PageAssumption DEF TypeOK, Pane
<1>5. ActiveIsPolled'
  BY <1>1 DEF ActiveIsPolled, IsShownActive, Active
<1>6. PollsSelected' /\ CopyGivesDrawn'
  BY <1>1 DEF PollsSelected, CopyGivesDrawn
<1>7. PaneIsOfSelection'
  BY <1>1, <1>2 DEF PaneIsOfSelection
<1> QED
  BY <1>2, <1>4, <1>5, <1>6, <1>7

(***************************************************************************)
(* Steps that leave the page as it is.                                     *)
(***************************************************************************)

\* Nothing but calls, and no details under way are lost.
LEMMA PageStands ==
  ASSUME IInv, TypeOK', Calls', UNCHANGED <<page, mishaps>>,
         NEW q \in Task, NEW c, Only(q, c),
         \/ tasks[q].does # "details"
         \/ c.does = "details" /\ c.scan = tasks[q].scan
  PROVE  IInv'
<1> USE DEF IInv
<1>1. Loading(selectedScan) => Loading(selectedScan)'
  BY DEF Loading, Only, page
<1>2. ActiveIsPolled'
  BY <1>1 DEF ActiveIsPolled, IsShownActive, page
<1>3. PollsSelected' /\ CopyGivesDrawn'
  BY DEF PollsSelected, CopyGivesDrawn, page
<1>4. PaneIsOfSelection'
  BY <1>1 DEF PaneIsOfSelection, page
<1> QED
  BY <1>2, <1>3, <1>4

\* triggerTargetScan up to its request
LEMMA TriggerStep ==
  ASSUME IInv, NEW q \in Task, TriggerTargetScan(q)
  PROVE  IInv'
<1>1. TypeOK /\ Calls
  BY DEF IInv
<1>2. /\ tasks' = [tasks EXCEPT ![q] = Post(selectedTarget)] /\ tasks[q] = Idle
      /\ UNCHANGED <<page, status, failures, mishaps>>
      /\ clicks < MaxClicks /\ clicks' = clicks + 1
  BY DEF TriggerTargetScan, Starts, Click
<1>3. Good(Post(selectedTarget))
  BY <1>1, NewCalls DEF TriggerTargetScan, TypeOK
<1>4. Only(q, Post(selectedTarget)) /\ Calls' /\ \A u \in Task : IsTask(tasks[u])'
  BY <1>1, <1>2, <1>3, OneCall
<1>5. TypeOK'
  BY <1>1, <1>2, <1>4, PageAssumption DEF TypeOK, page
<1> QED
  BY <1>2, <1>4, <1>5, PageStands DEF Idle

\* A tick is sent.
LEMMA PollerFiresStep ==
  ASSUME IInv, NEW q \in Task, PollerFires(q)
  PROVE  IInv'
<1>1. TypeOK /\ Calls
  BY DEF IInv
<1>2. /\ tasks' = [tasks EXCEPT ![q] = Tick(poller)] /\ tasks[q] = Idle
      /\ UNCHANGED <<page, status, clicks, failures, mishaps>>
  BY DEF PollerFires, Starts
<1>3. Good(Tick(poller))
  BY <1>1, NewCalls DEF PollerFires, TypeOK
<1>4. Only(q, Tick(poller)) /\ Calls' /\ \A u \in Task : IsTask(tasks[u])'
  BY <1>1, <1>2, <1>3, OneCall
<1>5. TypeOK'
  BY <1>1, <1>2, <1>4 DEF TypeOK, page
<1> QED
  BY <1>2, <1>4, <1>5, PageStands DEF Idle

\* GET is answered.
LEMMA AnswerGetStep ==
  ASSUME IInv, NEW q \in Task, AnswerGet(q)
  PROVE  IInv'
<1>1. TypeOK /\ Calls
  BY DEF IInv
<1> DEFINE seen == IF tasks[q].does \in Lists THEN {s \in ScanId : status[s] # "absent"}
                   ELSE {status[tasks[q].scan]}
           c == [tasks[q] EXCEPT !.at = "answered", !.seen = seen]
<1>2. /\ tasks' = [tasks EXCEPT ![q] = c]
      /\ tasks[q].at = "sent" /\ tasks[q].does # "post"
      /\ UNCHANGED <<page, status, clicks, failures, mishaps>>
  BY DEF AnswerGet, Continues
<1>3. tasks[q] \in CallRows /\ IsTask(tasks[q])
  BY <1>1, AllGood DEF Good
<1>4. tasks[q].does # "nothing"
  BY <1>1, <1>2, CallFacts
<1>5. /\ tasks[q].does \in Lists => seen \subseteq ScanId
      /\ tasks[q].does \in {"details", "tick"} => seen \subseteq Server!Status /\ seen # {}
  BY <1>1, CallFacts DEF TypeOK, Lists
<1> HIDE DEF seen
<1>6. /\ c.does = tasks[q].does /\ c.scan = tasks[q].scan /\ c.target = tasks[q].target
      /\ c.at = "answered" /\ c.seen = seen /\ c \in CallRows
  BY <1>2, <1>3, <1>4, <1>5 DEF CallRows, CallRow, Lists
<1> HIDE DEF c
<1>7. IsTask(c) /\ Told(c)
  BY <1>2, <1>3, <1>4, <1>5, <1>6 DEF IsTask, Told, Idle, Lists
<1>8. Only(q, c) /\ Calls' /\ \A u \in Task : IsTask(tasks[u])'
  BY <1>1, <1>2, <1>6, <1>7, OneCall DEF Good
<1>9. TypeOK'
  BY <1>1, <1>2, <1>8 DEF TypeOK, page
<1> QED
  BY <1>2, <1>6, <1>8, <1>9, PageStands

\* A scan record takes a step of its own.
LEMMA RecordSteps ==
  ASSUME status \in [ScanId -> Server!Status], NEW s \in ScanId, Server!Submit(s)
  PROVE  status' \in [ScanId -> Server!Status]
  BY DEF Server!Submit, Server!Becomes, Server!Status

\* POST is accepted.
LEMMA AnswerPostStep ==
  ASSUME IInv, NEW q \in Task, NEW s \in ScanId, AnswerPost(q, s)
  PROVE  IInv'
<1>1. TypeOK /\ Calls
  BY DEF IInv
<1> DEFINE c == [tasks[q] EXCEPT !.at = "answered", !.scan = s]
<1>2. /\ tasks' = [tasks EXCEPT ![q] = c]
      /\ tasks[q].does = "post" /\ Server!Submit(s)
      /\ UNCHANGED <<page, clicks, failures, mishaps>>
  BY DEF AnswerPost, Continues
<1>3. tasks[q] \in CallRows /\ IsTask(tasks[q])
  BY <1>1, AllGood DEF Good
<1>4. /\ c.does = "post" /\ c.scan = s /\ c.target = tasks[q].target
      /\ c.at = "answered" /\ c.seen = tasks[q].seen /\ c \in CallRows
  BY <1>2, <1>3 DEF CallRows, CallRow, Lists
<1> HIDE DEF c
<1>5. IsTask(c) /\ Told(c)
  BY <1>2, <1>3, <1>4, PageAssumption DEF IsTask, Told, Idle, Lists
<1>6. Only(q, c) /\ Calls' /\ \A u \in Task : IsTask(tasks[u])'
  BY <1>1, <1>2, <1>4, <1>5, OneCall DEF Good
<1>7. status' \in [ScanId -> Server!Status]
  BY <1>1, <1>2, RecordSteps DEF TypeOK
<1>8. TypeOK'
  BY <1>1, <1>2, <1>6, <1>7 DEF TypeOK, page
<1> QED
  BY <1>2, <1>6, <1>8, PageStands

\* POST is refused.
LEMMA RefusePostStep ==
  ASSUME IInv, NEW q \in Task, RefusePost(q)
  PROVE  IInv'
<1>1. TypeOK /\ Calls
  BY DEF IInv
<1>2. /\ tasks' = [tasks EXCEPT ![q] = Idle] /\ tasks[q].does = "post"
      /\ UNCHANGED <<page, status, clicks, failures, mishaps>>
  BY DEF RefusePost, Ends
<1>3. Only(q, Idle) /\ Calls' /\ \A u \in Task : IsTask(tasks[u])'
  BY <1>1, <1>2, NewCalls, OneCall
<1>4. TypeOK'
  BY <1>1, <1>2, <1>3 DEF TypeOK, page
<1> QED
  BY <1>2, <1>3, <1>4, PageStands

\* A POST's answer arrives.
LEMMA ScanQueuedStep ==
  ASSUME IInv, NEW q \in Task, ScanQueued(q)
  PROVE  IInv'
<1>1. TypeOK /\ Calls
  BY DEF IInv
<1> DEFINE c == ListThenSelect(tasks[q].scan)
<1>2. /\ tasks' = [tasks EXCEPT ![q] = c]
      /\ tasks[q].does = "post" /\ tasks[q].at = "answered"
      /\ UNCHANGED <<page, status, clicks, failures, mishaps>>
  BY DEF ScanQueued, Continues, Answered
<1>3. tasks[q].scan \in ScanId
  BY <1>1, <1>2, AllGood DEF Good, IsTask, Told
<1>4. Good(c)
  BY <1>3, NewCalls
<1> HIDE DEF c
<1>5. Only(q, c) /\ Calls' /\ \A u \in Task : IsTask(tasks[u])'
  BY <1>1, <1>2, <1>4, OneCall
<1>6. TypeOK'
  BY <1>1, <1>2, <1>5 DEF TypeOK, page
<1> QED
  BY <1>2, <1>5, <1>6, PageStands

\* The server's own steps, and steps that change nothing.
LEMMA ServerStepStep ==
  ASSUME IInv, ServerStep \/ UNCHANGED vars
  PROVE  IInv'
<1>1. TypeOK /\ Calls
  BY DEF IInv
<1>2. UNCHANGED <<page, tasks, clicks, failures, mishaps>>
  BY DEF ServerStep, vars
<1>3. status' \in [ScanId -> Server!Status]
  <2>1. CASE UNCHANGED vars
    BY <1>1, <2>1 DEF TypeOK, vars
  <2>2. CASE Server!RecordNext
    BY <1>1, <2>2 DEF TypeOK, Server!RecordNext, Server!Remove, Server!Submit, Server!Begin,
                      Server!Finish, Server!Becomes, Server!Status
  <2> QED
    BY <2>1, <2>2 DEF ServerStep
<1>4. Calls' /\ \A u \in Task : IsTask(tasks[u])'
  BY <1>1, <1>2, NoCall
<1>5. TypeOK'
  BY <1>1, <1>2, <1>3, <1>4 DEF TypeOK, page
<1>6. Loading(selectedScan) => Loading(selectedScan)'
  BY <1>2 DEF Loading, page
<1>7. ActiveIsPolled'
  BY <1>2, <1>6 DEF IInv, ActiveIsPolled, IsShownActive, page
<1>8. PollsSelected' /\ CopyGivesDrawn'
  BY <1>2 DEF IInv, PollsSelected, CopyGivesDrawn, page
<1>9. PaneIsOfSelection'
  BY <1>2, <1>6 DEF IInv, PaneIsOfSelection, page
<1> QED
  BY <1>4, <1>5, <1>7, <1>8, <1>9 DEF IInv

(***************************************************************************)
(* What the page does with answers.                                        *)
(***************************************************************************)

\* loadScanDetails draws a scan.
LEMMA ShowScanDetailsStep ==
  ASSUME IInv, NEW q \in Task, ShowScanDetails(q)
  PROVE  IInv'
<1>1. TypeOK /\ Calls
  BY DEF IInv
<1> DEFINE s == tasks[q].scan
           st == Seen(q)
<1>2. /\ tasks' = [tasks EXCEPT ![q] = Idle] /\ Answered(q, "details")
      /\ st # "absent"
      /\ selectedTarget' = TargetOf[s]
      /\ pane' = [scan |-> s, badge |-> st, of |-> s]
      /\ poller' = IF st \in Active THEN s ELSE poller
      /\ scripts' = IF st = "completed" THEN s ELSE None
      /\ mishaps' = IF s # selectedScan THEN mishaps \cup {"crossed"} ELSE mishaps
      /\ UNCHANGED <<status, selectedScan, listed, clicks, failures>>
  BY DEF ShowScanDetails, Ends, Mishap
<1>3. s \in ScanId /\ st \in Server!Status
  BY <1>1, <1>2, CallFacts DEF Answered
<1> HIDE DEF s, st
<1>4. Only(q, Idle) /\ Calls' /\ \A u \in Task : IsTask(tasks[u])'
  BY <1>1, <1>2, NewCalls, OneCall
<1>5. pane' \in Pane
  BY <1>2, <1>3 DEF Pane, Badge
<1>6. TypeOK'
  BY <1>1, <1>2, <1>3, <1>4, <1>5, PageAssumption DEF TypeOK, Pane
<1>7. pane'.scan = s /\ pane'.of = s /\ pane'.badge = st
  BY <1>2
<1>8. ActiveIsPolled'
  BY <1>2, <1>7 DEF ActiveIsPolled, IsShownActive
<1>9. mishaps' = {} => mishaps = {} /\ s = selectedScan
  BY <1>2
<1>10. PollsSelected'
  BY <1>2, <1>7, <1>9 DEF IInv, PollsSelected
<1>11. PaneIsOfSelection'
  BY <1>2, <1>7, <1>9 DEF PaneIsOfSelection
<1>12. CopyGivesDrawn'
  BY <1>2, <1>7 DEF CopyGivesDrawn
<1> QED
  BY <1>4, <1>6, <1>8, <1>10, <1>11, <1>12 DEF IInv

\* A scan that is not there any more
LEMMA ScanIsMissingStep ==
  ASSUME IInv, NEW q \in Task, ScanIsMissing(q)
  PROVE  IInv'
<1>1. TypeOK /\ Calls
  BY DEF IInv
<1>2. /\ tasks' = [tasks EXCEPT ![q] = Idle] /\ mishaps' = mishaps \cup {"failed"}
      /\ UNCHANGED <<page, status, clicks, failures>>
  BY DEF ScanIsMissing, Ends, Mishap
<1>3. Only(q, Idle) /\ Calls' /\ \A u \in Task : IsTask(tasks[u])'
  BY <1>1, <1>2, NewCalls, OneCall
<1>4. TypeOK'
  BY <1>1, <1>2, <1>3 DEF TypeOK, page
<1>5. ActiveIsPolled' /\ PollsSelected' /\ PaneIsOfSelection'
  BY <1>2 DEF ActiveIsPolled, PollsSelected, PaneIsOfSelection
<1>6. CopyGivesDrawn'
  BY <1>2 DEF IInv, CopyGivesDrawn, page
<1> QED
  BY <1>3, <1>4, <1>5, <1>6 DEF IInv

\* A tick's answer
LEMMA ShowTickStep ==
  ASSUME IInv, NEW q \in Task, ShowTick(q)
  PROVE  IInv'
<1>1. TypeOK /\ Calls
  BY DEF IInv
<1> DEFINE s == tasks[q].scan
           st == Seen(q)
<1>2. Answered(q, "tick") /\ UNCHANGED <<status, selectedTarget, selectedScan, listed, scripts, clicks, failures>>
  BY DEF ShowTick
<1>3. s \in ScanId /\ st \in Server!Status /\ tasks[q].does = "tick"
  BY <1>1, <1>2, CallFacts DEF Answered
<1>4. CASE st = "absent"
  <2>1. tasks' = [tasks EXCEPT ![q] = Idle] /\ UNCHANGED <<page, mishaps>>
    BY <1>2, <1>4 DEF ShowTick, Ends, page
  <2>2. Only(q, Idle) /\ Calls' /\ \A u \in Task : IsTask(tasks[u])'
    BY <1>1, <2>1, NewCalls, OneCall
  <2>3. TypeOK'
    BY <1>1, <1>2, <2>1, <2>2 DEF TypeOK, page
  <2> QED
    BY <1>3, <2>1, <2>2, <2>3, PageStands
<1>5. CASE st # "absent"
  <2> DEFINE c == IF st \in Active THEN Idle ELSE ListThenDetails(s)
  <2>1. /\ tasks' = [tasks EXCEPT ![q] = c]
        /\ pane' = [pane EXCEPT !.badge = st, !.of = s]
        /\ poller' = IF st \in Active THEN poller ELSE None
        /\ mishaps' = IF poller # s THEN mishaps \cup {"late"} ELSE mishaps
    BY <1>5 DEF ShowTick, Ends, Continues, Mishap
  <2>2. Good(c)
    BY <1>3, NewCalls
  <2> HIDE DEF c, s, st
  <2>3. Only(q, c) /\ Calls' /\ \A u \in Task : IsTask(tasks[u])'
    BY <1>1, <2>1, <2>2, OneCall
  <2>4. pane \in Pane
    BY <1>1 DEF TypeOK, Pane
  <2>5. pane' \in Pane /\ pane'.scan = pane.scan /\ pane'.of = s /\ pane'.badge = st
    BY <1>3, <1>5, <2>1, <2>4 DEF Pane, Badge
  <2>6. TypeOK'
    BY <1>1, <1>2, <2>1, <2>3, <2>5 DEF TypeOK, Pane
  <2>7. Loading(selectedScan) => Loading(selectedScan)'
    BY <1>2, <1>3, <2>3 DEF Loading, Only
  <2>8. mishaps' \subseteq {"crossed"} => poller = s
    BY <2>1
  <2>9. mishaps' = {} => mishaps = {} /\ poller = s
    BY <2>1
  <2>10. ActiveIsPolled'
    BY <2>1, <2>5, <2>8 DEF ActiveIsPolled, IsShownActive
  <2>11. PollsSelected'
    BY <1>2, <2>1, <2>5, <2>9 DEF IInv, PollsSelected
  <2>12. PaneIsOfSelection'
    <3>1. s # None
      BY <1>3, PageAssumption
    <3> QED
      BY <1>2, <2>5, <2>7, <2>9, <3>1 DEF IInv, PaneIsOfSelection, PollsSelected
  <2>13. CopyGivesDrawn'
    BY <1>2, <2>5 DEF IInv, CopyGivesDrawn
  <2> QED
    BY <2>3, <2>6, <2>10, <2>11, <2>12, <2>13 DEF IInv
<1> QED
  BY <1>4, <1>5

\* What follows fetchScans, with a list or without.
LEMMA AfterListStep ==
  ASSUME IInv, NEW q \in Task, tasks[q].does \in Lists, AfterList(q),
         listed' \subseteq ScanId, failures' \in 0 .. MaxFailures,
         UNCHANGED <<status, selectedTarget, pane, scripts, clicks, mishaps>>
  PROVE  IInv'
<1>1. TypeOK /\ Calls
  BY DEF IInv
<1> DEFINE s == tasks[q].scan
<1>2. s \in ScanId /\ tasks[q].does # "details"
  BY <1>1, CallFacts DEF Lists
<1>3. /\ tasks' = [tasks EXCEPT ![q] = Details(s)]
      /\ \/ selectedScan' = s /\ poller' = None
         \/ UNCHANGED <<selectedScan, poller>>
  BY DEF AfterList, Continues
<1> HIDE DEF s
<1>4. Only(q, Details(s)) /\ Calls' /\ \A u \in Task : IsTask(tasks[u])'
  BY <1>1, <1>2, <1>3, NewCalls, OneCall
<1>5. TypeOK'
  BY <1>1, <1>2, <1>3, <1>4 DEF TypeOK
<1>6. CopyGivesDrawn'
  BY DEF IInv, CopyGivesDrawn
<1>7. CASE selectedScan' = s /\ poller' = None
  <2>1. Loading(selectedScan)'
    BY <1>4, <1>7 DEF Loading, Only, Details, Call
  <2>2. ActiveIsPolled'
    BY <2>1 DEF ActiveIsPolled
  <2>3. PollsSelected' /\ PaneIsOfSelection'
    BY <1>7, <2>1 DEF IInv, PollsSelected, PaneIsOfSelection
  <2> QED
    BY <1>4, <1>5, <1>6, <2>2, <2>3 DEF IInv
<1>8. CASE UNCHANGED <<selectedScan, poller>>
  <2>1. Loading(selectedScan) => Loading(selectedScan)'
    BY <1>2, <1>4, <1>8 DEF Loading, Only
  <2>2. ActiveIsPolled'
    BY <1>8, <2>1 DEF IInv, ActiveIsPolled, IsShownActive
  <2>3. PollsSelected' /\ PaneIsOfSelection'
    BY <1>8, <2>1 DEF IInv, PollsSelected, PaneIsOfSelection
  <2> QED
    BY <1>4, <1>5, <1>6, <2>2, <2>3 DEF IInv
<1> QED
  BY <1>3, <1>7, <1>8

\* The list of scans arrives.
LEMMA ShowScansStep ==
  ASSUME IInv, NEW q \in Task, ShowScans(q)
  PROVE  IInv'
<1>1. listed' \subseteq ScanId
  BY CallFacts DEF IInv, ShowScans
<1>2. failures' \in 0 .. MaxFailures
  BY DEF IInv, TypeOK, ShowScans
<1> QED
  BY <1>1, <1>2, AfterListStep DEF ShowScans

\* No answer at all
LEMMA RequestFailsStep ==
  ASSUME IInv, NEW q \in Task, RequestFails(q)
  PROVE  IInv'
<1>1. TypeOK /\ Calls
  BY DEF IInv
<1>2. /\ failures' \in 0 .. MaxFailures
      /\ UNCHANGED <<status, selectedTarget, listed, pane, scripts, clicks>>
  BY <1>1, PageAssumption DEF RequestFails, TypeOK
<1>3. mishaps' = IF tasks[q].does = "details" THEN mishaps \cup {"failed"} ELSE mishaps
  BY DEF RequestFails, Mishap
<1>4. CASE tasks[q].does \in Lists
  <2>1. AfterList(q) /\ mishaps' = mishaps /\ listed' \subseteq ScanId
    BY <1>1, <1>2, <1>3, <1>4 DEF RequestFails, Lists, TypeOK
  <2> QED
    BY <1>2, <1>4, <2>1, AfterListStep
<1>5. CASE tasks[q].does \notin Lists
  <2>1. tasks' = [tasks EXCEPT ![q] = Idle] /\ UNCHANGED page
    BY <1>2, <1>5 DEF RequestFails, Ends, page
  <2>2. Only(q, Idle) /\ Calls' /\ \A u \in Task : IsTask(tasks[u])'
    BY <1>1, <2>1, NewCalls, OneCall
  <2>3. TypeOK'
    BY <1>1, <1>2, <1>3, <2>1, <2>2 DEF TypeOK, page
  <2>4. CASE tasks[q].does = "details"
    <3>1. ActiveIsPolled' /\ PollsSelected' /\ PaneIsOfSelection'
      BY <1>3, <2>4 DEF ActiveIsPolled, PollsSelected, PaneIsOfSelection
    <3>2. CopyGivesDrawn'
      BY <2>1 DEF IInv, CopyGivesDrawn, page
    <3> QED
      BY <2>2, <2>3, <3>1, <3>2 DEF IInv
  <2>5. CASE tasks[q].does # "details"
    BY <1>3, <2>1, <2>2, <2>3, <2>5, PageStands
  <2> QED
    BY <2>4, <2>5
<1> QED
  BY <1>4, <1>5

(***************************************************************************)
(* The theorems.                                                           *)
(***************************************************************************)

LEMMA Start == Init => IInv
<1> SUFFICES ASSUME Init  PROVE IInv
  OBVIOUS
<1>1. Good(Idle)
  BY NewCalls
<1>2. \A q \in Task : tasks[q] = Idle
  BY DEF Init
<1>3. tasks \in [Task -> CallRows]
  BY <1>1 DEF Init, Good
<1>4. Calls /\ \A q \in Task : IsTask(tasks[q])
  BY <1>1, <1>2, <1>3 DEF Calls, Good
<1>5. pane \in Pane
  BY DEF Init, Pane, Badge
<1>6. TypeOK
  BY <1>4, <1>5, PageAssumption DEF Init, TypeOK, Pane
<1>7. ActiveIsPolled
  BY DEF Init, ActiveIsPolled, IsShownActive, Active
<1>8. PollsSelected /\ PaneIsOfSelection /\ CopyGivesDrawn
  BY DEF Init, PollsSelected, PaneIsOfSelection, CopyGivesDrawn
<1> QED
  BY <1>4, <1>6, <1>7, <1>8 DEF IInv

LEMMA Step == IInv /\ [Next]_vars => IInv'
<1> SUFFICES ASSUME IInv, [Next]_vars  PROVE IInv'
  OBVIOUS
<1>1. CASE ServerStep \/ UNCHANGED vars
  BY <1>1, ServerStepStep
<1>2. ASSUME NEW q \in Task, NEW s \in ScanId, SelectScan(q, s)  PROVE IInv'
  BY <1>2, SelectScanStep
<1>3. ASSUME NEW q \in Task, NEW s \in ScanId, AnswerPost(q, s)  PROVE IInv'
  BY <1>3, AnswerPostStep
<1>4. ASSUME NEW q \in Task, NEW t \in Target, SelectTarget(q, t)  PROVE IInv'
  BY <1>4, SelectTargetStep
<1>5. ASSUME NEW q \in Task, TriggerTargetScan(q)  PROVE IInv'
  BY <1>5, TriggerStep
<1>6. ASSUME NEW q \in Task, PollerFires(q)  PROVE IInv'
  BY <1>6, PollerFiresStep
<1>7. ASSUME NEW q \in Task, AnswerGet(q)  PROVE IInv'
  BY <1>7, AnswerGetStep
<1>8. ASSUME NEW q \in Task, RefusePost(q)  PROVE IInv'
  BY <1>8, RefusePostStep
<1>9. ASSUME NEW q \in Task, Deliver(q)  PROVE IInv'
  BY <1>9, ShowScanDetailsStep, ScanIsMissingStep, ShowTickStep, ShowScansStep, ScanQueuedStep
     DEF Deliver
<1>10. ASSUME NEW q \in Task, RequestFails(q)  PROVE IInv'
  BY <1>10, RequestFailsStep
<1> QED
  BY <1>1, <1>2, <1>3, <1>4, <1>5, <1>6, <1>7, <1>8, <1>9, <1>10 DEF Next

LEMMA Invariance == Spec => []IInv
  BY Start, Step, PTL DEF Spec

\* TypeOK: among the rest, an answer 404 is never drawn as a scan (loadScanDetails).
THEOREM TypesHold == Spec => []TypeOK
  BY Invariance, PTL DEF IInv

\* ActiveIsPolled: a scan shown as pending or running is polled or about to be replaced, but
\* for late ticks and details that did not come (startPolling, loadScanDetails).
THEOREM ShownIsPolled == Spec => []ActiveIsPolled
  BY Invariance, PTL DEF IInv

\* PaneIsOfSelection: details, badge and selection are of one scan as long as nothing came
\* late, crossed or failed (selectScan, selectTarget, loadScanDetails).
THEOREM PaneFollowsSelection == Spec => []PaneIsOfSelection
  BY Invariance, PTL DEF IInv

\* CopyGivesDrawn: the scripts Copy and Download give are of the scan that is drawn
\* (loadScanDetails and populateSqlPdbSelect).
THEOREM ScriptsAreOfDrawn == Spec => []CopyGivesDrawn
  BY Invariance, PTL DEF IInv
=============================================================================
