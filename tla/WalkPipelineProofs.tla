-------------------------- MODULE WalkPipelineProofs --------------------------
(***************************************************************************)
(* Proofs about WalkPipeline for any number of runs, paths, workers and    *)
(* faults, and that it implements PathRuns.                                *)
(***************************************************************************)
EXTENDS WalkPipeline, FiniteSetTheorems, TLAPS

(***************************************************************************)
(* The inductive invariant.  That connections are not shared and are all   *)
(* closed needs what ties a call, its threads and its connections.         *)
(***************************************************************************)

\* A call works on the paths it asked for.
Assigned == \A r \in Run : \A p \in Path : task[r][p].at # "none" <=> p \in Asked(r)

\* Once it is over nothing of it waits or works.
Quiet ==
  \A r \in Run : call[r].at \notin Running => \A p \in Path : task[r][p].at \notin Busy \cup {"queued"}

\* A thread works on the port that was chosen for it, which is open; the session is open
\* as long as the call is not over.
Connected ==
  /\ \A r \in Run : \A p \in Path : task[r][p].at \in Busy =>
       /\ task[r][p].port = TaskPort(r, p)
       /\ task[r][p].port # None => task[r][p].port \in open
  /\ \A r \in Run : call[r].at \in Running /\ call[r].asks.ssh => Session(r) \in open

\* An open connection is the session of a call that is not over or of a thread that works.
Used ==
  \A c \in open : /\ call[c[1]].at \in Running
                  /\ c[2] # None => task[c[1]][c[2]].at \in Busy

\* A result is in its path's place and of a path that ended well.
InPlace ==
  \A r \in Run : \A p \in Path :
    call[r].results[p] # None => call[r].results[p] = p /\ task[r][p].at = "ok"

\* A call that gave up saw a path fail.
GaveUp == \A r \in Run : call[r].at = "leaving" => \E p \in Path : task[r][p].at = "failed"

IInv == TypeOK /\ Assigned /\ Quiet /\ Connected /\ Used /\ InPlace /\ GaveUp

\* What TypeOK says of one call and of one thread's work.
Asks == UNION {Requests[r] : r \in Run}
CallRow == [at : CallAt, asks : Asks \cup {None}, results : [Path -> Path \cup {None}]]
TaskRow == [at : TaskAt, port : Port \cup {None}, finds : BOOLEAN, fixed : BOOLEAN]
TaskType == [Run -> [Path -> TaskRow]]

\* The paths of a call a thread is at.
BusyOf(r) == {p \in Path : task[r][p].at \in Busy}

\* Every thread but one stands still.
Only(r, p) == \A s \in Run, q \in Path : (s # r \/ q # p) => task'[s][q] = task[s][q]

\* TypeOK in these terms.
Types ==
  /\ call \in [Run -> CallRow] /\ task \in TaskType
  /\ \A r \in Run : call[r].at = "idle" <=> call[r].asks = None
  /\ \A r \in Run : call[r].asks # None => Cardinality(BusyOf(r)) <= call[r].asks.workers
  /\ open \subseteq Port /\ disk \in [Kind -> [Name -> File]]
  /\ faults \in 0 .. MaxFaults /\ crossed \subseteq Name

\* Types is TypeOK, before a step and after it.
LEMMA TypeIs == (TypeOK <=> Types) /\ (TypeOK' <=> Types')
<1>1. CallRow = [at : CallAt, asks : (UNION {Requests[r] : r \in Run}) \cup {None},
                results : [Path -> Path \cup {None}]]
  BY DEF CallRow, Asks
<1>2. TaskType = [Run -> [Path -> [at : TaskAt, port : Port \cup {None}, finds : BOOLEAN,
                                   fixed : BOOLEAN]]]
  BY DEF TaskType, TaskRow
<1>3. \A r \in Run : BusyOf(r) = {p \in Path : task[r][p].at \in Busy}
  BY DEF BusyOf
<1>4. TypeOK <=> Types
  BY <1>1, <1>2, <1>3, Zenon DEF TypeOK, Types
<1>5. TypeOK' <=> Types'
  BY <1>4, PTL
<1> QED
  BY <1>4, <1>5

\* A call that was made asks for some paths, by at least one worker.
LEMMA AsksAreRequests ==
  ASSUME NEW q \in Asks
  PROVE  /\ q \in Request /\ q # None
         /\ q.paths \subseteq Path /\ q.paths # {} /\ q.workers \in Nat \ {0}
<1>1. q \in Request /\ q # None
  BY PipelineAssumption DEF Asks
<1>2. Path # {}
  <2>1. 1 \in Path
    BY PipelineAssumption DEF Path
  <2> QED
    BY <2>1
<1> QED
  BY <1>1, <1>2 DEF Request

\* What a step leaves of one row of the table of tasks and of the others.
LEMMA TaskChanges ==
  ASSUME task \in TaskType, NEW r \in Run, NEW p \in Path, NEW row \in TaskRow,
         task' = [task EXCEPT ![r] = [task[r] EXCEPT ![p] = row]]
  PROVE  task' \in TaskType /\ task'[r][p] = row /\ Only(r, p)
  BY DEF TaskType, Only

\* Goto changes where one thread is and nothing else.
LEMMA GotoChanges ==
  ASSUME task \in TaskType, NEW r \in Run, NEW p \in Path, NEW label \in TaskAt, Goto(r, p, label)
  PROVE  /\ task' \in TaskType /\ Only(r, p)
         /\ task'[r][p] = [task[r][p] EXCEPT !.at = label]
         /\ task'[r][p].at = label /\ task'[r][p].port = task[r][p].port
<1> DEFINE row == [task[r][p] EXCEPT !.at = label]
<1>1. row \in TaskRow /\ row.at = label /\ row.port = task[r][p].port
  <2>1. task[r][p] \in TaskRow
    BY DEF TaskType
  <2> QED
    BY <2>1 DEF TaskRow
<1>2. task' = [task EXCEPT ![r] = [task[r] EXCEPT ![p] = row]]
  BY DEF Goto, TaskType
<1>3. row = [task[r][p] EXCEPT !.at = label]
  OBVIOUS
<1> HIDE DEF row
<1>4. task' \in TaskType /\ task'[r][p] = row /\ Only(r, p)
  BY <1>1, <1>2, TaskChanges
<1> QED
  BY <1>1, <1>3, <1>4

\* The same without the row.
LEMMA GotoMoves ==
  ASSUME task \in TaskType, NEW r \in Run, NEW p \in Path, NEW label \in TaskAt, Goto(r, p, label)
  PROVE  Only(r, p) /\ task'[r][p].at = label
<1> DEFINE row == [task[r][p] EXCEPT !.at = label]
<1>1. row \in TaskRow /\ row.at = label
  <2>1. task[r][p] \in TaskRow
    BY DEF TaskType
  <2> QED
    BY <2>1 DEF TaskRow
<1>2. task' = [task EXCEPT ![r] = [task[r] EXCEPT ![p] = row]]
  BY DEF Goto, TaskType
<1> HIDE DEF row
<1>3. task'[r][p] = row /\ Only(r, p)
  BY <1>1, <1>2, TaskChanges
<1> QED
  BY <1>1, <1>3

\* While the threads of a call that are busy are the same or fewer, they are not too many.
LEMMA FewerAreBusy ==
  ASSUME NEW r \in Run, BusyOf(r)' \subseteq BusyOf(r)
  PROVE  /\ IsFiniteSet(BusyOf(r)) /\ IsFiniteSet(BusyOf(r)')
         /\ Cardinality(BusyOf(r)') <= Cardinality(BusyOf(r))
         /\ Cardinality(BusyOf(r)) \in Nat /\ Cardinality(BusyOf(r)') \in Nat
<1>1. IsFiniteSet(Path)
  BY PipelineAssumption, FS_Interval DEF Path
<1>2. IsFiniteSet(BusyOf(r)) /\ IsFiniteSet(BusyOf(r)')
  BY <1>1, FS_Subset DEF BusyOf
<1> QED
  BY <1>2, FS_Subset, FS_CardinalityType

\* A step on one thread keeps the types when it keeps those it changes: no thread of another
\* call starts, so no call has more of them.
LEMMA TypesOfTask ==
  ASSUME TypeOK, NEW r \in Run, NEW p \in Path, task' \in TaskType, Only(r, p),
         task[r][p].at \in Busy \/ task'[r][p].at \notin Busy,
         UNCHANGED call, open' \subseteq Port, disk' \in [Kind -> [Name -> File]],
         faults' \in 0 .. MaxFaults, crossed' \subseteq Name
  PROVE  TypeOK'
<1>1. ASSUME NEW s \in Run PROVE BusyOf(s)' \subseteq BusyOf(s)
  BY DEF BusyOf, Only
<1>2. ASSUME NEW s \in Run, call'[s].asks # None
      PROVE  Cardinality(BusyOf(s)') <= call'[s].asks.workers
  <2>1. Cardinality(BusyOf(s)) <= call[s].asks.workers /\ call[s].asks \in Asks
    BY <1>2, TypeIs DEF Types, CallRow
  <2>2. call[s].asks.workers \in Nat
    BY <2>1, AsksAreRequests
  <2> QED
    BY <1>1, <2>1, <2>2, FewerAreBusy
<1>3. \A s \in Run : call'[s].at = "idle" <=> call'[s].asks = None
  BY TypeIs DEF Types
<1> QED
  BY <1>2, <1>3, TypeIs DEF Types

\* A thread that goes from one busy place to another keeps the types.
LEMMA TypesOfGoto ==
  ASSUME TypeOK, NEW r \in Run, NEW p \in Path, NEW row \in TaskRow, task[r][p].at \in Busy,
         task' = [task EXCEPT ![r] = [task[r] EXCEPT ![p] = row]],
         UNCHANGED <<call, crossed>>, open' \subseteq Port, disk' \in [Kind -> [Name -> File]],
         faults' \in 0 .. MaxFaults
  PROVE  TypeOK'
<1>1. task' \in TaskType /\ Only(r, p)
  BY TaskChanges, TypeIs DEF Types
<1> QED
  BY <1>1, TypesOfTask, TypeIs DEF Types

\* Every step keeps every variable in its type.
LEMMA TypeStep == TypeOK /\ [Next]_vars => TypeOK'
<1> SUFFICES ASSUME TypeOK, [Next]_vars PROVE TypeOK'
  OBVIOUS
<1>a. Types /\ MaxFaults \in Nat
  BY TypeIs, PipelineAssumption
<1>b. \A r \in Run : \A p \in Path : task[r][p] \in TaskRow
  BY <1>a DEF Types, TaskType
<1>c. \A r \in Run : \A p \in Path : NameOf(r, p) \in Name
  BY DEF NameOf, NameIn, Name
<1>d. Fault => faults' \in 0 .. MaxFaults
  BY <1>a DEF Fault, Types
<1>e. ASSUME NEW r \in Run, NEW p \in Path, NEW k \in Kind, NEW file \in File,
             disk' = [disk EXCEPT ![k][NameOf(r, p)] = file]
      PROVE  disk' \in [Kind -> [Name -> File]]
  BY <1>a, <1>c, <1>e DEF Types
<1>f. ASSUME NEW r \in Run, NEW p \in Path, NEW label \in TaskAt, Goto(r, p, label),
             task[r][p].at \in Busy, UNCHANGED <<call, crossed>>, open' \subseteq Port,
             disk' \in [Kind -> [Name -> File]], faults' \in 0 .. MaxFaults
      PROVE  TypeOK'
  BY <1>a, <1>f, GotoChanges, TypesOfTask DEF Types
<1>g. Kind = {"walk", "fix", "json"} /\ \A r \in Run : Emptied(r) \in File
  BY DEF Kind, Emptied, File
<1>h. ASSUME NEW r \in Run, NEW p \in Path, Raises(r, p), task[r][p].at \in Busy PROVE TypeOK'
  BY <1>a, <1>d, <1>f, <1>h DEF Raises, Types, TaskAt, Busy
<1>1. ASSUME NEW r \in Run, NEW q \in Requests[r], Call(r, q) PROVE TypeOK'
  <2>1. q \in Asks /\ q # None /\ q.paths \subseteq Path /\ q.workers \in Nat \ {0}
    BY AsksAreRequests DEF Asks
  <2> DEFINE queued == [p \in Path |-> IF p \in q.paths THEN [NoTask EXCEPT !.at = "queued"] ELSE NoTask]
             row == [[call[r] EXCEPT !.at = "pool"] EXCEPT !.asks = q]
  <2>2. NoTask \in TaskRow /\ [NoTask EXCEPT !.at = "queued"] \in TaskRow
    BY DEF NoTask, TaskRow, TaskAt
  <2>3. queued \in [Path -> TaskRow]
    BY <2>2
  <2>4. row \in CallRow /\ row.at = "pool" /\ row.asks = q
    BY <1>a, <2>1 DEF Types, CallRow, CallAt
  <2>5. call' = [call EXCEPT ![r] = row] /\ task' = [task EXCEPT ![r] = queued]
    BY <1>a, <1>1 DEF Call, Types, CallRow
  <2>6. /\ call' \in [Run -> CallRow] /\ task' \in TaskType
        /\ call'[r].at = "pool" /\ call'[r].asks = q /\ task'[r] = queued
        /\ \A s \in Run : s # r => call'[s] = call[s] /\ task'[s] = task[s]
    BY <1>a, <2>3, <2>4, <2>5 DEF Types, TaskType
  <2>7. open' \subseteq Port
    BY <1>a, <1>1 DEF Call, Types, Port, Session
  <2>8. BusyOf(r)' = {}
    <3>1. NoTask.at = "none" /\ [NoTask EXCEPT !.at = "queued"].at = "queued"
      BY DEF NoTask
    <3> QED
      BY <2>6, <3>1 DEF BusyOf, Busy
  <2>9. \A s \in Run : s # r => BusyOf(s)' = BusyOf(s)
    BY <2>6 DEF BusyOf
  <2>10. ASSUME NEW s \in Run, call'[s].asks # None
         PROVE  Cardinality(BusyOf(s)') <= call'[s].asks.workers
    <3>1. CASE s = r
      <4>1. Cardinality(BusyOf(r)') = 0
        BY <2>8, FS_EmptySet
      <4> QED
        BY <2>1, <2>6, <3>1, <4>1
    <3>2. CASE s # r
      BY <1>a, <2>6, <2>9, <2>10, <3>2 DEF Types
    <3> QED
      BY <3>1, <3>2
  <2>11. \A s \in Run : call'[s].at = "idle" <=> call'[s].asks = None
    BY <1>a, <2>1, <2>6 DEF Types
  <2> QED
    BY <1>a, <1>1, <2>6, <2>7, <2>10, <2>11, TypeIs DEF Types, Call
<1>2. ASSUME NEW r \in Run, Leave(r) \/ \E p \in Path : Take(r, p) PROVE TypeOK'
  <2>1. PICK row \in CallRow :
          /\ call' = [call EXCEPT ![r] = row] /\ row.asks = call[r].asks
          /\ row.at # "idle" /\ call[r].at # "idle"
    <3>1. call[r] \in CallRow
      BY <1>a DEF Types
    <3>2. ASSUME NEW label \in CallAt \ {"idle"}, call' = [call EXCEPT ![r].at = label],
                 call[r].at # "idle"
          PROVE  \E row \in CallRow : /\ call' = [call EXCEPT ![r] = row] /\ row.asks = call[r].asks
                                      /\ row.at # "idle" /\ call[r].at # "idle"
      <4>1. /\ [call[r] EXCEPT !.at = label] \in CallRow
            /\ [call[r] EXCEPT !.at = label].asks = call[r].asks
            /\ [call[r] EXCEPT !.at = label].at = label
        BY <3>1 DEF CallRow
      <4> QED
        BY <3>2, <4>1
    <3>3. ASSUME NEW p \in Path, call' = PutResult(r, p), call[r].at # "idle"
          PROVE  \E row \in CallRow : /\ call' = [call EXCEPT ![r] = row] /\ row.asks = call[r].asks
                                      /\ row.at # "idle" /\ call[r].at # "idle"
      <4> DEFINE row == [call[r] EXCEPT !.results[p] = p]
      <4>1. row \in CallRow /\ row.asks = call[r].asks /\ row.at = call[r].at
        BY <3>1 DEF CallRow
      <4> QED
        BY <3>3, <4>1 DEF PutResult
    <3> QED
      BY <1>2, <3>2, <3>3 DEF Leave, Take, CallAt
  <2>2. /\ call' \in [Run -> CallRow] /\ \A s \in Run : s # r => call'[s] = call[s]
        /\ call'[r].asks = call[r].asks /\ call'[r].at # "idle" /\ call[r].at # "idle"
    BY <1>a, <2>1 DEF Types
  <2>3. UNCHANGED <<task, disk, faults, crossed>> /\ open' \subseteq open
    BY <1>2 DEF Leave, Take
  <2>4. \A s \in Run : BusyOf(s)' = BusyOf(s) /\ call'[s].asks = call[s].asks
    BY <2>2, <2>3 DEF BusyOf
  <2>5. \A s \in Run : call'[s].at = "idle" <=> call'[s].asks = None
    BY <1>a, <2>2 DEF Types
  <2> QED
    BY <1>a, <2>2, <2>3, <2>4, <2>5, TypeIs DEF Types
<1>3. ASSUME NEW r \in Run, NEW p \in Path, Begin(r, p) PROVE TypeOK'
  <2>1. PICK row \in TaskRow : task' = [task EXCEPT ![r] = [task[r] EXCEPT ![p] = row]]
    <3>1. CASE Goto(r, p, "failed")
      <4>1. [task[r][p] EXCEPT !.at = "failed"] \in TaskRow
        BY <1>b DEF TaskRow, TaskAt, Ended
      <4> QED
        BY <1>a, <3>1, <4>1 DEF Goto, Types, TaskType
    <3>2. CASE task' = [task EXCEPT ![r][p].at = IF call[r].asks.walks THEN "walk" ELSE "load",
                                    ![r][p].port = TaskPort(r, p)]
      <4> DEFINE label == IF call[r].asks.walks THEN "walk" ELSE "load"
                 port == TaskPort(r, p)
                 row == [[task[r][p] EXCEPT !.at = label] EXCEPT !.port = port]
      <4>1. label \in TaskAt
        BY DEF TaskAt, Busy
      <4>2. port \in Port \cup {None}
        BY DEF TaskPort, Session, Port
      <4>3. task' = [task EXCEPT ![r] = [task[r] EXCEPT ![p] = row]]
        BY <1>a, <3>2 DEF Types, TaskType
      <4> HIDE DEF label, port
      <4>4. row \in TaskRow
        BY <1>b, <4>1, <4>2 DEF TaskRow
      <4> QED
        BY <4>3, <4>4
    <3> QED
      BY <1>3, <3>1, <3>2 DEF Begin
  <2>2. task' \in TaskType /\ Only(r, p)
    BY <1>a, <2>1, TaskChanges DEF Types
  <2>3. UNCHANGED <<call, disk>> /\ faults' \in 0 .. MaxFaults
    BY <1>a, <1>3, <1>d DEF Begin, Types
  <2>4. crossed' \subseteq Name
    BY <1>a, <1>3, <1>c DEF Begin, Types
  <2>5. open' \subseteq Port
    <3>1. TaskPort(r, p) \in Port \cup {None}
      BY DEF TaskPort, Session, Port
    <3> QED
      BY <1>a, <1>3, <3>1 DEF Begin, Types
  <2>6. ASSUME NEW s \in Run, call'[s].asks # None
        PROVE  Cardinality(BusyOf(s)') <= call'[s].asks.workers
    <3>1. call[s].asks \in Asks /\ Cardinality(BusyOf(s)) <= call[s].asks.workers
      BY <1>a, <2>3, <2>6 DEF Types, CallRow
    <3>2. call[s].asks.workers \in Nat
      BY <3>1, AsksAreRequests
    <3>3. CASE s # r
      <4>1. BusyOf(s)' \subseteq BusyOf(s)
        BY <2>2, <3>3 DEF BusyOf, Only
      <4> QED
        BY <2>3, <3>1, <3>2, <4>1, FewerAreBusy
    <3>4. CASE s = r
      <4>1. BusyOf(r)' \subseteq BusyOf(r) \cup {p}
        BY <2>2 DEF BusyOf, Only
      <4>2. Cardinality(BusyOf(r)) < call[r].asks.workers
        BY <1>3 DEF Begin, HasWorker, BusyOf
      <4>3. IsFiniteSet(BusyOf(r)) /\ Cardinality(BusyOf(r)) \in Nat
        <5>1. IsFiniteSet(Path)
          BY PipelineAssumption, FS_Interval DEF Path
        <5> QED
          BY <5>1, FS_Subset, FS_CardinalityType DEF BusyOf
      <4>4. /\ IsFiniteSet(BusyOf(r) \cup {p})
            /\ Cardinality(BusyOf(r) \cup {p}) <= Cardinality(BusyOf(r)) + 1
        <5>1. /\ IsFiniteSet(BusyOf(r) \cup {p})
              /\ Cardinality(BusyOf(r) \cup {p}) =
                   IF p \in BusyOf(r) THEN Cardinality(BusyOf(r)) ELSE Cardinality(BusyOf(r)) + 1
          BY <4>3, FS_AddElement
        <5> QED
          BY <4>3, <5>1
      <4>5. /\ Cardinality(BusyOf(r)') <= Cardinality(BusyOf(r) \cup {p})
            /\ Cardinality(BusyOf(r)') \in Nat /\ Cardinality(BusyOf(r) \cup {p}) \in Nat
        BY <4>1, <4>4, FS_Subset, FS_CardinalityType
      <4> QED
        BY <2>3, <3>2, <3>4, <4>2, <4>3, <4>4, <4>5
    <3> QED
      BY <3>3, <3>4
  <2>7. \A s \in Run : call'[s].at = "idle" <=> call'[s].asks = None
    BY <1>a, <2>3 DEF Types
  <2> QED
    BY <1>a, <2>2, <2>3, <2>4, <2>5, <2>6, <2>7, TypeIs DEF Types
<1>4. ASSUME NEW r \in Run, NEW p \in Path, Walk(r, p) PROVE TypeOK'
  <2>1. task[r][p].at \in Busy
    BY <1>4 DEF Walk, Busy
  <2>2. CASE /\ \E finds \in BOOLEAN :
                  task' = [task EXCEPT ![r][p].at = "saving", ![r][p].finds = finds]
             /\ OpenFile(r, p, "walk") /\ UNCHANGED <<call, open, faults, crossed>>
    <3>1. PICK finds \in BOOLEAN : task' = [task EXCEPT ![r][p].at = "saving", ![r][p].finds = finds]
      BY <2>2
    <3> DEFINE row == [[task[r][p] EXCEPT !.at = "saving"] EXCEPT !.finds = finds]
    <3>2. row \in TaskRow
      BY <1>b DEF TaskRow, TaskAt, Busy
    <3>3. task' = [task EXCEPT ![r] = [task[r] EXCEPT ![p] = row]]
      BY <1>a, <3>1 DEF Types, TaskType
    <3>4. disk' \in [Kind -> [Name -> File]]
      BY <1>e, <1>g, <2>2 DEF OpenFile
    <3> QED
      BY <1>a, <2>1, <2>2, <3>2, <3>3, <3>4, TypesOfGoto DEF Types
  <2> QED
    BY <1>4, <1>h, <2>1, <2>2 DEF Walk
<1>5. ASSUME NEW r \in Run, NEW p \in Path, Load(r, p) PROVE TypeOK'
  <2>1. task[r][p].at \in Busy /\ UNCHANGED <<call, open, disk, faults, crossed>>
    BY <1>5 DEF Load, Busy
  <2>2. ASSUME NEW finds \in BOOLEAN, NEW label \in {"policy", "json"},
               task' = [task EXCEPT ![r][p].at = label, ![r][p].finds = finds]
        PROVE  TypeOK'
    <3> DEFINE row == [[task[r][p] EXCEPT !.at = label] EXCEPT !.finds = finds]
    <3>1. row \in TaskRow
      BY <1>b DEF TaskRow, TaskAt, Busy
    <3>2. task' = [task EXCEPT ![r] = [task[r] EXCEPT ![p] = row]]
      BY <1>a, <2>2 DEF Types, TaskType
    <3> QED
      BY <1>a, <2>1, <3>1, <3>2, TypesOfGoto DEF Types
  <2>3. CASE Goto(r, p, "fail")
    BY <1>a, <1>f, <2>1, <2>3 DEF Types, TaskAt, Busy
  <2>4. disk["walk"][NameOf(r, p)].says \in BOOLEAN
    BY <1>a, <1>c, <1>g DEF Types, File
  <2> QED
    BY <1>5, <2>2, <2>3, <2>4 DEF Load
<1>6. ASSUME NEW r \in Run, NEW p \in Path, Policy(r, p) PROVE TypeOK'
  <2>1. task[r][p].at \in Busy
    BY <1>6 DEF Policy, Busy
  <2>2. CASE ~Raises(r, p)
    <3>1. UNCHANGED <<call, open, faults, crossed>> /\ (Goto(r, p, "fixing") \/ Goto(r, p, "json"))
      BY <1>6, <2>2 DEF Policy
    <3>2. disk' \in [Kind -> [Name -> File]]
      BY <1>6, <1>a, <1>e, <1>g, <2>2 DEF Policy, OpenFile, Types
    <3> QED
      BY <1>a, <1>f, <2>1, <3>1, <3>2 DEF Types, TaskAt, Busy
  <2> QED
    BY <1>h, <2>1, <2>2
<1>7. ASSUME NEW r \in Run, NEW p \in Path, Summarise(r, p) PROVE TypeOK'
  <2>1. task[r][p].at \in Busy
    BY <1>7 DEF Summarise, Busy
  <2>2. CASE ~Raises(r, p)
    <3>1. UNCHANGED <<call, open, faults, crossed>> /\ Goto(r, p, "jsoning")
      BY <1>7, <2>2 DEF Summarise
    <3>2. disk' \in [Kind -> [Name -> File]]
      BY <1>7, <1>e, <1>g, <2>2 DEF Summarise, OpenFile
    <3> QED
      BY <1>a, <1>f, <2>1, <3>1, <3>2 DEF Types, TaskAt, Busy
  <2> QED
    BY <1>h, <2>1, <2>2
<1>8. ASSUME NEW r \in Run, NEW p \in Path, WriteFile(r, p) PROVE TypeOK'
  <2>1. /\ task[r][p].at \in Busy /\ UNCHANGED <<call, open, crossed>>
        /\ task[r][p].at \in {"saving", "fixing", "jsoning"}
    BY <1>8 DEF WriteFile, Busy
  <2>2. /\ Writes(task[r][p]) \in Kind /\ Says(task[r][p]) \in BOOLEAN
        /\ After(task[r][p]) \in TaskAt
    BY <1>b, <2>1 DEF Writes, Says, SaysFixed, After, Kind, TaskRow, TaskAt, Busy
  <2>3. \A text \in {"part", "whole"} : [by |-> r, text |-> text, says |-> Says(task[r][p])] \in File
    BY <2>2 DEF File
  <2>4. disk' \in [Kind -> [Name -> File]]
    <3>1. PICK text \in {"part", "whole"} :
            disk' = [disk EXCEPT ![Writes(task[r][p])][NameOf(r, p)] =
                       [by |-> r, text |-> text, says |-> Says(task[r][p])]]
      BY <1>8 DEF WriteFile
    <3> QED
      BY <1>e, <2>2, <2>3, <3>1
  <2>5. CASE /\ task' = [task EXCEPT ![r][p].at = After(task[r][p]),
                                     ![r][p].fixed = @ \/ task[r][p].at = "fixing"]
             /\ UNCHANGED faults
    <3> DEFINE label == After(task[r][p])
               fixed == task[r][p].fixed \/ task[r][p].at = "fixing"
               row == [[task[r][p] EXCEPT !.at = label] EXCEPT !.fixed = fixed]
    <3>1. label \in TaskAt /\ fixed \in BOOLEAN
      BY <1>b, <2>2 DEF TaskRow
    <3>2. task' = [task EXCEPT ![r] = [task[r] EXCEPT ![p] = row]]
      BY <1>a, <2>5 DEF Types, TaskType, TaskRow
    <3> HIDE DEF label, fixed
    <3>3. row \in TaskRow
      BY <1>b, <3>1 DEF TaskRow
    <3> QED
      BY <1>a, <2>1, <2>4, <2>5, <3>2, <3>3, TypesOfGoto DEF Types
  <2>6. CASE Fault /\ Goto(r, p, "fail")
    BY <1>a, <1>d, <1>f, <2>1, <2>4, <2>6 DEF Types, TaskAt, Busy
  <2> QED
    BY <1>8, <2>5, <2>6 DEF WriteFile
<1>9. ASSUME NEW r \in Run, NEW p \in Path, Close(r, p) PROVE TypeOK'
  <2>1. /\ task[r][p].at \in Busy /\ UNCHANGED <<call, disk, faults, crossed>>
        /\ Goto(r, p, "ok") \/ Goto(r, p, "failed")
    BY <1>9 DEF Close, ClosePort, Busy
  <2>2. open' \subseteq open
    BY <1>9 DEF Close, ClosePort
  <2> QED
    BY <1>a, <1>f, <2>1, <2>2 DEF Types, TaskAt, Ended
<1>10. ASSUME NEW r \in Run, Kill(r) PROVE TypeOK'
  <2> DEFINE dead == [p \in Path |-> IF task[r][p].at \in Busy \cup {"queued"}
                                     THEN [task[r][p] EXCEPT !.at = "dead"] ELSE task[r][p]]
             row == [call[r] EXCEPT !.at = "killed"]
  <2>1. \A p \in Path : [task[r][p] EXCEPT !.at = "dead"] \in TaskRow
    BY <1>b DEF TaskRow, TaskAt, Ended
  <2>2. dead \in [Path -> TaskRow]
    BY <1>b, <2>1
  <2>3. row \in CallRow /\ row.at = "killed" /\ row.asks = call[r].asks /\ call[r].at # "idle"
    BY <1>a, <1>10 DEF Types, CallRow, CallAt, Kill, Running
  <2>4. call' = [call EXCEPT ![r] = row] /\ task' = [task EXCEPT ![r] = dead]
    BY <1>10 DEF Kill
  <2>5. /\ call' \in [Run -> CallRow] /\ task' \in TaskType
        /\ call'[r] = row /\ task'[r] = dead
        /\ \A s \in Run : s # r => call'[s] = call[s] /\ task'[s] = task[s]
    BY <1>a, <2>2, <2>3, <2>4 DEF Types, TaskType
  <2>6. BusyOf(r)' = {}
    <3>1. \A p \in Path : [task[r][p] EXCEPT !.at = "dead"].at = "dead"
      BY <1>b DEF TaskRow
    <3> QED
      BY <2>5, <3>1 DEF BusyOf, Busy
  <2>7. ASSUME NEW s \in Run, call'[s].asks # None
        PROVE  Cardinality(BusyOf(s)') <= call'[s].asks.workers
    <3>1. call[s].asks \in Asks /\ Cardinality(BusyOf(s)) <= call[s].asks.workers
      BY <1>a, <2>3, <2>5, <2>7 DEF Types, CallRow
    <3>2. call[s].asks.workers \in Nat /\ call'[s].asks = call[s].asks
      BY <2>3, <2>5, <3>1, AsksAreRequests
    <3>3. BusyOf(s)' \subseteq BusyOf(s)
      BY <2>5, <2>6 DEF BusyOf
    <3> QED
      BY <3>1, <3>2, <3>3, FewerAreBusy
  <2>8. \A s \in Run : call'[s].at = "idle" <=> call'[s].asks = None
    <3>1. call'[r].at # "idle" /\ call'[r].asks # None
      BY <1>a, <2>3, <2>5 DEF Types
    <3> QED
      BY <1>a, <2>5, <3>1 DEF Types
  <2>9. open' \subseteq Port /\ faults' \in 0 .. MaxFaults /\ UNCHANGED <<disk, crossed>>
    BY <1>a, <1>d, <1>10 DEF Kill, Types
  <2> QED
    BY <1>a, <2>5, <2>7, <2>8, <2>9, TypeIs DEF Types
<1>11. CASE UNCHANGED vars
  <2>1. \A s \in Run : BusyOf(s)' = BusyOf(s)
    BY <1>11 DEF vars, BusyOf
  <2> QED
    BY <1>a, <1>11, <2>1, TypeIs DEF vars, Types
<1> QED
  BY <1>1, <1>2, <1>3, <1>4, <1>5, <1>6, <1>7, <1>8, <1>9, <1>10, <1>11
     DEF Next, CallStep, TaskStep

\* What a call asks for fixes its paths and the port of each.
LEMMA AsksFixPorts ==
  ASSUME NEW s \in Run, call'[s].asks = call[s].asks
  PROVE  Asked(s)' = Asked(s) /\ \A q \in Path : TaskPort(s, q)' = TaskPort(s, q)
<1>1. Asked(s)' = Asked(s)
  BY DEF Asked
<1>2. Alone(s)' <=> Alone(s)
  BY <1>1 DEF Alone
<1> QED
  BY <1>1, <1>2 DEF TaskPort, Session

\* A port is a pair, and those of two paths and of the session differ.
LEMMA PortsDiffer ==
  ASSUME NEW s \in Run, NEW q \in Path
  PROVE  /\ TaskPort(s, q) \in {None, Session(s), <<s, q>>} /\ Session(s) \in Port
         /\ Session(s)[1] = s /\ Session(s)[2] = None
         /\ \A r \in Run, p \in Path : /\ Session(s) # <<r, p>>
                                       /\ (s # r \/ q # p) => TaskPort(s, q) # <<r, p>> \/ <<r, p>> = None
  BY PipelineAssumption DEF TaskPort, Session, Port

\* A step of a thread within process_path keeps the invariant: it stays busy on its port.
LEMMA WorkKeeps ==
  ASSUME IInv, TypeOK', NEW r \in Run, NEW p \in Path, Only(r, p), UNCHANGED <<call, open>>,
         task[r][p].at \in Busy, task'[r][p].at \in Busy, task'[r][p].port = task[r][p].port
  PROVE  IInv'
<1>1. \A s \in Run : Asked(s)' = Asked(s) /\ \A q \in Path : TaskPort(s, q)' = TaskPort(s, q)
  BY AsksFixPorts
<1>2. \A s \in Run : \A q \in Path :
        /\ task'[s][q].at \in Busy <=> task[s][q].at \in Busy
        /\ task'[s][q].port = task[s][q].port
        /\ task'[s][q].at \notin Busy => task'[s][q] = task[s][q]
        /\ task[s][q].at \notin Busy => task'[s][q] = task[s][q]
  BY DEF Only
<1>3. \A label \in {"none", "queued", "ok", "failed"} : label \notin Busy
  BY DEF Busy
<1>4. Assigned'
  BY <1>1, <1>2, <1>3 DEF IInv, Assigned
<1>5. Quiet'
  BY <1>2, <1>3 DEF IInv, Quiet
<1>6. Connected'
  BY <1>1, <1>2 DEF IInv, Connected, Session
<1>7. Used'
  <2>1. \A c \in open : c[1] \in Run /\ c[2] \in Path \cup {None}
    BY TypeIs DEF IInv, Types, Port
  <2> QED
    BY <1>2, <2>1 DEF IInv, Used
<1>8. InPlace'
  BY <1>2, <1>3 DEF IInv, InPlace
<1>9. GaveUp'
  BY <1>2, <1>3 DEF IInv, GaveUp
<1> QED
  BY <1>4, <1>5, <1>6, <1>7, <1>8, <1>9 DEF IInv

\* The steps of process_path between its start and its end.
Work(r, p) == Walk(r, p) \/ Load(r, p) \/ Policy(r, p) \/ Summarise(r, p) \/ WriteFile(r, p)

\* They leave calls, connections and other threads alone.
LEMMA WorkIs ==
  ASSUME TypeOK, NEW r \in Run, NEW p \in Path, Work(r, p)
  PROVE  /\ Only(r, p) /\ UNCHANGED <<call, open>>
         /\ task[r][p].at \in Busy /\ task'[r][p].at \in Busy
         /\ task'[r][p].port = task[r][p].port
<1>a. task \in TaskType /\ task[r][p] \in TaskRow
  BY TypeIs DEF Types, TaskType
<1>b. Busy \subseteq TaskAt
  BY DEF TaskAt
<1>c. ASSUME NEW label \in Busy, Goto(r, p, label)
      PROVE  Only(r, p) /\ task'[r][p].at \in Busy /\ task'[r][p].port = task[r][p].port
  BY <1>a, <1>b, <1>c, GotoChanges
<1>d. ASSUME NEW label \in Busy, NEW finds \in BOOLEAN,
             task' = [task EXCEPT ![r][p].at = label, ![r][p].finds = finds]
      PROVE  Only(r, p) /\ task'[r][p].at \in Busy /\ task'[r][p].port = task[r][p].port
  <2> DEFINE row == [[task[r][p] EXCEPT !.at = label] EXCEPT !.finds = finds]
  <2>1. row \in TaskRow /\ row.at = label /\ row.port = task[r][p].port
    BY <1>a, <1>b DEF TaskRow
  <2>2. task' = [task EXCEPT ![r] = [task[r] EXCEPT ![p] = row]]
    BY <1>a, <1>d DEF TaskType
  <2> HIDE DEF row
  <2>3. Only(r, p) /\ task'[r][p] = row
    BY <1>a, <2>1, <2>2, TaskChanges
  <2> QED
    BY <2>1, <2>3
<1>e. Raises(r, p) => Goto(r, p, "fail") /\ UNCHANGED <<call, open>>
  BY DEF Raises
<1>1. CASE Walk(r, p)
  BY <1>1, <1>c, <1>d, <1>e DEF Walk, Busy
<1>2. CASE Load(r, p)
  <2>1. disk["walk"][NameOf(r, p)].says \in BOOLEAN
    <3>1. NameOf(r, p) \in Name /\ "walk" \in Kind
      BY DEF NameOf, NameIn, Name, Kind
    <3> QED
      BY <3>1, TypeIs DEF Types, File
  <2> QED
    BY <1>2, <1>c, <1>d, <2>1 DEF Load, Busy
<1>3. CASE Policy(r, p)
  BY <1>3, <1>c, <1>e DEF Policy, Busy
<1>4. CASE Summarise(r, p)
  BY <1>4, <1>c, <1>e DEF Summarise, Busy
<1>5. CASE WriteFile(r, p)
  <2>1. task[r][p].at \in {"saving", "fixing", "jsoning"} /\ UNCHANGED <<call, open>>
    BY <1>5 DEF WriteFile
  <2>2. CASE task' = [task EXCEPT ![r][p].at = After(task[r][p]),
                                  ![r][p].fixed = @ \/ task[r][p].at = "fixing"]
    <3> DEFINE label == After(task[r][p])
               fixed == task[r][p].fixed \/ task[r][p].at = "fixing"
               row == [[task[r][p] EXCEPT !.at = label] EXCEPT !.fixed = fixed]
    <3>1. label \in Busy /\ fixed \in BOOLEAN
      BY <1>a, <2>1 DEF TaskRow, After, Busy
    <3>2. task' = [task EXCEPT ![r] = [task[r] EXCEPT ![p] = row]]
      BY <1>a, <2>2 DEF TaskType, TaskRow
    <3> HIDE DEF label, fixed
    <3>3. row \in TaskRow /\ row.at = label /\ row.port = task[r][p].port
      BY <1>a, <1>b, <3>1 DEF TaskRow
    <3> HIDE DEF row
    <3>4. Only(r, p) /\ task'[r][p] = row
      BY <1>a, <3>2, <3>3, TaskChanges
    <3> QED
      BY <2>1, <3>1, <3>3, <3>4 DEF Busy
  <2> QED
    BY <1>5, <1>c, <2>1, <2>2 DEF WriteFile, Busy
<1> QED
  BY <1>1, <1>2, <1>3, <1>4, <1>5 DEF Work

\* The initial state satisfies the invariant.
LEMMA InitInv == Init => IInv
<1> SUFFICES ASSUME Init PROVE IInv
  OBVIOUS
<1>1. /\ \A r \in Run : /\ call[r].at = "idle" /\ call[r].asks = None
                        /\ \A p \in Path : call[r].results[p] = None
                        /\ \A p \in Path : task[r][p].at = "none"
      /\ open = {}
  BY DEF Init, NoTask
<1>2. \A r \in Run : Asked(r) = {} /\ BusyOf(r) = {}
  BY <1>1 DEF Asked, BusyOf, Busy
<1>3. Types
  <2>1. call \in [Run -> CallRow]
    BY DEF Init, CallRow, CallAt
  <2>2. task \in TaskType
    BY DEF Init, TaskType, TaskRow, NoTask, TaskAt
  <2>3. disk \in [Kind -> [Name -> File]]
    BY DEF Init, File, Absent
  <2>4. faults \in 0 .. MaxFaults /\ crossed = {}
    BY PipelineAssumption DEF Init
  <2> QED
    BY <1>1, <2>1, <2>2, <2>3, <2>4 DEF Types
<1>4. Assigned /\ Quiet /\ Connected /\ Used /\ InPlace /\ GaveUp
  BY <1>1, <1>2 DEF Assigned, Quiet, Connected, Used, InPlace, GaveUp, Busy, Running
<1> QED
  BY <1>3, <1>4, TypeIs DEF IInv

\* A new call finds no thread and no connection of its own.
LEMMA CallKeeps ==
  ASSUME IInv, TypeOK', NEW r \in Run, NEW q \in Requests[r], Call(r, q) PROVE IInv'
<1>a. Types /\ \A c \in open : c \in Port /\ c[1] \in Run /\ c[2] \in Path \cup {None}
  BY TypeIs DEF IInv, Types, Port
<1>1. /\ call[r].at = "idle" /\ call'[r].at = "pool" /\ call'[r].asks = q
      /\ call'[r].results = call[r].results
      /\ \A s \in Run : s # r => call'[s] = call[s]
  BY <1>a DEF Call, Types, CallRow
<1>2. q # None /\ q.paths \subseteq Path
  <2>1. q \in Asks
    BY DEF Asks
  <2> QED
    BY <2>1, AsksAreRequests
<1>3. Asked(r)' = q.paths /\ \A s \in Run : s # r => Asked(s)' = Asked(s)
  BY <1>1, <1>2 DEF Asked
<1>4. /\ \A p \in Path : task'[r][p].at = IF p \in q.paths THEN "queued" ELSE "none"
      /\ \A s \in Run : s # r => task'[s] = task[s]
  <2>1. task'[r] = [p \in Path |-> IF p \in q.paths THEN [NoTask EXCEPT !.at = "queued"] ELSE NoTask]
    BY <1>a DEF Call, Types, TaskType
  <2>2. NoTask.at = "none" /\ [NoTask EXCEPT !.at = "queued"].at = "queued"
    BY DEF NoTask
  <2> QED
    BY <1>a, <2>1, <2>2 DEF Call, Types, TaskType
<1>5. open \subseteq open' /\ open' \subseteq open \cup {Session(r)} /\ (q.ssh => Session(r) \in open')
  BY DEF Call
<1>6. \A p \in Path : task'[r][p].at \notin Busy /\ call[r].results[p] = None
  <2>1. Asked(r) = {}
    BY <1>a, <1>1 DEF Types, Asked
  <2>2. \A p \in Path : task[r][p].at = "none"
    BY <2>1 DEF IInv, Assigned
  <2> QED
    BY <1>4, <2>2 DEF IInv, InPlace, Busy
<1>7. Assigned'
  BY <1>3, <1>4 DEF IInv, Assigned
<1>8. Quiet'
  BY <1>1, <1>4 DEF IInv, Quiet, Running
<1>9. Connected'
  <2>1. \A s \in Run : s # r => \A p \in Path : TaskPort(s, p)' = TaskPort(s, p)
    BY <1>1, AsksFixPorts
  <2> QED
    BY <1>1, <1>4, <1>5, <1>6, <2>1 DEF IInv, Connected, Session
<1>10. Used'
  <2>1. \A c \in open : c[1] # r
    BY <1>1 DEF IInv, Used, Running
  <2>2. Session(r)[1] = r /\ Session(r)[2] = None
    BY DEF Session
  <2> QED
    BY <1>a, <1>1, <1>4, <1>5, <2>1, <2>2 DEF IInv, Used, Running
<1>11. InPlace' /\ GaveUp'
  BY <1>1, <1>4, <1>6 DEF IInv, InPlace, GaveUp
<1> QED
  BY <1>7, <1>8, <1>9, <1>10, <1>11 DEF IInv

\* Taking an outcome keeps the invariant.
LEMMA TakeKeeps ==
  ASSUME IInv, TypeOK', NEW r \in Run, NEW p \in Path, Take(r, p) PROVE IInv'
<1>a. Types /\ UNCHANGED <<task, open>>
  BY TypeIs DEF IInv, Take
<1>1. /\ call[r].at = "pool" /\ call'[r].at \in Running /\ call'[r].asks = call[r].asks
      /\ \A s \in Run : s # r => call'[s] = call[s]
      /\ \A i \in Path : \/ call'[r].results[i] = call[r].results[i]
                         \/ (i = p /\ call'[r].results[i] = p /\ task[r][p].at = "ok")
      /\ call'[r].at = "leaving" => task[r][p].at = "failed"
  <2>1. call[r] \in CallRow /\ call \in [Run -> CallRow]
    BY <1>a DEF Types
  <2>2. CASE task[r][p].at = "ok" /\ call' = PutResult(r, p) /\ call[r].at = "pool"
    <3> DEFINE row == [call[r] EXCEPT !.results[p] = p]
    <3>1. /\ row.at = "pool" /\ row.asks = call[r].asks /\ row.results[p] = p
          /\ \A i \in Path : i # p => row.results[i] = call[r].results[i]
      BY <2>1, <2>2 DEF CallRow
    <3>2. call'[r] = row /\ \A s \in Run : s # r => call'[s] = call[s]
      BY <2>1, <2>2 DEF PutResult
    <3> HIDE DEF row
    <3> QED
      BY <2>2, <3>1, <3>2 DEF Running
  <2>3. CASE /\ task[r][p].at = "failed" /\ call' = [call EXCEPT ![r].at = "leaving"]
             /\ call[r].at = "pool"
    BY <2>1, <2>3 DEF CallRow, Running
  <2> QED
    BY <2>2, <2>3 DEF Take
<1>2. \A s \in Run : Asked(s)' = Asked(s) /\ \A q \in Path : TaskPort(s, q)' = TaskPort(s, q)
  BY <1>1, AsksFixPorts
<1>3. \A s \in Run : (call'[s].at \in Running <=> call[s].at \in Running)
                     /\ call'[s].asks = call[s].asks
  BY <1>1 DEF Running
<1>4. Assigned' /\ Quiet'
  BY <1>a, <1>2, <1>3 DEF IInv, Assigned, Quiet
<1>5. Connected'
  BY <1>a, <1>2, <1>3 DEF IInv, Connected, Session
<1>6. Used'
  BY <1>a, <1>3 DEF IInv, Used, Types, Port
<1>7. InPlace' /\ GaveUp'
  BY <1>a, <1>1 DEF IInv, InPlace, GaveUp
<1> QED
  BY <1>4, <1>5, <1>6, <1>7 DEF IInv

\* A call is left when none of its threads works, so only its session was open.
LEMMA LeaveKeeps == ASSUME IInv, TypeOK', NEW r \in Run, Leave(r) PROVE IInv'
<1>a. /\ Types /\ UNCHANGED task /\ open' = open \ {Session(r)}
      /\ \A c \in open : c \in Port /\ c[1] \in Run /\ c[2] \in Path \cup {None}
  BY TypeIs DEF IInv, Types, Port, Leave
<1>1. /\ call'[r].at \in {"returned", "raised"} /\ call'[r].asks = call[r].asks
      /\ call'[r].results = call[r].results
      /\ \A s \in Run : s # r => call'[s] = call[s]
  BY <1>a DEF Leave, Types, CallRow
<1>2. \A s \in Run : Asked(s)' = Asked(s) /\ \A q \in Path : TaskPort(s, q)' = TaskPort(s, q)
  BY <1>1, AsksFixPorts
<1>3. \A p \in Path : task[r][p].at \notin Busy \cup {"queued"}
  <2>1. \A p \in Path : task[r][p].at = "none" \/ task[r][p].at \in Ended
    BY DEF Leave, IInv, Assigned
  <2> QED
    BY <2>1 DEF Busy, Ended
<1>4. Assigned'
  BY <1>a, <1>2 DEF IInv, Assigned
<1>5. Quiet'
  BY <1>a, <1>1, <1>3 DEF IInv, Quiet
<1>6. Connected'
  <2>1. \A s \in Run, q \in Path : s # r =>
        Session(s) # Session(r) /\ (TaskPort(s, q) # None => TaskPort(s, q) # Session(r))
    BY PipelineAssumption DEF TaskPort, Session
  <2> QED
    BY <1>a, <1>1, <1>2, <1>3, <2>1 DEF IInv, Connected, Session, Running
<1>7. Used'
  <2> SUFFICES ASSUME NEW c \in open, c # Session(r)
               PROVE  call'[c[1]].at \in Running /\ (c[2] # None => task[c[1]][c[2]].at \in Busy)
    BY <1>a DEF Used
  <2>1. c[1] # r
    <3>1. c = <<c[1], c[2]>>
      BY <1>a DEF Port
    <3> QED
      BY <1>a, <1>3, <3>1 DEF IInv, Used, Session
  <2> QED
    BY <1>a, <1>1, <2>1 DEF IInv, Used
<1>8. InPlace' /\ GaveUp'
  BY <1>a, <1>1 DEF IInv, InPlace, GaveUp
<1> QED
  BY <1>4, <1>5, <1>6, <1>7, <1>8 DEF IInv

\* What the start of a thread does to it and to the connections.
LEMMA BeginIs ==
  ASSUME TypeOK, NEW r \in Run, NEW p \in Path, Begin(r, p)
  PROVE  /\ Only(r, p) /\ UNCHANGED call /\ task[r][p].at = "queued" /\ call[r].at \in Running
         /\ \/ /\ task'[r][p].at \in Busy /\ task'[r][p].port = TaskPort(r, p)
               /\ open' = IF TaskPort(r, p) = None THEN open ELSE open \cup {TaskPort(r, p)}
            \/ task'[r][p].at = "failed" /\ open' = open
<1> DEFINE port == TaskPort(r, p)
<1>1. task \in TaskType /\ task[r][p] \in TaskRow
  BY TypeIs DEF Types, TaskType
<1>2. UNCHANGED call /\ task[r][p].at = "queued" /\ call[r].at \in Running
  BY DEF Begin, PoolRuns
<1>3. CASE /\ task' = [task EXCEPT ![r][p].at = IF call[r].asks.walks THEN "walk" ELSE "load",
                                   ![r][p].port = TaskPort(r, p)]
           /\ open' = IF port = None THEN open ELSE open \cup {port}
  <2> DEFINE label == IF call[r].asks.walks THEN "walk" ELSE "load"
             row == [[task[r][p] EXCEPT !.at = label] EXCEPT !.port = port]
  <2>1. label \in Busy /\ label \in TaskAt /\ port \in Port \cup {None}
    BY DEF TaskAt, Busy, TaskPort, Session, Port
  <2>2. task' = [task EXCEPT ![r] = [task[r] EXCEPT ![p] = row]]
    BY <1>1, <1>3 DEF TaskType
  <2> HIDE DEF label, port
  <2>3. row \in TaskRow /\ row.at = label /\ row.port = port
    BY <1>1, <2>1 DEF TaskRow
  <2> HIDE DEF row
  <2>4. Only(r, p) /\ task'[r][p] = row
    BY <1>1, <2>2, <2>3, TaskChanges
  <2> QED
    BY <1>2, <1>3, <2>1, <2>3, <2>4 DEF port
<1>4. CASE Goto(r, p, "failed") /\ UNCHANGED open
  <2>1. "failed" \in TaskAt
    BY DEF TaskAt, Ended
  <2> HIDE DEF port
  <2>2. Only(r, p) /\ task'[r][p].at = "failed"
    <3>1. ASSUME NEW to \in TaskAt, Goto(r, p, to) PROVE Only(r, p) /\ task'[r][p].at = to
      BY <1>1, <3>1, GotoMoves
    <3> QED
      BY <1>4, <2>1, <3>1
  <2> QED
    BY <1>2, <1>4, <2>2
<1> QED
  BY <1>3, <1>4 DEF Begin

\* A thread that starts has a port of its own, open.
LEMMA BeginKeeps ==
  ASSUME IInv, TypeOK', NEW r \in Run, NEW p \in Path, Begin(r, p) PROVE IInv'
<1> DEFINE port == TaskPort(r, p)
<1>a. /\ Types /\ UNCHANGED call /\ task[r][p].at = "queued" /\ call[r].at \in Running
      /\ \A c \in open : c \in Port /\ c[1] \in Run /\ c[2] \in Path \cup {None}
  BY TypeIs, BeginIs DEF IInv, Types, Port
<1>1. /\ Only(r, p)
      /\ \/ /\ task'[r][p].at \in Busy /\ task'[r][p].port = port
            /\ open' = IF port = None THEN open ELSE open \cup {port}
         \/ task'[r][p].at = "failed" /\ open' = open
  BY BeginIs DEF IInv
<1>2. task'[r][p].at \notin {"none", "queued"} /\ task'[r][p].at \in Busy \cup {"failed"}
  BY <1>1 DEF Busy
<1>3. \A s \in Run : Asked(s)' = Asked(s) /\ \A q \in Path : TaskPort(s, q)' = TaskPort(s, q)
  BY <1>a, AsksFixPorts
<1>4. Assigned'
  BY <1>a, <1>1, <1>2, <1>3 DEF IInv, Assigned, Only
<1>5. Quiet'
  BY <1>a, <1>1 DEF IInv, Quiet, Only
<1>6. Connected'
  <2>1. open \subseteq open'
    BY <1>1
  <2>2. task'[r][p].at \in Busy => task'[r][p].port = port /\ (port # None => port \in open')
    BY <1>1 DEF Busy
  <2> QED
    BY <1>a, <1>1, <1>3, <2>1, <2>2 DEF IInv, Connected, Only, Session
<1>7. Used'
  <2> SUFFICES ASSUME NEW c \in open'
               PROVE  call[c[1]].at \in Running /\ (c[2] # None => task'[c[1]][c[2]].at \in Busy)
    BY <1>a DEF Used
  <2>1. CASE c \in open
    <3>1. c[1] \in Run /\ c[2] \in Path \cup {None} /\ call[c[1]].at \in Running
      BY <1>a, <2>1 DEF IInv, Used
    <3>2. c[2] # None => ~(c[1] = r /\ c[2] = p)
      BY <1>a, <2>1 DEF IInv, Used, Busy
    <3> QED
      BY <1>1, <2>1, <3>1, <3>2 DEF IInv, Used, Only
  <2>2. CASE c \notin open
    <3>1. c = port /\ port # None /\ task'[r][p].at \in Busy
      BY <1>1, <2>2
    <3>2. c = Session(r) \/ c = <<r, p>>
      BY <3>1 DEF TaskPort
    <3> QED
      BY <1>a, <3>1, <3>2 DEF Session
  <2> QED
    BY <2>1, <2>2
<1>8. InPlace'
  BY <1>a, <1>1 DEF IInv, InPlace, Only
<1>9. GaveUp'
  BY <1>a, <1>1 DEF IInv, GaveUp, Only
<1> QED
  BY <1>4, <1>5, <1>6, <1>7, <1>8, <1>9 DEF IInv

\* What the end of a thread does to it.
LEMMA CloseIs ==
  ASSUME TypeOK, NEW r \in Run, NEW p \in Path, Close(r, p)
  PROVE  Only(r, p) /\ task'[r][p].at \in {"ok", "failed"}
<1>1. "ok" \in TaskAt /\ "failed" \in TaskAt
  BY DEF TaskAt, Ended
<1>2. task \in TaskType
  BY TypeIs DEF Types
<1>3. ASSUME NEW label \in TaskAt, Goto(r, p, label) PROVE Only(r, p) /\ task'[r][p].at = label
  BY <1>2, <1>3, GotoMoves
<1>4. Goto(r, p, "ok") \/ Goto(r, p, "failed")
  BY DEF Close
<1> QED
  BY <1>1, <1>3, <1>4

\* A thread that ends closes its connection, and no other.
LEMMA CloseKeeps ==
  ASSUME IInv, TypeOK', NEW r \in Run, NEW p \in Path, Close(r, p) PROVE IInv'
<1>a. /\ Types /\ UNCHANGED call /\ task[r][p].at \in {"close", "fail"} /\ open' = open \ {<<r, p>>}
      /\ \A c \in open : c \in Port /\ c[1] \in Run /\ c[2] \in Path \cup {None}
  BY TypeIs DEF IInv, Types, Port, Close, ClosePort
<1>1. Only(r, p) /\ task'[r][p].at \in {"ok", "failed"}
  BY CloseIs DEF IInv
<1>2. \A s \in Run : Asked(s)' = Asked(s) /\ \A q \in Path : TaskPort(s, q)' = TaskPort(s, q)
  BY <1>a, AsksFixPorts
<1>3. call[r].at \in Running /\ call[r].results[p] = None /\ task'[r][p].at \notin Busy
  BY <1>a, <1>1 DEF IInv, Quiet, InPlace, Busy
<1>4. Assigned'
  BY <1>a, <1>1, <1>2 DEF IInv, Assigned, Only
<1>5. Quiet'
  BY <1>a, <1>1, <1>3 DEF IInv, Quiet, Only
<1>6. Connected'
  <2>1. ASSUME NEW s \in Run, NEW q \in Path, task'[s][q].at \in Busy
        PROVE  /\ task'[s][q].port = TaskPort(s, q)
               /\ task'[s][q].port # None => task'[s][q].port \in open'
    <3>1. s # r \/ q # p
      BY <1>3, <2>1
    <3>2. task'[s][q] = task[s][q]
      BY <1>1, <3>1 DEF Only
    <3>3. task[s][q].port = TaskPort(s, q) /\ (task[s][q].port # None => task[s][q].port \in open)
      BY <2>1, <3>2 DEF IInv, Connected
    <3>4. task[s][q].port # None => task[s][q].port # <<r, p>>
      BY <3>1, <3>3, PortsDiffer
    <3> QED
      BY <1>a, <3>2, <3>3, <3>4
  <2>2. \A s \in Run : Session(s) # <<r, p>>
    BY PipelineAssumption DEF Session
  <2> QED
    BY <1>a, <1>2, <2>1, <2>2 DEF IInv, Connected, Session
<1>7. Used'
  <2> SUFFICES ASSUME NEW c \in open, c # <<r, p>>
               PROVE  call[c[1]].at \in Running /\ (c[2] # None => task'[c[1]][c[2]].at \in Busy)
    BY <1>a DEF Used
  <2>1. c = <<c[1], c[2]>> /\ c[1] \in Run /\ c[2] \in Path \cup {None}
    BY <1>a DEF Port
  <2>2. c[1] # r \/ c[2] # p
    BY <2>1
  <2> QED
    BY <1>1, <2>1, <2>2 DEF IInv, Used, Only
<1>8. InPlace'
  BY <1>a, <1>1, <1>3 DEF IInv, InPlace, Only
<1>9. GaveUp'
  <2> SUFFICES ASSUME NEW s \in Run, call[s].at = "leaving"
               PROVE  \E q \in Path : task'[s][q].at = "failed"
    BY <1>a DEF GaveUp
  <2>1. PICK q \in Path : task[s][q].at = "failed"
    BY DEF IInv, GaveUp
  <2>2. s # r \/ q # p
    BY <1>a, <2>1
  <2> QED
    BY <1>1, <2>1, <2>2 DEF Only
<1> QED
  BY <1>4, <1>5, <1>6, <1>7, <1>8, <1>9 DEF IInv

\* A killed process takes its threads and its connections with it.
LEMMA KillKeeps == ASSUME IInv, TypeOK', NEW r \in Run, Kill(r) PROVE IInv'
<1>a. /\ Types /\ open' = {c \in open : c[1] # r} /\ call[r].at \in Running
      /\ \A c \in open : c \in Port /\ c[1] \in Run /\ c[2] \in Path \cup {None}
  BY TypeIs DEF IInv, Types, Port, Kill
<1>1. /\ call'[r].at = "killed" /\ call'[r].asks = call[r].asks
      /\ call'[r].results = call[r].results
      /\ \A s \in Run : s # r => call'[s] = call[s]
  BY <1>a DEF Kill, Types, CallRow
<1>2. /\ \A s \in Run : s # r => task'[s] = task[s]
      /\ \A p \in Path : task'[r][p].at = IF task[r][p].at \in Busy \cup {"queued"} THEN "dead"
                                          ELSE task[r][p].at
  <2>1. \A p \in Path : [task[r][p] EXCEPT !.at = "dead"].at = "dead"
    BY <1>a DEF Types, TaskType, TaskRow
  <2> QED
    BY <1>a, <2>1 DEF Kill, Types, TaskType
<1>3. \A p \in Path : /\ task'[r][p].at \notin Busy \cup {"queued"}
                      /\ task'[r][p].at = "none" <=> task[r][p].at = "none"
                      /\ task[r][p].at = "ok" => task'[r][p].at = "ok"
  BY <1>2 DEF Busy
<1>4. \A s \in Run : Asked(s)' = Asked(s) /\ \A q \in Path : TaskPort(s, q)' = TaskPort(s, q)
  BY <1>1, AsksFixPorts
<1>5. Assigned'
  BY <1>2, <1>3, <1>4 DEF IInv, Assigned
<1>6. Quiet'
  BY <1>1, <1>2, <1>3 DEF IInv, Quiet
<1>7. Connected'
  <2>1. ASSUME NEW s \in Run, NEW q \in Path, s # r, task[s][q].at \in Busy, task[s][q].port # None
        PROVE  task[s][q].port \in open'
    <3>1. task[s][q].port \in open /\ task[s][q].port \in {Session(s), <<s, q>>}
      BY <2>1, PortsDiffer DEF IInv, Connected
    <3>2. task[s][q].port[1] = s
      BY <3>1 DEF Session
    <3> QED
      BY <1>a, <2>1, <3>1, <3>2
  <2>2. \A s \in Run : s # r /\ Session(s) \in open => Session(s) \in open'
    BY <1>a DEF Session
  <2> QED
    BY <1>1, <1>2, <1>3, <1>4, <2>1, <2>2 DEF IInv, Connected, Session, Running
<1>8. Used'
  BY <1>a, <1>1, <1>2 DEF IInv, Used
<1>9. InPlace' /\ GaveUp'
  BY <1>1, <1>2, <1>3 DEF IInv, InPlace, GaveUp
<1> QED
  BY <1>5, <1>6, <1>7, <1>8, <1>9 DEF IInv

\* Every step keeps the invariant.
LEMMA StepInv == IInv /\ [Next]_vars => IInv'
<1> SUFFICES ASSUME IInv, [Next]_vars PROVE IInv'
  OBVIOUS
<1>a. TypeOK /\ TypeOK'
  BY TypeStep DEF IInv
<1>1. ASSUME NEW r \in Run, NEW q \in Requests[r], Call(r, q) PROVE IInv'
  BY <1>a, <1>1, CallKeeps
<1>2. ASSUME NEW r \in Run, CallStep(r) PROVE IInv'
  BY <1>a, <1>2, LeaveKeeps, TakeKeeps DEF CallStep
<1>3. ASSUME NEW r \in Run, NEW p \in Path, TaskStep(r, p) PROVE IInv'
  BY <1>a, <1>3, BeginKeeps, CloseKeeps, WorkIs, WorkKeeps DEF TaskStep, Work
<1>4. ASSUME NEW r \in Run, Kill(r) PROVE IInv'
  BY <1>a, <1>4, KillKeeps
<1>5. CASE UNCHANGED vars
  <2>1. UNCHANGED <<call, task, open>>
    BY <1>5 DEF vars
  <2>2. \A s \in Run : Asked(s)' = Asked(s) /\ \A q \in Path : TaskPort(s, q)' = TaskPort(s, q)
    BY <2>1, AsksFixPorts
  <2>3. Assigned' /\ Quiet' /\ Used' /\ InPlace' /\ GaveUp'
    BY <2>1, <2>2 DEF IInv, Assigned, Quiet, Used, InPlace, GaveUp
  <2>4. Connected'
    BY <2>1, <2>2 DEF IInv, Connected, Session
  <2> QED
    BY <1>a, <2>3, <2>4 DEF IInv
<1> QED
  BY <1>1, <1>2, <1>3, <1>4, <1>5 DEF Next

\* The invariant holds in every reachable state.
LEMMA Invariance == Spec => []IInv
  BY InitInv, StepInv, PTL DEF Spec

\* TypeOK of WalkPipeline, and with it that never more threads work than max_workers allows.
THEOREM TypesHold == Spec => []TypeOK
  BY Invariance, PTL DEF IInv

\* PortsAreOwn: no two threads of a pool work on one connection, and each one's is open
\* (_get_port_for_path), for any number of paths, workers and calls.
THEOREM ConnectionsAreOwn == Spec => []PortsAreOwn
<1>1. IInv => PortsAreOwn
  <2> SUFFICES ASSUME IInv, NEW r \in Run, NEW p \in Path,
                      task[r][p].port # None, task[r][p].at \in Busy
               PROVE  /\ task[r][p].port \in open
                      /\ \A q \in Path \ {p} : task[r][q].at \in Busy => task[r][q].port # task[r][p].port
    BY DEF PortsAreOwn
  <2>1. task[r][p].port \in open /\ task[r][p].port = TaskPort(r, p)
    BY DEF IInv, Connected
  <2>2. ASSUME NEW q \in Path \ {p}, task[r][q].at \in Busy
        PROVE  task[r][q].port # task[r][p].port
    <3>1. task[r][q].port = TaskPort(r, q) /\ p \in Asked(r) /\ q \in Asked(r)
      BY <2>2 DEF IInv, Connected, Assigned, Busy
    <3>2. ~ Alone(r)
      <4>1. IsFiniteSet(Asked(r))
        <5>1. Asked(r) \subseteq Path
          BY AsksAreRequests, TypeIs DEF Asked, IInv, Types, CallRow
        <5>2. IsFiniteSet(Path)
          BY PipelineAssumption, FS_Interval DEF Path
        <5> QED
          BY <5>1, <5>2, FS_Subset
      <4>2. Alone(r) => \E x : Asked(r) = {x}
        BY <4>1, FS_Singleton DEF Alone
      <4> QED
        BY <2>2, <3>1, <4>2
    <3>3. TaskPort(r, p) = <<r, p>> /\ TaskPort(r, q) = <<r, q>>
      BY <2>1, <3>2 DEF TaskPort
    <3> QED
      BY <2>1, <2>2, <3>1, <3>3
  <2> QED
    BY <2>1, <2>2
<1> QED
  BY <1>1, Invariance, PTL

\* ConnectionsClosed: whatever raises, in one thread or in several, a call that is over has
\* closed the connection of every thread and its session (the with blocks of run()).
THEOREM AllConnectionsClose == Spec => []ConnectionsClosed
<1>1. IInv => ConnectionsClosed
  BY DEF IInv, Used, ConnectionsClosed, Running, Over
<1> QED
  BY <1>1, Invariance, PTL

\* What the outcome of a path and the answer of a call are, in the terms of PathRuns.
Mapped ==
  /\ \A r \in Run : \A p \in Path :
       /\ task[r][p].at \in {"none", "ok", "failed"} => Outcomes[r][p] = task[r][p].at
       /\ task[r][p].at = "dead" => Outcomes[r][p] = "lost"
       /\ task[r][p].at \in Busy \cup {"queued"} => Outcomes[r][p] = "open"
  /\ \A r \in Run :
       /\ call[r].at \notin Over => Answers[r] = Promise!Pending
       /\ call[r].at \in {"raised", "killed"} => Answers[r] = Promise!Without(call[r].at)
       /\ call[r].at = "returned" => Answers[r] = [kind |-> "returned", results |-> call[r].results]
  /\ Outcomes = [r \in Run |-> [p \in Path |-> Outcomes[r][p]]]
  /\ Answers = [r \in Run |-> Answers[r]]

\* The mapping is so before a step and after it.
LEMMA MappedIs == Mapped /\ Mapped'
<1>1. Mapped
  <2>1. ASSUME NEW r \in Run, NEW p \in Path
        PROVE  /\ task[r][p].at \in {"none", "ok", "failed"} => Outcomes[r][p] = task[r][p].at
               /\ task[r][p].at = "dead" => Outcomes[r][p] = "lost"
               /\ task[r][p].at \in Busy \cup {"queued"} => Outcomes[r][p] = "open"
    BY DEF Outcomes, Busy
  <2>2. ASSUME NEW r \in Run
        PROVE  /\ call[r].at \notin Over => Answers[r] = Promise!Pending
               /\ call[r].at \in {"raised", "killed"} => Answers[r] = Promise!Without(call[r].at)
               /\ call[r].at = "returned" => Answers[r] = [kind |-> "returned", results |-> call[r].results]
    BY DEF Answers, Over, Promise!Pending, Promise!Without
  <2>3. Outcomes = [r \in Run |-> [p \in Path |-> Outcomes[r][p]]]
    BY DEF Outcomes
  <2>4. Answers = [r \in Run |-> Answers[r]]
    BY DEF Answers
  <2> QED
    BY <2>1, <2>2, <2>3, <2>4 DEF Mapped
<1> QED
  BY <1>1, PTL

\* The mapping of one path, before a step and after it.
LEMMA OutcomeIs ==
  ASSUME NEW r \in Run, NEW p \in Path
  PROVE  /\ task[r][p].at = "none" => Outcomes[r][p] = "none"
         /\ task[r][p].at = "ok" => Outcomes[r][p] = "ok"
         /\ task[r][p].at = "failed" => Outcomes[r][p] = "failed"
         /\ task[r][p].at = "dead" => Outcomes[r][p] = "lost"
         /\ task[r][p].at \in Busy \cup {"queued"} => Outcomes[r][p] = "open"
         /\ task'[r][p].at = "none" => Outcomes'[r][p] = "none"
         /\ task'[r][p].at = "ok" => Outcomes'[r][p] = "ok"
         /\ task'[r][p].at = "failed" => Outcomes'[r][p] = "failed"
         /\ task'[r][p].at = "dead" => Outcomes'[r][p] = "lost"
         /\ task'[r][p].at \in Busy \cup {"queued"} => Outcomes'[r][p] = "open"
<1>1. Mapped /\ Mapped'
  BY MappedIs
<1> HIDE DEF Outcomes
<1>2. /\ task[r][p].at \in {"none", "ok", "failed"} => Outcomes[r][p] = task[r][p].at
      /\ task[r][p].at = "dead" => Outcomes[r][p] = "lost"
      /\ task[r][p].at \in Busy \cup {"queued"} => Outcomes[r][p] = "open"
  BY <1>1 DEF Mapped
<1>3. /\ task'[r][p].at \in {"none", "ok", "failed"} => Outcomes'[r][p] = task'[r][p].at
      /\ task'[r][p].at = "dead" => Outcomes'[r][p] = "lost"
      /\ task'[r][p].at \in Busy \cup {"queued"} => Outcomes'[r][p] = "open"
  BY <1>1 DEF Mapped
<1> QED
  BY <1>2, <1>3

\* The mapping of a call that is not over.
LEMMA PendingIs ==
  ASSUME NEW r \in Run
  PROVE  /\ call[r].at \notin Over => Answers[r] = Promise!Pending
         /\ call'[r].at \notin Over => Answers'[r] = Promise!Pending
  BY MappedIs DEF Mapped

\* A step on one thread changes the outcome of its path at most; none is changed when the
\* thread is at work before and after.
LEMMA OutcomesOfTask ==
  ASSUME NEW r \in Run, NEW p \in Path, Only(r, p)
  PROVE  /\ Outcomes' = [Outcomes EXCEPT ![r][p] = Outcomes'[r][p]]
         /\ Outcomes'[r][p] = Outcomes[r][p] => UNCHANGED Outcomes
<1>1. ASSUME NEW s \in Run, NEW q \in Path, s # r \/ q # p
      PROVE  Outcomes'[s][q] = Outcomes[s][q]
  BY <1>1 DEF Only, Outcomes
<1>2. /\ Outcomes = [s \in Run |-> [q \in Path |-> Outcomes[s][q]]]
      /\ Outcomes' = [s \in Run |-> [q \in Path |-> Outcomes'[s][q]]]
  BY MappedIs DEF Mapped
<1> HIDE DEF Outcomes
<1>3. Outcomes' = [Outcomes EXCEPT ![r][p] = Outcomes'[r][p]]
  BY <1>1, <1>2
<1>4. ASSUME Outcomes'[r][p] = Outcomes[r][p] PROVE UNCHANGED Outcomes
  BY <1>1, <1>2, <1>4
<1> QED
  BY <1>3, <1>4

\* The answers are as they were when the calls are.
LEMMA AnswersOfCall == UNCHANGED call => UNCHANGED Answers
  BY DEF Answers

\* A call under way is an asking of PathRuns.
LEMMA CallAsks ==
  ASSUME IInv, IInv', NEW r \in Run, NEW q \in Requests[r], Call(r, q) PROVE Promise!Ask(r)
<1>a. Types /\ Mapped /\ Mapped'
  BY TypeIs, MappedIs DEF IInv
<1>1. q.paths \in (SUBSET Path) \ {{}}
  <2>1. q \in Asks
    BY DEF Asks
  <2> QED
    BY <2>1, AsksAreRequests
<1>2. /\ call[r].at = "idle" /\ call'[r].at = "pool"
      /\ \A s \in Run : s # r => call'[s] = call[s] /\ task'[s] = task[s]
  BY <1>a DEF Call, Types, CallRow, TaskType
<1>3. \A p \in Path : task[r][p].at = "none"
  BY <1>a, <1>2 DEF IInv, Assigned, Types, Asked
<1>4. \A p \in Path : task'[r][p].at = IF p \in q.paths THEN "queued" ELSE "none"
  <2>1. task'[r] = [p \in Path |-> IF p \in q.paths THEN [NoTask EXCEPT !.at = "queued"] ELSE NoTask]
    BY <1>a DEF Call, Types, TaskType
  <2>2. NoTask.at = "none" /\ [NoTask EXCEPT !.at = "queued"].at = "queued"
    BY DEF NoTask
  <2> QED
    BY <2>1, <2>2
<1>5. /\ \A p \in Path : Outcomes'[r][p] = IF p \in q.paths THEN "open" ELSE "none"
      /\ \A s \in Run, p \in Path : s # r => Outcomes'[s][p] = Outcomes[s][p]
  <2>1. \A s \in Run, p \in Path : s # r => Outcomes'[s][p] = Outcomes[s][p]
    BY <1>2 DEF Outcomes
  <2>2. ASSUME NEW p \in Path PROVE Outcomes'[r][p] = IF p \in q.paths THEN "open" ELSE "none"
    <3>1. task'[r][p].at = IF p \in q.paths THEN "queued" ELSE "none"
      BY <1>4
    <3> QED
      BY <3>1, OutcomeIs
  <2> QED
    BY <2>1, <2>2
<1>6. Outcomes' = [Outcomes EXCEPT ![r] = [p \in Path |-> IF p \in q.paths THEN "open" ELSE "none"]]
  BY <1>a, <1>5 DEF Mapped
<1>7. UNCHANGED Answers
  <2>1. \A s \in Run : Answers'[s] = Answers[s]
    <3>1. Answers[r] = Promise!Pending /\ Answers'[r] = Promise!Pending
      BY <1>a, <1>2 DEF Mapped, Over
    <3>2. \A s \in Run : s # r => Answers'[s] = Answers[s]
      BY <1>2 DEF Answers
    <3> QED
      BY <3>1, <3>2
  <2> QED
    BY <1>a, <2>1 DEF Mapped
<1>8. Answers[r] = Promise!Pending /\ \A p \in Path : Outcomes[r][p] = "none"
  <2>1. Answers[r] = Promise!Pending
    BY <1>2, PendingIs DEF Over
  <2>2. \A p \in Path : Outcomes[r][p] = "none"
    BY <1>3, OutcomeIs
  <2> QED
    BY <2>1, <2>2
<1> QED
  BY <1>1, <1>6, <1>7, <1>8 DEF Promise!Ask

\* Taking an outcome answers nothing.
LEMMA TakeStutters ==
  ASSUME IInv, NEW r \in Run, NEW p \in Path, Take(r, p) PROVE UNCHANGED <<Outcomes, Answers>>
<1>a. Types /\ Mapped /\ Mapped'
  BY TypeIs, MappedIs DEF IInv
<1>1. UNCHANGED Outcomes
  BY DEF Take, Outcomes
<1>2. /\ call[r].at \notin Over /\ call'[r].at \notin Over
      /\ \A s \in Run : s # r => call'[s] = call[s]
  BY <1>a DEF Take, PutResult, Over, Types, CallRow
<1>3. \A s \in Run : Answers'[s] = Answers[s]
  <2>1. Answers'[r] = Answers[r]
    BY <1>a, <1>2 DEF Mapped
  <2>2. \A s \in Run : s # r => Answers'[s] = Answers[s]
    BY <1>2 DEF Answers
  <2> QED
    BY <2>1, <2>2
<1> QED
  BY <1>a, <1>1, <1>3 DEF Mapped

\* Leaving the pool returns the results or raises.
LEMMA LeaveAnswers ==
  ASSUME IInv, NEW r \in Run, Leave(r) PROVE Promise!Return(r) \/ Promise!Raise(r)
<1>a. Types /\ Mapped /\ Mapped'
  BY TypeIs, MappedIs DEF IInv
<1>1. /\ UNCHANGED Outcomes
      /\ call[r].at \in Running /\ call[r].at \notin Over
      /\ \A s \in Run : s # r => call'[s] = call[s]
  BY <1>a DEF Leave, Outcomes, Running, Over, Types
<1>2. \A p \in Path : Outcomes[r][p] # "open"
  <2>1. \A p \in Path : task[r][p].at \in {"none", "ok", "failed", "dead"}
    BY DEF Leave, IInv, Assigned, Ended
  <2> QED
    BY <1>a, <2>1 DEF Mapped
<1>3. Answers' = [Answers EXCEPT ![r] = Answers'[r]] /\ Answers[r] = Promise!Pending
  <2>1. \A s \in Run : s # r => Answers'[s] = Answers[s]
    BY <1>1 DEF Answers
  <2> QED
    BY <1>a, <1>1, <2>1 DEF Mapped
<1>4. CASE call[r].at = "pool"
  <2>1. /\ \A p \in Asked(r) : call[r].results[p] # None
        /\ call'[r].at = "returned" /\ call'[r].results = call[r].results
    BY <1>a, <1>4 DEF Leave, Types, CallRow
  <2>2. Asked(r) \subseteq Path /\ Asked(r) # {}
    <3>1. call[r].asks # None /\ call[r].asks \in Asks
      BY <1>a, <1>4 DEF Types, CallRow
    <3> QED
      BY <3>1, AsksAreRequests DEF Asked
  <2>3. \A p \in Path : call[r].results[p] = IF Outcomes[r][p] = "ok" THEN p ELSE None
    <3>1. ASSUME NEW p \in Path, p \in Asked(r)
          PROVE  call[r].results[p] = p /\ Outcomes[r][p] = "ok"
      <4>1. call[r].results[p] = p /\ task[r][p].at = "ok"
        BY <2>1, <3>1 DEF IInv, InPlace
      <4> QED
        BY <4>1, OutcomeIs
    <3>2. ASSUME NEW p \in Path, p \notin Asked(r)
          PROVE  call[r].results[p] = None /\ Outcomes[r][p] = "none"
      <4>1. task[r][p].at = "none"
        BY <3>2 DEF IInv, Assigned
      <4>2. call[r].results[p] = None
        BY <4>1 DEF IInv, InPlace
      <4> QED
        BY <4>1, <4>2, OutcomeIs
    <3> QED
      BY <3>1, <3>2
  <2>4. call[r].results = [p \in Path |-> IF Outcomes[r][p] = "ok" THEN p ELSE None]
    <3>1. call[r].results \in [Path -> Path \cup {None}]
      BY <1>a DEF Types, CallRow
    <3> QED
      BY <2>3, <3>1
  <2>5. Answers'[r] = [kind |-> "returned",
                       results |-> [p \in Path |-> IF Outcomes[r][p] = "ok" THEN p ELSE None]]
    BY <1>a, <2>1, <2>4 DEF Mapped
  <2>6. /\ \E p \in Path : Outcomes[r][p] = "ok"
        /\ \A p \in Path : Outcomes[r][p] # "failed"
    <3>1. ASSUME NEW p \in Path, p \in Asked(r) PROVE Outcomes[r][p] = "ok"
      <4>1. task[r][p].at = "ok"
        BY <2>1, <3>1 DEF IInv, InPlace
      <4> QED
        BY <4>1, OutcomeIs
    <3>2. ASSUME NEW p \in Path, p \notin Asked(r) PROVE Outcomes[r][p] = "none"
      <4>1. task[r][p].at = "none"
        BY <1>4, <3>2 DEF IInv, Assigned
      <4> QED
        BY <4>1, OutcomeIs
    <3> QED
      BY <2>2, <3>1, <3>2
  <2> QED
    BY <1>1, <1>2, <1>3, <2>5, <2>6 DEF Promise!Return, Promise!Has
<1>5. CASE call[r].at = "leaving"
  <2>1. call'[r].at = "raised"
    BY <1>a, <1>5 DEF Leave, Types, CallRow
  <2>2. \E p \in Path : Outcomes[r][p] = "failed"
    <3>1. PICK p \in Path : task[r][p].at = "failed"
      BY <1>5 DEF IInv, GaveUp
    <3> QED
      BY <3>1, OutcomeIs
  <2>3. Answers'[r] = Promise!Without("raised")
    BY <1>a, <2>1 DEF Mapped
  <2> QED
    BY <1>1, <1>2, <1>3, <2>2, <2>3 DEF Promise!Raise, Promise!Has
<1> QED
  BY <1>1, <1>4, <1>5 DEF Running

\* A thread settles its path once, or it works on.
LEMMA TaskSettles ==
  ASSUME IInv, NEW r \in Run, NEW p \in Path, TaskStep(r, p)
  PROVE  Promise!Settle(r, p) \/ UNCHANGED <<Outcomes, Answers>>
<1>a. Types /\ Mapped /\ Mapped'
  BY TypeIs, MappedIs DEF IInv
<1>b. ASSUME Only(r, p), UNCHANGED call, call[r].at \in Running, task[r][p].at \in Busy \cup {"queued"},
             task'[r][p].at \in {"ok", "failed"}
      PROVE  Promise!Settle(r, p)
  <2>1. Outcomes[r][p] = "open" /\ Outcomes'[r][p] \in {"ok", "failed"} /\ Answers[r] = Promise!Pending
    BY <1>a, <1>b DEF Mapped, Running, Over
  <2>2. Outcomes' = [Outcomes EXCEPT ![r][p] = Outcomes'[r][p]] /\ UNCHANGED Answers
    BY <1>b, OutcomesOfTask, AnswersOfCall
  <2> QED
    BY <2>1, <2>2 DEF Promise!Settle
<1>c. ASSUME Only(r, p), UNCHANGED call, task[r][p].at \in Busy \cup {"queued"},
             task'[r][p].at \in Busy \cup {"queued"}
      PROVE  UNCHANGED <<Outcomes, Answers>>
  BY <1>a, <1>c, OutcomesOfTask, AnswersOfCall DEF Mapped
<1>1. CASE Begin(r, p)
  BY <1>1, <1>b, <1>c, BeginIs DEF IInv
<1>2. CASE Work(r, p)
  BY <1>2, <1>c, WorkIs DEF IInv
<1>3. CASE Close(r, p)
  <2>1. task[r][p].at \in Busy /\ call[r].at \in Running /\ UNCHANGED call
    BY <1>3 DEF Close, Busy, IInv, Quiet
  <2> QED
    BY <1>3, <1>b, <2>1, CloseIs DEF IInv
<1> QED
  BY <1>1, <1>2, <1>3 DEF TaskStep, Work

\* A killed process answers nothing more.
LEMMA KillDies == ASSUME IInv, NEW r \in Run, Kill(r) PROVE Promise!Die(r)
<1>a. Types /\ Mapped /\ Mapped'
  BY TypeIs, MappedIs DEF IInv
<1>1. /\ call[r].at \notin Over /\ call'[r].at = "killed"
      /\ \A s \in Run : s # r => call'[s] = call[s] /\ task'[s] = task[s]
  BY <1>a DEF Kill, Running, Over, Types, CallRow, TaskType
<1>2. \A p \in Path : task'[r][p].at = IF task[r][p].at \in Busy \cup {"queued"} THEN "dead"
                                       ELSE task[r][p].at
  <2>1. \A p \in Path : [task[r][p] EXCEPT !.at = "dead"].at = "dead"
    BY <1>a DEF Types, TaskType, TaskRow
  <2> QED
    BY <1>a, <2>1 DEF Kill, Types, TaskType
<1>3. \A p \in Path : Outcomes'[r][p] = IF Outcomes[r][p] = "open" THEN "lost" ELSE Outcomes[r][p]
  <2> SUFFICES ASSUME NEW p \in Path
               PROVE  Outcomes'[r][p] = IF Outcomes[r][p] = "open" THEN "lost" ELSE Outcomes[r][p]
    OBVIOUS
  <2>1. task[r][p].at \in Busy \cup {"queued"} \/ task[r][p].at \in {"none", "ok", "failed"}
        \/ task[r][p].at = "dead"
    BY <1>a DEF Types, TaskType, TaskRow, TaskAt, Ended
  <2>2. \A label \in {"none", "ok", "failed", "dead"} : label \notin Busy \cup {"queued"}
    BY DEF Busy
  <2>3. CASE task[r][p].at \in Busy \cup {"queued"}
    <3>1. task'[r][p].at = "dead"
      BY <1>2, <2>3
    <3> QED
      BY <2>3, <3>1, OutcomeIs
  <2>4. CASE task[r][p].at \in {"none", "ok", "failed", "dead"}
    <3>1. task'[r][p].at = task[r][p].at
      BY <1>2, <2>2, <2>4
    <3>2. Outcomes'[r][p] = Outcomes[r][p] /\ Outcomes[r][p] # "open"
      BY <2>4, <3>1, OutcomeIs
    <3> QED
      BY <3>2
  <2> QED
    BY <2>1, <2>3, <2>4
<1>4. \A s \in Run, p \in Path : s # r => Outcomes'[s][p] = Outcomes[s][p] /\ Answers'[s] = Answers[s]
  BY <1>1 DEF Outcomes, Answers
<1>5. \A s \in Run : s # r => Answers'[s] = Answers[s]
  BY <1>1 DEF Answers
<1>6. Outcomes' = [Outcomes EXCEPT ![r] =
                     [p \in Path |-> IF Outcomes[r][p] = "open" THEN "lost" ELSE Outcomes[r][p]]]
  BY <1>a, <1>3, <1>4 DEF Mapped
<1>7. Answers[r] = Promise!Pending /\ Answers' = [Answers EXCEPT ![r] = Promise!Without("killed")]
  <2>1. Answers[r] = Promise!Pending /\ Answers'[r] = Promise!Without("killed")
    BY <1>a, <1>1 DEF Mapped
  <2> QED
    BY <1>a, <1>5, <2>1 DEF Mapped
<1> QED
  BY <1>6, <1>7 DEF Promise!Die

\* RunsKeepPromise: WalkPipeline implements PathRuns.  Each path of a call is settled once, run()
\* answers after the last of them, and returns the results in the order of the paths or raises
\* (results[idx] = res, the with block of the pool).
THEOREM PromiseIsKept == Spec => RunsKeepPromise
<1>1. Init => Promise!PromiseInit
  <2> SUFFICES ASSUME Init PROVE Promise!PromiseInit
    OBVIOUS
  <2>1. \A r \in Run : call[r].at = "idle" /\ \A p \in Path : task[r][p].at = "none"
    BY DEF Init, NoTask
  <2>2. \A r \in Run : Answers[r] = Promise!Pending /\ \A p \in Path : Outcomes[r][p] = "none"
    <3>1. \A r \in Run : Answers[r] = Promise!Pending
      BY <2>1, PendingIs DEF Over
    <3>2. \A r \in Run : \A p \in Path : Outcomes[r][p] = "none"
      BY <2>1, OutcomeIs
    <3> QED
      BY <3>1, <3>2
  <2>3. Outcomes = [r \in Run |-> [p \in Path |-> "none"]]
    BY <2>2, MappedIs DEF Mapped
  <2>4. Answers = [r \in Run |-> Promise!Pending]
    BY <2>2, MappedIs DEF Mapped
  <2> QED
    BY <2>3, <2>4 DEF Promise!PromiseInit
<1>2. IInv /\ IInv' /\ [Next]_vars => [Promise!PromiseNext]_<<Outcomes, Answers>>
  <2> SUFFICES ASSUME IInv, IInv', [Next]_vars
               PROVE  Promise!PromiseNext \/ UNCHANGED <<Outcomes, Answers>>
    OBVIOUS
  <2>1. ASSUME NEW r \in Run, NEW q \in Requests[r], Call(r, q) PROVE Promise!PromiseNext
    BY <2>1, CallAsks DEF Promise!PromiseNext
  <2>2. ASSUME NEW r \in Run, CallStep(r)
        PROVE  Promise!PromiseNext \/ UNCHANGED <<Outcomes, Answers>>
    BY <2>2, LeaveAnswers, TakeStutters DEF CallStep, Promise!PromiseNext
  <2>3. ASSUME NEW r \in Run, NEW p \in Path, TaskStep(r, p)
        PROVE  Promise!PromiseNext \/ UNCHANGED <<Outcomes, Answers>>
    BY <2>3, TaskSettles DEF Promise!PromiseNext
  <2>4. ASSUME NEW r \in Run, Kill(r) PROVE Promise!PromiseNext
    BY <2>4, KillDies DEF Promise!PromiseNext
  <2>5. CASE UNCHANGED vars
    BY <2>5 DEF vars, Outcomes, Answers
  <2> QED
    BY <2>1, <2>2, <2>3, <2>4, <2>5 DEF Next
<1> QED
  BY <1>1, <1>2, Invariance, PTL DEF Spec, RunsKeepPromise, Promise!PromiseSpec

(***************************************************************************)
(* What the artifacts say needs an invariant of its own: which files a      *)
(* thread has put in place by the step it is at, and who signed each file.  *)
(* Only of artifacts that two runs worked on side by side does it say       *)
(* nothing.                                                                 *)
(***************************************************************************)

\* A thread of run r is at work on the artifacts named n.
\* A call has the artifact for one of its paths, PathOf, and Thread works on it.
Holds(r, n) == \E p \in Asked(r) : NameOf(r, p) = n
PathOf(r, n) == CHOOSE p \in Asked(r) : NameOf(r, p) = n
Thread(r, n) == task[r][PathOf(r, n)]
WorksOn(r, n) == Holds(r, n) /\ Thread(r, n).at \in Busy

\* Two runs that are at work on the same artifacts have been seen.
Exclusive == \A n \in Name \ crossed : \A r, s \in Run : WorksOn(r, n) /\ WorksOn(s, n) => r = s

\* The steps up to the script, and the steps that follow the opening of each file.
Early == {"none", "queued", "walk", "load", "saving", "policy", "fixing"}
Past(k) ==
  {"jsoning", "close", "fail", "ok", "failed", "dead"}
    \cup (IF k = "json" THEN {} ELSE {"fixing", "json"})
    \cup (IF k = "walk" THEN {"saving", "policy"} ELSE {})

\* No script was written before the step that writes it, and only runs without a live walk load.
OrderOf(r, p) ==
  /\ task[r][p].at \in Early => ~task[r][p].fixed
  /\ task[r][p].at = "load" => ~call[r].asks.walks
InOrder == \A r \in Run : \A p \in Path : OrderOf(r, p)

\* The run that last opened or wrote a file is past that step; past all of them if the file is a
\* whole summary.
SignedAt(n) ==
  \A k \in Kind :
    LET file == disk[k][n]
    IN  /\ file.by # None => Holds(file.by, n) /\ Thread(file.by, n).at \in Past(k)
        /\ k = "json" /\ file.text = "whole" =>
             file.by # None /\ Thread(file.by, n).at \in {"close", "ok", "dead"}
Signed == \A n \in Name : SignedAt(n)

HasWritten(r, n, k) == disk[k][n].by = r /\ disk[k][n].text = "whole"

\* A thread finds the file empty that it opened, and whole those that it wrote.
HasFiles(r, n) ==
  LET t == Thread(r, n)
  IN  /\ t.at = "saving" => disk["walk"][n] = Emptied(r)
      /\ t.at = "fixing" => disk["fix"][n] = Emptied(r)
      /\ t.at = "jsoning" => disk["json"][n] = Emptied(r)
      /\ t.at \in {"policy", "fixing", "json", "jsoning"} /\ call[r].asks.walks => HasWritten(r, n, "walk")
      /\ t.at \in {"json", "jsoning"} /\ t.fixed => HasWritten(r, n, "fix")
FilesInPlace == \A n \in Name \ crossed : \A r \in Run : WorksOn(r, n) => HasFiles(r, n)

\* The file beside a whole summary: its own, or one of a later run that has no summary.
Beside(n, k) ==
  \/ HasWritten(disk["json"][n].by, n, k)
  \/ disk[k][n].by # disk["json"][n].by /\ ~Summarised(disk[k][n].by, n)

\* SummaryTellsFiles for one name.
Tells(n) ==
  disk["json"][n].text = "whole" =>
    /\ disk["json"][n].says => Beside(n, "fix")
    /\ call[disk["json"][n].by].asks.walks => Beside(n, "walk")
AllTell == \A n \in Name \ crossed : Tells(n)

FileInv == Exclusive /\ InOrder /\ Signed /\ FilesInPlace /\ AllTell

\* AllTell is SummaryTellsFiles.
LEMMA TellsIs == TypeOK => (AllTell <=> SummaryTellsFiles)
<1> SUFFICES ASSUME TypeOK, NEW n \in Name, NEW k \in Kind
             PROVE  HasWritten(disk["json"][n].by, n, k) <=>
                      disk[k][n] = [by |-> disk["json"][n].by, text |-> "whole", says |-> disk[k][n].says]
  <2>1. "fix" \in Kind /\ "walk" \in Kind
    BY DEF Kind
  <2> QED
    BY <2>1, Zenon DEF AllTell, Tells, Beside, SummaryTellsFiles
<1>1. disk[k][n] \in File
  BY TypeIs DEF Types
<1> QED
  BY <1>1 DEF HasWritten, File

\* The artifacts of a call are named apart, by the place of the path when there are several.
LEMMA NamesDiffer ==
  ASSUME NEW q \in Asks, NEW x \in q.paths, NEW y \in q.paths, NameIn(q, x) = NameIn(q, y)
  PROVE  x = y
<1>1. CASE Cardinality(q.paths) = 1
  <2>1. IsFiniteSet(q.paths)
    <3>1. IsFiniteSet(Path)
      BY PipelineAssumption, FS_Interval DEF Path
    <3> QED
      BY <3>1, AsksAreRequests, FS_Subset
  <2>2. \E z : q.paths = {z}
    BY <1>1, <2>1, FS_Singleton
  <2> QED
    BY <2>2
<1>2. CASE Cardinality(q.paths) # 1
  BY <1>2 DEF NameIn
<1> QED
  BY <1>1, <1>2

\* The artifact of a path leads back to it.
LEMMA PathIs ==
  ASSUME TypeOK, NEW r \in Run, NEW p \in Asked(r)
  PROVE  /\ p \in Path /\ NameOf(r, p) \in Name
         /\ Holds(r, NameOf(r, p)) /\ PathOf(r, NameOf(r, p)) = p
<1>1. call[r].asks \in Asks /\ Asked(r) = call[r].asks.paths
  BY TypeIs DEF Types, CallRow, Asked
<1>2. \A x, y \in Asked(r) : NameOf(r, x) = NameOf(r, y) => x = y
  BY <1>1, NamesDiffer DEF NameOf
<1>3. p \in Path
  BY <1>1, AsksAreRequests
<1> QED
  BY <1>2, <1>3 DEF Holds, PathOf, NameOf, NameIn, Name

LEMMA HoldsIs ==
  ASSUME TypeOK, NEW r \in Run, NEW n, Holds(r, n)
  PROVE  PathOf(r, n) \in Asked(r) /\ PathOf(r, n) \in Path /\ NameOf(r, PathOf(r, n)) = n
<1>1. PathOf(r, n) \in Asked(r) /\ NameOf(r, PathOf(r, n)) = n
  BY DEF Holds, PathOf
<1> QED
  BY <1>1, PathIs

\* As long as a call asks for the same, so are its artifacts.
LEMMA SameCall ==
  ASSUME NEW s \in Run, NEW n, call'[s].asks = call[s].asks
  PROVE  /\ Asked(s)' = Asked(s) /\ \A q : NameOf(s, q)' = NameOf(s, q)
         /\ (Holds(s, n)' <=> Holds(s, n)) /\ PathOf(s, n)' = PathOf(s, n)
         /\ Thread(s, n)' = task'[s][PathOf(s, n)]
<1>1. Asked(s)' = Asked(s)
  BY DEF Asked
<1>2. \A q : NameOf(s, q)' = NameOf(s, q)
  BY DEF NameOf
<1>3. Holds(s, n)' <=> Holds(s, n)
  BY <1>1, <1>2 DEF Holds
<1>4. PathOf(s, n)' = PathOf(s, n)
  BY <1>1, <1>2 DEF PathOf
<1> QED
  BY <1>1, <1>2, <1>3, <1>4 DEF Thread

\* Summarised says how far the thread that has the artifact is.
LEMMA SummarisedIs ==
  ASSUME TypeOK, NEW s \in Run, NEW n, Holds(s, n)
  PROVE  /\ Summarised(s, n) <=> Thread(s, n).at \in {"close", "ok"}
         /\ call'[s].asks = call[s].asks =>
              (Summarised(s, n)' <=> task'[s][PathOf(s, n)].at \in {"close", "ok"})
<1>1. s # None
  BY PipelineAssumption
<1>2. PathOf(s, n) \in Asked(s) /\ NameOf(s, PathOf(s, n)) = n
  BY HoldsIs
<1>3. \A p \in Asked(s) : NameOf(s, p) = n => p = PathOf(s, n)
  BY PathIs
<1>4. Summarised(s, n) <=> Thread(s, n).at \in {"close", "ok"}
  BY <1>1, <1>2, <1>3 DEF Summarised, Thread
<1>5. ASSUME call'[s].asks = call[s].asks
      PROVE  Summarised(s, n)' <=> task'[s][PathOf(s, n)].at \in {"close", "ok"}
  <2>1. Asked(s)' = Asked(s) /\ \A q : NameOf(s, q)' = NameOf(s, q)
    BY <1>5, SameCall
  <2> QED
    BY <1>1, <1>2, <1>3, <2>1 DEF Summarised
<1> QED
  BY <1>4, <1>5

\* One file has changed, and no other.
Put(k, n, file) ==
  /\ disk'[k][n] = file
  /\ \A j \in Kind, m \in Name : (j # k \/ m # n) => disk'[j][m] = disk[j][m]

LEMMA FilePut ==
  ASSUME TypeOK, NEW k \in Kind, NEW n \in Name, NEW file, disk' = [disk EXCEPT ![k][n] = file]
  PROVE  Put(k, n, file)
<1>1. disk \in [Kind -> [Name -> File]]
  BY TypeIs DEF Types
<1> QED
  BY <1>1 DEF Put

\* Who signed a file is a run, and had its name.
LEMMA SignerIs ==
  ASSUME IInv, FileInv, NEW k \in Kind, NEW m \in Name, disk[k][m].by # None
  PROVE  disk[k][m].by \in Run /\ Holds(disk[k][m].by, m)
<1>1. disk \in [Kind -> [Name -> File]]
  BY TypeIs DEF IInv, Types
<1>2. disk[k][m] \in File
  BY <1>1
<1>3. disk[k][m].by \in Run
  BY <1>2 DEF File
<1>4. SignedAt(m)
  BY DEF FileInv, Signed
<1> QED
  BY <1>3, <1>4 DEF SignedAt

\* What a thread that leaves call r as it is, moves from r and p to another step, and changes files
\* of its own name only, has to show for the invariant to hold.
LEMMA FilesOfThread ==
  ASSUME IInv, FileInv, NEW r \in Run, NEW p \in Asked(r), NEW n \in Name, n = NameOf(r, p),
         Only(r, p), UNCHANGED call, crossed \subseteq crossed',
         \A s \in Run \ {r} : WorksOn(s, n) => n \in crossed',
         \A k \in Kind, m \in Name : m # n => disk'[k][m] = disk[k][m],
         OrderOf(r, p)', SignedAt(n)',
         n \notin crossed' => (task'[r][p].at \in Busy => HasFiles(r, n)') /\ Tells(n)'
  PROVE  FileInv'
<1>a. TypeOK /\ Holds(r, n) /\ PathOf(r, n) = p /\ p \in Path /\ {"walk", "fix", "json"} \subseteq Kind
  BY PathIs DEF IInv, Kind
<1>b. \A s \in Run : \A m : /\ Holds(s, m)' <=> Holds(s, m)
                            /\ Thread(s, m)' = task'[s][PathOf(s, m)]
  BY SameCall
<1>d. ASSUME NEW s \in Run, NEW m \in Name, Holds(s, m), s # r \/ PathOf(s, m) # p
      PROVE  Thread(s, m)' = Thread(s, m)
  BY <1>a, <1>b, <1>d, HoldsIs DEF Only, Thread
<1>e. ASSUME NEW s \in Run, NEW m \in Name, Holds(s, m), m # n
      PROVE  Thread(s, m)' = Thread(s, m)
  <2>1. NameOf(s, PathOf(s, m)) = m
    BY <1>a, <1>e, HoldsIs
  <2> QED
    BY <1>d, <1>e, <2>1
<1>1. Exclusive'
  <2> SUFFICES ASSUME NEW m \in Name, m \notin crossed', NEW s \in Run, NEW q \in Run,
                      WorksOn(s, m)', WorksOn(q, m)'
               PROVE  s = q
    BY DEF Exclusive
  <2>1. Holds(s, m) /\ Holds(q, m)
    BY <1>b DEF WorksOn
  <2>2. CASE m = n
    <3>1. \A x \in Run \ {r} : ~ WorksOn(x, n)'
      <4> SUFFICES ASSUME NEW x \in Run \ {r}, WorksOn(x, n)' PROVE FALSE
        OBVIOUS
      <4>1. WorksOn(x, n)
        BY <1>a, <1>b, <1>d DEF WorksOn
      <4> QED
        BY <2>2, <4>1
    <3> QED
      BY <2>2, <3>1
  <2>3. CASE m # n
    <3>1. WorksOn(s, m) /\ WorksOn(q, m)
      BY <1>e, <2>1, <2>3 DEF WorksOn
    <3> QED
      BY <3>1 DEF FileInv, Exclusive
  <2> QED
    BY <2>2, <2>3
<1>2. InOrder'
  BY DEF FileInv, InOrder, OrderOf, Only
<1>3. Signed'
  <2> SUFFICES ASSUME NEW m \in Name, m # n PROVE SignedAt(m)'
    BY DEF Signed
  <2>1. \A k \in Kind : disk'[k][m] = disk[k][m]
    OBVIOUS
  <2>2. ASSUME NEW k \in Kind, NEW s, s = disk[k][m].by, s # None
        PROVE  Holds(s, m)' /\ Thread(s, m)' = Thread(s, m)
    <3>1. s \in Run /\ Holds(s, m)
      BY <2>2, SignerIs
    <3> QED
      BY <1>b, <1>e, <3>1
  <2>3. SignedAt(m)
    BY DEF FileInv, Signed
  <2> SUFFICES ASSUME NEW k \in Kind, NEW s, s = disk[k][m].by
               PROVE  /\ s # None => Holds(s, m)' /\ Thread(s, m).at' \in Past(k)
                      /\ k = "json" /\ disk[k][m].text = "whole" =>
                           s # None /\ Thread(s, m).at' \in {"close", "ok", "dead"}
    BY <2>1, Zenon DEF SignedAt
  <2>4. /\ s # None => Thread(s, m).at \in Past(k)
        /\ k = "json" /\ disk[k][m].text = "whole" =>
             s # None /\ Thread(s, m).at \in {"close", "ok", "dead"}
    BY <2>3 DEF SignedAt
  <2> QED
    BY <2>2, <2>4
<1>4. FilesInPlace'
  <2> SUFFICES ASSUME NEW m \in Name, m \notin crossed', NEW s \in Run, WorksOn(s, m)'
               PROVE  HasFiles(s, m)'
    BY DEF FilesInPlace
  <2>1. CASE m = n
    <3>1. CASE s = r
      BY <1>a, <1>b, <2>1, <3>1 DEF WorksOn
    <3>2. CASE s # r
      <4>1. WorksOn(s, n)
        BY <1>a, <1>b, <1>d, <2>1, <3>2 DEF WorksOn
      <4> QED
        BY <2>1, <3>2, <4>1
    <3> QED
      BY <3>1, <3>2
  <2>2. CASE m # n
    <3>1. Holds(s, m)
      BY <1>b DEF WorksOn
    <3>2. Thread(s, m)' = Thread(s, m)
      BY <1>e, <2>2, <3>1
    <3>3. HasFiles(s, m)
      BY <3>1, <3>2 DEF FileInv, FilesInPlace, WorksOn
    <3>4. \A k \in Kind : disk'[k][m] = disk[k][m]
      BY <2>2
    <3> QED
      BY <1>a, <3>2, <3>3, <3>4 DEF HasFiles, HasWritten, Emptied
  <2> QED
    BY <2>1, <2>2
<1>5. AllTell'
  <2> SUFFICES ASSUME NEW m \in Name, m \notin crossed', m # n PROVE Tells(m)'
    BY DEF AllTell
  <2>1. \A k \in Kind : disk'[k][m] = disk[k][m]
    OBVIOUS
  <2>2. ASSUME NEW k \in Kind, NEW s, s = disk[k][m].by
        PROVE  Summarised(s, m)' <=> Summarised(s, m)
    <3>1. CASE s = None
      BY <3>1 DEF Summarised
    <3>2. CASE s # None
      <4>1. s \in Run /\ Holds(s, m)
        BY <2>2, <3>2, SignerIs
      <4>2. Thread(s, m)' = Thread(s, m) /\ Thread(s, m)' = task'[s][PathOf(s, m)]
        BY <1>b, <1>e, <4>1
      <4> QED
        BY <1>a, <4>1, <4>2, SummarisedIs
    <3> QED
      BY <3>1, <3>2
  <2>3. Tells(m)
    BY DEF FileInv, AllTell
  <2>4. ASSUME NEW k \in {"fix", "walk"}, Beside(m, k) PROVE Beside(m, k)'
    <3>1. PICK s : s = disk[k][m].by
      OBVIOUS
    <3>2. s = disk'[k][m].by
      BY <1>a, <2>1, <3>1
    <3>3. k \in Kind
      BY <1>a
    <3>4. Summarised(disk[k][m].by, m)' => Summarised(disk[k][m].by, m)
      <4>1. Summarised(disk[k][m].by, m)' <=> Summarised(s, m)'
        BY <3>2
      <4> QED
        BY <2>2, <3>1, <3>3, <4>1
    <3> QED
      BY <1>a, <2>1, <2>4, <3>3, <3>4 DEF Beside, HasWritten
  <2> QED
    BY <1>a, <2>1, <2>3, <2>4 DEF Tells
<1> QED
  BY <1>1, <1>2, <1>3, <1>4, <1>5 DEF FileInv

\* The thread goes on to a step, and writes no script by that.
Moves(r, p, label) ==
  task'[r][p].at = label /\ task'[r][p].fixed = task[r][p].fixed

\* What each step of process_path does to its thread and to the files of its name.
LEMMA WorkDoes ==
  ASSUME TypeOK, NEW r \in Run, NEW p \in Path, Work(r, p)
  PROVE  LET t == task[r][p]
             n == NameOf(r, p)
         IN  \/ t.at = "walk" /\ Moves(r, p, "saving") /\ Put("walk", n, Emptied(r))
             \/ t.at = "load" /\ (Moves(r, p, "policy") \/ Moves(r, p, "json")) /\ UNCHANGED disk
             \/ t.at = "policy" /\ Moves(r, p, "fixing") /\ Put("fix", n, Emptied(r))
             \/ t.at = "policy" /\ Moves(r, p, "json") /\ UNCHANGED disk
             \/ t.at = "json" /\ Moves(r, p, "jsoning") /\ Put("json", n, Emptied(r))
             \/ /\ t.at \in {"saving", "fixing", "jsoning"}
                /\ task'[r][p].at = After(t) /\ task'[r][p].fixed = (t.fixed \/ t.at = "fixing")
                /\ \E text \in {"part", "whole"} :
                     /\ text = "part" => disk[Writes(t)][n].text # "empty"
                     /\ Put(Writes(t), n, [by |-> r, text |-> text, says |-> Says(t)])
             \/ /\ t.at \in {"saving", "fixing", "jsoning"} /\ Moves(r, p, "fail")
                /\ Put(Writes(t), n, [by |-> r, text |-> "part", says |-> Says(t)])
             \/ t.at \in {"walk", "load", "policy", "json"} /\ Moves(r, p, "fail") /\ UNCHANGED disk
<1> DEFINE t == task[r][p]
           n == NameOf(r, p)
<1>a. task \in TaskType /\ task[r][p] \in TaskRow
  BY TypeIs DEF Types, TaskType
<1>b. n \in Name /\ Busy \subseteq TaskAt /\ Kind = {"walk", "fix", "json"}
  BY DEF NameOf, NameIn, Name, TaskAt, Kind
<1>c. ASSUME NEW label \in Busy, Goto(r, p, label) PROVE Moves(r, p, label)
  <2>1. task'[r][p] = [task[r][p] EXCEPT !.at = label]
    BY <1>a, <1>b, <1>c, GotoChanges
  <2> QED
    BY <1>a, <2>1 DEF Moves, TaskRow
<1>d. ASSUME NEW label \in Busy, NEW finds \in BOOLEAN,
             task' = [task EXCEPT ![r][p].at = label, ![r][p].finds = finds]
      PROVE  Moves(r, p, label)
  BY <1>a, <1>d DEF Moves, TaskType, TaskRow
<1>e. ASSUME NEW k \in Kind, OpenFile(r, p, k) PROVE Put(k, n, Emptied(r))
  BY <1>b, <1>e, FilePut DEF OpenFile
<1>1. CASE Walk(r, p)
  <2>1. CASE Raises(r, p)
    BY <1>1, <1>c, <2>1 DEF Walk, Raises, Busy
  <2>2. CASE ~Raises(r, p)
    BY <1>1, <1>b, <1>d, <1>e, <2>2 DEF Walk, Busy
  <2> QED
    BY <2>1, <2>2
<1>2. CASE Load(r, p)
  <2>1. disk["walk"][n].says \in BOOLEAN
    BY <1>b, TypeIs DEF Types, File
  <2>2. t.at = "load" /\ UNCHANGED disk
    BY <1>2 DEF Load
  <2>3. CASE Goto(r, p, "fail")
    BY <1>c, <2>2, <2>3 DEF Busy
  <2>4. CASE ~Goto(r, p, "fail")
    <3>1. PICK finds \in BOOLEAN :
            task' = [task EXCEPT ![r][p].at = IF finds THEN "policy" ELSE "json", ![r][p].finds = finds]
      BY <1>2, <2>1, <2>4 DEF Load
    <3> DEFINE label == IF finds THEN "policy" ELSE "json"
    <3>2. label \in Busy /\ label \in {"policy", "json"}
      BY DEF Busy
    <3>3. Moves(r, p, label)
      BY <1>d, <3>1, <3>2
    <3> QED
      BY <2>2, <3>2, <3>3
  <2> QED
    BY <2>3, <2>4
<1>3. CASE Policy(r, p)
  <2>1. CASE Raises(r, p)
    BY <1>3, <1>c, <2>1 DEF Policy, Raises, Busy
  <2>2. CASE ~Raises(r, p)
    BY <1>3, <1>b, <1>c, <1>e, <2>2 DEF Policy, Busy
  <2> QED
    BY <2>1, <2>2
<1>4. CASE Summarise(r, p)
  <2>1. CASE Raises(r, p)
    BY <1>4, <1>c, <2>1 DEF Summarise, Raises, Busy
  <2>2. CASE ~Raises(r, p)
    BY <1>4, <1>b, <1>c, <1>e, <2>2 DEF Summarise, Busy
  <2> QED
    BY <2>1, <2>2
<1>5. CASE WriteFile(r, p)
  <2>1. t.at \in {"saving", "fixing", "jsoning"}
    BY <1>5 DEF WriteFile
  <2>2. Writes(t) \in Kind
    BY <1>b, <2>1 DEF Writes
  <2> DEFINE file(text) == [by |-> r, text |-> text, says |-> Says(t)]
  <2>3. ASSUME NEW text \in {"part", "whole"}, disk' = [disk EXCEPT ![Writes(t)][n] = file(text)]
        PROVE  Put(Writes(t), n, file(text))
    BY <1>b, <2>2, <2>3, FilePut
  <2>4. CASE /\ task' = [task EXCEPT ![r][p].at = After(t), ![r][p].fixed = @ \/ t.at = "fixing"]
             /\ \E text \in {"part", "whole"} :
                  /\ text = "part" => disk[Writes(t)][n].text # "empty"
                  /\ disk' = [disk EXCEPT ![Writes(t)][n] = file(text)]
    <3>1. task'[r][p].at = After(t) /\ task'[r][p].fixed = (t.fixed \/ t.at = "fixing")
      BY <1>a, <2>4 DEF TaskType, TaskRow
    <3> QED
      BY <2>1, <2>3, <2>4, <3>1
  <2>5. CASE /\ Goto(r, p, "fail") /\ disk' = [disk EXCEPT ![Writes(t)][n] = file("part")]
    <3>1. Moves(r, p, "fail")
      BY <1>c, <2>5 DEF Busy
    <3> QED
      BY <2>1, <2>3, <2>5, <3>1
  <2> QED
    BY <1>5, <2>4, <2>5 DEF WriteFile
<1> QED
  BY <1>1, <1>2, <1>3, <1>4, <1>5 DEF Work

\* The steps of process_path keep the invariant.
LEMMA WorkKeepsFiles ==
  ASSUME IInv, FileInv, NEW r \in Run, NEW p \in Path, Work(r, p) PROVE FileInv'
<1> DEFINE t == task[r][p]
           u == task'[r][p]
<1>n. PICK n \in Name : n = NameOf(r, p)
  <2>1. NameOf(r, p) \in Name
    BY DEF NameOf, NameIn, Name
  <2> QED
    BY <2>1
<1>a. TypeOK /\ Types /\ Kind = {"walk", "fix", "json"} /\ t \in TaskRow
  BY TypeIs DEF IInv, Kind, Types, TaskType
<1>b. Only(r, p) /\ UNCHANGED call /\ t.at \in Busy /\ u.at \in Busy
  BY <1>a, WorkIs
<1>j. p \in Asked(r) /\ Holds(r, n) /\ PathOf(r, n) = p /\ Thread(r, n) = t /\ Thread(r, n)' = u
  <2>1. p \in Asked(r)
    BY <1>b DEF IInv, Assigned, Busy
  <2>2. Holds(r, n) /\ PathOf(r, n) = p
    BY <1>a, <1>n, <2>1, PathIs
  <2> QED
    BY <1>b, <2>1, <2>2, SameCall DEF Thread
<1>c. UNCHANGED crossed
  BY DEF Work, Walk, Load, Policy, Summarise, WriteFile, Raises
<1>d. \A s \in Run : Holds(s, n)' <=> Holds(s, n)
  BY <1>b, SameCall
<1>e. WorksOn(r, n) /\ \A s \in Run \ {r} : WorksOn(s, n) => n \in crossed
  BY <1>b, <1>j DEF WorksOn, FileInv, Exclusive
<1>f. /\ OrderOf(r, p) /\ SignedAt(n)
      /\ n \notin crossed => HasFiles(r, n) /\ Tells(n)
  BY <1>e DEF FileInv, InOrder, Signed, FilesInPlace, AllTell
<1>g. \A k \in Kind : /\ disk[k][n] \in File
                      /\ disk[k][n].by \in Run \cup {None}
  <2>1. disk \in [Kind -> [Name -> File]]
    BY <1>a DEF Types
  <2>2. \A k \in Kind : disk[k][n] \in File
    BY <2>1
  <2> QED
    BY <2>2 DEF File
<1>h. Emptied(r).by = r /\ Emptied(r).text = "empty" /\ r # None
  BY PipelineAssumption DEF Emptied
<1>i. \A s \in Run \ {r} : Holds(s, n) => Thread(s, n)' = Thread(s, n)
  BY <1>a, <1>b, SameCall, HoldsIs DEF Only, Thread
<1>l. \A s \in Run \ {r} : Holds(s, n) => (Summarised(s, n)' <=> Summarised(s, n))
  BY <1>a, <1>b, <1>i, SameCall, SummarisedIs
<1>m. /\ Summarised(r, n)' <=> u.at \in {"close", "ok"}
      /\ Summarised(r, n) <=> t.at \in {"close", "ok"}
      /\ ~Summarised(None, n) /\ ~Summarised(None, n)'
  <2>1. ~Summarised(None, n) /\ ~Summarised(None, n)'
    BY DEF Summarised
  <2> QED
    BY <1>a, <1>b, <1>j, <2>1, SummarisedIs
<1>k. \/ t.at = "walk" /\ Moves(r, p, "saving") /\ Put("walk", n, Emptied(r))
      \/ t.at = "load" /\ (Moves(r, p, "policy") \/ Moves(r, p, "json")) /\ UNCHANGED disk
      \/ t.at = "policy" /\ Moves(r, p, "fixing") /\ Put("fix", n, Emptied(r))
      \/ t.at = "policy" /\ Moves(r, p, "json") /\ UNCHANGED disk
      \/ t.at = "json" /\ Moves(r, p, "jsoning") /\ Put("json", n, Emptied(r))
      \/ /\ t.at \in {"saving", "fixing", "jsoning"}
         /\ u.at = After(t) /\ u.fixed = (t.fixed \/ t.at = "fixing")
         /\ \E text \in {"part", "whole"} :
              /\ text = "part" => disk[Writes(t)][n].text # "empty"
              /\ Put(Writes(t), n, [by |-> r, text |-> text, says |-> Says(t)])
      \/ /\ t.at \in {"saving", "fixing", "jsoning"} /\ Moves(r, p, "fail")
         /\ Put(Writes(t), n, [by |-> r, text |-> "part", says |-> Says(t)])
      \/ t.at \in {"walk", "load", "policy", "json"} /\ Moves(r, p, "fail") /\ UNCHANGED disk
  BY <1>a, <1>n, WorkDoes
<1>1. /\ \A k \in Kind : t.at \in Past(k) => u.at \in Past(k)
      /\ u.at \in {"close", "ok"} => t.at = "jsoning" /\ disk'["json"][n].by = r
      /\ OrderOf(r, p)'
      /\ t.at \notin {"close", "ok", "dead"}
      /\ \A k \in Kind, m \in Name : m # n => disk'[k][m] = disk[k][m]
      /\ \A k \in Kind : \/ disk'[k][n] = disk[k][n]
                         \/ /\ disk'[k][n].by = r /\ u.at \in Past(k)
                            /\ k = "json" /\ disk'[k][n].text = "whole" => u.at = "close"
  <2> DEFINE Goal ==
        /\ \A k \in Kind : t.at \in Past(k) => u.at \in Past(k)
        /\ u.at \in {"close", "ok"} => t.at = "jsoning" /\ disk'["json"][n].by = r
        /\ OrderOf(r, p)'
        /\ t.at \notin {"close", "ok", "dead"}
        /\ \A k \in Kind, m \in Name : m # n => disk'[k][m] = disk[k][m]
        /\ \A k \in Kind : \/ disk'[k][n] = disk[k][n]
                           \/ /\ disk'[k][n].by = r /\ u.at \in Past(k)
                              /\ k = "json" /\ disk'[k][n].text = "whole" => u.at = "close"
  <2>1. CASE t.at = "walk" /\ Moves(r, p, "saving") /\ Put("walk", n, Emptied(r))
    BY <1>a, <1>b, <1>f, <1>h, <2>1 DEF Moves, Put, OrderOf, Early, Past
  <2>2. CASE t.at = "load" /\ (Moves(r, p, "policy") \/ Moves(r, p, "json")) /\ UNCHANGED disk
    BY <1>a, <1>b, <1>f, <2>2 DEF Moves, OrderOf, Early, Past
  <2>3. CASE t.at = "policy" /\ Moves(r, p, "fixing") /\ Put("fix", n, Emptied(r))
    BY <1>a, <1>b, <1>f, <1>h, <2>3 DEF Moves, Put, OrderOf, Early, Past
  <2>4. CASE t.at = "policy" /\ Moves(r, p, "json") /\ UNCHANGED disk
    BY <1>a, <1>b, <1>f, <2>4 DEF Moves, OrderOf, Early, Past
  <2>5. CASE t.at = "json" /\ Moves(r, p, "jsoning") /\ Put("json", n, Emptied(r))
    BY <1>a, <1>b, <1>f, <1>h, <2>5 DEF Moves, Put, OrderOf, Early, Past
  <2>6. ASSUME t.at \in {"saving", "fixing", "jsoning"}, u.at = After(t),
               u.fixed = (t.fixed \/ t.at = "fixing"), NEW text \in {"part", "whole"},
               Put(Writes(t), n, [by |-> r, text |-> text, says |-> Says(t)])
        PROVE  Goal
    <3> DEFINE file == [by |-> r, text |-> text, says |-> Says(t)]
    <3>1. file.by = r
      OBVIOUS
    <3> HIDE DEF file
    <3>2. CASE t.at = "saving"
      <4>1. u.at \in {"policy", "json"} /\ u.fixed = t.fixed /\ Put("walk", n, file)
        BY <1>a, <2>6, <3>2 DEF After, Writes, TaskRow, file
      <4> QED
        BY <1>a, <1>b, <1>f, <3>1, <3>2, <4>1 DEF Put, OrderOf, Early, Past
    <3>3. CASE t.at = "fixing"
      <4>1. u.at = "json" /\ u.fixed = TRUE /\ Put("fix", n, file)
        BY <1>a, <2>6, <3>3 DEF After, Writes, TaskRow, file
      <4> QED
        BY <1>a, <1>b, <1>f, <3>1, <3>3, <4>1 DEF Put, OrderOf, Early, Past
    <3>4. CASE t.at = "jsoning"
      <4>1. u.at = "close" /\ u.fixed = t.fixed /\ Put("json", n, file)
        BY <1>a, <2>6, <3>4 DEF After, Writes, TaskRow, file
      <4> QED
        BY <1>a, <1>b, <1>f, <3>1, <3>4, <4>1 DEF Put, OrderOf, Early, Past
    <3> QED
      BY <2>6, <3>2, <3>3, <3>4
  <2>7. CASE /\ t.at \in {"saving", "fixing", "jsoning"} /\ Moves(r, p, "fail")
             /\ Put(Writes(t), n, [by |-> r, text |-> "part", says |-> Says(t)])
    BY <1>a, <1>b, <1>f, <2>7 DEF Moves, Put, OrderOf, Early, Past, Writes
  <2>8. CASE t.at \in {"walk", "load", "policy", "json"} /\ Moves(r, p, "fail") /\ UNCHANGED disk
    BY <1>a, <1>b, <1>f, <2>8 DEF Moves, OrderOf, Early, Past
  <2> QED
    BY <1>k, <2>1, <2>2, <2>3, <2>4, <2>5, <2>6, <2>7, <2>8
<1>2. SignedAt(n)'
  <2> SUFFICES ASSUME NEW k \in Kind, NEW file, file = disk'[k][n], NEW s, s = file.by
               PROVE  /\ s # None => Holds(s, n)' /\ Thread(s, n).at' \in Past(k)
                      /\ k = "json" /\ file.text = "whole" =>
                           s # None /\ Thread(s, n).at' \in {"close", "ok", "dead"}
    BY Zenon DEF SignedAt
  <2>1. CASE s = r /\ file # disk[k][n]
    BY <1>1, <1>d, <1>h, <1>j, <2>1
  <2>2. CASE file = disk[k][n]
    <3>1. /\ s # None => s \in Run /\ Holds(s, n) /\ Thread(s, n).at \in Past(k)
          /\ k = "json" /\ file.text = "whole" =>
               s # None /\ Thread(s, n).at \in {"close", "ok", "dead"}
      BY <1>f, <1>g, <2>2 DEF SignedAt
    <3>2. s # None => Holds(s, n)'
      BY <1>d, <3>1
    <3>3. CASE s = r
      BY <1>1, <1>h, <1>j, <3>1, <3>2, <3>3
    <3>4. CASE s # r
      BY <1>i, <3>1, <3>2, <3>4
    <3> QED
      BY <3>3, <3>4
  <2> QED
    BY <1>1, <2>1, <2>2
<1>3. ASSUME n \notin crossed, disk'["json"][n] = disk["json"][n] PROVE Tells(n)'
  <2> DEFINE j == disk["json"][n].by
  <2> SUFFICES ASSUME disk["json"][n].text = "whole", NEW k \in {"fix", "walk"}, Beside(n, k)
               PROVE  Beside(n, k)'
    BY <1>3, <1>b, <1>f DEF Tells
  <2>1. j # r /\ j \in Run
    BY <1>1, <1>a, <1>f, <1>g, <1>j DEF SignedAt
  <2>2. u.at \notin {"close", "ok"}
    <3> SUFFICES ASSUME u.at \in {"close", "ok"} PROVE FALSE
      OBVIOUS
    <3> QED
      BY <1>1, <1>3, <2>1
  <2>3. k \in Kind
    BY <1>a
  <2>4. CASE disk'[k][n] = disk[k][n]
    <3>1. Summarised(disk[k][n].by, n)' => Summarised(disk[k][n].by, n)
      <4>1. PICK s \in Run \cup {None} : s = disk[k][n].by /\ s = disk'[k][n].by
        BY <1>g, <2>3, <2>4
      <4>2. s # None => Holds(s, n)
        BY <1>f, <2>3, <4>1 DEF SignedAt
      <4>3. Summarised(s, n)' => Summarised(s, n)
        BY <1>l, <1>m, <2>2, <4>2
      <4>4. Summarised(disk[k][n].by, n)' <=> Summarised(s, n)'
        BY <4>1
      <4> QED
        BY <4>1, <4>3, <4>4
    <3>2. /\ HasWritten(j, n, k) => HasWritten(disk["json"][n].by, n, k)'
          /\ disk[k][n].by # j => (disk[k][n].by # disk["json"][n].by)'
      BY <1>3, <2>4 DEF HasWritten
    <3> QED
      BY <3>1, <3>2 DEF Beside
  <2>5. CASE disk'[k][n].by = r
    <3>1. ~Summarised(disk[k][n].by, n)'
      <4>1. Summarised(disk[k][n].by, n)' <=> Summarised(r, n)'
        BY <2>5
      <4> QED
        BY <1>m, <2>2, <4>1
    <3>2. (disk[k][n].by # disk["json"][n].by)'
      BY <1>3, <2>1, <2>5
    <3> QED
      BY <3>1, <3>2 DEF Beside
  <2> QED
    BY <1>1, <2>3, <2>4, <2>5
<1>4. ASSUME n \notin crossed PROVE HasFiles(r, n)' /\ Tells(n)'
  <2>a. HasFiles(r, n) /\ call'[r].asks.walks = call[r].asks.walks
    BY <1>4, <1>b, <1>f
  <2>b. Emptied(r)' = Emptied(r)
    BY DEF Emptied
  <2>1. CASE t.at = "walk" /\ Moves(r, p, "saving") /\ Put("walk", n, Emptied(r))
    <3>1. HasFiles(r, n)'
      BY <1>a, <1>j, <2>1, <2>b DEF HasFiles, Moves, Put
    <3>2. disk'["json"][n] = disk["json"][n]
      BY <1>a, <2>1 DEF Put
    <3> QED
      BY <1>3, <1>4, <3>1, <3>2
  <2>2. CASE t.at = "load" /\ (Moves(r, p, "policy") \/ Moves(r, p, "json")) /\ UNCHANGED disk
    <3>1. HasFiles(r, n)'
      BY <1>a, <1>j, <1>f, <2>2, <2>a DEF HasFiles, Moves, OrderOf, Early
    <3> QED
      BY <1>3, <1>4, <2>2, <3>1
  <2>3. CASE t.at = "policy" /\ Moves(r, p, "fixing") /\ Put("fix", n, Emptied(r))
    <3>1. HasFiles(r, n)'
      BY <1>a, <1>j, <2>3, <2>a, <2>b DEF HasFiles, HasWritten, Moves, Put
    <3>2. disk'["json"][n] = disk["json"][n]
      BY <1>a, <2>3 DEF Put
    <3> QED
      BY <1>3, <1>4, <3>1, <3>2
  <2>4. CASE t.at = "policy" /\ Moves(r, p, "json") /\ UNCHANGED disk
    <3>1. HasFiles(r, n)'
      BY <1>a, <1>j, <1>f, <2>4, <2>a DEF HasFiles, HasWritten, Moves, OrderOf, Early
    <3> QED
      BY <1>3, <1>4, <2>4, <3>1
  <2>5. CASE t.at = "json" /\ Moves(r, p, "jsoning") /\ Put("json", n, Emptied(r))
    <3>1. HasFiles(r, n)'
      BY <1>a, <1>j, <2>5, <2>a, <2>b DEF HasFiles, HasWritten, Moves, Put
    <3>2. Tells(n)'
      BY <1>h, <2>5 DEF Tells, Put
    <3> QED
      BY <3>1, <3>2
  <2>6. ASSUME t.at \in {"saving", "fixing", "jsoning"}, u.at = After(t),
               u.fixed = (t.fixed \/ t.at = "fixing"), NEW text \in {"part", "whole"},
               text = "part" => disk[Writes(t)][n].text # "empty",
               Put(Writes(t), n, [by |-> r, text |-> text, says |-> Says(t)])
        PROVE  HasFiles(r, n)' /\ Tells(n)'
    <3> DEFINE file == [by |-> r, text |-> text, says |-> Says(t)]
    <3>1. disk[Writes(t)][n] = Emptied(r)
      BY <1>a, <1>j, <2>6, <2>a DEF HasFiles, Writes
    <3>2. text = "whole"
      BY <1>h, <2>6, <3>1
    <3>3. file.by = r /\ file.text = "whole" /\ file.says = Says(t)
      BY <3>2
    <3>4. Put(Writes(t), n, file)
      BY <2>6
    <3> HIDE DEF file
    <3>5. CASE t.at = "saving"
      <4>1. Writes(t) = "walk" /\ u.at \in {"policy", "json"} /\ ~u.fixed
        BY <1>f, <2>6, <3>5 DEF Writes, After, OrderOf, Early
      <4>2. HasFiles(r, n)' /\ disk'["json"][n] = disk["json"][n]
        BY <1>a, <1>j, <3>3, <3>4, <4>1 DEF HasFiles, HasWritten, Put
      <4> QED
        BY <1>3, <1>4, <4>2
    <3>6. CASE t.at = "fixing"
      <4>1. Writes(t) = "fix" /\ u.at = "json"
        BY <2>6, <3>6 DEF Writes, After
      <4>2. HasFiles(r, n)' /\ disk'["json"][n] = disk["json"][n]
        BY <1>a, <1>j, <2>a, <3>3, <3>4, <3>6, <4>1 DEF HasFiles, HasWritten, Put
      <4> QED
        BY <1>3, <1>4, <4>2
    <3>7. CASE t.at = "jsoning"
      <4>1. Writes(t) = "json" /\ Says(t) = t.fixed /\ u.at = "close"
        BY <2>6, <3>7 DEF Writes, Says, SaysFixed, After
      <4>2. HasFiles(r, n)'
        BY <1>a, <1>j, <4>1 DEF HasFiles
      <4>3. /\ t.fixed => HasWritten(r, n, "fix")'
            /\ call[r].asks.walks => HasWritten(r, n, "walk")'
        BY <1>a, <1>j, <2>a, <3>4, <3>7, <4>1 DEF HasFiles, HasWritten, Put
      <4>4. disk'["json"][n] = file
        BY <3>4, <4>1 DEF Put
      <4> QED
        BY <2>a, <3>3, <4>1, <4>2, <4>3, <4>4 DEF Tells, Beside
    <3> QED
      BY <2>6, <3>5, <3>6, <3>7
  <2>7. CASE /\ t.at \in {"saving", "fixing", "jsoning"} /\ Moves(r, p, "fail")
             /\ Put(Writes(t), n, [by |-> r, text |-> "part", says |-> Says(t)])
    <3>1. HasFiles(r, n)'
      BY <1>a, <1>j, <2>7 DEF HasFiles, Moves
    <3>2. CASE t.at = "jsoning"
      <4>1. disk'["json"][n].text = "part"
        BY <2>7, <3>2 DEF Put, Writes
      <4> QED
        BY <3>1, <4>1 DEF Tells
    <3>3. CASE t.at # "jsoning"
      <4>1. disk'["json"][n] = disk["json"][n]
        BY <1>a, <2>7, <3>3 DEF Put, Writes
      <4> QED
        BY <1>3, <1>4, <3>1, <4>1
    <3> QED
      BY <3>2, <3>3
  <2>8. CASE t.at \in {"walk", "load", "policy", "json"} /\ Moves(r, p, "fail") /\ UNCHANGED disk
    <3>1. HasFiles(r, n)'
      BY <1>a, <1>j, <2>8 DEF HasFiles, Moves
    <3> QED
      BY <1>3, <1>4, <2>8, <3>1
  <2> QED
    BY <1>k, <2>1, <2>2, <2>3, <2>4, <2>5, <2>6, <2>7, <2>8
<1> QED
  BY <1>1, <1>2, <1>4, <1>a, <1>b, <1>c, <1>e, <1>j, <1>n, FilesOfThread

\* A thread that starts may find another one at work on its artifacts, and notes it; one that ends
\* leaves what it has written.
LEMMA EndsKeepFiles ==
  ASSUME IInv, FileInv, NEW r \in Run, NEW p \in Path, Begin(r, p) \/ Close(r, p) PROVE FileInv'
<1> DEFINE t == task[r][p]
           u == task'[r][p]
<1>n. PICK n \in Name : n = NameOf(r, p)
  <2>1. NameOf(r, p) \in Name
    BY DEF NameOf, NameIn, Name
  <2> QED
    BY <2>1
<1>a. TypeOK /\ Types /\ t \in TaskRow
  BY TypeIs DEF IInv, Types, TaskType
<1>b. Only(r, p) /\ UNCHANGED <<call, disk>> /\ crossed \subseteq crossed'
  BY <1>a, BeginIs, CloseIs DEF Begin, Close
<1>c. /\ t.at \in {"queued", "close", "fail"} /\ u.fixed = t.fixed
      /\ u.at \in {"walk", "load", "ok", "failed"}
      /\ u.at \in {"walk", "load"} => t.at = "queued" /\ (u.at = "walk" <=> call[r].asks.walks)
      /\ u.at \in {"ok", "failed"} => t.at \in {"queued", "close", "fail"}
      /\ u.at = "ok" <=> t.at = "close"
  <2>1. task \in TaskType
    BY <1>a DEF Types
  <2>2. ASSUME NEW label \in {"ok", "failed"}, Goto(r, p, label)
        PROVE  u.at = label /\ u.fixed = t.fixed
    BY <1>a, <2>1, <2>2 DEF Goto, TaskType, TaskRow
  <2>3. CASE Begin(r, p)
    <3>1. CASE Goto(r, p, "failed")
      BY <2>2, <2>3, <3>1 DEF Begin
    <3>2. CASE ~Goto(r, p, "failed")
      <4> DEFINE label == IF call[r].asks.walks THEN "walk" ELSE "load"
      <4>1. task' = [task EXCEPT ![r][p].at = label, ![r][p].port = TaskPort(r, p)]
        BY <2>3, <3>2 DEF Begin
      <4> HIDE DEF label
      <4>2. u.at = label /\ u.fixed = t.fixed
        BY <1>a, <2>1, <4>1 DEF TaskType, TaskRow
      <4> QED
        BY <2>3, <4>2 DEF Begin, label
    <3> QED
      BY <3>1, <3>2
  <2>4. CASE Close(r, p)
    BY <2>2, <2>4 DEF Close
  <2> QED
    BY <2>3, <2>4
<1>j. p \in Asked(r) /\ Holds(r, n) /\ PathOf(r, n) = p /\ Thread(r, n) = t /\ Thread(r, n)' = u
  <2>1. p \in Asked(r)
    BY <1>c DEF IInv, Assigned
  <2>2. Holds(r, n) /\ PathOf(r, n) = p
    BY <1>a, <1>n, <2>1, PathIs
  <2> QED
    BY <1>b, <2>1, <2>2, SameCall DEF Thread
<1>d. \A s \in Run : Holds(s, n)' <=> Holds(s, n)
  BY <1>b, SameCall
<1>e. \A s \in Run \ {r} : WorksOn(s, n) => n \in crossed'
  <2>1. CASE Begin(r, p)
    <3> SUFFICES ASSUME NEW s \in Run \ {r}, WorksOn(s, n) PROVE n \in crossed'
      OBVIOUS
    <3>1. \E q \in Path : task[s][q].at \in Busy /\ NameOf(s, q) = n
      BY <1>a, HoldsIs DEF WorksOn, Thread
    <3> QED
      BY <1>n, <2>1, <3>1 DEF Begin
  <2>2. CASE Close(r, p)
    <3>1. WorksOn(r, n)
      BY <1>j, <2>2 DEF Close, WorksOn, Busy
    <3> QED
      BY <1>b, <3>1 DEF FileInv, Exclusive
  <2> QED
    BY <2>1, <2>2
<1>f. /\ OrderOf(r, p) /\ SignedAt(n) /\ (n \notin crossed' => Tells(n))
  BY <1>b DEF FileInv, InOrder, Signed, AllTell
<1>g. \A k \in Kind : disk[k][n].by \in Run \cup {None}
  <2>1. \A k \in Kind : disk[k][n] \in File
    BY <1>a DEF Types
  <2> QED
    BY <2>1 DEF File
<1>i. \A s \in Run \ {r} : Holds(s, n) => Thread(s, n)' = Thread(s, n)
  BY <1>a, <1>b, SameCall, HoldsIs DEF Only, Thread
<1>l. \A s \in Run \ {r} : Holds(s, n) => (Summarised(s, n)' <=> Summarised(s, n))
  BY <1>a, <1>b, <1>i, SameCall, SummarisedIs
<1>m. /\ Summarised(r, n)' <=> u.at \in {"close", "ok"}
      /\ Summarised(r, n) <=> t.at \in {"close", "ok"}
      /\ ~Summarised(None, n) /\ ~Summarised(None, n)'
  <2>1. ~Summarised(None, n) /\ ~Summarised(None, n)'
    BY DEF Summarised
  <2> QED
    BY <1>a, <1>b, <1>j, <2>1, SummarisedIs
<1>1. OrderOf(r, p)'
  BY <1>b, <1>c, <1>f DEF OrderOf, Early
<1>2. SignedAt(n)'
  <2> SUFFICES ASSUME NEW k \in Kind, NEW s, s = disk[k][n].by
               PROVE  /\ s # None => Holds(s, n)' /\ Thread(s, n).at' \in Past(k)
                      /\ k = "json" /\ disk[k][n].text = "whole" =>
                           s # None /\ Thread(s, n).at' \in {"close", "ok", "dead"}
    BY <1>b, Zenon DEF SignedAt
  <2>1. /\ s # None => s \in Run /\ Holds(s, n) /\ Thread(s, n).at \in Past(k)
        /\ k = "json" /\ disk[k][n].text = "whole" =>
             s # None /\ Thread(s, n).at \in {"close", "ok", "dead"}
    BY <1>f, <1>g DEF SignedAt
  <2>2. s # None => Holds(s, n)'
    BY <1>d, <2>1
  <2>3. CASE s = r
    <3>1. t.at \in Past(k) => t.at # "queued" /\ u.at \in Past(k)
      BY <1>c DEF Past
    <3> QED
      BY <1>c, <1>j, <2>1, <2>2, <2>3, <3>1
  <2>4. CASE s # r
    BY <1>i, <2>1, <2>2, <2>4
  <2> QED
    BY <2>3, <2>4
<1>3. ASSUME n \notin crossed' PROVE Tells(n)'
  <2>1. ASSUME NEW s \in Run \cup {None}, s # None => Holds(s, n)
        PROVE  Summarised(s, n)' <=> Summarised(s, n)
    <3>1. CASE s = r
      BY <1>c, <1>m, <3>1
    <3>2. CASE s # r
      BY <1>l, <1>m, <2>1, <3>2
    <3> QED
      BY <3>1, <3>2
  <2>2. ASSUME NEW k \in Kind, Beside(n, k) PROVE Beside(n, k)'
    <3>1. Summarised(disk[k][n].by, n)' <=> Summarised(disk[k][n].by, n)
      <4>1. PICK s \in Run \cup {None} : s = disk[k][n].by /\ s = disk'[k][n].by
        BY <1>b, <1>g
      <4>2. s # None => Holds(s, n)
        BY <1>f, <4>1 DEF SignedAt
      <4>3. Summarised(disk[k][n].by, n)' <=> Summarised(s, n)'
        BY <4>1
      <4> QED
        BY <2>1, <4>1, <4>2, <4>3
    <3> QED
      BY <1>b, <2>2, <3>1 DEF Beside, HasWritten
  <2>3. "fix" \in Kind /\ "walk" \in Kind
    BY DEF Kind
  <2> QED
    BY <1>3, <1>b, <1>f, <2>2, <2>3 DEF Tells
<1>4. u.at \in Busy => HasFiles(r, n)'
  BY <1>c, <1>j DEF HasFiles, Busy
<1> QED
  BY <1>1, <1>2, <1>3, <1>4, <1>a, <1>b, <1>e, <1>j, <1>n, FilesOfThread

\* The steps of a call keep the invariant: its threads stop or wait, and its files stay.
LEMMA CallsKeepFiles ==
  ASSUME IInv, FileInv, UNCHANGED <<disk, crossed>>, NEW r \in Run,
         \A s \in Run : s # r => call'[s] = call[s] /\ task'[s] = task[s],
         \A p \in Path : \/ task'[r][p] = task[r][p]
                         \/ /\ task[r][p].at = "none" /\ task'[r][p].at \in {"none", "queued"}
                            /\ ~task'[r][p].fixed
                         \/ task'[r][p].at = "dead",
         \/ Asked(r)' \subseteq Path /\ \A p \in Path : task[r][p].at = "none"
         \/ call'[r].asks = call[r].asks
  PROVE  FileInv'
<1>a. {"walk", "fix", "json"} = Kind /\ TypeOK
  BY DEF Kind, IInv
<1>b. ASSUME NEW s \in Run, NEW q \in Path, task[s][q].at # "none"
      PROVE  call'[s].asks = call[s].asks
  BY <1>b
<1>g. ASSUME NEW s \in Run, NEW n \in Name, Holds(s, n)
      PROVE  /\ call'[s].asks = call[s].asks /\ PathOf(s, n) \in Path
             /\ Holds(s, n)' /\ Thread(s, n)' = task'[s][PathOf(s, n)]
  <2>1. PathOf(s, n) \in Path /\ task[s][PathOf(s, n)].at # "none"
    BY <1>a, <1>g, HoldsIs DEF IInv, Assigned
  <2>2. call'[s].asks = call[s].asks
    BY <1>b, <2>1
  <2> QED
    BY <1>g, <2>1, <2>2, SameCall
<1>c. \A s \in Run : \A q \in Path :
        /\ task'[s][q].at \in Busy => task'[s][q] = task[s][q]
        /\ task'[s][q] # task[s][q] => task'[s][q].at \in {"none", "queued", "dead"}
  BY DEF Busy
<1>d. ASSUME NEW s \in Run, NEW n \in Name, WorksOn(s, n)'
      PROVE  WorksOn(s, n) /\ Thread(s, n)' = Thread(s, n) /\ call'[s].asks = call[s].asks
  <2>1. call'[s].asks = call[s].asks
    <3>1. CASE \A p \in Path : task[s][p].at = "none"
      <4>1. \A p \in Path : task'[s][p].at \notin Busy
        BY <1>c, <3>1 DEF Busy
      <4>2. PathOf(s, n)' \in Asked(s)' /\ task'[s][PathOf(s, n)'].at \in Busy
        BY <1>d DEF WorksOn, Holds, PathOf, Thread
      <4>3. CASE Asked(s)' \subseteq Path
        BY <4>1, <4>2, <4>3
      <4>4. CASE ~(Asked(s)' \subseteq Path)
        BY <4>4
      <4> QED
        BY <4>3, <4>4
    <3>2. CASE \E p \in Path : task[s][p].at # "none"
      BY <3>2
    <3> QED
      BY <3>1, <3>2
  <2>2. Holds(s, n) /\ Thread(s, n)' = task'[s][PathOf(s, n)]
    BY <1>d, <2>1, SameCall DEF WorksOn
  <2>3. Thread(s, n)' = Thread(s, n)
    BY <1>c, <1>d, <1>g, <2>2 DEF WorksOn, Thread
  <2> QED
    BY <1>d, <2>1, <2>2, <2>3 DEF WorksOn
<1>e. ASSUME NEW n \in Name, NEW k \in Kind, disk[k][n].by # None
      PROVE  /\ disk[k][n].by \in Run /\ Thread(disk[k][n].by, n).at \in Past(k)
             /\ Holds(disk[k][n].by, n)
  <2>1. disk[k][n] \in File
    BY TypeIs DEF IInv, Types
  <2> QED
    BY <1>e, <2>1 DEF File, FileInv, Signed, SignedAt
<1>f. ASSUME NEW s \in Run, NEW n \in Name, NEW k \in Kind, Holds(s, n),
             Thread(s, n).at \in Past(k)
      PROVE  /\ Thread(s, n).at' \in Past(k) /\ Thread(s, n).at # "none"
             /\ Thread(s, n).at \in {"close", "ok", "dead"} =>
                  Thread(s, n).at' \in {"close", "ok", "dead"}
             /\ Thread(s, n).at' \in {"close", "ok"} => Thread(s, n).at \in {"close", "ok"}
  <2>1. Thread(s, n).at # "none"
    BY <1>f DEF Past
  <2>2. Thread(s, n)' = Thread(s, n) \/ Thread(s, n).at' = "dead"
    BY <1>f, <1>g, <2>1 DEF Thread
  <2>3. "dead" \in Past(k)
    BY DEF Past
  <2> QED
    BY <1>f, <2>1, <2>2, <2>3
<1>1. Exclusive'
  BY <1>d DEF FileInv, Exclusive
<1>2. InOrder'
  <2> SUFFICES ASSUME NEW s \in Run, NEW q \in Path PROVE OrderOf(s, q)'
    BY DEF InOrder
  <2>1. OrderOf(s, q)
    BY DEF FileInv, InOrder
  <2>2. CASE task'[s][q] = task[s][q]
    <3>1. CASE task[s][q].at = "none"
      BY <2>1, <2>2, <3>1 DEF OrderOf
    <3>2. CASE task[s][q].at # "none"
      BY <1>b, <2>1, <2>2, <3>2 DEF OrderOf
    <3> QED
      BY <3>1, <3>2
  <2>3. CASE task'[s][q] # task[s][q]
    <3>1. \/ task'[s][q].at \in {"none", "queued"} /\ ~task'[s][q].fixed
          \/ task'[s][q].at = "dead"
      BY <2>3
    <3> QED
      BY <3>1 DEF OrderOf, Early
  <2> QED
    BY <2>2, <2>3
<1>3. Signed'
  <2> SUFFICES ASSUME NEW n \in Name, NEW k \in Kind, NEW s, s = disk[k][n].by
               PROVE  /\ s # None => Holds(s, n)' /\ Thread(s, n).at' \in Past(k)
                      /\ k = "json" /\ disk[k][n].text = "whole" =>
                           s # None /\ Thread(s, n).at' \in {"close", "ok", "dead"}
    BY Zenon DEF Signed, SignedAt
  <2>1. s # None => /\ s \in Run /\ Thread(s, n).at \in Past(k) /\ Holds(s, n)
    BY <1>e
  <2>2. s # None => Holds(s, n)' /\ Thread(s, n).at' \in Past(k)
    BY <1>f, <1>g, <2>1
  <2>3. k = "json" /\ disk[k][n].text = "whole" => s # None /\ Thread(s, n).at \in {"close", "ok", "dead"}
    BY DEF FileInv, Signed, SignedAt
  <2> QED
    BY <1>f, <2>1, <2>2, <2>3
<1>4. FilesInPlace'
  <2> SUFFICES ASSUME NEW n \in Name \ crossed, NEW s \in Run, WorksOn(s, n)' PROVE HasFiles(s, n)'
    BY DEF FilesInPlace
  <2>1. HasFiles(s, n) /\ Thread(s, n)' = Thread(s, n) /\ call'[s].asks = call[s].asks
    BY <1>d DEF FileInv, FilesInPlace
  <2> QED
    BY <2>1 DEF HasFiles, HasWritten, Emptied
<1>5. AllTell'
  <2> SUFFICES ASSUME NEW n \in Name \ crossed PROVE Tells(n)'
    BY DEF AllTell
  <2>1. Tells(n)
    BY DEF FileInv, AllTell
  <2>2. ASSUME NEW k \in Kind, Beside(n, k) PROVE Beside(n, k)'
    <3>1. Summarised(disk[k][n].by, n)' => Summarised(disk[k][n].by, n)
      <4>1. PICK s : s = disk[k][n].by
        OBVIOUS
      <4>2. Summarised(disk[k][n].by, n)' <=> Summarised(s, n)'
        BY <4>1
      <4>3. CASE s = None
        BY <4>2, <4>3 DEF Summarised
      <4>4. CASE s # None
        <5>1. s \in Run /\ Holds(s, n) /\ Thread(s, n).at \in Past(k)
          BY <1>e, <4>1, <4>4
        <5>2. Thread(s, n).at' \in {"close", "ok"} => Thread(s, n).at \in {"close", "ok"}
          BY <1>f, <5>1
        <5>3. Summarised(s, n)' => Summarised(s, n)
          BY <1>a, <1>g, <5>1, <5>2, SummarisedIs
        <5> QED
          BY <4>1, <4>2, <5>3
      <4> QED
        BY <4>3, <4>4
    <3> QED
      BY <2>2, <3>1 DEF Beside, HasWritten
  <2>3. disk["json"][n].text = "whole" => call'[disk["json"][n].by].asks = call[disk["json"][n].by].asks
    <3> SUFFICES ASSUME disk["json"][n].text = "whole"
                 PROVE  call'[disk["json"][n].by].asks = call[disk["json"][n].by].asks
      OBVIOUS
    <3>1. disk["json"][n].by # None
      BY <1>a DEF FileInv, Signed, SignedAt
    <3> QED
      BY <1>a, <1>e, <1>g, <3>1
  <2> QED
    BY <1>a, <2>1, <2>2, <2>3 DEF Tells
<1> QED
  BY <1>1, <1>2, <1>3, <1>4, <1>5 DEF FileInv

\* Every step keeps the invariant.
LEMMA StepFiles == IInv /\ FileInv /\ [Next]_vars => FileInv'
<1> SUFFICES ASSUME IInv, FileInv, [Next]_vars PROVE FileInv'
  OBVIOUS
<1>a. Types
  BY TypeIs DEF IInv
<1>1. ASSUME NEW r \in Run, NEW q \in Requests[r], Call(r, q) PROVE FileInv'
  <2>1. /\ \A s \in Run : s # r => call'[s] = call[s] /\ task'[s] = task[s]
        /\ \A p \in Path : task'[r][p].at \in {"none", "queued"} /\ ~task'[r][p].fixed
    <3>1. task'[r] = [p \in Path |-> IF p \in q.paths THEN [NoTask EXCEPT !.at = "queued"] ELSE NoTask]
      BY <1>1, <1>a DEF Call, Types, TaskType
    <3>2. /\ NoTask.at = "none" /\ [NoTask EXCEPT !.at = "queued"].at = "queued"
          /\ ~NoTask.fixed /\ ~[NoTask EXCEPT !.at = "queued"].fixed
      BY DEF NoTask
    <3> QED
      BY <1>1, <1>a, <3>1, <3>2 DEF Call, Types, TaskType
  <2>2. \A p \in Path : task[r][p].at = "none"
    <3>1. Asked(r) = {}
      BY <1>1, <1>a DEF Call, Types, Asked
    <3> QED
      BY <3>1 DEF IInv, Assigned
  <2>3. UNCHANGED <<disk, crossed>>
    BY <1>1 DEF Call
  <2>4. \A p \in Path : task[r][p].at = "none" /\ task'[r][p].at \in {"none", "queued"} /\ ~task'[r][p].fixed
    BY <2>1, <2>2
  <2>5. \A s \in Run : s # r => call'[s] = call[s] /\ task'[s] = task[s]
    BY <2>1
  <2>6. Asked(r)' \subseteq Path
    <3>1. call'[r].asks = q /\ q \in Asks
      BY <1>1, <1>a DEF Call, Types, CallRow, Asks
    <3> QED
      BY <3>1, AsksAreRequests DEF Asked
  <2> QED
    BY <2>2, <2>3, <2>4, <2>5, <2>6, CallsKeepFiles
<1>2. ASSUME NEW r \in Run, CallStep(r) PROVE FileInv'
  <2>1. UNCHANGED <<task, disk, crossed>> /\ \A s \in Run : s # r => call'[s] = call[s]
    BY <1>2, <1>a DEF CallStep, Leave, Take, PutResult, Types
  <2>2. call'[r].asks = call[r].asks
    <3>1. call[r] \in CallRow /\ call \in [Run -> CallRow]
      BY <1>a DEF Types
    <3> QED
      BY <1>2, <3>1 DEF CallStep, Leave, Take, PutResult, CallRow
  <2> QED
    BY <2>1, <2>2, CallsKeepFiles
<1>3. ASSUME NEW r \in Run, NEW p \in Path, TaskStep(r, p) PROVE FileInv'
  BY <1>3, WorkKeepsFiles, EndsKeepFiles DEF TaskStep, Work
<1>4. ASSUME NEW r \in Run, Kill(r) PROVE FileInv'
  <2>1. /\ \A s \in Run : s # r => call'[s] = call[s] /\ task'[s] = task[s]
        /\ call'[r].asks = call[r].asks /\ UNCHANGED <<disk, crossed>>
    BY <1>4, <1>a DEF Kill, Types, CallRow
  <2>2. \A p \in Path : task'[r][p] = task[r][p] \/ task'[r][p].at = "dead"
    <3>1. \A p \in Path : [task[r][p] EXCEPT !.at = "dead"].at = "dead"
      BY <1>a DEF Types, TaskType, TaskRow
    <3> QED
      BY <1>4, <1>a, <3>1 DEF Kill, Types, TaskType
  <2> QED
    BY <2>1, <2>2, CallsKeepFiles
<1>5. CASE UNCHANGED vars
  <2>1. CASE Run # {}
    BY <1>5, <2>1, CallsKeepFiles DEF vars
  <2>2. CASE Run = {}
    <3>1. \A k \in Kind : \A n \in Name : disk[k][n].by = None
      <4>1. \A k \in Kind : \A n \in Name : disk[k][n] \in File
        BY <1>a DEF Types
      <4> QED
        BY <2>2, <4>1 DEF File
    <3>2. UNCHANGED disk /\ "json" \in Kind
      BY <1>5 DEF vars, Kind
    <3>3. \A n \in Name : disk["json"][n].text # "whole"
      BY <3>1, <3>2 DEF FileInv, Signed, SignedAt
    <3> QED
      BY <2>2, <3>1, <3>2, <3>3 DEF FileInv, Exclusive, InOrder, Signed, SignedAt, FilesInPlace, AllTell, Tells
  <2> QED
    BY <2>1, <2>2
<1> QED
  BY <1>1, <1>2, <1>3, <1>4, <1>5 DEF Next

\* SummaryTellsFiles: whatever runs of a day share the names of their artifacts, and wherever each
\* of them fails or is killed, a summary on disk that says a script was written lies beside that
\* script, and that of a live walk beside its transcript, unless a later run came no further than
\* between the files or two of them worked side by side (write_text in process_path).
THEOREM SummariesTellFiles == Spec => []SummaryTellsFiles
<1>1. Init => FileInv
  <2> SUFFICES ASSUME Init PROVE FileInv
    OBVIOUS
  <2>1. /\ \A r \in Run : \A p \in Path : task[r][p].at = "none" /\ ~task[r][p].fixed
        /\ \A k \in Kind : \A n \in Name : disk[k][n].by = None /\ disk[k][n].text = "absent"
        /\ "json" \in Kind /\ \A r \in Run : Asked(r) = {}
    BY DEF Init, NoTask, Absent, Kind, Asked
  <2>2. \A r \in Run : \A n \in Name : ~WorksOn(r, n)
    BY <2>1 DEF WorksOn, Holds
  <2> QED
    BY <2>1, <2>2 DEF FileInv, Exclusive, InOrder, OrderOf, Signed, SignedAt, FilesInPlace, AllTell, Tells
<1>2. FileInv /\ IInv => SummaryTellsFiles
  BY TellsIs DEF FileInv, IInv
<1> QED
  BY <1>1, <1>2, StepFiles, Invariance, PTL DEF Spec
=============================================================================
