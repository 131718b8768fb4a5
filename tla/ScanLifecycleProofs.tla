------------------------ MODULE ScanLifecycleProofs ------------------------
(***************************************************************************)
(* Proofs about ScanLifecycle for any number of requests, keys, crashes    *)
(* and failed commits.                                                     *)
(***************************************************************************)
EXTENDS ScanLifecycle, TLAPS

(***************************************************************************)
(* The inductive invariant.  TypeOK is not inductive: that a run past its  *)
(* insert holds a key is needed to say that what it writes is a row.       *)
(***************************************************************************)

\* A run has no scan key before its insert, and one from its insert on.
HoldsKey ==
  \A r \in Run : /\ pc[r] \in {"idle", "found", "clear", "refused"} => sid[r] = None
                 /\ pc[r] \in Working \cup {"skipped", "ended"} => sid[r] \in ScanId

\* A row was inserted by the run it names, under the key that run holds, for its target.
RowsHaveMakers ==
  \A s \in ScanId : Present(s) => /\ s \in used
                                  /\ scans[s].by \in Run
                                  /\ sid[scans[s].by] = s
                                  /\ scans[s].target = tid[scans[s].by]

\* Alias rows are written under the key their run holds; the keys runs hold have been used,
\* and two runs hold the same one only if it was given out twice.
KeysAreUsed ==
  /\ \A r \in Run : sid[r] # None => sid[r] \in used
  /\ \A a \in aliases : sid[a.by] = a.scan
  /\ ~reused => \A q, r \in Run : q # r /\ sid[q] # None => sid[q] # sid[r]

\* A delete request removes alias rows of scans it removes, and no others.
DeletesWhole == \A d \in Deleter : \A a \in del[d].aliases : a.scan \in del[d].scans

KeyInv == HoldsKey /\ RowsHaveMakers /\ KeysAreUsed /\ DeletesWhole

\* A row without its target is recorded as such.
DanglingNoted == \A s \in PresentIds : scans[s].target \in targets \/ s \in dangled

\* IsAttended, told apart by how far the run is: before it starts only the run that made
\* the row counts, because any other one may still find its own target missing and return.
Attends(r, s) == /\ sid[r] = s
                 /\ \/ pc[r] \in Phase \cup {"lost"}
                    \/ pc[r] \in Working /\ scans[s].by = r
Attention ==
  \A s \in ScanId : scans[s].status \in Active /\ s \notin dangled => \E r \in Run : Attends(r, s)

\* What a row tells, and that the aliases are in place when the SQL is generated.
Telling ==
  ~reused => /\ \A s \in PresentIds : RowTells(scans[s], scans[s].by)
             /\ \A r \in Run : pc[r] = "emit" /\ Present(sid[r]) => OwnAliases(r) \subseteq aliases

\* What a check found stays over, from the moment the check let the request pass.
Settled ==
  ~reused => \A r \in WebRun : pc[r] = "clear" \/ sid[r] # None =>
    \A q \in saw[r] \ {None} :
      sid[q] \in ScanId /\ (tid[q] = tid[r] => scans[sid[q]].status \notin Active)

IInv == TypeOK /\ KeyInv /\ DanglingNoted /\ Attention /\ Telling /\ Settled

USE DEF vars, rows, env, aux, Goto, WriteRow, OwnAliases

\* The phase that follows a phase is a phase.
LEMMA AfterIsPhase == \A p \in DOMAIN After : p \in Phase /\ After[p] \in Phase
  BY DEF After, Phase

\* Every step keeps every variable in its type: a run past its insert holds a key, so a row it
\* writes back with other columns set is still a row.
LEMMA TypeStep == TypeOK /\ HoldsKey /\ [Next]_vars => TypeOK'
<1> SUFFICES ASSUME TypeOK, HoldsKey, [Next]_vars PROVE TypeOK'
  OBVIOUS
<1> USE DEF TypeOK, HoldsKey, Run, PC, Working, Phase
<1>1. ASSUME NEW r \in Run, NEW t \in TargetId, SelectTarget(r, t) PROVE TypeOK'
  BY <1>1 DEF SelectTarget
<1>2. ASSUME NEW r \in Run, CheckActive(r) PROVE TypeOK'
  BY <1>2 DEF CheckActive, ScanRow, PresentIds
<1>3. ASSUME NEW r \in Run, Insert(r) PROVE TypeOK'
  BY <1>3 DEF Insert, PendingRow, ScanRow, Progress, Status, Active, Terminal
<1>4. ASSUME NEW r \in Run, Queue(r) PROVE TypeOK'
  BY <1>4 DEF Queue
<1>5. ASSUME NEW r \in Run, LoadRows(r) PROVE TypeOK'
  BY <1>5 DEF LoadRows
<1>6. ASSUME NEW r \in Run, Refresh(r) PROVE TypeOK'
  BY <1>6 DEF Refresh
<1>7. ASSUME NEW r \in Run, Start(r) PROVE TypeOK'
  <2>1. sid[r] \in ScanId /\ scans[sid[r]] \in ScanRow
    BY <1>7 DEF Start
  <2>2. [scans[sid[r]] EXCEPT !.status = "running", !.progress = "connect"] \in ScanRow
    BY <2>1, <1>7 DEF Start, ScanRow, Progress, Status, Active, Terminal
  <2> QED
    BY <2>1, <2>2, <1>7 DEF Start
<1>8. ASSUME NEW r \in Run, NextPhase(r) PROVE TypeOK'
  <2>1. sid[r] \in ScanId /\ scans[sid[r]] \in ScanRow /\ pc[r] \in Phase
    BY <1>8, AfterIsPhase DEF NextPhase
  <2>2. [scans[sid[r]] EXCEPT !.progress = After[pc[r]]] \in ScanRow
    BY <2>1, <1>8, AfterIsPhase DEF NextPhase, ScanRow, Progress
  <2>3. aliases' \subseteq [scan : ScanId, by : Run]
    BY <2>1, <1>8 DEF NextPhase
  <2> QED
    BY <2>1, <2>2, <2>3, <1>8, AfterIsPhase DEF NextPhase
<1>9. ASSUME NEW r \in Run, Complete(r) PROVE TypeOK'
  <2>1. sid[r] \in ScanId /\ scans[sid[r]] \in ScanRow
    BY <1>9 DEF Complete
  <2>2. [scans[sid[r]] EXCEPT !.status = "completed", !.progress = None, !.result = r] \in ScanRow
    BY <2>1, <1>9 DEF Complete, ScanRow, Progress, Status, Active, Terminal
  <2> QED
    BY <2>1, <2>2, <1>9 DEF Complete
<1>10. ASSUME NEW r \in Run, Fail(r) PROVE TypeOK'
  <2>1. sid[r] \in ScanId /\ scans[sid[r]] \in ScanRow
    BY <1>10 DEF Fail
  <2>2. [scans[sid[r]] EXCEPT !.status = "failed", !.progress = None, !.error = TRUE] \in ScanRow
    BY <2>1, <1>10 DEF Fail, ScanRow, Progress, Status, Active, Terminal
  <2> QED
    BY <2>1, <2>2, <1>10 DEF Fail
<1>11. ASSUME NEW r \in Run, RowGone(r) PROVE TypeOK'
  BY <1>11 DEF RowGone
<1>12. ASSUME NEW r \in Run, CommitFails(r) PROVE TypeOK'
  BY <1>12, BoundsAssumption DEF CommitFails
<1>13. ASSUME NEW r \in Run, KillCommand(r) PROVE TypeOK'
  BY <1>13, BoundsAssumption DEF KillCommand
<1>14. ASSUME NEW t \in TargetId, CreateTarget(t) PROVE TypeOK'
  BY <1>14 DEF CreateTarget
<1>15. ASSUME NEW d \in Deleter, NEW t \in TargetId, DeleteSelect(d, t) PROVE TypeOK'
  BY <1>15 DEF DeleteSelect, NoDelete
<1>16. ASSUME NEW d \in Deleter, DeleteCascade(d) PROVE TypeOK'
  BY <1>16 DEF DeleteCascade
<1>17. ASSUME NEW d \in Deleter, DeleteCommit(d) PROVE TypeOK'
  BY <1>17 DEF DeleteCommit, NoDelete, AbsentRow, PresentIds, ScanRow, Progress, Status, Active,
     Terminal
<1>18. CASE CrashServer
  <2>1. pc' \in [Run -> PC]
    BY <1>18 DEF CrashServer
  <2>2. ASSUME NEW d \in Deleter
        PROVE  del'[d] \in [at : {"idle", "found", "loaded", "done"}, tid : TargetId \cup {None},
                            scans : SUBSET ScanId, aliases : SUBSET [scan : ScanId, by : Run]]
    BY <1>18 DEF CrashServer, NoDelete
  <2>3. crashes' \in 0 .. MaxCrashes
    <3>1. crashes \in 0 .. MaxCrashes /\ crashes < MaxCrashes /\ crashes' = crashes + 1
      BY <1>18 DEF CrashServer
    <3> HIDE DEF TypeOK, HoldsKey
    <3> QED
      BY <3>1, BoundsAssumption
  <2>4. del' = [d \in Deleter |-> del'[d]]
    BY <1>18 DEF CrashServer
  <2> QED
    BY <2>1, <2>2, <2>3, <2>4, <1>18 DEF CrashServer
<1>19. CASE UNCHANGED vars
  BY <1>19
<1>20. ASSUME NEW r \in Run, ReadTarget(r) PROVE TypeOK'
  BY <1>20 DEF ReadTarget
<1> QED
  BY <1>1, <1>2, <1>3, <1>4, <1>5, <1>6, <1>7, <1>8, <1>9, <1>10,
     <1>11, <1>12, <1>13, <1>14, <1>15, <1>16, <1>17, <1>18, <1>19, <1>20 DEF Next, RequestStep, ServiceStep

\* A run gets its key at its insert and keeps it.
LEMMA HoldsKeyStep == TypeOK /\ HoldsKey /\ [Next]_vars => HoldsKey'
<1> SUFFICES ASSUME TypeOK, HoldsKey, [Next]_vars PROVE HoldsKey'
  OBVIOUS
<1> USE DEF TypeOK, HoldsKey, Run, PC, Working, Phase
<1>1. ASSUME NEW r \in Run, NEW t \in TargetId, SelectTarget(r, t) PROVE HoldsKey'
  BY <1>1 DEF SelectTarget
<1>2. ASSUME NEW r \in Run, CheckActive(r) PROVE HoldsKey'
  BY <1>2 DEF CheckActive
<1>3. ASSUME NEW r \in Run, Insert(r) PROVE HoldsKey'
  BY <1>3 DEF Insert
<1>4. ASSUME NEW r \in Run, Queue(r) PROVE HoldsKey'
  BY <1>4 DEF Queue
<1>5. ASSUME NEW r \in Run, LoadRows(r) PROVE HoldsKey'
  BY <1>5 DEF LoadRows
<1>6. ASSUME NEW r \in Run, Refresh(r) PROVE HoldsKey'
  BY <1>6 DEF Refresh
<1>7. ASSUME NEW r \in Run, Start(r) PROVE HoldsKey'
  BY <1>7 DEF Start
<1>8. ASSUME NEW r \in Run, NextPhase(r) PROVE HoldsKey'
  BY <1>8, AfterIsPhase DEF NextPhase
<1>9. ASSUME NEW r \in Run, Complete(r) PROVE HoldsKey'
  BY <1>9 DEF Complete
<1>10. ASSUME NEW r \in Run, Fail(r) PROVE HoldsKey'
  BY <1>10 DEF Fail
<1>11. ASSUME NEW r \in Run, RowGone(r) PROVE HoldsKey'
  BY <1>11 DEF RowGone
<1>12. ASSUME NEW r \in Run, CommitFails(r) PROVE HoldsKey'
  BY <1>12 DEF CommitFails
<1>13. ASSUME NEW r \in Run, KillCommand(r) PROVE HoldsKey'
  BY <1>13 DEF KillCommand
<1>14. ASSUME NEW t \in TargetId, CreateTarget(t) PROVE HoldsKey'
  BY <1>14 DEF CreateTarget
<1>15. ASSUME NEW d \in Deleter, NEW t \in TargetId, DeleteSelect(d, t) PROVE HoldsKey'
  BY <1>15 DEF DeleteSelect
<1>16. ASSUME NEW d \in Deleter, DeleteCascade(d) PROVE HoldsKey'
  BY <1>16 DEF DeleteCascade
<1>17. ASSUME NEW d \in Deleter, DeleteCommit(d) PROVE HoldsKey'
  BY <1>17 DEF DeleteCommit
<1>18. CASE CrashServer
  BY <1>18 DEF CrashServer
<1>19. CASE UNCHANGED vars
  BY <1>19
<1>20. ASSUME NEW r \in Run, ReadTarget(r) PROVE HoldsKey'
  BY <1>20 DEF ReadTarget
<1> QED
  BY <1>1, <1>2, <1>3, <1>4, <1>5, <1>6, <1>7, <1>8, <1>9, <1>10,
     <1>11, <1>12, <1>13, <1>14, <1>15, <1>16, <1>17, <1>18, <1>19, <1>20 DEF Next, RequestStep, ServiceStep

\* Rows keep their maker and their target; only an insert makes a row, and its run had no key.
LEMMA RowsHaveMakersStep == TypeOK /\ HoldsKey /\ RowsHaveMakers /\ [Next]_vars => RowsHaveMakers'
<1> SUFFICES ASSUME TypeOK, HoldsKey, RowsHaveMakers, [Next]_vars PROVE RowsHaveMakers'
  OBVIOUS
<1> USE DEF TypeOK, HoldsKey, RowsHaveMakers, Run, Present
<1>1. ASSUME NEW r \in Run, NEW t \in TargetId, SelectTarget(r, t) PROVE RowsHaveMakers'
  <2>1. \A s \in ScanId : Present(s) => scans[s].by # r
    <3>1. sid[r] = None
      BY <1>1 DEF SelectTarget
    <3> HIDE DEF TypeOK, HoldsKey
    <3> QED
      BY <3>1, ActorsAssumption
  <2> QED
    BY <2>1, <1>1 DEF SelectTarget
<1>2. ASSUME NEW r \in Run, CheckActive(r) PROVE RowsHaveMakers'
  BY <1>2 DEF CheckActive
<1>3. ASSUME NEW r \in Run, Insert(r) PROVE RowsHaveMakers'
  <2>1. PICK s \in ScanId : /\ scans' = [scans EXCEPT ![s] = PendingRow(r, tid[r])]
                            /\ sid' = [sid EXCEPT ![r] = s]
                            /\ used' = used \cup {s}
    BY <1>3 DEF Insert
  <2>2. sid[r] = None /\ tid' = tid
    <3>1. pc[r] \in {"found", "clear"} /\ tid' = tid
      BY <1>3 DEF Insert
    <3> QED
      BY <3>1
  <2>3. ASSUME NEW x \in ScanId, x # s, scans'[x].status # "absent"
        PROVE  scans'[x] = scans[x] /\ scans[x].by # r
    BY <2>1, <2>2, <2>3, ActorsAssumption
  <2>4. scans'[s] = PendingRow(r, tid[r]) /\ sid'[r] = s
    BY <2>1
  <2> QED
    BY <2>1, <2>2, <2>3, <2>4 DEF PendingRow
<1>4. ASSUME NEW r \in Run, Queue(r) PROVE RowsHaveMakers'
  BY <1>4 DEF Queue
<1>5. ASSUME NEW r \in Run, LoadRows(r) PROVE RowsHaveMakers'
  BY <1>5 DEF LoadRows
<1>6. ASSUME NEW r \in Run, Refresh(r) PROVE RowsHaveMakers'
  BY <1>6 DEF Refresh
<1>7. ASSUME NEW r \in Run, Start(r) PROVE RowsHaveMakers'
  BY <1>7 DEF Start, ScanRow
<1>8. ASSUME NEW r \in Run, NextPhase(r) PROVE RowsHaveMakers'
  BY <1>8 DEF NextPhase, ScanRow
<1>9. ASSUME NEW r \in Run, Complete(r) PROVE RowsHaveMakers'
  BY <1>9 DEF Complete, ScanRow
<1>10. ASSUME NEW r \in Run, Fail(r) PROVE RowsHaveMakers'
  BY <1>10 DEF Fail, ScanRow
<1>11. ASSUME NEW r \in Run, RowGone(r) PROVE RowsHaveMakers'
  BY <1>11 DEF RowGone
<1>12. ASSUME NEW r \in Run, CommitFails(r) PROVE RowsHaveMakers'
  BY <1>12 DEF CommitFails
<1>13. ASSUME NEW r \in Run, KillCommand(r) PROVE RowsHaveMakers'
  BY <1>13 DEF KillCommand
<1>14. ASSUME NEW t \in TargetId, CreateTarget(t) PROVE RowsHaveMakers'
  BY <1>14 DEF CreateTarget
<1>15. ASSUME NEW d \in Deleter, NEW t \in TargetId, DeleteSelect(d, t) PROVE RowsHaveMakers'
  BY <1>15 DEF DeleteSelect
<1>16. ASSUME NEW d \in Deleter, DeleteCascade(d) PROVE RowsHaveMakers'
  BY <1>16 DEF DeleteCascade
<1>17. ASSUME NEW d \in Deleter, DeleteCommit(d) PROVE RowsHaveMakers'
  BY <1>17 DEF DeleteCommit, AbsentRow
<1>18. CASE CrashServer
  BY <1>18 DEF CrashServer
<1>19. CASE UNCHANGED vars
  BY <1>19
<1>20. ASSUME NEW r \in Run, ReadTarget(r) PROVE RowsHaveMakers'
  BY <1>20 DEF ReadTarget
<1> QED
  BY <1>1, <1>2, <1>3, <1>4, <1>5, <1>6, <1>7, <1>8, <1>9, <1>10,
     <1>11, <1>12, <1>13, <1>14, <1>15, <1>16, <1>17, <1>18, <1>19, <1>20 DEF Next, RequestStep, ServiceStep

\* Only an insert hands out a key, and it notes a key handed out before.
LEMMA KeysAreUsedStep == TypeOK /\ HoldsKey /\ KeysAreUsed /\ [Next]_vars => KeysAreUsed'
<1> SUFFICES ASSUME TypeOK, HoldsKey, KeysAreUsed, [Next]_vars PROVE KeysAreUsed'
  OBVIOUS
<1> USE DEF TypeOK, HoldsKey, KeysAreUsed, Run, PC, Working, Phase
<1>1. ASSUME NEW r \in Run, NEW t \in TargetId, SelectTarget(r, t) PROVE KeysAreUsed'
  BY <1>1 DEF SelectTarget
<1>2. ASSUME NEW r \in Run, CheckActive(r) PROVE KeysAreUsed'
  BY <1>2 DEF CheckActive
<1>3. ASSUME NEW r \in Run, Insert(r) PROVE KeysAreUsed'
  <2>1. PICK s \in ScanId : /\ sid' = [sid EXCEPT ![r] = s]
                            /\ used' = used \cup {s}
                            /\ reused' = (reused \/ s \in used)
    BY <1>3 DEF Insert
  <2>2. sid[r] = None /\ aliases' = aliases
    <3>1. pc[r] \in {"found", "clear"} /\ aliases' = aliases
      BY <1>3 DEF Insert
    <3> QED
      BY <3>1
  <2>3. \A a \in aliases : a.by # r
    BY <2>2, ActorsAssumption
  <2>4. \A a \in aliases' : sid'[a.by] = a.scan
    BY <2>1, <2>2, <2>3
  <2>5. ~reused' => \A q \in Run \ {r} : sid[q] # s
    <3>1. s # None
      BY ActorsAssumption
    <3>2. \A q \in Run : sid[q] = s => s \in used
      BY <3>1
    <3> QED
      BY <2>1, <3>2
  <2>6. \A q \in Run \ {r} : sid'[q] = sid[q]
    BY <2>1
  <2>7. sid'[r] = s
    BY <2>1
  <2> QED
    BY <2>1, <2>4, <2>5, <2>6, <2>7
<1>4. ASSUME NEW r \in Run, Queue(r) PROVE KeysAreUsed'
  BY <1>4 DEF Queue
<1>5. ASSUME NEW r \in Run, LoadRows(r) PROVE KeysAreUsed'
  BY <1>5 DEF LoadRows
<1>6. ASSUME NEW r \in Run, Refresh(r) PROVE KeysAreUsed'
  BY <1>6 DEF Refresh
<1>7. ASSUME NEW r \in Run, Start(r) PROVE KeysAreUsed'
  BY <1>7 DEF Start
<1>8. ASSUME NEW r \in Run, NextPhase(r) PROVE KeysAreUsed'
  BY <1>8 DEF NextPhase
<1>9. ASSUME NEW r \in Run, Complete(r) PROVE KeysAreUsed'
  BY <1>9 DEF Complete
<1>10. ASSUME NEW r \in Run, Fail(r) PROVE KeysAreUsed'
  BY <1>10 DEF Fail
<1>11. ASSUME NEW r \in Run, RowGone(r) PROVE KeysAreUsed'
  BY <1>11 DEF RowGone
<1>12. ASSUME NEW r \in Run, CommitFails(r) PROVE KeysAreUsed'
  BY <1>12 DEF CommitFails
<1>13. ASSUME NEW r \in Run, KillCommand(r) PROVE KeysAreUsed'
  BY <1>13 DEF KillCommand
<1>14. ASSUME NEW t \in TargetId, CreateTarget(t) PROVE KeysAreUsed'
  BY <1>14 DEF CreateTarget
<1>15. ASSUME NEW d \in Deleter, NEW t \in TargetId, DeleteSelect(d, t) PROVE KeysAreUsed'
  BY <1>15 DEF DeleteSelect
<1>16. ASSUME NEW d \in Deleter, DeleteCascade(d) PROVE KeysAreUsed'
  BY <1>16 DEF DeleteCascade
<1>17. ASSUME NEW d \in Deleter, DeleteCommit(d) PROVE KeysAreUsed'
  BY <1>17 DEF DeleteCommit
<1>18. CASE CrashServer
  BY <1>18 DEF CrashServer
<1>19. CASE UNCHANGED vars
  BY <1>19
<1>20. ASSUME NEW r \in Run, ReadTarget(r) PROVE KeysAreUsed'
  BY <1>20 DEF ReadTarget
<1> QED
  BY <1>1, <1>2, <1>3, <1>4, <1>5, <1>6, <1>7, <1>8, <1>9, <1>10,
     <1>11, <1>12, <1>13, <1>14, <1>15, <1>16, <1>17, <1>18, <1>19, <1>20 DEF Next, RequestStep, ServiceStep

\* The cascade loads aliases of the scans it loads.
LEMMA DeletesWholeStep == TypeOK /\ DeletesWhole /\ [Next]_vars => DeletesWhole'
<1> SUFFICES ASSUME TypeOK, DeletesWhole, [Next]_vars PROVE DeletesWhole'
  OBVIOUS
<1> USE DEF TypeOK, DeletesWhole, NoDelete
<1>1. ASSUME NEW r \in Run, NEW t \in TargetId, SelectTarget(r, t) PROVE DeletesWhole'
  BY <1>1 DEF SelectTarget
<1>2. ASSUME NEW r \in Run, CheckActive(r) PROVE DeletesWhole'
  BY <1>2 DEF CheckActive
<1>3. ASSUME NEW r \in Run, Insert(r) PROVE DeletesWhole'
  BY <1>3 DEF Insert
<1>4. ASSUME NEW r \in Run, Queue(r) PROVE DeletesWhole'
  BY <1>4 DEF Queue
<1>5. ASSUME NEW r \in Run, LoadRows(r) PROVE DeletesWhole'
  BY <1>5 DEF LoadRows
<1>6. ASSUME NEW r \in Run, Refresh(r) PROVE DeletesWhole'
  BY <1>6 DEF Refresh
<1>7. ASSUME NEW r \in Run, Start(r) PROVE DeletesWhole'
  BY <1>7 DEF Start
<1>8. ASSUME NEW r \in Run, NextPhase(r) PROVE DeletesWhole'
  BY <1>8 DEF NextPhase
<1>9. ASSUME NEW r \in Run, Complete(r) PROVE DeletesWhole'
  BY <1>9 DEF Complete
<1>10. ASSUME NEW r \in Run, Fail(r) PROVE DeletesWhole'
  BY <1>10 DEF Fail
<1>11. ASSUME NEW r \in Run, RowGone(r) PROVE DeletesWhole'
  BY <1>11 DEF RowGone
<1>12. ASSUME NEW r \in Run, CommitFails(r) PROVE DeletesWhole'
  BY <1>12 DEF CommitFails
<1>13. ASSUME NEW r \in Run, KillCommand(r) PROVE DeletesWhole'
  BY <1>13 DEF KillCommand
<1>14. ASSUME NEW t \in TargetId, CreateTarget(t) PROVE DeletesWhole'
  BY <1>14 DEF CreateTarget
<1>15. ASSUME NEW d \in Deleter, NEW t \in TargetId, DeleteSelect(d, t) PROVE DeletesWhole'
  BY <1>15 DEF DeleteSelect
<1>16. ASSUME NEW d \in Deleter, DeleteCascade(d) PROVE DeletesWhole'
  BY <1>16 DEF DeleteCascade
<1>17. ASSUME NEW d \in Deleter, DeleteCommit(d) PROVE DeletesWhole'
  BY <1>17 DEF DeleteCommit
<1>18. CASE CrashServer
  BY <1>18 DEF CrashServer
<1>19. CASE UNCHANGED vars
  BY <1>19
<1>20. ASSUME NEW r \in Run, ReadTarget(r) PROVE DeletesWhole'
  BY <1>20 DEF ReadTarget
<1> QED
  BY <1>1, <1>2, <1>3, <1>4, <1>5, <1>6, <1>7, <1>8, <1>9, <1>10,
     <1>11, <1>12, <1>13, <1>14, <1>15, <1>16, <1>17, <1>18, <1>19, <1>20 DEF Next, RequestStep, ServiceStep

\* A row can lose its target at its own insert or at a delete that did not load it; both note it.
LEMMA DanglingNotedStep == TypeOK /\ KeyInv /\ DanglingNoted /\ [Next]_vars => DanglingNoted'
<1> SUFFICES ASSUME TypeOK, KeyInv, DanglingNoted, [Next]_vars PROVE DanglingNoted'
  OBVIOUS
<1> USE DEF TypeOK, KeyInv, HoldsKey, RowsHaveMakers, DanglingNoted, Run, PresentIds, Present
<1>1. ASSUME NEW r \in Run, NEW t \in TargetId, SelectTarget(r, t) PROVE DanglingNoted'
  BY <1>1 DEF SelectTarget
<1>2. ASSUME NEW r \in Run, CheckActive(r) PROVE DanglingNoted'
  BY <1>2 DEF CheckActive
<1>3. ASSUME NEW r \in Run, Insert(r) PROVE DanglingNoted'
  BY <1>3 DEF Insert, PendingRow
<1>4. ASSUME NEW r \in Run, Queue(r) PROVE DanglingNoted'
  BY <1>4 DEF Queue
<1>5. ASSUME NEW r \in Run, LoadRows(r) PROVE DanglingNoted'
  BY <1>5 DEF LoadRows
<1>6. ASSUME NEW r \in Run, Refresh(r) PROVE DanglingNoted'
  BY <1>6 DEF Refresh
<1>7. ASSUME NEW r \in Run, Start(r) PROVE DanglingNoted'
  BY <1>7 DEF Start, ScanRow
<1>8. ASSUME NEW r \in Run, NextPhase(r) PROVE DanglingNoted'
  BY <1>8 DEF NextPhase, ScanRow
<1>9. ASSUME NEW r \in Run, Complete(r) PROVE DanglingNoted'
  BY <1>9 DEF Complete, ScanRow
<1>10. ASSUME NEW r \in Run, Fail(r) PROVE DanglingNoted'
  BY <1>10 DEF Fail, ScanRow
<1>11. ASSUME NEW r \in Run, RowGone(r) PROVE DanglingNoted'
  BY <1>11 DEF RowGone
<1>12. ASSUME NEW r \in Run, CommitFails(r) PROVE DanglingNoted'
  BY <1>12 DEF CommitFails
<1>13. ASSUME NEW r \in Run, KillCommand(r) PROVE DanglingNoted'
  BY <1>13 DEF KillCommand
<1>14. ASSUME NEW t \in TargetId, CreateTarget(t) PROVE DanglingNoted'
  BY <1>14 DEF CreateTarget
<1>15. ASSUME NEW d \in Deleter, NEW t \in TargetId, DeleteSelect(d, t) PROVE DanglingNoted'
  BY <1>15 DEF DeleteSelect
<1>16. ASSUME NEW d \in Deleter, DeleteCascade(d) PROVE DanglingNoted'
  BY <1>16 DEF DeleteCascade
<1>17. ASSUME NEW d \in Deleter, DeleteCommit(d) PROVE DanglingNoted'
  BY <1>17 DEF DeleteCommit, AbsentRow
<1>18. CASE CrashServer
  BY <1>18 DEF CrashServer
<1>19. CASE UNCHANGED vars
  BY <1>19
<1>20. ASSUME NEW r \in Run, ReadTarget(r) PROVE DanglingNoted'
  BY <1>20 DEF ReadTarget
<1> QED
  BY <1>1, <1>2, <1>3, <1>4, <1>5, <1>6, <1>7, <1>8, <1>9, <1>10,
     <1>11, <1>12, <1>13, <1>14, <1>15, <1>16, <1>17, <1>18, <1>19, <1>20 DEF Next, RequestStep, ServiceStep

\* A run stops attending a row when it has written a terminal status, when the row is gone, or
\* before it began, because its target is missing: then the row it made is noted as dangling.
LEMMA AttentionStep == TypeOK /\ KeyInv /\ DanglingNoted /\ Attention /\ [Next]_vars => Attention'
<1> SUFFICES ASSUME TypeOK, KeyInv, DanglingNoted, Attention, [Next]_vars PROVE Attention'
  OBVIOUS
<1> USE DEF TypeOK, KeyInv, HoldsKey, RowsHaveMakers, DanglingNoted, Attention, Attends, Run, PresentIds, Present, Active, Working, Phase, PC
<1>1. ASSUME NEW r \in Run, NEW t \in TargetId, SelectTarget(r, t) PROVE Attention'
  BY <1>1 DEF SelectTarget
<1>2. ASSUME NEW r \in Run, CheckActive(r) PROVE Attention'
  BY <1>2 DEF CheckActive
<1>3. ASSUME NEW r \in Run, Insert(r) PROVE Attention'
  BY <1>3 DEF Insert, PendingRow
<1>4. ASSUME NEW r \in Run, Queue(r) PROVE Attention'
  BY <1>4 DEF Queue
<1>5. ASSUME NEW r \in Run, LoadRows(r) PROVE Attention'
  BY <1>5 DEF LoadRows
<1>6. ASSUME NEW r \in Run, Refresh(r) PROVE Attention'
  BY <1>6 DEF Refresh
<1>7. ASSUME NEW r \in Run, Start(r) PROVE Attention'
  BY <1>7 DEF Start, ScanRow
<1>8. ASSUME NEW r \in Run, NextPhase(r) PROVE Attention'
  BY <1>8, AfterIsPhase DEF NextPhase, ScanRow
<1>9. ASSUME NEW r \in Run, Complete(r) PROVE Attention'
  BY <1>9 DEF Complete, ScanRow
<1>10. ASSUME NEW r \in Run, Fail(r) PROVE Attention'
  BY <1>10 DEF Fail, ScanRow
<1>11. ASSUME NEW r \in Run, RowGone(r) PROVE Attention'
  BY <1>11 DEF RowGone
<1>12. ASSUME NEW r \in Run, CommitFails(r) PROVE Attention'
  BY <1>12 DEF CommitFails
<1>13. ASSUME NEW r \in Run, KillCommand(r) PROVE Attention'
  BY <1>13 DEF KillCommand
<1>14. ASSUME NEW t \in TargetId, CreateTarget(t) PROVE Attention'
  BY <1>14 DEF CreateTarget
<1>15. ASSUME NEW d \in Deleter, NEW t \in TargetId, DeleteSelect(d, t) PROVE Attention'
  BY <1>15 DEF DeleteSelect
<1>16. ASSUME NEW d \in Deleter, DeleteCascade(d) PROVE Attention'
  BY <1>16 DEF DeleteCascade
<1>17. ASSUME NEW d \in Deleter, DeleteCommit(d) PROVE Attention'
  BY <1>17 DEF DeleteCommit, AbsentRow
<1>18. CASE CrashServer
  <2>1. scans' = scans /\ sid' = sid /\ dangled' = dangled
    BY <1>18 DEF CrashServer
  <2>2. ASSUME NEW r \in Run, pc[r] \in Working \cup {"lost"}
        PROVE  pc'[r] \in {pc[r], "lost"}
    BY <2>2, <1>18 DEF CrashServer
  <2>3. \A s \in ScanId, r \in Run : Attends(r, s) => Attends(r, s)'
    BY <2>1, <2>2
  <2> HIDE DEF Attends
  <2> QED
    BY <2>1, <2>3
<1>19. CASE UNCHANGED vars
  BY <1>19
<1>20. ASSUME NEW r \in Run, ReadTarget(r) PROVE Attention'
  BY <1>20 DEF ReadTarget
<1> QED
  BY <1>1, <1>2, <1>3, <1>4, <1>5, <1>6, <1>7, <1>8, <1>9, <1>10,
     <1>11, <1>12, <1>13, <1>14, <1>15, <1>16, <1>17, <1>18, <1>19, <1>20 DEF Next, RequestStep, ServiceStep

\* A run without a key made none of the rows in the table.
LEMMA NoKeyNoRow ==
  ASSUME TypeOK, RowsHaveMakers, NEW r \in Run, sid[r] = None
  PROVE  \A s \in ScanId : Present(s) => scans[s].by # r
  BY ActorsAssumption DEF RowsHaveMakers

\* While no key has been reused, the row under a run's key is the row that run made.
LEMMA WritesOwnRow ==
  ASSUME TypeOK, KeyInv, ~reused, NEW r \in Run, sid[r] \in ScanId, Present(sid[r])
  PROVE  scans[sid[r]].by = r /\ scans[sid[r]].target = tid[r]
<1>1. scans[sid[r]].by \in Run /\ sid[scans[sid[r]].by] = sid[r]
  BY DEF KeyInv, RowsHaveMakers
<1>2. scans[sid[r]].by = r
  BY <1>1, ActorsAssumption DEF KeyInv, KeysAreUsed
<1> QED
  BY <1>2 DEF KeyInv, RowsHaveMakers

\* Only the run a row belongs to writes it, so what the row tells changes with its run; the
\* aliases of a row that is still there are removed by no one.
LEMMA TellingStep == TypeOK /\ KeyInv /\ Telling /\ [Next]_vars => Telling'
<1> SUFFICES ASSUME TypeOK, KeyInv, Telling, [Next]_vars PROVE Telling'
  OBVIOUS
<1> USE DEF TypeOK, KeyInv, HoldsKey, RowsHaveMakers, KeysAreUsed, DeletesWhole, Telling, RowTells, Run, PresentIds, Present, Active, Terminal, Working, Phase, PC
<1>1. ASSUME NEW r \in Run, NEW t \in TargetId, SelectTarget(r, t) PROVE Telling'
  <2> SUFFICES ASSUME ~reused' PROVE Telling'
    BY DEF Telling
  <2>1. sid[r] = None
    BY <1>1 DEF SelectTarget
  <2>2. \A s \in PresentIds : scans[s].by \in Run \ {r}
    BY <2>1, NoKeyNoRow
  <2> QED
    BY <2>2, <1>1 DEF SelectTarget
<1>2. ASSUME NEW r \in Run, CheckActive(r) PROVE Telling'
  BY <1>2 DEF CheckActive
<1>3. ASSUME NEW r \in Run, Insert(r) PROVE Telling'
  <2> SUFFICES ASSUME ~reused' PROVE Telling'
    BY DEF Telling
  <2>1. PICK s \in ScanId : /\ scans' = [scans EXCEPT ![s] = PendingRow(r, tid[r])]
                            /\ sid' = [sid EXCEPT ![r] = s]
                            /\ reused' = (reused \/ s \in used)
    BY <1>3 DEF Insert
  <2>2. /\ pc' = [pc EXCEPT ![r] = "inserted"]
        /\ aliases' = aliases /\ tid' = tid /\ sid[r] = None
    BY <1>3 DEF Insert
  <2>3. ~reused /\ s \notin used
    BY <2>1
  <2>4. \A q \in Run : sid[q] # s
    BY <2>3, ActorsAssumption
  <2>5. \A x \in PresentIds : scans[x].by \in Run \ {r}
    BY <2>2, NoKeyNoRow
  <2>6. RowTells(scans[s], scans[s].by)'
    BY <2>1, <2>2 DEF PendingRow
  <2>7. ASSUME NEW x \in ScanId, x # s, Present(x)'
        PROVE  RowTells(scans[x], scans[x].by)'
    <3>1. scans'[x] = scans[x] /\ Present(x)
      BY <2>1, <2>7
    <3>2. RowTells(scans[x], scans[x].by)
      BY <2>3, <3>1
    <3> QED
      BY <2>1, <2>2, <2>5, <3>1, <3>2
  <2>8. ASSUME NEW q \in Run, pc'[q] = "emit", Present(sid[q])'
        PROVE  OwnAliases(q)' \subseteq aliases'
    <3>1. q # r /\ pc[q] = "emit" /\ sid'[q] = sid[q] /\ Present(sid[q])
      BY <2>1, <2>2, <2>4, <2>8
    <3> QED
      BY <2>2, <2>3, <3>1
  <2> HIDE DEF RowTells
  <2> QED
    BY <2>6, <2>7, <2>8
<1>4. ASSUME NEW r \in Run, Queue(r) PROVE Telling'
  BY <1>4 DEF Queue
<1>5. ASSUME NEW r \in Run, LoadRows(r) PROVE Telling'
  BY <1>5 DEF LoadRows
<1>6. ASSUME NEW r \in Run, Refresh(r) PROVE Telling'
  BY <1>6 DEF Refresh
<1>7. ASSUME NEW r \in Run, Start(r) PROVE Telling'
  <2> SUFFICES ASSUME ~reused' PROVE Telling'
    BY DEF Telling
  <2>1. ~reused /\ sid[r] \in ScanId /\ Present(sid[r]) /\ sid' = sid /\ tid' = tid
    BY <1>7 DEF Start
  <2>2. scans[sid[r]].by = r /\ scans[sid[r]].target = tid[r] /\ scans[sid[r]] \in ScanRow
    BY <2>1, WritesOwnRow
  <2>3. ASSUME NEW s \in ScanId, s # sid[r]
        PROVE  scans'[s] = scans[s] /\ (Present(s) => scans[s].by \in Run \ {r})
    BY <2>1, <2>3, <1>7 DEF Start
  <2>4. \A q \in Run \ {r} : pc'[q] = pc[q]
    BY <1>7 DEF Start
  <2>5. aliases \subseteq aliases'
    BY <1>7 DEF Start
  <2>6. RowTells(scans[sid[r]], r)' /\ scans'[sid[r]].by = r
    <3>1. RowTells(scans[sid[r]], r)
      BY <2>1, <2>2
    <3> QED
      BY <2>1, <2>2, <2>5, <3>1, <1>7 DEF Start, ScanRow
  <2>7. ASSUME NEW s \in ScanId, s # sid[r], Present(s)
        PROVE  RowTells(scans[s], scans[s].by)'
    <3>1. RowTells(scans[s], scans[s].by)
      BY <2>1, <2>7
    <3> QED
      BY <2>1, <2>3, <2>4, <2>5, <2>7, <3>1
  <2>8. ASSUME NEW q \in Run, pc'[q] = "emit", Present(sid[q])'
        PROVE  OwnAliases(q) \subseteq aliases'
    BY <2>1, <2>3, <2>4, <2>5, <2>8, <1>7 DEF Start
  <2> HIDE DEF RowTells
  <2> QED
    BY <2>1, <2>3, <2>6, <2>7, <2>8
<1>8. ASSUME NEW r \in Run, NextPhase(r) PROVE Telling'
  <2> SUFFICES ASSUME ~reused' PROVE Telling'
    BY DEF Telling
  <2>1. ~reused /\ sid[r] \in ScanId /\ Present(sid[r]) /\ sid' = sid /\ tid' = tid
    BY <1>8, AfterIsPhase DEF NextPhase
  <2>2. scans[sid[r]].by = r /\ scans[sid[r]].target = tid[r] /\ scans[sid[r]] \in ScanRow
    BY <2>1, WritesOwnRow
  <2>3. ASSUME NEW s \in ScanId, s # sid[r]
        PROVE  scans'[s] = scans[s] /\ (Present(s) => scans[s].by \in Run \ {r})
    BY <2>1, <2>3, <1>8 DEF NextPhase
  <2>4. \A q \in Run \ {r} : pc'[q] = pc[q]
    BY <1>8 DEF NextPhase
  <2>5. aliases \subseteq aliases' /\ (pc[r] = "enrich" => OwnAliases(r) \subseteq aliases')
    BY <1>8 DEF NextPhase
  <2>6. RowTells(scans[sid[r]], r)' /\ scans'[sid[r]].by = r
    <3>1. RowTells(scans[sid[r]], r)
      BY <2>1, <2>2
    <3> QED
      BY <2>1, <2>2, <2>5, <3>1, <1>8, AfterIsPhase DEF NextPhase, ScanRow
  <2>7. ASSUME NEW s \in ScanId, s # sid[r], Present(s)
        PROVE  RowTells(scans[s], scans[s].by)'
    <3>1. RowTells(scans[s], scans[s].by)
      BY <2>1, <2>7
    <3> QED
      BY <2>1, <2>3, <2>4, <2>5, <2>7, <3>1
  <2>8. ASSUME NEW q \in Run, pc'[q] = "emit", Present(sid[q])'
        PROVE  OwnAliases(q) \subseteq aliases'
    BY <2>1, <2>3, <2>4, <2>5, <2>8, <1>8, AfterIsPhase DEF NextPhase, After
  <2> HIDE DEF RowTells
  <2> QED
    BY <2>1, <2>3, <2>6, <2>7, <2>8
<1>9. ASSUME NEW r \in Run, Complete(r) PROVE Telling'
  <2> SUFFICES ASSUME ~reused' PROVE Telling'
    BY DEF Telling
  <2>1. ~reused /\ sid[r] \in ScanId /\ Present(sid[r]) /\ sid' = sid /\ tid' = tid
    BY <1>9 DEF Complete
  <2>2. scans[sid[r]].by = r /\ scans[sid[r]].target = tid[r] /\ scans[sid[r]] \in ScanRow
    BY <2>1, WritesOwnRow
  <2>3. ASSUME NEW s \in ScanId, s # sid[r]
        PROVE  scans'[s] = scans[s] /\ (Present(s) => scans[s].by \in Run \ {r})
    BY <2>1, <2>3, <1>9 DEF Complete
  <2>4. \A q \in Run \ {r} : pc'[q] = pc[q]
    BY <1>9 DEF Complete
  <2>5. aliases \subseteq aliases'
    BY <1>9 DEF Complete
  <2>6. RowTells(scans[sid[r]], r)' /\ scans'[sid[r]].by = r
    <3>1. RowTells(scans[sid[r]], r)
      BY <2>1, <2>2
    <3> QED
      BY <2>1, <2>2, <2>5, <3>1, <1>9 DEF Complete, ScanRow
  <2>7. ASSUME NEW s \in ScanId, s # sid[r], Present(s)
        PROVE  RowTells(scans[s], scans[s].by)'
    <3>1. RowTells(scans[s], scans[s].by)
      BY <2>1, <2>7
    <3> QED
      BY <2>1, <2>3, <2>4, <2>5, <2>7, <3>1
  <2>8. ASSUME NEW q \in Run, pc'[q] = "emit", Present(sid[q])'
        PROVE  OwnAliases(q) \subseteq aliases'
    BY <2>1, <2>3, <2>4, <2>5, <2>8, <1>9 DEF Complete
  <2> HIDE DEF RowTells
  <2> QED
    BY <2>1, <2>3, <2>6, <2>7, <2>8
<1>10. ASSUME NEW r \in Run, Fail(r) PROVE Telling'
  <2> SUFFICES ASSUME ~reused' PROVE Telling'
    BY DEF Telling
  <2>1. ~reused /\ sid[r] \in ScanId /\ Present(sid[r]) /\ sid' = sid /\ tid' = tid
    BY <1>10 DEF Fail
  <2>2. scans[sid[r]].by = r /\ scans[sid[r]].target = tid[r] /\ scans[sid[r]] \in ScanRow
    BY <2>1, WritesOwnRow
  <2>3. ASSUME NEW s \in ScanId, s # sid[r]
        PROVE  scans'[s] = scans[s] /\ (Present(s) => scans[s].by \in Run \ {r})
    BY <2>1, <2>3, <1>10 DEF Fail
  <2>4. \A q \in Run \ {r} : pc'[q] = pc[q]
    BY <1>10 DEF Fail
  <2>5. aliases \subseteq aliases'
    BY <1>10 DEF Fail
  <2>6. RowTells(scans[sid[r]], r)' /\ scans'[sid[r]].by = r
    <3>1. RowTells(scans[sid[r]], r)
      BY <2>1, <2>2
    <3> QED
      BY <2>1, <2>2, <2>5, <3>1, <1>10 DEF Fail, ScanRow
  <2>7. ASSUME NEW s \in ScanId, s # sid[r], Present(s)
        PROVE  RowTells(scans[s], scans[s].by)'
    <3>1. RowTells(scans[s], scans[s].by)
      BY <2>1, <2>7
    <3> QED
      BY <2>1, <2>3, <2>4, <2>5, <2>7, <3>1
  <2>8. ASSUME NEW q \in Run, pc'[q] = "emit", Present(sid[q])'
        PROVE  OwnAliases(q) \subseteq aliases'
    BY <2>1, <2>3, <2>4, <2>5, <2>8, <1>10 DEF Fail
  <2> HIDE DEF RowTells
  <2> QED
    BY <2>1, <2>3, <2>6, <2>7, <2>8
<1>11. ASSUME NEW r \in Run, RowGone(r) PROVE Telling'
  BY <1>11 DEF RowGone
<1>12. ASSUME NEW r \in Run, CommitFails(r) PROVE Telling'
  BY <1>12 DEF CommitFails
<1>13. ASSUME NEW r \in Run, KillCommand(r) PROVE Telling'
  BY <1>13 DEF KillCommand
<1>14. ASSUME NEW t \in TargetId, CreateTarget(t) PROVE Telling'
  BY <1>14 DEF CreateTarget
<1>15. ASSUME NEW d \in Deleter, NEW t \in TargetId, DeleteSelect(d, t) PROVE Telling'
  BY <1>15 DEF DeleteSelect
<1>16. ASSUME NEW d \in Deleter, DeleteCascade(d) PROVE Telling'
  BY <1>16 DEF DeleteCascade
<1>17. ASSUME NEW d \in Deleter, DeleteCommit(d) PROVE Telling'
  BY <1>17 DEF DeleteCommit, AbsentRow
<1>18. CASE CrashServer
  <2>1. /\ UNCHANGED <<scans, aliases, sid, tid, reused>>
        /\ \A q \in Run : pc'[q] = pc[q] \/ (pc[q] \in Working \cup {"found", "clear"} /\ pc'[q] = "lost")
    BY <1>18 DEF CrashServer
  <2>2. ASSUME ~reused, NEW s \in PresentIds PROVE RowTells(scans[s], scans[s].by)'
    <3>1. scans[s].by \in Run /\ RowTells(scans[s], scans[s].by)
      BY <2>2
    <3>2. pc'[scans[s].by] = pc[scans[s].by] \/
            (pc[scans[s].by] \in Working \cup {"found", "clear"} /\ pc'[scans[s].by] = "lost")
      BY <2>1, <3>1
    <3> QED
      BY <2>1, <3>1, <3>2
  <2>3. ASSUME NEW q \in Run, pc'[q] = "emit" PROVE pc[q] = "emit"
    BY <2>1, <2>3
  <2> HIDE DEF RowTells
  <2> QED
    BY <2>1, <2>2, <2>3
<1>19. CASE UNCHANGED vars
  BY <1>19
<1>20. ASSUME NEW r \in Run, ReadTarget(r) PROVE Telling'
  BY <1>20 DEF ReadTarget
<1> QED
  BY <1>1, <1>2, <1>3, <1>4, <1>5, <1>6, <1>7, <1>8, <1>9, <1>10,
     <1>11, <1>12, <1>13, <1>14, <1>15, <1>16, <1>17, <1>18, <1>19, <1>20 DEF Next, RequestStep, ServiceStep

\* A run that is over does not start again, and no second row gets its key.
LEMMA SettledStep == TypeOK /\ KeyInv /\ Telling /\ Settled /\ [Next]_vars => Settled'
<1> SUFFICES ASSUME TypeOK, KeyInv, Telling, Settled, [Next]_vars PROVE Settled'
  OBVIOUS
<1> USE DEF TypeOK, KeyInv, HoldsKey, RowsHaveMakers, KeysAreUsed, Telling, Settled, RowTells, Run, PresentIds, Present, Active, Terminal, Working, Phase, PC
<1>1. ASSUME NEW r \in Run, NEW t \in TargetId, SelectTarget(r, t) PROVE Settled'
  <2> SUFFICES ASSUME ~reused', NEW x \in WebRun, pc'[x] = "clear" \/ sid'[x] # None,
                      NEW q \in saw'[x] \ {None}
               PROVE  /\ sid'[q] \in ScanId
                      /\ tid'[q] = tid'[x] => scans'[sid'[q]].status \notin Active
    BY DEF Settled
  <2>1. sid[r] = None /\ x # r
    BY <1>1 DEF SelectTarget
  <2>2. q \in Run /\ sid[q] \in ScanId /\ (tid[q] = tid[x] => scans[sid[q]].status \notin Active)
    BY <2>1, <1>1 DEF SelectTarget
  <2>3. q # r
    BY <2>1, <2>2, ActorsAssumption
  <2> QED
    BY <2>1, <2>2, <2>3, <1>1 DEF SelectTarget
<1>2. ASSUME NEW r \in Run, CheckActive(r) PROVE Settled'
  BY <1>2 DEF CheckActive
<1>3. ASSUME NEW r \in Run, Insert(r) PROVE Settled'
  <2> SUFFICES ASSUME ~reused', NEW x \in WebRun, pc'[x] = "clear" \/ sid'[x] # None,
                      NEW q \in saw'[x] \ {None}
               PROVE  /\ sid'[q] \in ScanId
                      /\ tid'[q] = tid'[x] => scans'[sid'[q]].status \notin Active
    BY DEF Settled
  <2>1. PICK s \in ScanId : /\ scans' = [scans EXCEPT ![s] = PendingRow(r, tid[r])]
                            /\ sid' = [sid EXCEPT ![r] = s]
                            /\ reused' = (reused \/ s \in used)
    BY <1>3 DEF Insert
  <2>2. /\ pc' = [pc EXCEPT ![r] = "inserted"]
        /\ saw' = saw /\ tid' = tid /\ sid[r] = None
        /\ r \in WebRun => pc[r] = "clear"
    BY <1>3 DEF Insert
  <2>3. q \in Run /\ sid[q] \in ScanId /\ (tid[q] = tid[x] => scans[sid[q]].status \notin Active)
    BY <2>1, <2>2
  <2>4. q # r /\ sid[q] # None
    BY <2>2, <2>3, ActorsAssumption
  <2>5. sid[q] \in used /\ s \notin used
    BY <2>1, <2>3, <2>4
  <2> QED
    BY <2>1, <2>2, <2>3, <2>4, <2>5
<1>4. ASSUME NEW r \in Run, Queue(r) PROVE Settled'
  BY <1>4 DEF Queue
<1>5. ASSUME NEW r \in Run, LoadRows(r) PROVE Settled'
  BY <1>5 DEF LoadRows
<1>6. ASSUME NEW r \in Run, Refresh(r) PROVE Settled'
  BY <1>6 DEF Refresh
<1>7. ASSUME NEW r \in Run, Start(r) PROVE Settled'
  <2> SUFFICES ASSUME ~reused', NEW x \in WebRun, pc'[x] = "clear" \/ sid'[x] # None,
                      NEW q \in saw'[x] \ {None}
               PROVE  /\ sid'[q] \in ScanId
                      /\ tid'[q] = tid'[x] => scans'[sid'[q]].status \notin Active
    BY DEF Settled
  <2>1. q \in Run /\ sid[q] \in ScanId /\ (tid[q] = tid[x] => scans[sid[q]].status \notin Active)
    BY <1>7 DEF Start
  <2>2. ASSUME tid[q] = tid[x] PROVE sid[q] # sid[r]
    <3> SUFFICES ASSUME sid[q] = sid[r] PROVE FALSE
      OBVIOUS
    <3>1. ~reused /\ pc[r] = "loaded" /\ Present(sid[r]) /\ sid[r] \in ScanId
      BY <1>7 DEF Start
    <3>2. scans[sid[r]].by = r /\ scans[sid[r]].status \in Terminal
      BY <2>1, <2>2, <3>1, WritesOwnRow DEF ScanRow, Status
    <3> QED
      BY <3>1, <3>2
  <2> QED
    BY <2>1, <2>2, <1>7 DEF Start
<1>8. ASSUME NEW r \in Run, NextPhase(r) PROVE Settled'
  BY <1>8, AfterIsPhase DEF NextPhase, ScanRow
<1>9. ASSUME NEW r \in Run, Complete(r) PROVE Settled'
  BY <1>9 DEF Complete, ScanRow
<1>10. ASSUME NEW r \in Run, Fail(r) PROVE Settled'
  BY <1>10 DEF Fail, ScanRow
<1>11. ASSUME NEW r \in Run, RowGone(r) PROVE Settled'
  BY <1>11 DEF RowGone
<1>12. ASSUME NEW r \in Run, CommitFails(r) PROVE Settled'
  BY <1>12 DEF CommitFails
<1>13. ASSUME NEW r \in Run, KillCommand(r) PROVE Settled'
  BY <1>13 DEF KillCommand
<1>14. ASSUME NEW t \in TargetId, CreateTarget(t) PROVE Settled'
  BY <1>14 DEF CreateTarget
<1>15. ASSUME NEW d \in Deleter, NEW t \in TargetId, DeleteSelect(d, t) PROVE Settled'
  BY <1>15 DEF DeleteSelect
<1>16. ASSUME NEW d \in Deleter, DeleteCascade(d) PROVE Settled'
  BY <1>16 DEF DeleteCascade
<1>17. ASSUME NEW d \in Deleter, DeleteCommit(d) PROVE Settled'
  BY <1>17 DEF DeleteCommit, AbsentRow
<1>18. CASE CrashServer
  BY <1>18 DEF CrashServer
<1>19. CASE UNCHANGED vars
  BY <1>19
<1>20. ASSUME NEW r \in Run, ReadTarget(r) PROVE Settled'
  BY <1>20 DEF ReadTarget
<1> QED
  BY <1>1, <1>2, <1>3, <1>4, <1>5, <1>6, <1>7, <1>8, <1>9, <1>10,
     <1>11, <1>12, <1>13, <1>14, <1>15, <1>16, <1>17, <1>18, <1>19, <1>20 DEF Next, RequestStep, ServiceStep

-----------------------------------------------------------------------------
\* The conjuncts together are an invariant.
LEMMA Initially == Init => IInv
<1> SUFFICES ASSUME Init PROVE IInv
  OBVIOUS
<1> USE DEF Init
<1>1. TypeOK
  <2>1. AbsentRow \in ScanRow
    BY DEF ScanRow, AbsentRow, Status, Progress
  <2>2. NoDelete \in [at : {"idle", "found", "loaded", "done"}, tid : TargetId \cup {None},
                     scans : SUBSET ScanId, aliases : SUBSET [scan : ScanId, by : Run]]
    BY DEF NoDelete
  <2>3. crashes \in 0 .. MaxCrashes /\ lockouts \in 0 .. MaxLockouts
    BY BoundsAssumption
  <2> QED
    BY <2>1, <2>2, <2>3 DEF TypeOK, PC
<1>2. KeyInv
  BY DEF KeyInv, HoldsKey, RowsHaveMakers, KeysAreUsed, DeletesWhole, Present, AbsentRow,
         Working, Phase, NoDelete
<1>3. DanglingNoted /\ Attention /\ Telling /\ Settled
  BY DEF DanglingNoted, Attention, Telling, Settled, PresentIds, Present, AbsentRow, Active, Run
<1> QED
  BY <1>1, <1>2, <1>3 DEF IInv

LEMMA Inductive == IInv /\ [Next]_vars => IInv'
  BY TypeStep, HoldsKeyStep, RowsHaveMakersStep, KeysAreUsedStep, DeletesWholeStep,
     DanglingNotedStep, AttentionStep, TellingStep, SettledStep DEF IInv, KeyInv

LEMMA Invariance == Spec => []IInv
  BY Initially, Inductive, PTL DEF Spec

\* Every variable stays within its type, for any number of requests and any bounds.
THEOREM TypeCorrect == Spec => []TypeOK
<1>1. IInv => TypeOK
  BY DEF IInv
<1> QED
  BY Invariance, <1>1, PTL

\* A scan shown as pending or running has a live or lost run, or outlived its target.
THEOREM NoScanForgotten == Spec => []ActiveIsAttended
<1>1. IInv => ActiveIsAttended
  BY DEF IInv, Attention, ActiveIsAttended, Attends, IsAttended, Working
<1> QED
  BY Invariance, <1>1, PTL

\* As long as no scan key is given out twice, each run updates the row it inserted and no
\* other one, whatever is deleted, killed or refused meanwhile.
THEOREM OneWriterPerScan == Spec => []OneWriter
<1>1. IInv => OneWriter
  <2> SUFFICES ASSUME IInv, ~reused PROVE OneWriter
    BY DEF OneWriter
  <2>1. ASSUME NEW r \in Run, sid[r] # None, Present(sid[r]) PROVE scans[sid[r]].by = r
    BY <2>1, WritesOwnRow DEF IInv, TypeOK
  <2>2. ASSUME NEW a \in aliases, Present(a.scan) PROVE scans[a.scan].by = a.by
    <3>1. a.by \in Run /\ a.scan \in ScanId /\ sid[a.by] = a.scan
      BY DEF IInv, TypeOK, KeyInv, KeysAreUsed
    <3> QED
      BY <2>2, <3>1, WritesOwnRow DEF IInv
  <2> QED
    BY <2>1, <2>2 DEF OneWriter
<1> QED
  BY Invariance, <1>1, PTL

\* As long as no scan key is given out twice, a row says what its own run did.
THEOREM RecordsAreTrue == Spec => []RecordTellsRun
<1>1. IInv => RecordTellsRun
  BY DEF IInv, KeyInv, RowsHaveMakers, Telling, RecordTellsRun, PresentIds
<1> QED
  BY Invariance, <1>1, PTL

\* As long as no scan key is given out twice, a request that passed the 409 check never runs
\* beside a scan of its target that it could have seen.
THEOREM ChecksSerialise == Spec => []CheckSerialises
<1>1. IInv => CheckSerialises
  BY DEF IInv, Settled, CheckSerialises
<1> QED
  BY Invariance, <1>1, PTL

\* Every step is a step of the promised record, or leaves its status alone.
LEMMA RecordStepHolds == IInv /\ [Next]_vars => RecordStep
<1> SUFFICES ASSUME IInv, [Next]_vars PROVE RecordStep
  OBVIOUS
<1>1. ASSUME NEW r \in Run, NEW t \in TargetId, SelectTarget(r, t) PROVE RecordStep
  BY <1>1 DEF SelectTarget, RecordStep, RowStatus
<1>2. ASSUME NEW r \in Run, CheckActive(r) PROVE RecordStep
  BY <1>2 DEF CheckActive, RecordStep, RowStatus
<1>3. ASSUME NEW r \in Run, Insert(r) PROVE RecordStep
  <2>1. PICK s \in ScanId : /\ IsNextRowId(s, PresentIds)
                            /\ scans' = [scans EXCEPT ![s] = PendingRow(r, tid[r])]
    BY <1>3 DEF Insert
  <2>2. scans[s].status = "absent"
    <3>1. ~(s < s)
      BY DEF ScanId
    <3> QED
      BY <2>1, <3>1 DEF IsNextRowId, PresentIds, Present
  <2>3. Record!Submit(s)
    BY <2>1, <2>2 DEF IInv, TypeOK, RowStatus, Record!Submit, Record!Becomes, PendingRow
  <2> QED
    BY <2>3 DEF RecordStep, Record!RecordNext
<1>4. ASSUME NEW r \in Run, Queue(r) PROVE RecordStep
  BY <1>4 DEF Queue, RecordStep, RowStatus
<1>5. ASSUME NEW r \in Run, LoadRows(r) PROVE RecordStep
  BY <1>5 DEF LoadRows, RecordStep, RowStatus
<1>6. ASSUME NEW r \in Run, Refresh(r) PROVE RecordStep
  BY <1>6 DEF Refresh, RecordStep, RowStatus
<1>7. ASSUME NEW r \in Run, Start(r) PROVE RecordStep
  <2> SUFFICES ASSUME ~reused' PROVE RecordStep
    BY DEF RecordStep
  <2>1. ~reused /\ sid[r] \in ScanId /\ Present(sid[r]) /\ scans[sid[r]] \in ScanRow
    BY <1>7 DEF IInv, TypeOK, KeyInv, HoldsKey, Start, Working, Phase
  <2>2. scans[sid[r]].by = r
    BY <2>1, WritesOwnRow DEF IInv
  <2>3. RowTells(scans[sid[r]], r)
    BY <2>1, <2>2 DEF IInv, Telling, PresentIds
  <2>4. scans[sid[r]].status = "pending"
    BY <2>1, <2>3, <1>7 DEF RowTells, Start, Phase, ScanRow, Status, Active, Terminal, Present
  <2>5. Record!Begin(sid[r])
    BY <2>1, <2>4, <1>7 DEF IInv, TypeOK, Start, RowStatus, Record!Begin, Record!Becomes, ScanRow
  <2> QED
    BY <2>1, <2>5 DEF RecordStep, Record!RecordNext
<1>8. ASSUME NEW r \in Run, NextPhase(r) PROVE RecordStep
  <2>1. sid[r] \in ScanId /\ scans[sid[r]] \in ScanRow
    BY <1>8, AfterIsPhase DEF IInv, TypeOK, KeyInv, HoldsKey, NextPhase, Working
  <2> QED
    BY <2>1, <1>8 DEF IInv, TypeOK, NextPhase, RecordStep, RowStatus, ScanRow
<1>9. ASSUME NEW r \in Run, Complete(r) PROVE RecordStep
  <2> SUFFICES ASSUME ~reused' PROVE RecordStep
    BY DEF RecordStep
  <2>1. ~reused /\ sid[r] \in ScanId /\ Present(sid[r]) /\ scans[sid[r]] \in ScanRow
    BY <1>9 DEF IInv, TypeOK, KeyInv, HoldsKey, Complete, Working, Phase
  <2>2. scans[sid[r]].by = r
    BY <2>1, WritesOwnRow DEF IInv
  <2>3. RowTells(scans[sid[r]], r)
    BY <2>1, <2>2 DEF IInv, Telling, PresentIds
  <2>4. scans[sid[r]].status = "running"
    BY <2>1, <2>3, <1>9 DEF RowTells, Complete, Phase, ScanRow, Status, Active, Terminal, Present
  <2>5. Record!Finish(sid[r])
    BY <2>1, <2>4, <1>9 DEF IInv, TypeOK, Complete, RowStatus, Record!Finish, Record!Becomes, ScanRow
  <2> QED
    BY <2>1, <2>5 DEF RecordStep, Record!RecordNext
<1>10. ASSUME NEW r \in Run, Fail(r) PROVE RecordStep
  <2> SUFFICES ASSUME ~reused' PROVE RecordStep
    BY DEF RecordStep
  <2>1. ~reused /\ sid[r] \in ScanId /\ Present(sid[r]) /\ scans[sid[r]] \in ScanRow
    BY <1>10 DEF IInv, TypeOK, KeyInv, HoldsKey, Fail, Working, Phase
  <2>2. scans[sid[r]].by = r
    BY <2>1, WritesOwnRow DEF IInv
  <2>3. RowTells(scans[sid[r]], r)
    BY <2>1, <2>2 DEF IInv, Telling, PresentIds
  <2>4. scans[sid[r]].status = "running"
    BY <2>1, <2>3, <1>10 DEF RowTells, Fail, Phase, ScanRow, Status, Active, Terminal, Present
  <2>5. Record!Finish(sid[r])
    BY <2>1, <2>4, <1>10 DEF IInv, TypeOK, Fail, RowStatus, Record!Finish, Record!Becomes, ScanRow
  <2> QED
    BY <2>1, <2>5 DEF RecordStep, Record!RecordNext
<1>11. ASSUME NEW r \in Run, RowGone(r) PROVE RecordStep
  BY <1>11 DEF RowGone, RecordStep, RowStatus
<1>12. ASSUME NEW r \in Run, CommitFails(r) PROVE RecordStep
  BY <1>12 DEF CommitFails, RecordStep, RowStatus
<1>13. ASSUME NEW r \in Run, KillCommand(r) PROVE RecordStep
  BY <1>13 DEF KillCommand, RecordStep, RowStatus
<1>14. ASSUME NEW t \in TargetId, CreateTarget(t) PROVE RecordStep
  BY <1>14 DEF CreateTarget, RecordStep, RowStatus
<1>15. ASSUME NEW d \in Deleter, NEW t \in TargetId, DeleteSelect(d, t) PROVE RecordStep
  BY <1>15 DEF DeleteSelect, RecordStep, RowStatus
<1>16. ASSUME NEW d \in Deleter, DeleteCascade(d) PROVE RecordStep
  BY <1>16 DEF DeleteCascade, RecordStep, RowStatus
<1>17. ASSUME NEW d \in Deleter, DeleteCommit(d) PROVE RecordStep
  <2>1. del[d].scans \in SUBSET ScanId
    BY DEF IInv, TypeOK
  <2>2. RowStatus' = [s \in ScanId |-> IF s \in del[d].scans THEN "absent" ELSE RowStatus[s]]
    BY <1>17 DEF DeleteCommit, RowStatus, AbsentRow
  <2>3. Record!Remove
    BY <2>1, <2>2 DEF Record!Remove
  <2> QED
    BY <2>3 DEF RecordStep, Record!RecordNext
<1>18. CASE CrashServer
  BY <1>18 DEF CrashServer, RecordStep, RowStatus
<1>19. CASE UNCHANGED vars
  BY <1>19 DEF RecordStep, RowStatus
<1>20. ASSUME NEW r \in Run, ReadTarget(r) PROVE RecordStep
  BY <1>20 DEF ReadTarget, RecordStep, RowStatus
<1> QED
  BY <1>1, <1>2, <1>3, <1>4, <1>5, <1>6, <1>7, <1>8, <1>9, <1>10,
     <1>11, <1>12, <1>13, <1>14, <1>15, <1>16, <1>17, <1>18, <1>19, <1>20 DEF Next, RequestStep, ServiceStep

\* As long as no scan key is given out twice, each record starts once, ends once and then only
\* disappears: the program implements the record that ScanRecord promises.
THEOREM RecordsImplementPromise == Spec => RecordsKeepPromise
<1>1. Init => Record!RecordInit
  BY DEF Init, Record!RecordInit, RowStatus, AbsentRow
<1>2. IInv /\ [Next]_vars => [RecordStep]_vars
  BY RecordStepHolds
<1> QED
  BY Invariance, <1>1, <1>2, PTL DEF Spec, RecordsKeepPromise
=============================================================================
