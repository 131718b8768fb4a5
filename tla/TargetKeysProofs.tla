--------------------------- MODULE TargetKeysProofs ---------------------------
(***************************************************************************)
(* Proofs about TargetKeys for any number of requests, scans, targets,     *)
(* names and faults.                                                       *)
(***************************************************************************)
EXTENDS TargetKeys, TLAPS

(***************************************************************************)
(* The inductive invariant.  KeysBelong ties the two stores; it needs what *)
(* the requests between them have read and done.                           *)
(***************************************************************************)

\* A missing row is nothing else either, and only the row from before has a key in plain text.
Whole ==
  \A t \in TargetId : /\ ~Present(t) => rows[t].by = None
                      /\ rows[t].legacy # None => rows[t].by = Legacy

\* What a request that is under way has read, and which requests come where.
Roles ==
  \A r \in Request :
    /\ req[r].at \in {"insert", "refresh"} => r \in Creator
    /\ req[r].at = "unset" => r \in Deleter
    /\ req[r].at = "set" => r \notin Deleter
    /\ req[r].at = "commit" => r \notin Creator
    /\ req[r].at = "insert" => req[r].name \in Name
    /\ r \in Updater /\ req[r].at \in {"set", "commit"} => req[r].name \in Name
    /\ req[r].at \in {"refresh", "set", "unset", "commit"} =>
         req[r].tid \in TargetId /\ req[r].row.by # None
    /\ r \in Scanner /\ req[r].at = "set" => req[r].row.by = Legacy

\* When a delete comes to its commit the key is gone.
Cleared ==
  \A d \in Deleter : req[d].at = "commit" => keys[req[d].tid] = None \/ req[d].tid \in strayed

\* A request whose key is stored has read its target and reads no other.
Settled ==
  \A t \in TargetId : keys[t] \in Creator \cup Updater =>
    req[keys[t]].at \in {"commit"} \cup Ended /\ req[keys[t]].row.by # None

\* A scan that is about to move the plain text key found no key to be there.
NoneFound ==
  \A s \in Scanner : req[s].at = "set" =>
    keys[req[s].tid] \notin Creator \cup Updater \/ req[s].tid \in outrun

\* A delete of the row from before took its key, or is about to go on.
TakenAway ==
  \E d \in Deleter : req[d].tid = 1 /\ req[d].row.by = Legacy /\ req[d].at \in {"commit", "error"}

\* While there is the row from before: who deletes it has read it, and who is about to clear
\* its plain text has stored a key.
Stored ==
  rows[1].by = Legacy =>
    /\ \A d \in Deleter : req[d].tid = 1 /\ req[d].at \in {"unset", "commit"} => req[d].row.by = Legacy
    /\ \A r \in Request :
         req[r].tid = 1 /\ req[r].at = "commit" /\ (r \in Updater => req[r].pastes) /\ r \notin Deleter
           => keys[1] # None \/ TakenAway

IInv ==
  /\ TypeOK /\ Whole /\ Roles /\ Cleared /\ Settled /\ KeysBelong
  /\ NoneFound /\ Stored /\ PlainTextNotLost

-----------------------------------------------------------------------------
(* What a step does to the requests, pointwise. *)

ReqRow == [at : At, tid : TargetId \cup {None}, name : Name \cup {None}, pastes : BOOLEAN, row : Row]

\* Every request but one stands still.
Only(r) == \A q \in Request : q # r => req'[q] = req[q]

\* One request goes on and remembers what it has read.
Moves(r, label) ==
  /\ req'[r].at = label /\ req'[r].tid = req[r].tid /\ req'[r].name = req[r].name
  /\ req'[r].pastes = req[r].pastes /\ req'[r].row = req[r].row
  /\ Only(r)

LEMMA ReqChanges ==
  ASSUME TypeOK, NEW r \in Request, NEW rec \in ReqRow, req' = [req EXCEPT ![r] = rec]
  PROVE  req' \in [Request -> ReqRow] /\ req'[r] = rec /\ Only(r)
  BY DEF TypeOK, ReqRow, Only

LEMMA GotoMoves ==
  ASSUME TypeOK, NEW r \in Request, NEW label \in At, Goto(r, label)
  PROVE  req' \in [Request -> ReqRow] /\ Moves(r, label)
<1> DEFINE rec == [req[r] EXCEPT !.at = label]
<1>1. rec \in ReqRow /\ rec.at = label /\ rec.tid = req[r].tid /\ rec.name = req[r].name
      /\ rec.pastes = req[r].pastes /\ rec.row = req[r].row
  <2>1. req[r] \in ReqRow
    BY DEF TypeOK, ReqRow
  <2> QED
    BY <2>1 DEF ReqRow
<1>2. req' = [req EXCEPT ![r] = rec]
  BY DEF Goto
<1> HIDE DEF rec
<1> QED
  BY <1>1, <1>2, ReqChanges DEF Moves

\* The labels, and the roles of the requests, are different.
LEMMA Apart ==
  /\ {"refused", "error", "done"} \subseteq At /\ {"insert", "refresh", "set", "unset", "commit"} \subseteq At
  /\ \A r \in Creator : r \notin Updater \cup Deleter \cup Scanner
  /\ \A r \in Updater : r \notin Deleter \cup Scanner
  /\ \A r \in Deleter : r \notin Scanner
  /\ None \notin Request \cup Name /\ Legacy \notin Request \cup Name /\ None # Legacy
  BY RequestsAssumption DEF At, Ended

\* A fault that may still come is counted.
LEMMA Counts == ASSUME TypeOK, faults < MaxFaults PROVE faults + 1 \in 0 .. MaxFaults
  BY RequestsAssumption DEF TypeOK

\* A row that is there has a name and one who made it.
LEMMA RowIs ==
  ASSUME TypeOK, Whole, NEW t \in TargetId
  PROVE  /\ rows[t] \in Row
         /\ Present(t) => rows[t].by # None /\ rows[t].name \in Name
         /\ ~Present(t) => rows[t].by = None /\ rows[t].legacy = None
  BY Apart DEF TypeOK, Whole, Row, Present

-----------------------------------------------------------------------------
(* The requests. *)

LEMMA CreateCheckKeeps ==
  ASSUME IInv, NEW r \in Request, NEW n \in Name, NEW p \in BOOLEAN, CreateCheck(r, n, p)
  PROVE  IInv'
<1> DEFINE rec == [Idle EXCEPT !.at = IF Taken(n) THEN "refused" ELSE "insert", !.name = n, !.pastes = p]
<1>1. /\ rec.at \in {"refused", "insert"} /\ rec.tid = None /\ rec.name = n /\ rec.row = NoRow
      /\ rec \in ReqRow
  BY Apart DEF Idle, NoRow, ReqRow, Row, At, Ended
<1>2. r \in Creator /\ req[r].at = "idle" /\ UNCHANGED <<rows, keys, faults, aux>> /\ req' = [req EXCEPT ![r] = rec]
  BY DEF CreateCheck
<1> HIDE DEF rec
<1>3. req' \in [Request -> ReqRow] /\ req'[r] = rec /\ Only(r)
  BY <1>1, <1>2, ReqChanges DEF IInv
<1>4. TypeOK' /\ Whole'
  BY <1>2, <1>3 DEF IInv, TypeOK, Whole, ReqRow, Present, TakenBut, aux
<1>5. Roles'
  BY <1>1, <1>2, <1>3, Apart DEF IInv, Roles, Only
<1>6. Cleared' /\ NoneFound'
  BY <1>1, <1>2, <1>3, Apart DEF IInv, Cleared, NoneFound, Only, aux, Request
<1>7. Settled' /\ KeysBelong'
  BY <1>1, <1>2, <1>3, Apart DEF IInv, Settled, KeysBelong, OwnerOf, Only, aux, Request, Ended, TypeOK, Key
<1>8. TakenAway => TakenAway'
  BY <1>2, <1>3, Apart DEF TakenAway, Only, Request
<1>9. Stored' /\ PlainTextNotLost'
  BY <1>1, <1>2, <1>3, <1>8, Apart DEF IInv, Stored, PlainTextNotLost, TakenAway, Only, Request
<1> QED
  BY <1>4, <1>5, <1>6, <1>7, <1>9 DEF IInv

\* A step that only ends a request, with the stores and what is noted of them as they were.
LEMMA EndKeeps ==
  ASSUME IInv, NEW r \in Request, req[r].at \notin {"idle"} \cup Ended, NEW label \in {"error", "done"},
         Goto(r, label), label = "done" => req[r].at # "commit" \/ r \notin Deleter,
         UNCHANGED <<rows, keys, aux>>, faults' \in 0 .. MaxFaults
  PROVE  IInv'
<1>1. req' \in [Request -> ReqRow] /\ Moves(r, label) /\ label \in Ended
  BY GotoMoves, Apart DEF IInv, Ended
<1>2. TypeOK' /\ Whole'
  BY <1>1 DEF IInv, TypeOK, Whole, ReqRow, Present, TakenBut, aux
<1>3. Roles'
  BY <1>1, Apart DEF IInv, Roles, Only, Moves
<1>4. Cleared' /\ NoneFound'
  BY <1>1, Apart DEF IInv, Cleared, NoneFound, Only, Moves, aux, Request
<1>5. ASSUME NEW q \in Request
      PROVE  req'[q].row = req[q].row /\ (req[q].at \in {"commit"} \cup Ended => req'[q].at \in {"commit"} \cup Ended)
  BY <1>1, <1>5 DEF Moves, Only
<1>6. Settled' /\ KeysBelong'
  BY <1>1, <1>5, Apart DEF IInv, Settled, KeysBelong, OwnerOf, aux, Request, TypeOK, Key
<1>7. ASSUME TakenAway PROVE TakenAway'
  <2>1. PICK d \in Deleter : req[d].tid = 1 /\ req[d].row.by = Legacy /\ req[d].at \in {"commit", "error"}
    BY <1>7 DEF TakenAway
  <2>2. CASE d = r
    BY <1>1, <2>1, <2>2 DEF TakenAway, Moves, Ended
  <2>3. CASE d # r
    BY <1>1, <2>1, <2>3 DEF TakenAway, Moves, Only, Request
  <2> QED
    BY <2>2, <2>3
<1>8. Stored' /\ PlainTextNotLost'
  BY <1>1, <1>7, Apart DEF IInv, Stored, PlainTextNotLost, TakenAway, Only, Moves, Request
<1> QED
  BY <1>2, <1>3, <1>4, <1>6, <1>8 DEF IInv

LEMMA CreateInsertKeeps == ASSUME IInv, NEW r \in Request, CreateInsert(r) PROVE IInv'
<1>1. /\ req[r].at = "insert" /\ r \in Creator /\ req[r].name \in Name
      /\ UNCHANGED <<keys, faults, aux>>
  BY DEF CreateInsert, IInv, Roles
<1>2. CASE Goto(r, "error") /\ UNCHANGED rows
  BY <1>1, <1>2, EndKeeps DEF IInv, TypeOK, Ended
<1>3. ASSUME NEW t \in TargetId, IsNextRowId(t), ~Taken(req[r].name),
             rows' = [rows EXCEPT ![t] = [name |-> req[r].name, legacy |-> None, by |-> r]],
             req' = [req EXCEPT ![r].at = "refresh", ![r].tid = t, ![r].row = rows'[t]]
      PROVE  IInv'
  <2> DEFINE new == [name |-> req[r].name, legacy |-> None, by |-> r]
             rec == [[[req[r] EXCEPT !.at = "refresh"] EXCEPT !.tid = t] EXCEPT !.row = new]
  <2>1. new \in Row /\ new.by = r /\ new.legacy = None /\ new.name = req[r].name
    BY <1>1, Apart DEF Row
  <2> HIDE DEF new
  <2>2. rows'[t] = new /\ \A u \in TargetId : u # t => rows'[u] = rows[u]
    BY <1>3 DEF IInv, TypeOK, new
  <2>3. /\ rec \in ReqRow /\ rec.at = "refresh" /\ rec.tid = t /\ rec.row = new
        /\ rec.name = req[r].name /\ rec.pastes = req[r].pastes
    <3>1. req[r] \in ReqRow
      BY DEF IInv, TypeOK, ReqRow
    <3> QED
      BY <2>1, <3>1, Apart DEF ReqRow
  <2>4. req' = [req EXCEPT ![r] = rec]
    BY <1>3, <2>2 DEF IInv, TypeOK
  <2> HIDE DEF rec
  <2>5. req' \in [Request -> ReqRow] /\ req'[r] = rec /\ Only(r)
    BY <2>3, <2>4, ReqChanges DEF IInv
  <2>6. ~Present(t) /\ rows[t].by = None
    <3>1. t \in RowIds => t < t
      BY <1>3 DEF IsNextRowId
    <3>2. t \in Nat
      BY DEF TargetId
    <3> QED
      BY <3>1, <3>2 DEF RowIds, IInv, Whole
  <2>7. rows' \in [TargetId -> Row]
    BY <1>3, <2>1 DEF IInv, TypeOK, new
  <2>8. \A u \in TargetId : Present(u)' => ~TakenBut(rows[u].name, u)' /\ rows'[u].by # None
    BY <1>1, <1>3, <2>1, <2>2, Apart DEF IInv, TypeOK, Present, TakenBut, Taken
  <2>9. TypeOK' /\ Whole'
    BY <1>1, <2>1, <2>2, <2>5, <2>7, <2>8, Apart DEF IInv, TypeOK, Whole, ReqRow, Present, aux
  <2>10. Roles'
    BY <1>1, <2>1, <2>3, <2>5, Apart DEF IInv, Roles, Only
  <2>11. Cleared' /\ NoneFound'
    BY <1>1, <2>3, <2>5, Apart DEF IInv, Cleared, NoneFound, Only, aux, Request
  <2>12. Settled'
    BY <1>1, <2>3, <2>5, Apart DEF IInv, Settled, Only, aux, Request, Ended
  <2>13. keys[t] = None \/ t \in strayed
    BY <1>1, <2>6, Apart DEF IInv, KeysBelong, Settled, OwnerOf, TypeOK, Key
  <2>14. KeysBelong'
    BY <1>1, <2>2, <2>3, <2>5, <2>13, Apart DEF IInv, Settled, KeysBelong, OwnerOf, Only, aux, Request, Ended, TypeOK, Key
  <2>15. rows'[1].by = Legacy => rows[1].by = Legacy /\ t # 1
    <3>1. 1 \in TargetId
      BY RequestsAssumption DEF TargetId
    <3> QED
      BY <1>1, <2>1, <2>2, <3>1, Apart DEF Request
  <2>16. TakenAway => TakenAway'
    BY <1>1, <2>5, Apart DEF TakenAway, Only, Request
  <2>17. rows'[1].by = Legacy => rows'[1] = rows[1]
    <3>1. 1 \in TargetId
      BY RequestsAssumption DEF TargetId
    <3> QED
      BY <2>2, <2>15, <3>1
  <2>18. PlainTextNotLost'
    BY <1>1, <2>15, <2>16, <2>17 DEF IInv, PlainTextNotLost, TakenAway
  <2>19. Stored'
    BY <1>1, <2>3, <2>5, <2>15, <2>16, Apart DEF IInv, Stored, Only, Request
  <2> QED
    BY <2>9, <2>10, <2>11, <2>12, <2>14, <2>18, <2>19 DEF IInv
<1> QED
  BY <1>1, <1>2, <1>3 DEF CreateInsert

LEMMA CreateRefreshKeeps == ASSUME IInv, NEW r \in Request, CreateRefresh(r) PROVE IInv'
<1>1. /\ req[r].at = "refresh" /\ r \in Creator /\ UNCHANGED <<rows, keys, faults, aux>>
      /\ req[r].tid \in TargetId /\ req[r].row.by # None
  BY DEF CreateRefresh, IInv, Roles
<1>2. CASE Goto(r, "error") \/ Goto(r, "done")
  BY <1>1, <1>2, EndKeeps DEF IInv, TypeOK, Ended
<1>3. CASE Goto(r, "set")
  <2>1. req' \in [Request -> ReqRow] /\ Moves(r, "set")
    BY <1>3, GotoMoves, Apart DEF IInv
  <2>2. TypeOK' /\ Whole'
    BY <1>1, <2>1 DEF IInv, TypeOK, Whole, ReqRow, Present, TakenBut, aux
  <2>3. Roles'
    BY <1>1, <2>1, Apart DEF IInv, Roles, Only, Moves
  <2>4. Cleared' /\ NoneFound'
    BY <1>1, <2>1, Apart DEF IInv, Cleared, NoneFound, Only, Moves, aux, Request
  <2>5. Settled' /\ KeysBelong'
    BY <1>1, <2>1, Apart DEF IInv, Settled, KeysBelong, OwnerOf, aux, Request, TypeOK, Key, Only, Moves, Ended
  <2>6. TakenAway => TakenAway'
    BY <1>1, <2>1, Apart DEF TakenAway, Only, Moves, Request
  <2>7. Stored' /\ PlainTextNotLost'
    BY <1>1, <2>1, <2>6, Apart DEF IInv, Stored, PlainTextNotLost, TakenAway, Only, Moves, Request
  <2> QED
    BY <2>2, <2>3, <2>4, <2>5, <2>7 DEF IInv
<1> QED
  BY <1>2, <1>3 DEF CreateRefresh

LEMMA UpdateCheckKeeps ==
  ASSUME IInv, NEW r \in Request, NEW t \in TargetId, NEW n \in Name, NEW p \in BOOLEAN,
         UpdateCheck(r, t, n, p)
  PROVE  IInv'
<1> DEFINE rec == [at |-> IF ~Present(t) \/ TakenBut(n, t) THEN "refused"
                          ELSE IF p THEN "set" ELSE "commit",
                   tid |-> t, name |-> n, pastes |-> p, row |-> rows[t]]
<1>1. /\ r \in Updater /\ req[r].at = "idle" /\ UNCHANGED <<rows, keys, faults, aux>>
      /\ req' = [req EXCEPT ![r] = rec]
  BY DEF UpdateCheck
<1>2. /\ rec.tid = t /\ rec.name = n /\ rec.pastes = p /\ rec.row = rows[t]
      /\ rec.at \in {"refused", "set", "commit"}
      /\ rec.at # "refused" => Present(t)
      /\ rec.at = "commit" => ~p
      /\ rec \in ReqRow
  BY Apart, RowIs DEF ReqRow, IInv
<1> HIDE DEF rec
<1>3. req' \in [Request -> ReqRow] /\ req'[r] = rec /\ Only(r)
  BY <1>1, <1>2, ReqChanges DEF IInv
<1>4. TypeOK' /\ Whole'
  BY <1>1, <1>3 DEF IInv, TypeOK, Whole, ReqRow, Present, TakenBut, aux
<1>5. Roles'
  BY <1>1, <1>2, <1>3, Apart, RowIs DEF IInv, Roles, Only
<1>6. Cleared' /\ NoneFound'
  BY <1>1, <1>3, Apart DEF IInv, Cleared, NoneFound, Only, aux, Request
<1>7. Settled' /\ KeysBelong'
  BY <1>1, <1>3, Apart DEF IInv, Settled, KeysBelong, OwnerOf, Only, aux, Request, Ended, TypeOK, Key
<1>8. TakenAway => TakenAway'
  BY <1>1, <1>3, Apart DEF TakenAway, Only, Request
<1>9. Stored' /\ PlainTextNotLost'
  BY <1>1, <1>2, <1>3, <1>8, Apart DEF IInv, Stored, PlainTextNotLost, Only, Request
<1> QED
  BY <1>4, <1>5, <1>6, <1>7, <1>9 DEF IInv

\* The key a request pasted is stored under its target.
LEMMA SetPastedKeeps == ASSUME IInv, NEW r \in Request, SetPasted(r) PROVE IInv'
<1> DEFINE t == req[r].tid
           label == IF r \in Creator THEN "done" ELSE "commit"
<1>1. /\ r \in Creator \cup Updater /\ req[r].at = "set" /\ UNCHANGED <<rows, faults>>
      /\ t \in TargetId /\ req[r].row.by # None /\ (r \in Updater => req[r].name \in Name)
  BY DEF SetPasted, IInv, Roles
<1>2. label \in {"done", "commit"} /\ (label = "commit" => r \in Updater)
  BY <1>1
<1>3. /\ keys' = [keys EXCEPT ![t] = r]
      /\ strayed' = IF Deleting(t) \/ rows[t].by # req[r].row.by THEN strayed \cup {t} ELSE strayed
      /\ outrun' = IF Moving(t) THEN outrun \cup {t} ELSE outrun
      /\ Goto(r, label)
  BY DEF SetPasted
<1> HIDE DEF label, t
<1>4. req' \in [Request -> ReqRow] /\ Moves(r, label)
  BY <1>2, <1>3, GotoMoves, Apart DEF IInv
<1>5. /\ keys' \in [TargetId -> Key \cup {None}] /\ keys'[t] = r
      /\ \A u \in TargetId : u # t => keys'[u] = keys[u]
      /\ r # None /\ r # Legacy
  BY <1>1, <1>3, Apart DEF IInv, TypeOK, Key, Request
<1>6. TypeOK' /\ Whole'
  BY <1>1, <1>3, <1>4, <1>5 DEF IInv, TypeOK, Whole, ReqRow, Present, TakenBut
<1>7. Roles'
  BY <1>1, <1>2, <1>4, Apart DEF IInv, Roles, Only, Moves
<1>8. Cleared'
  <2>1. ASSUME NEW d \in Deleter, req'[d].at = "commit"
        PROVE  keys'[req'[d].tid] = None \/ req'[d].tid \in strayed'
    <3>1. req'[d] = req[d]
      BY <1>1, <1>4, Apart DEF Moves, Only, Request
    <3>2. req[d].tid \in TargetId
      BY <2>1, <3>1 DEF IInv, Roles, Request
    <3>3. CASE req[d].tid = t
      BY <1>3, <2>1, <3>1, <3>3 DEF Deleting
    <3>4. CASE req[d].tid # t
      BY <1>3, <1>5, <2>1, <3>1, <3>2, <3>4 DEF IInv, Cleared
    <3> QED
      BY <3>3, <3>4
  <2> QED
    BY <2>1 DEF Cleared
<1>9. NoneFound'
  <2>1. ASSUME NEW s \in Scanner, req'[s].at = "set"
        PROVE  keys'[req'[s].tid] \notin Creator \cup Updater \/ req'[s].tid \in outrun'
    <3>1. req'[s] = req[s]
      BY <1>1, <1>4, Apart DEF Moves, Only, Request
    <3>2. req[s].tid \in TargetId
      BY <2>1, <3>1 DEF IInv, Roles, Request
    <3>3. CASE req[s].tid = t
      BY <1>3, <2>1, <3>1, <3>3 DEF Moving
    <3>4. CASE req[s].tid # t
      BY <1>3, <1>5, <2>1, <3>1, <3>2, <3>4 DEF IInv, NoneFound
    <3> QED
      BY <3>3, <3>4
  <2> QED
    BY <2>1 DEF NoneFound
<1>10. ASSUME NEW q \in Request
       PROVE  req'[q].row = req[q].row /\ (req[q].at \in {"commit"} \cup Ended => req'[q].at \in {"commit"} \cup Ended)
  BY <1>1, <1>4, <1>10 DEF Moves, Only, Ended
<1>11. Settled'
  BY <1>1, <1>2, <1>4, <1>5, <1>10, Apart DEF IInv, Settled, Moves, Request, Ended
<1>12. KeysBelong'
  <2>1. ASSUME NEW u \in TargetId, keys'[u] # None, u \notin strayed' PROVE rows'[u].by = OwnerOf(keys[u])'
    <3>1. CASE u = t
      BY <1>1, <1>3, <1>4, <1>5, <2>1, <3>1 DEF OwnerOf, Moves
    <3>2. CASE u # t
      BY <1>1, <1>3, <1>5, <1>10, <2>1, <3>2 DEF IInv, KeysBelong, OwnerOf, TypeOK, Key, Request
    <3> QED
      BY <3>1, <3>2
  <2> QED
    BY <2>1 DEF KeysBelong
<1>13. TakenAway => TakenAway'
  BY <1>1, <1>4, Apart DEF TakenAway, Only, Moves, Request
<1>14. 1 \in TargetId /\ (keys[1] # None => keys'[1] # None)
  BY <1>5, RequestsAssumption DEF TargetId
<1>15. PlainTextNotLost'
  BY <1>1, <1>13, <1>14 DEF IInv, PlainTextNotLost, TakenAway
<1>16. Stored'
  <2> SUFFICES ASSUME rows'[1].by = Legacy PROVE Stored'
    BY DEF Stored
  <2>1. \A d \in Deleter : req'[d] = req[d]
    BY <1>1, <1>4, Apart DEF Moves, Only, Request
  <2>2. ASSUME NEW q \in Request, req'[q].tid = 1, req'[q].at = "commit", q \in Updater => req'[q].pastes,
               q \notin Deleter
        PROVE  keys'[1] # None \/ TakenAway'
    <3>1. CASE q = r
      BY <1>4, <1>5, <2>2, <3>1 DEF Moves, t
    <3>2. CASE q # r
      BY <1>1, <1>4, <1>13, <1>14, <2>2, <3>2 DEF IInv, Stored, Moves, Only
    <3> QED
      BY <3>1, <3>2
  <2> QED
    BY <1>1, <2>1, <2>2 DEF IInv, Stored
<1> QED
  BY <1>6, <1>7, <1>8, <1>9, <1>11, <1>12, <1>15, <1>16 DEF IInv

\* A scan moves the plain text key over.
LEMMA SetLegacyKeeps == ASSUME IInv, NEW r \in Request, SetLegacy(r) PROVE IInv'
<1> DEFINE t == req[r].tid
<1>1. /\ r \in Scanner /\ req[r].at = "set" /\ UNCHANGED <<rows, faults, outrun>>
      /\ t \in TargetId /\ req[r].row.by = Legacy
  BY DEF SetLegacy, IInv, Roles
<1>2. /\ keys' = [keys EXCEPT ![t] = Legacy]
      /\ strayed' = IF Deleting(t) \/ rows[t].by # req[r].row.by THEN strayed \cup {t} ELSE strayed
      /\ Goto(r, "commit")
  BY DEF SetLegacy
<1> HIDE DEF t
<1>3. req' \in [Request -> ReqRow] /\ Moves(r, "commit")
  BY <1>2, GotoMoves, Apart DEF IInv
<1>4. /\ keys' \in [TargetId -> Key \cup {None}] /\ keys'[t] = Legacy
      /\ \A u \in TargetId : u # t => keys'[u] = keys[u]
      /\ Legacy # None /\ Legacy \notin Creator \cup Updater
  BY <1>1, <1>2, Apart DEF IInv, TypeOK, Key, Request
<1>5. TypeOK' /\ Whole'
  BY <1>1, <1>2, <1>3, <1>4 DEF IInv, TypeOK, Whole, ReqRow, Present, TakenBut
<1>6. Roles'
  BY <1>1, <1>3, Apart DEF IInv, Roles, Only, Moves
<1>7. Cleared'
  <2>1. ASSUME NEW d \in Deleter, req'[d].at = "commit"
        PROVE  keys'[req'[d].tid] = None \/ req'[d].tid \in strayed'
    <3>1. req'[d] = req[d]
      BY <1>1, <1>3, Apart DEF Moves, Only, Request
    <3>2. req[d].tid \in TargetId
      BY <2>1, <3>1 DEF IInv, Roles, Request
    <3>3. CASE req[d].tid = t
      BY <1>2, <2>1, <3>1, <3>3 DEF Deleting
    <3>4. CASE req[d].tid # t
      BY <1>2, <1>4, <2>1, <3>1, <3>2, <3>4 DEF IInv, Cleared
    <3> QED
      BY <3>3, <3>4
  <2> QED
    BY <2>1 DEF Cleared
<1>8. NoneFound'
  <2>1. ASSUME NEW s \in Scanner, req'[s].at = "set"
        PROVE  keys'[req'[s].tid] \notin Creator \cup Updater \/ req'[s].tid \in outrun'
    <3>1. req'[s] = req[s]
      BY <1>3, <2>1 DEF Moves, Only, Request
    <3>2. req[s].tid \in TargetId
      BY <2>1, <3>1 DEF IInv, Roles, Request
    <3> QED
      BY <1>1, <1>4, <2>1, <3>1, <3>2 DEF IInv, NoneFound
  <2> QED
    BY <2>1 DEF NoneFound
<1>9. ASSUME NEW q \in Request
      PROVE  req'[q].row = req[q].row /\ (req[q].at \in {"commit"} \cup Ended => req'[q].at \in {"commit"} \cup Ended)
  BY <1>1, <1>3, <1>9 DEF Moves, Only, Ended
<1>10. Settled'
  BY <1>1, <1>4, <1>9 DEF IInv, Settled, Request
<1>11. KeysBelong'
  <2>1. ASSUME NEW u \in TargetId, keys'[u] # None, u \notin strayed' PROVE rows'[u].by = OwnerOf(keys[u])'
    <3>1. CASE u = t
      BY <1>1, <1>2, <1>4, <2>1, <3>1 DEF OwnerOf
    <3>2. CASE u # t
      BY <1>1, <1>2, <1>4, <1>9, <2>1, <3>2 DEF IInv, KeysBelong, OwnerOf, TypeOK, Key, Request
    <3> QED
      BY <3>1, <3>2
  <2> QED
    BY <2>1 DEF KeysBelong
<1>12. TakenAway => TakenAway'
  BY <1>1, <1>3, Apart DEF TakenAway, Only, Moves, Request
<1>13. 1 \in TargetId /\ (keys[1] # None => keys'[1] # None)
  BY <1>4, RequestsAssumption DEF TargetId
<1>14. PlainTextNotLost'
  BY <1>1, <1>12, <1>13 DEF IInv, PlainTextNotLost, TakenAway
<1>15. Stored'
  <2> SUFFICES ASSUME rows'[1].by = Legacy PROVE Stored'
    BY DEF Stored
  <2>1. \A d \in Deleter : req'[d] = req[d]
    BY <1>1, <1>3, Apart DEF Moves, Only, Request
  <2>2. ASSUME NEW q \in Request, req'[q].tid = 1, req'[q].at = "commit", q \in Updater => req'[q].pastes,
               q \notin Deleter
        PROVE  keys'[1] # None \/ TakenAway'
    <3>1. CASE q = r
      BY <1>3, <1>4, <2>2, <3>1 DEF Moves, t
    <3>2. CASE q # r
      BY <1>1, <1>3, <1>12, <1>13, <2>2, <3>2 DEF IInv, Stored, Moves, Only
    <3> QED
      BY <3>1, <3>2
  <2> QED
    BY <1>1, <2>1, <2>2 DEF IInv, Stored
<1> QED
  BY <1>5, <1>6, <1>7, <1>8, <1>10, <1>11, <1>14, <1>15 DEF IInv

\* The commit of an update.
LEMMA UpdateCommitKeeps == ASSUME IInv, NEW r \in Request, UpdateCommit(r) PROVE IInv'
<1> DEFINE t == req[r].tid
           renames == req[r].name # req[r].row.name
           clears == req[r].pastes /\ req[r].row.legacy # None
<1>1. /\ r \in Updater /\ req[r].at = "commit" /\ UNCHANGED <<keys, faults, aux>>
      /\ t \in TargetId /\ req[r].name \in Name
  BY DEF UpdateCommit, IInv, Roles
<1>2. CASE (Goto(r, "done") \/ Goto(r, "error")) /\ UNCHANGED rows
  BY <1>1, <1>2, EndKeeps, Apart DEF IInv, TypeOK, Ended
<1>3. CASE /\ Present(t) /\ ~(renames /\ TakenBut(req[r].name, t))
           /\ rows' = [rows EXCEPT ![t].name = IF renames THEN req[r].name ELSE @,
                                   ![t].legacy = IF clears THEN None ELSE @]
           /\ Goto(r, "done")
  <2> DEFINE new == [[rows[t] EXCEPT !.name = IF renames THEN req[r].name ELSE rows[t].name]
                                EXCEPT !.legacy = IF clears THEN None ELSE rows[t].legacy]
  <2>1. rows[t] \in Row
    BY <1>1 DEF IInv, TypeOK
  <2>2. /\ new \in Row /\ new.by = rows[t].by
        /\ new.name = IF renames THEN req[r].name ELSE rows[t].name
        /\ new.legacy = IF clears THEN None ELSE rows[t].legacy
    BY <1>1, <2>1 DEF Row
  <2>3. rows' = [rows EXCEPT ![t] = new]
    BY <1>1, <1>3, <2>1 DEF IInv, TypeOK, Row
  <2> HIDE DEF new, renames, clears
  <2>4. rows' \in [TargetId -> Row] /\ rows'[t] = new /\ \A u \in TargetId : u # t => rows'[u] = rows[u]
    BY <1>1, <2>2, <2>3 DEF IInv, TypeOK
  <2>5. req' \in [Request -> ReqRow] /\ Moves(r, "done")
    BY <1>3, GotoMoves, Apart DEF IInv
  <2>6. new.name \in Name /\ new.by # None
    BY <1>1, <1>3, <2>2, RowIs DEF IInv
  <2>7. \A u \in TargetId : u # t /\ Present(u) => rows[u].name # new.name
    BY <1>1, <1>3, <2>2, <2>6 DEF IInv, TypeOK, TakenBut, Present
  <2>8. \A u \in TargetId : Present(u)' => ~TakenBut(rows[u].name, u)' /\ rows'[u].by # None
    BY <1>1, <2>4, <2>6, <2>7, Apart DEF IInv, TypeOK, Present, TakenBut
  <2>9. TypeOK'
    BY <1>1, <2>4, <2>5, <2>8 DEF IInv, TypeOK, ReqRow, aux
  <2>10. Whole'
    BY <1>1, <2>2, <2>4, <2>6, Apart DEF IInv, Whole, Present
  <2>11. Roles'
    BY <1>1, <2>5, Apart DEF IInv, Roles, Only, Moves
  <2>12. Cleared' /\ NoneFound'
    BY <1>1, <2>5, Apart DEF IInv, Cleared, NoneFound, Only, Moves, aux, Request
  <2>13. ASSUME NEW q \in Request
         PROVE  req'[q].row = req[q].row /\ (req[q].at \in {"commit"} \cup Ended => req'[q].at \in {"commit"} \cup Ended)
    BY <2>5, <2>13 DEF Moves, Only, Ended
  <2>14. \A u \in TargetId : rows'[u].by = rows[u].by
    BY <2>2, <2>4
  <2>15. Settled'
    BY <1>1, <2>13 DEF IInv, Settled, Request, aux
  <2>16. KeysBelong'
    BY <1>1, <2>13, <2>14, Apart DEF IInv, KeysBelong, OwnerOf, Request, TypeOK, Key, aux
  <2>17. \A d \in Deleter : d \in Request /\ d # r /\ req'[d] = req[d]
    BY <1>1, <2>5, Apart DEF Moves, Only, Request
  <2>18. 1 \in TargetId
    BY RequestsAssumption DEF TargetId
  <2>19. TakenAway => TakenAway'
    BY <2>17 DEF TakenAway
  <2>20. PlainTextNotLost'
    <3>1. CASE clears /\ t = 1
      <4>1. rows[1].by = Legacy => keys[1] # None \/ TakenAway
        BY <1>1, <3>1, Apart DEF IInv, Stored, clears
      <4> QED
        BY <1>1, <2>14, <2>18, <2>19, <4>1 DEF PlainTextNotLost, TakenAway
    <3>2. CASE ~(clears /\ t = 1)
      <4>1. rows'[1].legacy = rows[1].legacy
        BY <2>2, <2>4, <2>18, <3>2
      <4> QED
        BY <1>1, <2>14, <2>18, <2>19, <4>1 DEF IInv, PlainTextNotLost, TakenAway
    <3> QED
      BY <3>1, <3>2
  <2>21. Stored'
    BY <1>1, <2>5, <2>14, <2>17, <2>18, <2>19 DEF IInv, Stored, Moves, Only
  <2> QED
    BY <2>9, <2>10, <2>11, <2>12, <2>15, <2>16, <2>20, <2>21 DEF IInv
<1> QED
  BY <1>2, <1>3 DEF UpdateCommit

LEMMA DeleteSelectKeeps ==
  ASSUME IInv, NEW r \in Request, NEW t \in TargetId, DeleteSelect(r, t) PROVE IInv'
<1> DEFINE rec == [[[Idle EXCEPT !.at = IF Present(t) THEN "unset" ELSE "refused"]
                     EXCEPT !.tid = t] EXCEPT !.row = rows[t]]
<1>1. /\ r \in Deleter /\ req[r].at = "idle" /\ UNCHANGED <<rows, keys, faults, aux>>
      /\ req' = [req EXCEPT ![r] = rec]
  BY DEF DeleteSelect
<1>2. /\ rec.tid = t /\ rec.row = rows[t] /\ rec.at \in {"refused", "unset"}
      /\ rec.at # "refused" => Present(t)
      /\ rec \in ReqRow
  BY Apart, RowIs DEF ReqRow, IInv, Idle
<1> HIDE DEF rec
<1>3. req' \in [Request -> ReqRow] /\ req'[r] = rec /\ Only(r)
  BY <1>1, <1>2, ReqChanges DEF IInv
<1>4. TypeOK' /\ Whole'
  BY <1>1, <1>3 DEF IInv, TypeOK, Whole, ReqRow, Present, TakenBut, aux
<1>5. Roles'
  BY <1>1, <1>2, <1>3, Apart, RowIs DEF IInv, Roles, Only
<1>6. Cleared' /\ NoneFound'
  BY <1>1, <1>2, <1>3, Apart DEF IInv, Cleared, NoneFound, Only, aux, Request
<1>7. Settled' /\ KeysBelong'
  BY <1>1, <1>3, Apart DEF IInv, Settled, KeysBelong, OwnerOf, Only, aux, Request, Ended, TypeOK, Key
<1>8. TakenAway => TakenAway'
  <2>1. \A d \in Deleter : d # r => req'[d] = req[d]
    BY <1>3 DEF Only, Request
  <2> QED
    BY <1>1, <2>1 DEF TakenAway
<1>9. PlainTextNotLost'
  BY <1>1, <1>8 DEF IInv, PlainTextNotLost, TakenAway
<1>10. Stored'
  BY <1>1, <1>2, <1>3, <1>8, Apart DEF IInv, Stored, Only, Request
<1> QED
  BY <1>4, <1>5, <1>6, <1>7, <1>9, <1>10 DEF IInv

\* The key is removed, or its removal fails; either way the delete goes on to its commit.
LEMMA DeleteKeyKeeps == ASSUME IInv, NEW r \in Request, DeleteKey(r) \/ DeleteKeyFails(r) PROVE IInv'
<1> DEFINE t == req[r].tid
<1>1. /\ r \in Deleter /\ req[r].at = "unset" /\ Goto(r, "commit") /\ UNCHANGED <<rows, outrun>>
      /\ t \in TargetId /\ faults' \in 0 .. MaxFaults
      /\ \/ keys' = [keys EXCEPT ![t] = None] /\ strayed' = strayed
         \/ keys' = keys /\ strayed' = strayed \cup {t}
  BY Counts DEF DeleteKey, DeleteKeyFails, IInv, Roles, TypeOK, aux
<1> HIDE DEF t
<1>2. req' \in [Request -> ReqRow] /\ Moves(r, "commit")
  BY <1>1, GotoMoves, Apart DEF IInv
<1>3. /\ keys' \in [TargetId -> Key \cup {None}]
      /\ \A u \in TargetId : u # t => keys'[u] = keys[u]
      /\ \A u \in TargetId : keys'[u] # None => keys'[u] = keys[u]
      /\ keys'[t] = None \/ t \in strayed'
      /\ strayed \subseteq strayed' /\ strayed' \subseteq TargetId
  BY <1>1 DEF IInv, TypeOK
<1>4. TypeOK' /\ Whole'
  BY <1>1, <1>2, <1>3 DEF IInv, TypeOK, Whole, ReqRow, Present, TakenBut
<1>5. Roles'
  BY <1>1, <1>2, Apart DEF IInv, Roles, Only, Moves
<1>6. Cleared'
  <2>1. ASSUME NEW d \in Deleter, req'[d].at = "commit"
        PROVE  keys'[req'[d].tid] = None \/ req'[d].tid \in strayed'
    <3>1. CASE d = r
      BY <1>2, <1>3, <3>1 DEF Moves, t
    <3>2. CASE d # r
      <4>1. req'[d] = req[d] /\ req[d].tid \in TargetId
        BY <1>2, <2>1, <3>2 DEF Moves, Only, Request, IInv, Roles
      <4> QED
        BY <1>3, <2>1, <4>1 DEF IInv, Cleared
    <3> QED
      BY <3>1, <3>2
  <2> QED
    BY <2>1 DEF Cleared
<1>7. NoneFound'
  <2>1. ASSUME NEW s \in Scanner, req'[s].at = "set"
        PROVE  keys'[req'[s].tid] \notin Creator \cup Updater \/ req'[s].tid \in outrun'
    <3>1. req'[s] = req[s] /\ req[s].tid \in TargetId
      BY <1>1, <1>2, <2>1, Apart DEF Moves, Only, Request, IInv, Roles
    <3> QED
      BY <1>1, <1>3, <2>1, <3>1, Apart DEF IInv, NoneFound, Request
  <2> QED
    BY <2>1 DEF NoneFound
<1>8. ASSUME NEW q \in Request
      PROVE  req'[q].row = req[q].row /\ (req[q].at \in {"commit"} \cup Ended => req'[q].at \in {"commit"} \cup Ended)
  BY <1>1, <1>2, <1>8 DEF Moves, Only, Ended
<1>9. Settled'
  BY <1>3, <1>8, Apart DEF IInv, Settled, Request
<1>10. KeysBelong'
  BY <1>1, <1>3, <1>8 DEF IInv, KeysBelong, OwnerOf, Request, TypeOK, Key
<1>11. TakenAway => TakenAway'
  <2>1. \A d \in Deleter : d # r => req'[d] = req[d]
    BY <1>2 DEF Moves, Only, Request
  <2> QED
    BY <1>1, <2>1 DEF TakenAway
<1>12. 1 \in TargetId
  BY RequestsAssumption DEF TargetId
<1>13. rows[1].by = Legacy /\ keys[1] # None => keys'[1] # None \/ TakenAway'
  <2>1. CASE t = 1
    BY <1>1, <1>2, <2>1 DEF IInv, Stored, TakenAway, Moves, t
  <2>2. CASE t # 1
    BY <1>3, <1>12, <2>2
  <2> QED
    BY <2>1, <2>2
<1>14. PlainTextNotLost'
  BY <1>1, <1>11, <1>13 DEF IInv, PlainTextNotLost, TakenAway
<1>15. Stored'
  <2>1. ASSUME rows[1].by = Legacy
        PROVE  \A d \in Deleter : req'[d].tid = 1 /\ req'[d].at \in {"unset", "commit"} => req'[d].row.by = Legacy
    BY <1>1, <1>2, <2>1 DEF IInv, Stored, Moves, Only, Request
  <2>2. \A q \in Request : q \notin Deleter => req'[q] = req[q]
    BY <1>1, <1>2 DEF Moves, Only
  <2>3. ASSUME rows[1].by = Legacy, NEW q \in Request, req[q].tid = 1, req[q].at = "commit",
               q \in Updater => req[q].pastes, q \notin Deleter
        PROVE  keys'[1] # None \/ TakenAway'
    BY <1>11, <1>13, <2>3 DEF IInv, Stored
  <2> QED
    BY <1>1, <2>1, <2>2, <2>3 DEF Stored
<1> QED
  BY <1>4, <1>5, <1>6, <1>7, <1>9, <1>10, <1>14, <1>15 DEF IInv

\* The row goes, after its key.
LEMMA DeleteCommitKeeps == ASSUME IInv, NEW r \in Request, DeleteCommit(r) PROVE IInv'
<1> DEFINE t == req[r].tid
<1>1. /\ r \in Deleter /\ req[r].at = "commit" /\ Goto(r, "done") /\ UNCHANGED <<keys, faults, aux>>
      /\ t \in TargetId /\ rows' = [rows EXCEPT ![t] = NoRow]
  BY DEF DeleteCommit, IInv, Roles
<1> HIDE DEF t
<1>2. req' \in [Request -> ReqRow] /\ Moves(r, "done")
  BY <1>1, GotoMoves, Apart DEF IInv
<1>3. /\ rows' \in [TargetId -> Row] /\ rows'[t] = NoRow
      /\ \A u \in TargetId : u # t => rows'[u] = rows[u]
      /\ NoRow.by = None /\ NoRow.name = None /\ NoRow.legacy = None
  BY <1>1 DEF IInv, TypeOK, Row, NoRow
<1>4. \A u \in TargetId : Present(u)' => ~TakenBut(rows[u].name, u)' /\ rows'[u].by # None
  BY <1>3 DEF IInv, TypeOK, Present, TakenBut
<1>5. TypeOK' /\ Whole'
  BY <1>1, <1>2, <1>3, <1>4 DEF IInv, TypeOK, Whole, ReqRow, Present, aux
<1>6. Roles'
  BY <1>1, <1>2, Apart DEF IInv, Roles, Only, Moves
<1>7. Cleared' /\ NoneFound'
  BY <1>1, <1>2, Apart DEF IInv, Cleared, NoneFound, Only, Moves, aux, Request
<1>8. ASSUME NEW q \in Request
      PROVE  req'[q].row = req[q].row /\ (req[q].at \in {"commit"} \cup Ended => req'[q].at \in {"commit"} \cup Ended)
  BY <1>2, <1>8 DEF Moves, Only, Ended
<1>9. Settled'
  BY <1>1, <1>8 DEF IInv, Settled, Request, aux
<1>10. keys[t] = None \/ t \in strayed
  BY <1>1 DEF IInv, Cleared, t
<1>11. KeysBelong'
  <2>1. ASSUME NEW u \in TargetId, keys'[u] # None, u \notin strayed' PROVE rows'[u].by = OwnerOf(keys[u])'
    <3>1. u # t /\ rows'[u] = rows[u] /\ keys'[u] = keys[u]
      BY <1>1, <1>3, <1>10, <2>1 DEF aux
    <3> QED
      BY <1>1, <1>8, <2>1, <3>1 DEF IInv, KeysBelong, OwnerOf, Request, TypeOK, Key, aux
  <2> QED
    BY <2>1 DEF KeysBelong
<1>12. rows'[1].by = Legacy => t # 1 /\ rows'[1] = rows[1]
  <2>1. 1 \in TargetId
    BY RequestsAssumption DEF TargetId
  <2> QED
    BY <1>3, <2>1, Apart
<1>13. ASSUME t # 1, TakenAway PROVE TakenAway'
  BY <1>1, <1>2, <1>13 DEF TakenAway, Moves, Only, Request, t
<1>14. Stored' /\ PlainTextNotLost'
  BY <1>1, <1>2, <1>12, <1>13 DEF IInv, Stored, PlainTextNotLost, TakenAway, Moves, Only, Request
<1> QED
  BY <1>5, <1>6, <1>7, <1>9, <1>11, <1>14 DEF IInv

\* A scan looks for the key of its target.
LEMMA LoadKeyKeeps ==
  ASSUME IInv, NEW r \in Request, NEW t \in TargetId, LoadKey(r, t) PROVE IInv'
<1> DEFINE rec == [[[Idle EXCEPT !.at = IF keys[t] # None \/ rows[t].legacy = None THEN "done" ELSE "set"]
                     EXCEPT !.tid = t] EXCEPT !.row = rows[t]]
<1>1. /\ r \in Scanner /\ req[r].at = "idle" /\ UNCHANGED <<rows, keys, faults, aux>> /\ Present(t)
      /\ req' = [req EXCEPT ![r] = rec]
  BY DEF LoadKey
<1>2. /\ rec.tid = t /\ rec.row = rows[t] /\ rec.at \in {"done", "set"}
      /\ rec.at = "set" => keys[t] = None /\ rows[t].legacy # None
      /\ rec \in ReqRow
  BY Apart, RowIs DEF ReqRow, IInv, Idle
<1> HIDE DEF rec
<1>3. req' \in [Request -> ReqRow] /\ req'[r] = rec /\ Only(r)
  BY <1>1, <1>2, ReqChanges DEF IInv
<1>4. TypeOK' /\ Whole'
  BY <1>1, <1>3 DEF IInv, TypeOK, Whole, ReqRow, Present, TakenBut, aux
<1>5. Roles'
  BY <1>1, <1>2, <1>3, Apart, RowIs DEF IInv, Whole, Roles, Only
<1>6. Cleared'
  BY <1>1, <1>3, Apart DEF IInv, Cleared, Only, aux, Request
<1>7. NoneFound'
  BY <1>1, <1>2, <1>3, Apart DEF IInv, NoneFound, Only, aux, Request
<1>8. Settled' /\ KeysBelong'
  BY <1>1, <1>3, Apart DEF IInv, Settled, KeysBelong, OwnerOf, Only, aux, Request, Ended, TypeOK, Key
<1>9. \A d \in Deleter : d \in Request /\ d # r /\ req'[d] = req[d]
  BY <1>1, <1>3, Apart DEF Only, Request
<1>10. TakenAway => TakenAway'
  BY <1>9 DEF TakenAway
<1>11. PlainTextNotLost'
  BY <1>1, <1>10 DEF IInv, PlainTextNotLost, TakenAway
<1>12. Stored'
  BY <1>1, <1>2, <1>3, <1>9, <1>10 DEF IInv, Stored, Only
<1> QED
  BY <1>4, <1>5, <1>6, <1>7, <1>8, <1>11, <1>12 DEF IInv

\* The plain text goes, after its key was stored.
LEMMA ClearLegacyKeeps == ASSUME IInv, NEW r \in Request, ClearLegacy(r) PROVE IInv'
<1> DEFINE t == req[r].tid
<1>1. /\ r \in Scanner /\ req[r].at = "commit" /\ UNCHANGED <<keys, faults, aux>> /\ t \in TargetId
  BY DEF ClearLegacy, IInv, Roles
<1>2. CASE Goto(r, "error") /\ UNCHANGED rows
  BY <1>1, <1>2, EndKeeps DEF IInv, TypeOK, Ended
<1>3. CASE Present(t) /\ rows' = [rows EXCEPT ![t].legacy = None] /\ Goto(r, "done")
  <2> DEFINE new == [rows[t] EXCEPT !.legacy = None]
  <2>1. new \in Row /\ new.by = rows[t].by /\ new.name = rows[t].name /\ new.legacy = None
    <3>1. rows[t] \in Row
      BY <1>1 DEF IInv, TypeOK
    <3> QED
      BY <3>1 DEF Row
  <2>2. rows' = [rows EXCEPT ![t] = new]
    BY <1>3
  <2> HIDE DEF new, t
  <2>3. rows' \in [TargetId -> Row] /\ rows'[t] = new /\ \A u \in TargetId : u # t => rows'[u] = rows[u]
    BY <1>1, <2>1, <2>2 DEF IInv, TypeOK
  <2>4. req' \in [Request -> ReqRow] /\ Moves(r, "done")
    BY <1>3, GotoMoves, Apart DEF IInv
  <2>5. \A u \in TargetId : rows'[u].by = rows[u].by /\ rows'[u].name = rows[u].name
    BY <2>1, <2>3
  <2>6. TypeOK'
    BY <1>1, <2>3, <2>4, <2>5 DEF IInv, TypeOK, ReqRow, aux, Present, TakenBut
  <2>7. Whole'
    BY <2>1, <2>3, <2>5 DEF IInv, Whole, Present
  <2>8. Roles'
    BY <1>1, <2>4, Apart DEF IInv, Roles, Only, Moves
  <2>9. Cleared' /\ NoneFound'
    BY <1>1, <2>4, Apart DEF IInv, Cleared, NoneFound, Only, Moves, aux, Request
  <2>10. ASSUME NEW q \in Request
         PROVE  req'[q].row = req[q].row /\ (req[q].at \in {"commit"} \cup Ended => req'[q].at \in {"commit"} \cup Ended)
    BY <2>4, <2>10 DEF Moves, Only, Ended
  <2>11. Settled'
    BY <1>1, <2>10 DEF IInv, Settled, Request, aux
  <2>12. KeysBelong'
    BY <1>1, <2>5, <2>10, Apart DEF IInv, KeysBelong, OwnerOf, Request, TypeOK, Key, aux
  <2>13. \A d \in Deleter : d \in Request /\ d # r /\ req'[d] = req[d]
    BY <1>1, <2>4, Apart DEF Moves, Only, Request
  <2>14. 1 \in TargetId
    BY RequestsAssumption DEF TargetId
  <2>15. TakenAway => TakenAway'
    BY <2>13 DEF TakenAway
  <2>16. PlainTextNotLost'
    <3>1. CASE t = 1
      <4>1. rows[1].by = Legacy => keys[1] # None \/ TakenAway
        BY <1>1, <3>1, Apart DEF IInv, Stored, t
      <4> QED
        BY <1>1, <2>5, <2>14, <2>15, <4>1 DEF PlainTextNotLost, TakenAway
    <3>2. CASE t # 1
      BY <1>1, <2>3, <2>14, <2>15, <3>2 DEF IInv, PlainTextNotLost, TakenAway
    <3> QED
      BY <3>1, <3>2
  <2>17. Stored'
    BY <1>1, <2>4, <2>5, <2>13, <2>14, <2>15 DEF IInv, Stored, Moves, Only
  <2> QED
    BY <2>6, <2>7, <2>8, <2>9, <2>11, <2>12, <2>16, <2>17 DEF IInv
<1> QED
  BY <1>2, <1>3 DEF ClearLegacy

LEMMA FailsKeeps == ASSUME IInv, NEW r \in Request, CommitFails(r) \/ SetFails(r) PROVE IInv'
  BY EndKeeps, Counts DEF CommitFails, SetFails, IInv, Ended

LEMMA CrashKeeps == ASSUME IInv, CrashServer PROVE IInv'
<1>1. /\ UNCHANGED <<rows, keys, aux>> /\ faults' \in 0 .. MaxFaults
      /\ req' = [r \in Request |-> IF req[r].at \in Ended \cup {"idle"} THEN req[r]
                                   ELSE [req[r] EXCEPT !.at = "error"]]
  BY Counts DEF CrashServer, IInv
<1>2. ASSUME NEW r \in Request
      PROVE  /\ req'[r] \in ReqRow /\ req'[r].tid = req[r].tid /\ req'[r].name = req[r].name
             /\ req'[r].pastes = req[r].pastes /\ req'[r].row = req[r].row
             /\ req[r].at \in Ended \cup {"idle"} => req'[r].at = req[r].at
             /\ req[r].at \notin Ended \cup {"idle"} => req'[r].at = "error"
  <2>1. req[r] \in ReqRow
    BY DEF IInv, TypeOK, ReqRow
  <2>2. /\ [req[r] EXCEPT !.at = "error"] \in ReqRow /\ [req[r] EXCEPT !.at = "error"].at = "error"
        /\ [req[r] EXCEPT !.at = "error"].tid = req[r].tid /\ [req[r] EXCEPT !.at = "error"].name = req[r].name
        /\ [req[r] EXCEPT !.at = "error"].pastes = req[r].pastes
        /\ [req[r] EXCEPT !.at = "error"].row = req[r].row
    BY <2>1, Apart DEF ReqRow
  <2>3. CASE req[r].at \in Ended \cup {"idle"}
    BY <1>1, <2>1, <2>3
  <2>4. CASE req[r].at \notin Ended \cup {"idle"}
    <3>1. req'[r] = [req[r] EXCEPT !.at = "error"]
      BY <1>1, <2>4
    <3> QED
      BY <2>2, <2>4, <3>1
  <2> QED
    BY <2>3, <2>4
<1>3. req' \in [Request -> ReqRow]
  BY <1>1, <1>2
<1>4. \A r \in Request : req'[r].at \in Ended \cup {"idle"}
  BY <1>2 DEF Ended
<1>5. TypeOK' /\ Whole'
  BY <1>1, <1>3 DEF IInv, TypeOK, Whole, ReqRow, Present, TakenBut, aux
<1>6. Roles' /\ Cleared' /\ NoneFound'
  BY <1>1, <1>4 DEF IInv, Roles, Cleared, NoneFound, Ended, Request
<1>7. Settled' /\ KeysBelong'
  BY <1>1, <1>2, Apart DEF IInv, Settled, KeysBelong, OwnerOf, Request, Ended, TypeOK, Key, aux
<1>8. TakenAway => TakenAway'
  BY <1>2 DEF TakenAway, Request, Ended
<1>9. Stored' /\ PlainTextNotLost'
  BY <1>1, <1>4, <1>8 DEF IInv, Stored, PlainTextNotLost, TakenAway, Ended, Request
<1> QED
  BY <1>5, <1>6, <1>7, <1>9 DEF IInv

-----------------------------------------------------------------------------
(* The theorems. *)

LEMMA Step == ASSUME IInv, [Next]_vars PROVE IInv'
<1>1. CASE Next
  <2>1. ASSUME NEW r \in Request,
               \/ \E n \in Name, p \in BOOLEAN : CreateCheck(r, n, p)
               \/ CreateInsert(r) \/ CreateRefresh(r)
               \/ \E t \in TargetId, n \in Name, p \in BOOLEAN : UpdateCheck(r, t, n, p)
               \/ SetPasted(r) \/ UpdateCommit(r)
        PROVE  IInv'
    BY <2>1, CreateCheckKeeps, CreateInsertKeeps, CreateRefreshKeeps, UpdateCheckKeeps, SetPastedKeeps,
       UpdateCommitKeeps
  <2>2. ASSUME NEW r \in Request,
               \/ \E t \in TargetId : DeleteSelect(r, t)
               \/ DeleteKey(r) \/ DeleteKeyFails(r) \/ DeleteCommit(r)
               \/ \E t \in TargetId : LoadKey(r, t)
               \/ SetLegacy(r) \/ ClearLegacy(r) \/ SetFails(r) \/ CommitFails(r)
        PROVE  IInv'
    BY <2>2, DeleteSelectKeeps, DeleteKeyKeeps, DeleteCommitKeeps, LoadKeyKeeps, SetLegacyKeeps,
       ClearLegacyKeeps, FailsKeeps
  <2> QED
    BY <1>1, <2>1, <2>2, CrashKeeps DEF Next
<1>2. CASE UNCHANGED vars
  BY <1>2 DEF vars, aux, IInv, TypeOK, Whole, Roles, Cleared, Settled, KeysBelong, NoneFound, Stored,
              PlainTextNotLost, TakenAway, Present, TakenBut, OwnerOf
<1> QED
  BY <1>1, <1>2

LEMMA Start == Init => IInv
<1> SUFFICES ASSUME Init PROVE IInv
  OBVIOUS
<1>1. PICK n \in Name : rows = [t \in TargetId |-> IF t = 1 THEN [name |-> n, legacy |-> Legacy, by |-> Legacy]
                                                 ELSE NoRow]
  BY DEF Init
<1>2. /\ keys = [t \in TargetId |-> None] /\ req = [r \in Request |-> Idle]
      /\ faults = 0 /\ strayed = {} /\ outrun = {} /\ 0 \in 0 .. MaxFaults
  BY RequestsAssumption DEF Init
<1>3. /\ Idle \in ReqRow /\ Idle.at = "idle" /\ NoRow \in Row
      /\ NoRow.by = None /\ NoRow.name = None /\ NoRow.legacy = None
      /\ [name |-> n, legacy |-> Legacy, by |-> Legacy] \in Row
  BY DEF Idle, NoRow, ReqRow, Row, At
<1>4. TypeOK
  <2>1. rows \in [TargetId -> Row]
    BY <1>1, <1>3
  <2>2. \A t \in TargetId : Present(t) => t = 1 /\ rows[t].by # None
    BY <1>1, <1>3, Apart DEF Present
  <2>3. \A t \in TargetId : Present(t) => ~TakenBut(rows[t].name, t)
    BY <2>2 DEF TakenBut, Present
  <2> QED
    BY <1>2, <1>3, <2>1, <2>2, <2>3 DEF TypeOK, ReqRow
<1>5. Whole
  BY <1>1, <1>3, Apart DEF Whole, Present
<1>6. Roles /\ Cleared /\ NoneFound /\ Settled /\ KeysBelong
  BY <1>2, <1>3, Apart DEF Roles, Cleared, NoneFound, Settled, KeysBelong, Request
<1>7. 1 \in TargetId
  BY RequestsAssumption DEF TargetId
<1>8. Stored /\ PlainTextNotLost
  BY <1>1, <1>2, <1>3, <1>7 DEF Stored, PlainTextNotLost, Request
<1> QED
  BY <1>4, <1>5, <1>6, <1>8 DEF IInv

LEMMA Invariance == Spec => []IInv
  BY Start, Step, PTL DEF Spec

\* TypeOK: among the rest, no two targets ever have one name (the unique column).
THEOREM TypesHold == Spec => []TypeOK
  BY Invariance, PTL DEF IInv

\* KeysBelong: no target finds the key of another one, though table keys come back and the
\* two stores share no transaction (delete_target, ssh_key_store), but for a key written while
\* its target was being deleted and a removal that failed.
THEOREM NoForeignKey == Spec => []KeysBelong
  BY Invariance, PTL DEF IInv

\* PlainTextNotLost: the move of a plain text key leaves no moment without a key
\* (load_pasted_ssh_key and the commit after it).
THEOREM KeyIsNotLost == Spec => []PlainTextNotLost
  BY Invariance, PTL DEF IInv

\* A step that puts the plain text key in the place of a pasted one is a scan's, and the key
\* was pasted while it moved the plain text.
LEMMA OnlyMoverReplaces ==
  ASSUME IInv, [Next]_vars, NEW t \in TargetId, keys[t] \in Creator \cup Updater, keys'[t] = Legacy
  PROVE  t \in outrun
<1>1. keys[t] # Legacy /\ \A r \in Creator \cup Updater : r # Legacy
  BY Apart DEF Request
<1>2. keys[t] # None /\ None # Legacy
  BY Apart DEF Request
<1>3. ASSUME NEW r \in Request, SetLegacy(r) PROVE t \in outrun
  <2>1. r \in Scanner /\ req[r].at = "set" /\ keys' = [keys EXCEPT ![req[r].tid] = Legacy]
    BY <1>3 DEF SetLegacy
  <2>2. t = req[r].tid
    BY <1>1, <2>1 DEF IInv, TypeOK
  <2> QED
    BY <2>1, <2>2 DEF IInv, NoneFound
<1>4. ASSUME NEW r \in Request, SetPasted(r) PROVE FALSE
  <2>1. r \in Creator \cup Updater /\ keys' = [keys EXCEPT ![req[r].tid] = r]
    BY <1>4 DEF SetPasted
  <2> QED
    BY <1>1, <2>1 DEF IInv, TypeOK
<1>5. ASSUME NEW r \in Request, DeleteKey(r) PROVE FALSE
  BY <1>1, <1>2, <1>5 DEF DeleteKey, IInv, TypeOK
<1>6. keys' # keys
  BY <1>1
<1> QED
  BY <1>3, <1>4, <1>5, <1>6 DEF Next, vars, CreateCheck, CreateInsert, CreateRefresh, UpdateCheck, UpdateCommit,
     DeleteSelect, DeleteKeyFails, DeleteCommit, LoadKey, ClearLegacy, SetFails, CommitFails,
     CrashServer

\* PastedKeyWins: a pasted key is replaced by the plain text one only in the window between
\* a scan's lookup and its write.
THEOREM PastedKeyStays == Spec => PastedKeyWins
<1>1. ASSUME IInv, [Next]_vars
      PROVE  [\A t \in TargetId : keys[t] \in Creator \cup Updater /\ keys'[t] = Legacy => t \in outrun]_vars
  BY <1>1, OnlyMoverReplaces
<1> QED
  BY <1>1, Invariance, PTL DEF Spec, PastedKeyWins
=============================================================================
