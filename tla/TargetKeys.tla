----------------------------- MODULE TargetKeys -----------------------------
(***************************************************************************)
(* Target profiles and their pasted SSH keys: the requests of              *)
(* web/routers/targets.py and the key lookup of ScanService, over two      *)
(* stores that share no transaction, the table targets and the encrypted   *)
(* SshKeyStore (auth/ssh_key_store.py), which knows a target by its key in  *)
(* the table only.  A row written before the key store existed may still   *)
(* hold its key in plain text; the first scan moves it over.               *)
(*                                                                         *)
(* One action is one database transaction, the SELECTs before it, or one   *)
(* call of the key store, taken as atomic as MemorySshKeyStore is.  Columns *)
(* other than the name and the plain text key are left out.                *)
(***************************************************************************)
EXTENDS Naturals, FiniteSets

CONSTANTS
  Creator,      \* POST /api/targets requests
  Updater,      \* PUT /api/targets/{id} requests
  Deleter,      \* DELETE /api/targets/{id} requests
  Scanner,      \* scans, as far as they look for the key of their target
  Name,         \* target names
  Legacy,       \* the key in plain text of the row there is at first
  None,         \* SQL NULL, no key, no request
  MaxTargetId,  \* bound: table keys are 1 .. MaxTargetId
  MaxFaults     \* bound: failed commits, failures of the key store and server crashes

TargetId == 1 .. MaxTargetId
Request == Creator \cup Updater \cup Deleter \cup Scanner
Key == Creator \cup Updater \cup {Legacy}       \* the key a request pastes is named after it

ASSUME RequestsAssumption ==
  /\ Creator \cap (Updater \cup Deleter \cup Scanner) = {}
  /\ Updater \cap (Deleter \cup Scanner) = {}
  /\ Deleter \cap Scanner = {}
  /\ {None, Legacy} \cap (Request \cup Name) = {} /\ None # Legacy
  /\ Name # {} /\ MaxTargetId \in Nat \ {0} /\ MaxFaults \in Nat

VARIABLES
  rows,      \* table targets: a row for each key, NoRow where there is none
  keys,      \* the key store, by table key
  req,       \* what each request has read and where it is
  faults,    \* faults so far
  \* Auxiliary, read by no action:
  strayed,   \* table keys under which a key was written while their row was being deleted
             \* or after it was, or stayed because its removal failed
  outrun     \* table keys whose key was pasted while a scan was moving the plain text over

aux == <<strayed, outrun>>
vars == <<rows, keys, req, faults, aux>>

\* A row, with the auxiliary name of the request that made it.
Row == [name : Name \cup {None}, legacy : {Legacy, None}, by : Creator \cup {Legacy, None}]
NoRow == [name |-> None, legacy |-> None, by |-> None]
Present(t) == rows[t].name # None
TakenBut(n, t) == \E u \in TargetId : u # t /\ rows[u].name = n
Taken(n) == \E u \in TargetId : rows[u].name = n

\* The table key SQLite gives to a new row: one more than the largest in use.
RowIds == {u \in TargetId : Present(u)}
IsNextRowId(t) == /\ \A u \in RowIds : u < t
                  /\ t - 1 \in RowIds \cup {0}

Ended == {"refused", "error", "done"}        \* 4xx, 500, 2xx
At == {"idle", "insert", "refresh", "set", "unset", "commit"} \cup Ended
Idle == [at |-> "idle", tid |-> None, name |-> None, pastes |-> FALSE, row |-> NoRow]

Init ==
  /\ \E n \in Name :
       rows = [t \in TargetId |-> IF t = 1 THEN [name |-> n, legacy |-> Legacy, by |-> Legacy]
                                  ELSE NoRow]
  /\ keys = [t \in TargetId |-> None]
  /\ req = [r \in Request |-> Idle]
  /\ faults = 0 /\ strayed = {} /\ outrun = {}

Goto(r, label) == req' = [req EXCEPT ![r].at = label]
-----------------------------------------------------------------------------
(* create_target *)

\* SELECT by name: 400 when it is taken.
CreateCheck(r, n, pastes) ==
  /\ r \in Creator /\ req[r].at = "idle"
  /\ req' = [req EXCEPT ![r] = [Idle EXCEPT !.at = IF Taken(n) THEN "refused" ELSE "insert",
                                            !.name = n, !.pastes = pastes]]
  /\ UNCHANGED <<rows, keys, faults, aux>>

\* Mutant: nothing makes the name unique.
InsertUnchecked(r) ==
  /\ req[r].at = "insert"
  /\ \E t \in TargetId :
       /\ IsNextRowId(t)
       /\ rows' = [rows EXCEPT ![t] = [name |-> req[r].name, legacy |-> None, by |-> r]]
       /\ req' = [req EXCEPT ![r].at = "refresh", ![r].tid = t, ![r].row = rows'[t]]
  /\ UNCHANGED <<keys, faults, aux>>

\* INSERT and commit: a 500 when the name was taken since (the column is unique).
CreateInsert(r) ==
  /\ req[r].at = "insert"
  /\ IF Taken(req[r].name)
     THEN Goto(r, "error") /\ UNCHANGED rows
     ELSE \E t \in TargetId :
            /\ IsNextRowId(t)
            /\ rows' = [rows EXCEPT ![t] = [name |-> req[r].name, legacy |-> None, by |-> r]]
            /\ req' = [req EXCEPT ![r].at = "refresh", ![r].tid = t, ![r].row = rows'[t]]
  /\ UNCHANGED <<keys, faults, aux>>

\* refresh(t) reads the row back and raises when it is gone.
CreateRefresh(r) ==
  /\ req[r].at = "refresh"
  /\ Goto(r, IF ~Present(req[r].tid) THEN "error" ELSE IF req[r].pastes THEN "set" ELSE "done")
  /\ UNCHANGED <<rows, keys, faults, aux>>
-----------------------------------------------------------------------------
(* update_target, and what it shares with create_target and a scan. *)

\* SELECT the row, 404 when it is missing, and another with the name, 400 when there is one.
UpdateCheck(r, t, n, pastes) ==
  /\ r \in Updater /\ req[r].at = "idle"
  /\ req' = [req EXCEPT ![r] =
       [at |-> IF ~Present(t) \/ TakenBut(n, t) THEN "refused"
               ELSE IF pastes THEN "set" ELSE "commit",
        tid |-> t, name |-> n, pastes |-> pastes, row |-> rows[t]]]
  /\ UNCHANGED <<rows, keys, faults, aux>>

Deleting(t) == \E d \in Deleter : req[d].tid = t /\ req[d].at \in {"unset", "commit"}
Moving(t) == \E s \in Scanner : req[s].tid = t /\ req[s].at \in {"set", "commit"}

\* store.set(t.id, pasted), by a create or an update.
SetPasted(r) ==
  /\ r \in Creator \cup Updater /\ req[r].at = "set"
  /\ LET t == req[r].tid
     IN  /\ keys' = [keys EXCEPT ![t] = r]
         /\ strayed' = IF Deleting(t) \/ rows[t].by # req[r].row.by THEN strayed \cup {t} ELSE strayed
         /\ outrun' = IF Moving(t) THEN outrun \cup {t} ELSE outrun
  /\ Goto(r, IF r \in Creator THEN "done" ELSE "commit")
  /\ UNCHANGED <<rows, faults>>

\* The commit writes the columns whose value is not the one loaded, and nothing when there is
\* none.  It is a 500 when the row is gone or the name was taken since.
UpdateCommit(r) ==
  /\ r \in Updater /\ req[r].at = "commit"
  /\ LET t == req[r].tid
         renames == req[r].name # req[r].row.name
         clears == req[r].pastes /\ req[r].row.legacy # None
     IN  \E other \in BOOLEAN :                              \* another column changed
           IF ~(renames \/ clears \/ other) THEN Goto(r, "done") /\ UNCHANGED rows
           ELSE IF ~Present(t) \/ (renames /\ TakenBut(req[r].name, t))
           THEN Goto(r, "error") /\ UNCHANGED rows
           ELSE /\ rows' = [rows EXCEPT ![t].name = IF renames THEN req[r].name ELSE @,
                                        ![t].legacy = IF clears THEN None ELSE @]
                /\ Goto(r, "done")
  /\ UNCHANGED <<keys, faults, aux>>
-----------------------------------------------------------------------------
(* delete_target *)

\* SELECT the row: 404 when it is missing.
DeleteSelect(r, t) ==
  /\ r \in Deleter /\ req[r].at = "idle"
  /\ req' = [req EXCEPT ![r] = [Idle EXCEPT !.at = IF Present(t) THEN "unset" ELSE "refused",
                                            !.tid = t, !.row = rows[t]]]
  /\ UNCHANGED <<rows, keys, faults, aux>>

\* Mutant: the key store is left alone.
DeleteRowOnly(r) ==
  /\ req[r].at = "unset"
  /\ Goto(r, "commit")
  /\ UNCHANGED <<rows, keys, faults, aux>>

\* store.delete(t.id).
DeleteKey(r) ==
  /\ req[r].at = "unset"
  /\ keys' = [keys EXCEPT ![req[r].tid] = None]
  /\ Goto(r, "commit")
  /\ UNCHANGED <<rows, faults, aux>>

\* It swallows every exception: the request goes on when the key could not be removed.
DeleteKeyFails(r) ==
  /\ req[r].at = "unset" /\ keys[req[r].tid] # None
  /\ faults < MaxFaults /\ faults' = faults + 1
  /\ strayed' = strayed \cup {req[r].tid}
  /\ Goto(r, "commit")
  /\ UNCHANGED <<rows, keys, outrun>>

\* DELETE by table key and commit; a row that is gone already is no error.
DeleteCommit(r) ==
  /\ r \in Deleter /\ req[r].at = "commit"
  /\ rows' = [rows EXCEPT ![req[r].tid] = NoRow]
  /\ Goto(r, "done")
  /\ UNCHANGED <<keys, faults, aux>>
-----------------------------------------------------------------------------
(* ScanService._ssh_connection and load_pasted_ssh_key *)

\* Mutant: the plain text key goes first.
PreferPlainText(r, t) ==
  /\ r \in Scanner /\ req[r].at = "idle" /\ Present(t)
  /\ req' = [req EXCEPT ![r] =
       [Idle EXCEPT !.at = IF rows[t].legacy = None THEN "done" ELSE "set",
                    !.tid = t, !.row = rows[t]]]
  /\ UNCHANGED <<rows, keys, faults, aux>>

\* The stored key; when there is none, the plain text key is to be moved over.
LoadKey(r, t) ==
  /\ r \in Scanner /\ req[r].at = "idle" /\ Present(t)
  /\ req' = [req EXCEPT ![r] =
       [Idle EXCEPT !.at = IF keys[t] # None \/ rows[t].legacy = None THEN "done" ELSE "set",
                    !.tid = t, !.row = rows[t]]]
  /\ UNCHANGED <<rows, keys, faults, aux>>

\* Mutant: the plain text is cleared first.
ClearFirst(r) ==
  /\ r \in Scanner /\ req[r].at = "set"
  /\ rows' = [rows EXCEPT ![req[r].tid].legacy = None]
  /\ Goto(r, "commit")
  /\ UNCHANGED <<keys, faults, aux>>

\* store.set(target.id, legacy).
SetLegacy(r) ==
  /\ r \in Scanner /\ req[r].at = "set"
  /\ LET t == req[r].tid
     IN  /\ keys' = [keys EXCEPT ![t] = Legacy]
         /\ strayed' = IF Deleting(t) \/ rows[t].by # req[r].row.by THEN strayed \cup {t} ELSE strayed
  /\ Goto(r, "commit")
  /\ UNCHANGED <<rows, faults, outrun>>

\* UPDATE the plain text to NULL and commit, which raises when the row is gone.
ClearLegacy(r) ==
  /\ r \in Scanner /\ req[r].at = "commit"
  /\ IF Present(req[r].tid)
     THEN rows' = [rows EXCEPT ![req[r].tid].legacy = None] /\ Goto(r, "done")
     ELSE Goto(r, "error") /\ UNCHANGED rows
  /\ UNCHANGED <<keys, faults, aux>>
-----------------------------------------------------------------------------
\* A commit fails ("database is locked").
CommitFails(r) ==
  /\ req[r].at \in {"insert", "commit"}
  /\ faults < MaxFaults /\ faults' = faults + 1
  /\ Goto(r, "error")
  /\ UNCHANGED <<rows, keys, aux>>

\* The key store raises in set(), and so does the request or the scan: nothing is stored, and
\* what was committed before stays.
SetFails(r) ==
  /\ req[r].at = "set"
  /\ faults < MaxFaults /\ faults' = faults + 1
  /\ Goto(r, "error")
  /\ UNCHANGED <<rows, keys, aux>>

\* The server is killed with every request on it.
CrashServer ==
  /\ faults < MaxFaults /\ faults' = faults + 1
  /\ req' = [r \in Request |-> IF req[r].at \in Ended \cup {"idle"} THEN req[r]
                               ELSE [req[r] EXCEPT !.at = "error"]]
  /\ UNCHANGED <<rows, keys, aux>>

Next ==
  \/ \E r \in Request :
       \/ \E n \in Name, p \in BOOLEAN : CreateCheck(r, n, p)
       \/ CreateInsert(r) \/ CreateRefresh(r)
       \/ \E t \in TargetId, n \in Name, p \in BOOLEAN : UpdateCheck(r, t, n, p)
       \/ SetPasted(r) \/ UpdateCommit(r)
       \/ \E t \in TargetId : DeleteSelect(r, t)
       \/ DeleteKey(r) \/ DeleteKeyFails(r) \/ DeleteCommit(r)
       \/ \E t \in TargetId : LoadKey(r, t)
       \/ SetLegacy(r) \/ ClearLegacy(r) \/ SetFails(r) \/ CommitFails(r)
  \/ CrashServer

Spec == Init /\ [][Next]_vars
-----------------------------------------------------------------------------
(* Properties. *)

\* Every variable stays within its type, and no two targets have one name.
TypeOK ==
  /\ rows \in [TargetId -> Row]
  /\ \A t \in TargetId : Present(t) => ~TakenBut(rows[t].name, t) /\ rows[t].by # None
  /\ keys \in [TargetId -> Key \cup {None}]
  /\ req \in [Request -> [at : At, tid : TargetId \cup {None}, name : Name \cup {None},
                          pastes : BOOLEAN, row : Row]]
  /\ faults \in 0 .. MaxFaults
  /\ strayed \subseteq TargetId /\ outrun \subseteq TargetId

\* Whose key it is: the row it was pasted for, by the request that made that row.
OwnerOf(key) == IF key = Legacy THEN Legacy ELSE req[key].row.by

\* SQLite gives the table key of a deleted target to the next one, and the key store knows
\* nothing else of a target.  Still no target finds the SSH key of another, or of a target
\* that is gone: a request that dies half way leaves none behind.  The exceptions are a key
\* written while its target is deleted, and a removal that failed.
KeysBelong ==
  \A t \in TargetId : keys[t] # None /\ t \notin strayed => rows[t].by = OwnerOf(keys[t])

\* No scan puts the plain text key in the place of a pasted one, unless it was moving the
\* plain text when the key was pasted.
PastedKeyWins ==
  [][\A t \in TargetId : keys[t] \in Creator \cup Updater /\ keys'[t] = Legacy => t \in outrun]_vars

\* Moving the plain text key over never leaves the target without a key, whatever dies when:
\* only a delete of the target takes the key away.
PlainTextNotLost ==
  rows[1].by = Legacy =>
    \/ rows[1].legacy = Legacy
    \/ keys[1] # None
    \/ \E d \in Deleter : req[d].tid = 1 /\ req[d].row.by = Legacy /\ req[d].at \in {"commit", "error"}
=============================================================================
