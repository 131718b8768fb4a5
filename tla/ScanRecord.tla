------------------------------ MODULE ScanRecord ------------------------------
(***************************************************************************)
(* What the product promises of a scan record: the history a client that   *)
(* polls GET /api/scans may observe.  A record is submitted once, starts   *)
(* at most once, ends once as completed or failed, and from then on only   *)
(* disappears, with the target it belongs to.                              *)
(* ScanLifecycle is the program that has to keep this promise.             *)
(***************************************************************************)
EXTENDS Naturals

CONSTANT ScanId     \* the keys a scan record can have

VARIABLE status     \* the status column of each record, "absent" when no row

Status == {"absent", "pending", "running", "completed", "failed"}

RecordTypeOK == status \in [ScanId -> Status]

RecordInit == status = [s \in ScanId |-> "absent"]

Becomes(s, from, to) ==
  /\ status[s] \in from
  /\ status' = [status EXCEPT ![s] = to]

\* POST /api/targets/{id}/scan or the "run" command inserted the row.
Submit(s) == Becomes(s, {"absent"}, "pending")

\* The background task picked the row up.
Begin(s) == Becomes(s, {"pending"}, "running")

\* The run ended, one way or the other.
Finish(s) == \E outcome \in {"completed", "failed"} : Becomes(s, {"running"}, outcome)

\* The target was deleted, and with it its scan history (perhaps several rows).
Remove == \E gone \in SUBSET ScanId :
            status' = [s \in ScanId |-> IF s \in gone THEN "absent" ELSE status[s]]

RecordNext == Remove \/ \E s \in ScanId : Submit(s) \/ Begin(s) \/ Finish(s)

RecordSpec == RecordInit /\ [][RecordNext]_status
===============================================================================
