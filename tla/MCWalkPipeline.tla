---------------------------- MODULE MCWalkPipeline ----------------------------
(* Small instances of WalkPipeline for TLC. *)
EXTENDS WalkPipeline, Integers

Whole(ssh, walks, workers) ==
  [paths |-> Path, ssh |-> ssh, walks |-> walks, workers |-> workers, apart |-> TRUE]
One(p, ssh, walks) ==
  [paths |-> {p}, ssh |-> ssh, walks |-> walks, workers |-> 1, apart |-> FALSE]

\* Runs over the whole scope come one after the other, with two threads or one, over SSH or
\* local commands, walking or not.  Runs about one path come side by side, and the two paths have
\* one slug, as +DATA/PROD_1 and +DATA/PROD/1 do.
MCRun == {1, 2}
MCSlugOf == <<"DATA_PROD_1", "DATA_PROD_1">>
MCRequests ==
  [r \in MCRun |-> IF r = 1 THEN {Whole(TRUE, TRUE, 2), One(1, TRUE, TRUE)}
                   ELSE {Whole(FALSE, TRUE, 1), Whole(TRUE, FALSE, 1), One(2, TRUE, TRUE), One(1, FALSE, FALSE)}]
===============================================================================
