----------------------------- MODULE MCFrontend -----------------------------
(* Small instances of Frontend for TLC. *)
EXTENDS Frontend, TLC

\* Scans 1 and 2 are of targets a and b.
CONSTANTS a, b
MCTargetOf == [s \in ScanId |-> IF s = 1 THEN a ELSE b]

\* Tasks are interchangeable (safety runs only).
Symmetry == Permutations(Task)

\* State constraint of the safety run.  mishaps only grows, and both invariants of that run
\* that have an excuse are excused for ever by a late tick or by details that did not come:
\* behaviours are followed up to that point.
NotExcused == mishaps \subseteq {"crossed"}
=============================================================================
