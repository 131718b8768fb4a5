--------------------------- MODULE MCScanLifecycle ---------------------------
(* Small instances of ScanLifecycle for TLC. *)
EXTENDS ScanLifecycle, TLC

\* Web requests and delete requests are interchangeable (safety runs only).
Symmetry == Permutations(WebRun) \cup Permutations(Deleter)
=============================================================================
