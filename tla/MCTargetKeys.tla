---------------------------- MODULE MCTargetKeys ----------------------------
(* Small instances of TargetKeys for TLC. *)
EXTENDS TargetKeys, TLC

\* Create requests are interchangeable, and so are names.
Symmetry == Permutations(Creator) \cup Permutations(Name)
=============================================================================
