------------------------------ MODULE MCScanData ------------------------------
(* The instances of ScanData that TLC checks. *)
EXTENDS ScanData

\* Two databases with one PDB each.
MCPdbs == <<{[label |-> <<"SALESPDB">>, guid |-> 1]}, {[label |-> <<"HRPDB">>, guid |-> 2]}>>

\* One database with two PDBs, and a copy of it in which a PDB was renamed.
MCCopiedPdbs == <<{[label |-> <<"SALESPDB">>, guid |-> 1], [label |-> <<"HRPDB">>, guid |-> 2]},
                  {[label |-> <<"SALESCOPY">>, guid |-> 1]}>>

AllKinds == {"omf", "aliased", "relic", "orphan", "loose"}
=============================================================================
