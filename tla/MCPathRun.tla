------------------------------ MODULE MCPathRun ------------------------------
(* Small instances of PathRun for TLC. *)
EXTENDS PathRun

MCWord == {"data", "fra", "sales", "hr", "pdbdir", "datafile", "x", "y"}
MCNoDatabase == {"x", "pdbdir", "datafile"}
MCGuid == {1, 2}
MCPdb == {"SALESPDB", "HRPDB", "NAMED"}
Up(word) == [word |-> word, upper |-> TRUE]
Low(word) == [word |-> word, upper |-> FALSE]
Entry(kind, name, guid, home) == [kind |-> kind, name |-> name, guid |-> guid, home |-> home]
Dir(word) == Entry("dir", Up(word), None, Up("sales"))
Link(word) == Entry("link", Low(word), None, Up("sales"))
File(word) == Entry("file", Up(word), None, Up("sales"))
AliasRow(word, guid, home) == Entry("alias", Low(word), guid, Up(home))

\* +DATA has an alias at its root, the databases SALES, with a PDB, a file of its root container
\* and an alias of a directory, and HR, with a PDB that SALES has as well in the second host.
\* +FRA has SALES only.  The alias at the root is named like a data file, or y like a database.
MCTree(atRoot) ==
  (<<"data">> :> <<Dir("sales"), AliasRow(atRoot, 1, "sales"), Dir("hr")>>) @@
  (<<"data", "sales">> :> <<Dir("pdbdir"), Link("pdbdir"), Dir("datafile")>>) @@
  (<<"data", "sales", "datafile">> :> <<File("x"), AliasRow("y", None, "sales")>>) @@
  (<<"data", "sales", "pdbdir">> :> <<Dir("datafile")>>) @@
  (<<"data", "sales", "pdbdir", "datafile">> :> <<AliasRow("x", 1, "sales"), Link("datafile"), AliasRow("y", 1, "sales")>>) @@
  (<<"data", "hr">> :> <<AliasRow("x", 2, "hr")>>) @@
  (<<"fra", "sales">> :> <<>>)

MCPrints == <<[name |-> Low("data"), token |-> TRUE], [name |-> Low("x"), token |-> FALSE],
              [name |-> Up("fra"), token |-> TRUE], [name |-> Up("data"), token |-> TRUE]>>

MCPdbs(hr) == [w \in MCWord |-> CASE w = "sales" -> 1 :> "SALESPDB" [] w = "hr" -> hr [] OTHER -> <<>>]
MCHosts ==
  {[prints |-> MCPrints, tree |-> MCTree(atRoot), srvctl |-> names, pdbs |-> MCPdbs(hr)] :
     names \in {{Up("sales"), Up("hr"), Low("hr")}, {Up("sales"), Low("hr")}},
     hr \in {2 :> "HRPDB", <<>>}, atRoot \in {"x", "y"}}

Scope(dgs, databases, excludes, patterns, default, depth) ==
  [groups |-> dgs, databases |-> databases, excludes |-> excludes, patterns |-> patterns,
   default |-> default, depth |-> depth]
Both == <<Low("sales"), Up("hr"), Up("sales")>>
Exactly(path) == [text |-> path, below |-> FALSE]
Below(path) == [text |-> path, below |-> TRUE]
MCScopes ==
  {Scope(dgs, Both, {}, patterns, None, None) :
     dgs \in {<<>>, <<Low("data"), Up("data")>>},
     patterns \in {{}, {Exactly(<<"fra", "sales">>)}, {Below(<<"data">>), Exactly(<<"fra">>)}}}
  \cup {Scope(<<Up("data"), Up("fra")>>, Both, {"hr"}, {}, None, depth) : depth \in {None, 0, 1, 2}}
  \cup {Scope(<<>>, <<>>, {}, {}, <<Low("data")>>, depth) : depth \in {None, 0, 1, 2}}

MCPolicies ==
  {None} \cup {[auto |-> auto, manual |-> manual] : auto \in BOOLEAN, manual \in {<<>>, 1 :> "NAMED", 1 :> "NAMED" @@ 2 :> "HRPDB"}}

MCAsks ==
  {[path |-> path, scope |-> scope, filter |-> filter, policy |-> policy, shell |-> TRUE] :
     path \in {None, <<Low("data"), Low("hr")>>}, scope \in MCScopes \cup {None},
     filter \in {{}, {Up("hr")}, {Low("hr")}}, policy \in MCPolicies}
  \cup {[path |-> <<Low("data")>>, scope |-> None, filter |-> {}, policy |-> policy, shell |-> FALSE] : policy \in MCPolicies}
==============================================================================
