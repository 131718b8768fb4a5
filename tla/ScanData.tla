------------------------------- MODULE ScanData -------------------------------
(***************************************************************************)
(* What one scan computes: ScanService.run collects the catalog of every   *)
(* database, walks the ASM directories, joins the two in AliasEnricher and  *)
(* emits one MOVE script per database with MoveSqlEmitter.                 *)
(*                                                                         *)
(* The host is fixed before the scan starts: a set of database files, how  *)
(* each is named in ASM and in its database's dictionary.  The scan reads  *)
(* it through remote commands that may fail one by one, and most failures  *)
(* are logged and passed over; the properties compare what a scan that     *)
(* completed tells the DBA with the host as it is.                         *)
(*                                                                         *)
(* A path stands for itself without being spelled: it belongs to a file,   *)
(* is its OMF name or an alias, and is written as the dictionary or as the *)
(* walk writes it, which differ in letter case only.  File types, the      *)
(* wording of the script and the progress messages are left out.           *)
(***************************************************************************)
EXTENDS Naturals, Sequences, FiniteSetsExt

CONSTANTS
  Databases,      \* the databases of the host are 1 .. Databases
  DiskGroups,     \* its disk groups are 1 .. DiskGroups; 1 is +DATA
  Files,          \* its files are 1 .. Files
  Pdbs,           \* for each database, its PDBs: records [label, guid]
  Kinds,          \* the kinds of file the host may hold, see below
  RemoteFails     \* whether remote commands may fail

Db == 1 .. Databases
DiskGroup == 1 .. DiskGroups
File == 1 .. Files
NoGuid == 0
NoGroup == 0                       \* a file system path has no disk group
Destination == 1                   \* targets.destination_disk_group

\* What a container is called: CDB$ROOT, a PDB's name, or the placeholder for a GUID.
Root == <<"CDB$ROOT">>
Placeholder(guid) == <<"PDB_GUID", guid>>
Guid == {p.guid : p \in UNION {Pdbs[d] : d \in Db}}
Stay == <<>>                        \* no ALTER SESSION SET CONTAINER before a MOVE
Label == {Root} \cup {p.label : p \in UNION {Pdbs[d] : d \in Db}} \cup {Placeholder(g) : g \in Guid}

ASSUME HostAssumption ==
  /\ Databases \in Nat /\ DiskGroups \in Nat \ {0} /\ Files \in Nat
  /\ \A d \in Db : \A p, q \in Pdbs[d] : p.guid = q.guid \/ p.label = q.label => p = q
  /\ \A d \in Db : \A p \in Pdbs[d] : p.guid \in Nat \ {NoGuid} /\ p.label \notin {Root, Stay}
  /\ RemoteFails \in BOOLEAN

\* The kinds of file.  ASM allows one user alias per file.
\*   omf      the dictionary names the OMF path, there is no alias
\*   aliased  the dictionary names the alias, which lies under +DG/DB
\*   relic    there is an alias under +DG/DB, the dictionary names the OMF path
\*   orphan   there is an alias under +DG/DB, no dictionary names the file
\*   loose    the dictionary names a path that is not OMF and not under +DG/DB
ASSUME KindsAssumption == Kinds \subseteq {"omf", "aliased", "relic", "orphan", "loose"}

Container(d) == {[label |-> Root, guid |-> NoGuid]} \cup Pdbs[d]

\* A file: its database and container, its disk group, and whether its alias or loose
\* path has the directory of the PDB's GUID in it (an OMF path always has it).
HostFile ==
  {f \in [db : Db, pdb : UNION {Container(d) : d \in Db}, dg : DiskGroup \cup {NoGroup},
          kind : Kinds, deep : BOOLEAN] :
     /\ f.pdb \in Container(f.db)
     /\ f.dg = NoGroup => f.kind = "loose" /\ ~f.deep
     /\ f.deep => f.pdb.guid # NoGuid /\ f.kind # "omf"}

VARIABLES
  host,        \* the files of the host
  at,          \* where run() is
  groups,      \* disk_groups, as discovered
  databases,   \* databases, as discovered
  left,        \* the databases, the paths, the records its loops have not come to
  catalog,     \* all_db_files: what the dictionaries say, by path without its spelling
  guids,       \* guid_pdb_map
  walked,      \* the alias records of the walk
  failed,      \* failed_paths
  records,     \* the enriched records, each with the container of its scan_aliases row
  scripts,     \* generated_sql, as it is put together: a script for each database that has records
  \* Auxiliary, read by no action:
  answered,    \* the databases whose dictionary was read
  seen         \* the files whose alias some listing showed

found == <<groups, databases>>
results == <<records, scripts>>
vars == <<host, at, found, left, catalog, guids, walked, failed, results, answered, seen>>

Name == [file : File, form : {"omf", "alias"}]             \* a path without its spelling
OmfName(f) == [file |-> f, form |-> "omf"]
AliasName(f) == [file |-> f, form |-> "alias"]
Path == [name : Name, as : {"walked", "cataloged"}]
AsWalked(name) == [name |-> name, as |-> "walked"]
AsCataloged(name) == [name |-> name, as |-> "cataloged"]

HasAlias(f) == host[f].kind \in {"aliased", "relic", "orphan"}
InCatalog(f) == host[f].kind # "orphan"
CatalogName(f) == IF host[f].kind \in {"aliased", "loose"} THEN AliasName(f) ELSE OmfName(f)

Init ==
  /\ host \in [File -> HostFile]
  /\ at = "discover"
  /\ groups = {} /\ databases = {} /\ left = {}
  /\ catalog = <<>> /\ guids = <<>>
  /\ walked = {} /\ failed = {} /\ records = {} /\ scripts = <<>>
  /\ answered = {} /\ seen = {}
-----------------------------------------------------------------------------
(* Reading the host. *)

\* discover_disk_groups falls back to +DATA.
DiscoverDiskGroups ==
  /\ at = "discover"
  /\ groups' \in {DiskGroup} \cup (IF RemoteFails THEN {{1}} ELSE {})
  /\ at' = "databases"
  /\ UNCHANGED <<host, databases, left, catalog, guids, walked, failed, results, answered, seen>>

\* discover_databases falls back to oratab and to the processes that run, which may lack some
\* of the databases, and at last to none.
DiscoverDatabases ==
  /\ at = "databases"
  /\ databases' \in IF RemoteFails THEN SUBSET Db ELSE {Db}
  /\ left' = databases'
  /\ at' = "collect"
  /\ UNCHANGED <<host, groups, catalog, guids, walked, failed, results, answered, seen>>

\* dict.update: what is new replaces what was there.
Update(dict, new) ==
  [key \in DOMAIN dict \cup DOMAIN new |-> IF key \in DOMAIN new THEN new[key] ELSE dict[key]]

\* The dictionary of one database: its PDBs and its files.  A failed sqlplus is logged and
\* counts as a database with neither.
Collect(d) ==
  /\ at = "collect" /\ d \in left
  /\ left' = left \ {d}
  /\ LET mine == {f \in File : host[f].db = d /\ InCatalog(f)}
         files == [n \in {CatalogName(f) : f \in mine} |-> [db |-> d, label |-> host[n.file].pdb.label]]
         pdbs == [g \in {p.guid : p \in Pdbs[d]} |-> (CHOOSE p \in Pdbs[d] : p.guid = g).label]
     IN  \/ /\ catalog' = Update(catalog, files)
            /\ guids' = Update(guids, pdbs)
            /\ answered' = answered \cup {d}
         \/ RemoteFails /\ UNCHANGED <<catalog, guids, answered>>
  /\ UNCHANGED <<host, at, found, walked, failed, results, seen>>

\* resolve_paths: one path for each disk group and database.
ResolvePaths ==
  /\ at = "collect" /\ left = {}
  /\ left' = groups \X databases
  /\ at' = "walk"
  /\ UNCHANGED <<host, found, catalog, guids, walked, failed, results, answered, seen>>

\* AliasRecord.pdb_guid_from_path
GuidOf(name) ==
  IF name.form = "omf" \/ host[name.file].deep THEN host[name.file].pdb.guid ELSE NoGuid

\* AliasRecord.from_listing_line, for the row of the file's alias in a directory below the path:
\* disk group and database are its first two segments.
AliasRecord(path, f) ==
  [source |-> AsWalked(AliasName(f)), target |-> AsWalked(OmfName(f)),
   guid |-> IF GuidOf(AliasName(f)) # NoGuid THEN GuidOf(AliasName(f)) ELSE GuidOf(OmfName(f)),
   dg |-> path[1], db |-> path[2]]

\* walk_path on the next path.  A lost connection raises and the path counts as failed; an
\* asmcmd that exits non-zero does not (fail_loud is off) and its rows are missing.
WalkPath(path) ==
  /\ at = "walk" /\ path \in left
  /\ \A p \in left : path[1] < p[1] \/ (path[1] = p[1] /\ path[2] <= p[2])
  /\ left' = left \ {path}
  /\ LET there == {f \in File : HasAlias(f) /\ <<host[f].dg, host[f].db>> = path}
     IN  \/ \E rows \in IF RemoteFails THEN SUBSET there ELSE {there} :
              /\ walked' = walked \cup {AliasRecord(path, f) : f \in rows}
              /\ seen' = seen \cup rows
              /\ UNCHANGED failed
         \/ RemoteFails /\ failed' = failed \cup {path} /\ UNCHANGED <<walked, seen>>
  /\ UNCHANGED <<host, at, found, catalog, guids, results, answered>>

\* The scan fails when every path failed, and goes on when some did or there was none.
EndWalk ==
  /\ at = "walk" /\ left = {}
  /\ at' = IF failed # {} /\ failed = groups \X databases THEN "failed" ELSE "enrich"
  /\ UNCHANGED <<host, found, left, catalog, guids, walked, failed, results, answered, seen>>
-----------------------------------------------------------------------------
(* AliasEnricher.enrich_and_persist. *)

LabelOf(guid) == IF guid \in DOMAIN guids THEN guids[guid] ELSE Placeholder(guid)

\* A walked alias whose path or target some dictionary names takes the dictionary's spelling,
\* database and container; its PDB's GUID, when there is one, decides the container.
Remap(a) ==
  LET key == IF a.source.name \in DOMAIN catalog THEN a.source.name ELSE a.target.name
      known == key \in DOMAIN catalog
      source == IF known THEN AsCataloged(key) ELSE a.source
      guid == IF a.guid # NoGuid THEN a.guid ELSE GuidOf(source.name)
  IN  [source |-> source, target |-> "omf", guid |-> guid, dg |-> a.dg,
       db |-> IF known THEN catalog[key].db ELSE a.db,
       label |-> IF guid # NoGuid THEN LabelOf(guid)
                 ELSE IF known THEN catalog[key].label ELSE Root]

\* Mutant: only the aliases' targets count as matched.
MatchTargets == {a.target.name : a \in walked}

Matched == {a.source.name : a \in walked} \cup {a.target.name : a \in walked}

IsOmf(name) == name.form = "omf"
\* Mutant: a file system path keeps its missing disk group.
StandaloneNoGroup(name) ==
  [source |-> AsCataloged(name), target |-> "destination", guid |-> GuidOf(name),
   dg |-> host[name.file].dg, db |-> catalog[name].db, label |-> catalog[name].label]

\* A file that only its dictionary knows: it has no OMF target, so its row and its record
\* show the destination.
Standalone(name) ==
  [source |-> AsCataloged(name), target |-> "destination", guid |-> GuidOf(name),
   dg |-> IF host[name.file].dg = NoGroup THEN Destination ELSE host[name.file].dg,
   db |-> catalog[name].db, label |-> catalog[name].label]

\* The remapped aliases, and the dictionaries' files that no alias matched and that are not
\* OMF already.
Enrich ==
  /\ at = "enrich"
  /\ records' = {Remap(a) : a \in walked} \cup
                {Standalone(n) : n \in {m \in DOMAIN catalog \ Matched : ~IsOmf(m)}}
  /\ left' = records'
  /\ at' = "emit"
  /\ UNCHANGED <<host, found, catalog, guids, walked, failed, scripts, answered, seen>>
-----------------------------------------------------------------------------
(* MoveSqlEmitter.emit_by_database: the databases in order, the records of each sorted. *)

\* sort_alias_records: disk group, (database,) GUID with none first, source path.
Before(r, s) ==
  \/ r.dg < s.dg
  \/ r.dg = s.dg /\ r.guid < s.guid
  \/ r.dg = s.dg /\ r.guid = s.guid /\ r.source.name.file < s.source.name.file

IsNext(r) == r \in left /\ \A s \in left : ~(s.db < r.db \/ (s.db = r.db /\ Before(s, r)))

\* resolved_container, over a policy that has a placeholder for every unmapped GUID.
Resolved(r) == IF r.guid = NoGuid THEN Root ELSE LabelOf(r.guid)

ScriptOf(d) == IF d \in DOMAIN scripts THEN scripts[d] ELSE <<>>

\* last_container; a session starts in CDB$ROOT.
LastContainer(script) == IF script = <<>> THEN Root ELSE Resolved(script[Len(script)].move)

\* Mutant: there is no switch back to CDB$ROOT.
NeverBack(label, last) == IF label \in {last, Root} THEN Stay ELSE label

\* The container is switched where it changes.
Switch(label, last) == IF label = last THEN Stay ELSE label

\* One MOVE for the next record, at the end of its database's script.
Emit(r) ==
  /\ at = "emit" /\ IsNext(r)
  /\ left' = left \ {r}
  /\ LET script == ScriptOf(r.db)
         statement == [move |-> r, switch |-> Switch(Resolved(r), LastContainer(script))]
     IN  scripts' = [d \in DOMAIN scripts \cup {r.db} |->
                       IF d = r.db THEN Append(script, statement) ELSE scripts[d]]
  /\ UNCHANGED <<host, at, found, catalog, guids, walked, failed, records, answered, seen>>

\* Every script is there, and the scan is completed.
Complete ==
  /\ at = "emit" /\ left = {}
  /\ at' = "completed"
  /\ UNCHANGED <<host, found, left, catalog, guids, walked, failed, results, answered, seen>>

\* A DiscoveryError or a lost connection before the walk ends the scan.
Abort ==
  /\ RemoteFails
  /\ at \in {"discover", "databases", "collect"}
  /\ at' = "failed" /\ left' = {}
  /\ UNCHANGED <<host, found, catalog, guids, walked, failed, results, answered, seen>>

Next ==
  \/ DiscoverDiskGroups
  \/ DiscoverDatabases
  \/ \E d \in Db : Collect(d)
  \/ ResolvePaths
  \/ \E path \in DiskGroup \X Db : WalkPath(path)
  \/ EndWalk
  \/ Enrich
  \/ \E r \in records : Emit(r)
  \/ Complete
  \/ Abort

Spec == Init /\ [][Next]_vars
-----------------------------------------------------------------------------
(* Properties. *)

Record == [source : Path, target : {"omf", "destination"}, guid : Guid \cup {NoGuid}, dg : DiskGroup, db : Db, label : Label]
Statement == [move : Record, switch : Label \cup {Stay}]

\* Every variable stays within its type.
TypeOK ==
  /\ host \in [File -> HostFile]
  /\ at \in {"discover", "databases", "collect", "walk", "enrich", "emit", "completed", "failed"}
  /\ groups \subseteq DiskGroup /\ databases \subseteq Db
  /\ left \subseteq CASE at = "collect" -> Db [] at = "emit" -> records [] OTHER -> DiskGroup \X Db
  /\ DOMAIN catalog \subseteq Name
  /\ \A n \in DOMAIN catalog : catalog[n] \in [db : Db, label : Label]
  /\ DOMAIN guids \subseteq Guid
  /\ \A g \in DOMAIN guids : guids[g] \in Label
  /\ walked \subseteq [source : Path, target : Path, guid : Guid \cup {NoGuid}, dg : DiskGroup, db : Db]
  /\ failed \subseteq DiskGroup \X Db
  /\ records \subseteq Record
  /\ DOMAIN scripts \subseteq Db
  /\ \A d \in DOMAIN scripts : scripts[d] \in Seq(Statement)
  /\ answered \subseteq Db /\ seen \subseteq File

Places == UNION {{d} \X DOMAIN scripts[d] : d \in DOMAIN scripts}
Move(p) == scripts[p[1]][p[2]].move
FileOf(p) == Move(p).source.name.file
Known(f) == InCatalog(f) /\ host[f].db \in answered

\* Which files the scan is to move: those whose alias it saw, and those a dictionary it read
\* names by a path that is not OMF.
ToMove(f) == f \in seen \/ (Known(f) /\ ~IsOmf(CatalogName(f)))

\* Whatever failed on the way, the scripts of a completed scan move each such file exactly
\* once and no other file: in the script of the file's own database, and under the very path
\* the file's dictionary has for it (Oracle compares it letter by letter) when it was read.
MovesEachFileOnce ==
  at = "completed" =>
    \A f \in File :
      LET places == {p \in Places : FileOf(p) = f}
      IN  IF ~ToMove(f) THEN places = {}
          ELSE \E p \in places : /\ places = {p}
                                 /\ p[1] = host[f].db
                                 /\ Move(p).source = IF Known(f) THEN AsCataloged(CatalogName(f))
                                                     ELSE AsWalked(AliasName(f))

\* The container of the session that runs a script, at its i-th MOVE.
SessionAt(p) ==
  LET switches == {j \in 1 .. p[2] : scripts[p[1]][j].switch # Stay}
  IN  IF switches = {} THEN Root ELSE scripts[p[1]][Max(switches)].switch

\* No two databases use one GUID for PDBs of different names.
Unambiguous(guid) ==
  \A p, q \in UNION {Pdbs[d] : d \in Db} : p.guid = guid /\ q.guid = guid => p.label = q.label

\* A MOVE never runs in another PDB than its file's.  It runs in the file's own container
\* whenever a path of the file that the scan read names the PDB, unless the dictionary was
\* not read: then the container is the placeholder, which no session can switch to.
MovesRunAtHome ==
  at = "completed" =>
    \A p \in Places :
      LET home == host[FileOf(p)].pdb
      IN  Unambiguous(home.guid) =>
            \/ SessionAt(p) = home.label
            \/ SessionAt(p) = Placeholder(home.guid) /\ host[FileOf(p)].db \notin answered
            \/ SessionAt(p) = Root /\ FileOf(p) \notin seen /\ ~host[FileOf(p)].deep
-----------------------------------------------------------------------------
(* What the repository says, and the code does not do. *)

\* A scan_aliases row gives the container of its file, and the script says that MOVE
\* statements run in the container it switched to: the two are the same container.
RowsAgreeWithScripts == at = "completed" => \A p \in Places : Move(p).label = SessionAt(p)
=============================================================================
