---------------------------- MODULE ScanDataProofs ----------------------------
(***************************************************************************)
(* Proofs about ScanData for any host: any number of databases, PDBs, disk *)
(* groups and files, whatever remote commands fail.                        *)
(***************************************************************************)
EXTENDS ScanData, TLAPS

(***************************************************************************)
(* The inductive invariant: what the maps and sets of run() say of the     *)
(* host at each stage.                                                     *)
(***************************************************************************)

\* The maps hold what the dictionaries that were read say, and no more.
Read ==
  /\ \A d \in answered : \A p \in Pdbs[d] : p.guid \in DOMAIN guids
  /\ \A g \in DOMAIN guids : \E d \in Db : \E p \in Pdbs[d] : p.guid = g /\ guids[g] = p.label
  /\ \A f \in File : Known(f) => CatalogName(f) \in DOMAIN catalog
  /\ \A n \in DOMAIN catalog :
       /\ Known(n.file) /\ n = CatalogName(n.file)
       /\ catalog[n].db = host[n.file].db /\ catalog[n].label = host[n.file].pdb.label

\* The walk has one record for each alias it saw.
AliasOf(f) == AliasRecord(<<host[f].dg, host[f].db>>, f)
Listed == walked = {AliasOf(f) : f \in seen} /\ \A f \in seen : HasAlias(f)

Late == {"emit", "completed"}
Joins == {Remap(a) : a \in walked} \cup
         {Standalone(n) : n \in {m \in DOMAIN catalog \ Matched : ~IsOmf(m)}}
Joined == at \in Late => records = Joins

\* Each record that was emitted has one place in its database's script.
Placed ==
  /\ at \notin Late => DOMAIN scripts = {}
  /\ at = "completed" => left = {}
  /\ \A d \in DOMAIN scripts : \A i \in 1 .. Len(scripts[d]) :
       scripts[d][i].move \in records \ left /\ scripts[d][i].move.db = d
  /\ at \in Late => \A r \in records \ left :
       r.db \in DOMAIN scripts /\ \E i \in 1 .. Len(scripts[r.db]) : scripts[r.db][i].move = r
  /\ \A d \in DOMAIN scripts : \A i, j \in 1 .. Len(scripts[d]) :
       scripts[d][i].move = scripts[d][j].move => i = j

\* A session that runs a script is in this container at the i-th MOVE.
IsIn(script, i, label) ==
  \/ label = Root /\ \A k \in 1 .. i : script[k].switch = Stay
  \/ \E m \in 1 .. i : /\ script[m].switch = label /\ label # Stay
                       /\ \A k \in m + 1 .. i : script[k].switch = Stay

\* It is in the container that each record was resolved to.
Ran ==
  \A d \in DOMAIN scripts : \A i \in 1 .. Len(scripts[d]) :
    IsIn(scripts[d], i, Resolved(scripts[d][i].move))

IInv == TypeOK /\ Read /\ Listed /\ Joined /\ Placed /\ Ran

(***************************************************************************)
(* Files, paths and records.                                               *)
(***************************************************************************)

\* A file of the host and its container.
LEMMA HostFacts ==
  ASSUME TypeOK, NEW f \in File
  PROVE  /\ host[f].db \in Db /\ host[f].dg \in DiskGroup \cup {NoGroup} /\ host[f].deep \in BOOLEAN
         /\ HasAlias(f) => host[f].dg \in DiskGroup
         /\ host[f].pdb.guid \in Guid \cup {NoGuid} /\ host[f].pdb.label \in Label
         /\ host[f].pdb.guid = NoGuid => host[f].pdb.label = Root
         /\ host[f].pdb.guid # NoGuid => host[f].pdb \in Pdbs[host[f].db]
         /\ CatalogName(f) \in Name /\ CatalogName(f).file = f
<1>1. host[f] \in HostFile
  BY DEF TypeOK
<1>2. host[f].db \in Db /\ host[f].dg \in DiskGroup \cup {NoGroup} /\ host[f].deep \in BOOLEAN
  BY <1>1 DEF HostFile
<1>3. HasAlias(f) => host[f].dg \in DiskGroup
  BY <1>1 DEF HostFile, HasAlias
<1>4. host[f].pdb \in Container(host[f].db)
  BY <1>1 DEF HostFile
<1>5. CASE host[f].pdb = [label |-> Root, guid |-> NoGuid]
  <2>1. host[f].pdb.guid = NoGuid /\ host[f].pdb.label = Root
    BY <1>5
  <2> QED
    BY <1>2, <1>3, <2>1 DEF Label, CatalogName, AliasName, OmfName, Name
<1>6. CASE host[f].pdb \in Pdbs[host[f].db]
  <2>1. host[f].pdb.guid \in Nat \ {NoGuid}
    BY <1>2, <1>6, HostAssumption
  <2>2. host[f].pdb \in UNION {Pdbs[d] : d \in Db}
    BY <1>2, <1>6
  <2>3. host[f].pdb.guid \in Guid /\ host[f].pdb.label \in Label
    BY <2>2 DEF Guid, Label
  <2> QED
    BY <1>2, <1>3, <1>6, <2>1, <2>3 DEF CatalogName, AliasName, OmfName, Name
<1> QED
  BY <1>4, <1>5, <1>6 DEF Container

\* Labels: what a GUID stands for is a label, and no label is a missing switch.
LEMMA LabelFacts ==
  ASSUME Read
  PROVE  /\ \A g \in Guid : LabelOf(g) \in Label
         /\ \A label \in Label : label # Stay
<1>1. ASSUME NEW g \in Guid  PROVE LabelOf(g) \in Label
  <2>1. CASE g \in DOMAIN guids
    <3>1. PICK d \in Db : \E p \in Pdbs[d] : p.guid = g /\ guids[g] = p.label
      BY <2>1 DEF Read
    <3>2. PICK p \in Pdbs[d] : guids[g] = p.label
      BY <3>1
    <3>3. p \in UNION {Pdbs[e] : e \in Db}
      BY <3>1, <3>2
    <3> QED
      BY <2>1, <3>2, <3>3 DEF LabelOf, Label
  <2>2. CASE g \notin DOMAIN guids
    BY <1>1, <2>2 DEF LabelOf, Label
  <2> QED
    BY <2>1, <2>2
<1>2. ASSUME NEW label \in Label  PROVE label # Stay
  <2>1. CASE label = Root
    BY <2>1 DEF Root, Stay
  <2>2. CASE label \in {p.label : p \in UNION {Pdbs[d] : d \in Db}}
    BY <2>2, HostAssumption
  <2>3. CASE label \in {Placeholder(g) : g \in Guid}
    BY <2>3 DEF Placeholder, Stay
  <2> QED
    BY <1>2, <2>1, <2>2, <2>3 DEF Label
<1> QED
  BY <1>1, <1>2

\* The record of an alias that the walk saw.
LEMMA AliasFacts ==
  ASSUME TypeOK, NEW f \in File
  PROVE  LET a == AliasOf(f)
         IN  /\ a.source = AsWalked(AliasName(f)) /\ a.source.name = AliasName(f)
             /\ a.target = AsWalked(OmfName(f)) /\ a.target.name = OmfName(f)
             /\ a.guid = host[f].pdb.guid /\ a.dg = host[f].dg /\ a.db = host[f].db
  BY DEF AliasOf, AliasRecord, AsWalked, GuidOf, AliasName, OmfName

\* What was read of a file, by the one name its dictionary has for it.
LEMMA NameFacts ==
  ASSUME TypeOK, Read, NEW f \in File
  PROVE  /\ Known(f) <=> CatalogName(f) \in DOMAIN catalog
         /\ AliasName(f) \in DOMAIN catalog => Known(f) /\ CatalogName(f) = AliasName(f)
         /\ OmfName(f) \in DOMAIN catalog => Known(f) /\ CatalogName(f) = OmfName(f)
         /\ CatalogName(f) \in {AliasName(f), OmfName(f)}
<1>1. AliasName(f).file = f /\ OmfName(f).file = f /\ CatalogName(f).file = f
  BY DEF CatalogName, AliasName, OmfName
<1> QED
  BY <1>1 DEF Read, CatalogName

\* What Enrich makes of it.
Remapped(f) == Remap(AliasOf(f))
LEMMA RemapFacts ==
  ASSUME TypeOK, Read, NEW f \in File, HasAlias(f)
  PROVE  LET r == Remapped(f)
         IN  /\ r \in Record
             /\ r.source = IF Known(f) THEN AsCataloged(CatalogName(f)) ELSE AsWalked(AliasName(f))
             /\ r.source.name.file = f /\ r.db = host[f].db /\ r.guid = host[f].pdb.guid
<1> DEFINE a == AliasOf(f)
           key == IF a.source.name \in DOMAIN catalog THEN a.source.name ELSE a.target.name
           known == key \in DOMAIN catalog
           source == IF known THEN AsCataloged(key) ELSE a.source
           guid == IF a.guid # NoGuid THEN a.guid ELSE GuidOf(source.name)
           label == IF guid # NoGuid THEN LabelOf(guid) ELSE IF known THEN catalog[key].label ELSE Root
<1>1. /\ a.source = AsWalked(AliasName(f)) /\ a.source.name = AliasName(f)
      /\ a.target.name = OmfName(f)
      /\ a.guid = host[f].pdb.guid /\ a.dg = host[f].dg /\ a.db = host[f].db
  BY AliasFacts
<1>2. AliasName(f) # OmfName(f) /\ AliasName(f) \in Name /\ OmfName(f) \in Name
      /\ AliasName(f).file = f /\ OmfName(f).file = f
  BY DEF AliasName, OmfName, Name
<1>3. known <=> Known(f)
  BY <1>1, NameFacts
<1>4. known => key = CatalogName(f)
  BY <1>1, NameFacts
<1>5. known => catalog[key].db = host[f].db /\ catalog[key].label = host[f].pdb.label
  BY <1>1, <1>2 DEF Read
<1>6. Remapped(f) = [source |-> source, target |-> "omf", guid |-> guid, dg |-> a.dg,
                     db |-> IF known THEN catalog[key].db ELSE a.db, label |-> label]
  BY DEF Remapped, Remap
<1> HIDE DEF a, key, known
<1>7. source = IF Known(f) THEN AsCataloged(CatalogName(f)) ELSE AsWalked(AliasName(f))
  BY <1>1, <1>3, <1>4
<1>8. source \in Path /\ source.name.file = f /\ source.name \in Name
  BY <1>2, <1>7, HostFacts DEF AsCataloged, AsWalked, Path
<1> HIDE DEF source
<1>9. guid = host[f].pdb.guid
  BY <1>1, <1>8 DEF GuidOf
<1>10. guid \in Guid \cup {NoGuid}
  BY <1>9, HostFacts
<1>11. label \in Label
  BY <1>5, <1>10, HostFacts, LabelFacts DEF Label
<1> HIDE DEF guid, label
<1>12. Remapped(f) \in Record
  BY <1>1, <1>5, <1>6, <1>8, <1>10, <1>11, HostFacts DEF Record
<1> QED
  BY <1>1, <1>5, <1>6, <1>7, <1>8, <1>9, <1>12

\* The names the walk showed.
LEMMA MatchedFacts ==
  ASSUME TypeOK, Listed, NEW f \in File
  PROVE  /\ f \in seen => AliasName(f) \in Matched /\ OmfName(f) \in Matched
         /\ \A n \in Matched : n.file \in seen
<1>1. seen \subseteq File
  BY DEF TypeOK
<1>2. f \in seen => AliasName(f) \in Matched /\ OmfName(f) \in Matched
  BY <1>1, AliasFacts DEF Listed, Matched
<1>3. ASSUME NEW n \in Matched  PROVE n.file \in seen
  <2>1. PICK a \in walked : n = a.source.name \/ n = a.target.name
    BY <1>3 DEF Matched
  <2>2. PICK g \in seen : a = AliasOf(g)
    BY <2>1 DEF Listed
  <2>3. n = AliasName(g) \/ n = OmfName(g)
    BY <1>1, <2>1, <2>2, AliasFacts
  <2> QED
    BY <2>2, <2>3 DEF AliasName, OmfName
<1> QED
  BY <1>2, <1>3

\* A file that only its dictionary knows.
LEMMA StandaloneFacts ==
  ASSUME TypeOK, Read, NEW f \in File, Known(f), ~IsOmf(CatalogName(f))
  PROVE  LET r == Standalone(CatalogName(f))
         IN  /\ r \in Record
             /\ r.source = AsCataloged(CatalogName(f))
             /\ r.source.name.file = f /\ r.db = host[f].db
             /\ r.guid = IF host[f].deep THEN host[f].pdb.guid ELSE NoGuid
<1> DEFINE n == CatalogName(f)
           r == Standalone(n)
<1>1. n = AliasName(f) /\ n.file = f /\ n.form = "alias" /\ n \in Name /\ n \in DOMAIN catalog
  <2>1. n = AliasName(f)
    BY DEF IsOmf, CatalogName, OmfName
  <2>2. n \in DOMAIN catalog
    BY NameFacts
  <2> QED
    BY <2>1, <2>2 DEF AliasName, Name
<1>2. catalog[n].db = host[f].db /\ catalog[n].label = host[f].pdb.label
  BY <1>1 DEF Read
<1> HIDE DEF n
<1>3. GuidOf(n) = IF host[f].deep THEN host[f].pdb.guid ELSE NoGuid
  BY <1>1 DEF GuidOf
<1>4. AsCataloged(n) \in Path /\ AsCataloged(n).name = n
  BY <1>1 DEF AsCataloged, Path
<1>5. r = [source |-> AsCataloged(n), target |-> "destination", guid |-> GuidOf(n),
           dg |-> IF host[f].dg = NoGroup THEN Destination ELSE host[f].dg,
           db |-> host[f].db, label |-> host[f].pdb.label]
  BY <1>1, <1>2 DEF Standalone
<1>6. Destination \in DiskGroup
  BY HostAssumption DEF Destination, DiskGroup
<1>7. r \in Record
  BY <1>3, <1>4, <1>5, <1>6, HostFacts DEF Record
<1> QED
  BY <1>1, <1>3, <1>4, <1>5, <1>7 DEF n

\* The records that were joined: one for each file that is to be moved.
RecordOf(f) == IF f \in seen THEN Remapped(f) ELSE Standalone(CatalogName(f))
LEMMA RecordsAre ==
  ASSUME TypeOK, Read, Listed
  PROVE  Joins = {RecordOf(f) : f \in {g \in File : ToMove(g)}}
<1> DEFINE lone == {m \in DOMAIN catalog \ Matched : ~IsOmf(m)}
<1>1. seen \subseteq File /\ DOMAIN catalog \subseteq Name
  BY DEF TypeOK
<1>2. {Remap(a) : a \in walked} = {Remapped(f) : f \in seen}
  BY DEF Listed, Remapped
<1>3. ASSUME NEW n \in lone
      PROVE  n.file \in File /\ ToMove(n.file) /\ n.file \notin seen /\ n = CatalogName(n.file)
  <2>1. n.file \in File /\ Known(n.file) /\ n = CatalogName(n.file)
    BY <1>1, <1>3 DEF Read, Name
  <2>2. n.file \notin seen
    BY <1>3, <2>1, MatchedFacts, NameFacts
  <2> QED
    BY <1>3, <2>1, <2>2 DEF ToMove
<1>4. ASSUME NEW f \in File, ToMove(f), f \notin seen  PROVE CatalogName(f) \in lone
  <2>1. CatalogName(f) \in DOMAIN catalog /\ ~IsOmf(CatalogName(f))
    BY <1>4 DEF ToMove, Read
  <2>2. CatalogName(f) \notin Matched
    BY <1>4, MatchedFacts, HostFacts
  <2> QED
    BY <2>1, <2>2
<1>5. {Standalone(n) : n \in lone} = {RecordOf(f) : f \in {g \in File : ToMove(g) /\ g \notin seen}}
  BY <1>3, <1>4 DEF RecordOf
<1>6. {Remapped(f) : f \in seen} = {RecordOf(f) : f \in {g \in File : ToMove(g) /\ g \in seen}}
  BY <1>1 DEF RecordOf, ToMove
<1> QED
  BY <1>2, <1>5, <1>6 DEF Joins

\* What is so for each of them.
LEMMA RecordFacts ==
  ASSUME TypeOK, Read, Listed, NEW f \in File, ToMove(f)
  PROVE  LET r == RecordOf(f)
         IN  /\ r \in Record
             /\ r.source = IF Known(f) THEN AsCataloged(CatalogName(f)) ELSE AsWalked(AliasName(f))
             /\ r.source.name.file = f /\ r.db = host[f].db
             /\ r.guid = host[f].pdb.guid \/ (r.guid = NoGuid /\ f \notin seen /\ ~host[f].deep)
<1>1. CASE f \in seen
  BY <1>1, RemapFacts DEF RecordOf, Listed
<1>2. CASE f \notin seen
  BY <1>2, StandaloneFacts, HostFacts DEF RecordOf, ToMove
<1> QED
  BY <1>1, <1>2

(***************************************************************************)
(* Reading the host.                                                       *)
(***************************************************************************)

\* Before the records are joined nothing is emitted.
LEMMA Early ==
  ASSUME IInv, at \notin Late, at' \notin Late, UNCHANGED <<host, results>>
  PROVE  Joined' /\ Placed' /\ Ran'
<1>1. DOMAIN scripts = {} /\ DOMAIN scripts' = {}
  BY DEF IInv, Placed, results
<1>2. Joined'
  BY DEF Joined
<1>3. Placed'
  BY <1>1 DEF Placed, Late
<1>4. Ran'
  BY <1>1 DEF Ran
<1> QED
  BY <1>2, <1>3, <1>4

\* What was read stays read.
LEMMA ReadStays ==
  ASSUME Read, UNCHANGED <<host, catalog, guids, answered>>
  PROVE  Read'
  BY DEF Read, Known, CatalogName, InCatalog

LEMMA ListedStays ==
  ASSUME Listed, UNCHANGED <<host, walked, seen>>
  PROVE  Listed'
  BY DEF Listed, AliasOf, AliasRecord, GuidOf, HasAlias

\* discover_disk_groups
LEMMA DiscoverDiskGroupsStep ==
  ASSUME IInv, DiscoverDiskGroups
  PROVE  IInv'
<1> USE DEF IInv
<1>1. TypeOK'
  <2>1. groups' \subseteq DiskGroup
    BY HostAssumption DEF DiscoverDiskGroups, DiskGroup
  <2> QED
    BY <2>1 DEF DiscoverDiskGroups, TypeOK, results
<1>2. Joined' /\ Placed' /\ Ran'
  BY Early DEF DiscoverDiskGroups, Late
<1>3. Read' /\ Listed'
  BY ReadStays, ListedStays DEF DiscoverDiskGroups
<1> QED
  BY <1>1, <1>2, <1>3

\* discover_databases
LEMMA DiscoverDatabasesStep ==
  ASSUME IInv, DiscoverDatabases
  PROVE  IInv'
<1> USE DEF IInv
<1>1. TypeOK'
  <2>1. databases' \subseteq Db /\ left' \subseteq Db
    BY DEF DiscoverDatabases
  <2> QED
    BY <2>1 DEF DiscoverDatabases, TypeOK, results
<1>2. Joined' /\ Placed' /\ Ran'
  BY Early DEF DiscoverDatabases, Late
<1>3. Read' /\ Listed'
  BY ReadStays, ListedStays DEF DiscoverDatabases
<1> QED
  BY <1>1, <1>2, <1>3

\* collect_database_details
LEMMA CollectStep ==
  ASSUME IInv, NEW d \in Db, Collect(d)
  PROVE  IInv'
<1> DEFINE mine == {f \in File : host[f].db = d /\ InCatalog(f)}
           files == [n \in {CatalogName(f) : f \in mine} |-> [db |-> d, label |-> host[n.file].pdb.label]]
           pdbs == [g \in {p.guid : p \in Pdbs[d]} |-> (CHOOSE p \in Pdbs[d] : p.guid = g).label]
<1>1. TypeOK /\ Read /\ Listed
  BY DEF IInv
<1>2. /\ at = "collect" /\ at' = at /\ left' = left \ {d}
      /\ UNCHANGED <<host, found, walked, failed, results, seen>>
      /\ \/ /\ catalog' = Update(catalog, files) /\ guids' = Update(guids, pdbs)
            /\ answered' = answered \cup {d}
         \/ UNCHANGED <<catalog, guids, answered>>
  BY DEF Collect
<1>3. Joined' /\ Placed' /\ Ran'
  BY <1>2, Early DEF Late
<1>4. Listed'
  BY <1>1, <1>2, ListedStays
<1>5. CASE UNCHANGED <<catalog, guids, answered>>
  <2>1. Read'
    BY <1>1, <1>2, <1>5, ReadStays
  <2>2. TypeOK'
    BY <1>1, <1>2, <1>5 DEF TypeOK, found, results
  <2> QED
    BY <1>3, <1>4, <2>1, <2>2 DEF IInv
<1>6. CASE /\ catalog' = Update(catalog, files) /\ guids' = Update(guids, pdbs)
           /\ answered' = answered \cup {d}
  <2>a. \A f \in mine : f \in File /\ host[f].db = d
    OBVIOUS
  <2>b. mine = {f \in File : host[f].db = d /\ InCatalog(f)}
    OBVIOUS
  <2> HIDE DEF mine
  <2>c. \A f \in mine : CatalogName(f).file = f /\ CatalogName(f) \in Name /\ host[f].pdb.label \in Label
    BY <1>1, <2>a, HostFacts
  <2>1. /\ DOMAIN files = {CatalogName(f) : f \in mine}
        /\ \A n \in DOMAIN files : files[n] = [db |-> d, label |-> host[n.file].pdb.label]
    OBVIOUS
  <2> HIDE DEF files
  <2>2. \A n \in DOMAIN files :
          /\ n \in Name /\ n.file \in mine /\ n = CatalogName(n.file)
          /\ files[n] = [db |-> d, label |-> host[n.file].pdb.label]
          /\ files[n] \in [db : Db, label : Label]
    <3> SUFFICES ASSUME NEW n \in DOMAIN files
                 PROVE  /\ n \in Name /\ n.file \in mine /\ n = CatalogName(n.file)
                        /\ files[n] = [db |-> d, label |-> host[n.file].pdb.label]
                        /\ files[n] \in [db : Db, label : Label]
      OBVIOUS
    <3>1. PICK f \in mine : n = CatalogName(f)
      BY <2>1
    <3>2. n \in Name /\ n.file = f
      BY <2>c, <3>1
    <3> QED
      BY <2>1, <2>c, <3>1, <3>2
  <2>3. \A g \in DOMAIN pdbs : \E p \in Pdbs[d] : p.guid = g /\ pdbs[g] = p.label
    <3> SUFFICES ASSUME NEW g \in DOMAIN pdbs
                 PROVE  \E p \in Pdbs[d] : p.guid = g /\ pdbs[g] = p.label
      OBVIOUS
    <3>1. \E p \in Pdbs[d] : p.guid = g
      OBVIOUS
    <3> QED
      BY <3>1
  <2>4. DOMAIN pdbs = {p.guid : p \in Pdbs[d]}
    OBVIOUS
  <2> HIDE DEF pdbs
  <2>6. /\ DOMAIN catalog' = DOMAIN catalog \cup DOMAIN files
        /\ \A n \in DOMAIN files : catalog'[n] = files[n]
        /\ \A n \in DOMAIN catalog \ DOMAIN files : catalog'[n] = catalog[n]
    BY <1>6 DEF Update
  <2>7. /\ DOMAIN guids' = DOMAIN guids \cup DOMAIN pdbs
        /\ \A g \in DOMAIN pdbs : guids'[g] = pdbs[g]
        /\ \A g \in DOMAIN guids \ DOMAIN pdbs : guids'[g] = guids[g]
    BY <1>6 DEF Update
  <2>8. \A e \in answered' : \A p \in Pdbs[e] : p.guid \in DOMAIN guids'
    BY <1>1, <1>6, <2>4, <2>7 DEF Read
  <2>9. \A g \in DOMAIN guids' : \E e \in Db : \E p \in Pdbs[e] : p.guid = g /\ guids'[g] = p.label
    BY <1>1, <2>3, <2>7 DEF Read
  <2>10. \A f \in File : CatalogName(f)' = CatalogName(f) /\ (InCatalog(f)' <=> InCatalog(f))
    BY <1>2 DEF CatalogName, InCatalog
  <2>11. \A f \in File : Known(f)' <=> Known(f) \/ f \in mine
    BY <1>2, <1>6, <2>b, <2>10 DEF Known
  <2>12. \A f \in File : Known(f)' => CatalogName(f)' \in DOMAIN catalog'
    BY <1>1, <2>1, <2>6, <2>10, <2>11 DEF Read
  <2>13. \A n \in DOMAIN catalog' :
           /\ n.file \in File /\ Known(n.file)' /\ n = CatalogName(n.file)'
           /\ catalog'[n].db = host[n.file].db /\ catalog'[n].label = host[n.file].pdb.label
    <3> SUFFICES ASSUME NEW n \in DOMAIN catalog'
                 PROVE  /\ n.file \in File /\ Known(n.file)' /\ n = CatalogName(n.file)'
                        /\ catalog'[n].db = host[n.file].db /\ catalog'[n].label = host[n.file].pdb.label
      OBVIOUS
    <3>1. CASE n \in DOMAIN files
      BY <2>a, <2>2, <2>6, <2>10, <2>11, <3>1
    <3>2. CASE n \in DOMAIN catalog \ DOMAIN files
      <4>1. n.file \in File
        BY <1>1, <3>2 DEF TypeOK, Name
      <4> QED
        BY <1>1, <2>6, <2>10, <2>11, <3>2, <4>1 DEF Read
    <3> QED
      BY <2>6, <3>1, <3>2
  <2>14. Read'
    BY <1>2, <2>8, <2>9, <2>12, <2>13 DEF Read
  <2>15. DOMAIN catalog' \subseteq Name /\ \A n \in DOMAIN catalog' : catalog'[n] \in [db : Db, label : Label]
    BY <1>1, <2>2, <2>6 DEF TypeOK
  <2>16. DOMAIN guids' \subseteq Guid /\ \A g \in DOMAIN guids' : guids'[g] \in Label
    <3> SUFFICES ASSUME NEW g \in DOMAIN guids'  PROVE g \in Guid /\ guids'[g] \in Label
      OBVIOUS
    <3>1. PICK e \in Db : \E p \in Pdbs[e] : p.guid = g /\ guids'[g] = p.label
      BY <2>9
    <3>2. PICK p \in Pdbs[e] : p.guid = g /\ guids'[g] = p.label
      BY <3>1
    <3>3. p \in UNION {Pdbs[c] : c \in Db}
      BY <3>1, <3>2
    <3> QED
      BY <3>2, <3>3 DEF Guid, Label
  <2>17. TypeOK'
    BY <1>1, <1>2, <1>6, <2>15, <2>16 DEF TypeOK, found, results
  <2> QED
    BY <1>3, <1>4, <2>14, <2>17 DEF IInv
<1> QED
  BY <1>2, <1>5, <1>6

\* resolve_paths
LEMMA ResolvePathsStep ==
  ASSUME IInv, ResolvePaths
  PROVE  IInv'
<1>1. Read' /\ Listed'
  BY ReadStays, ListedStays DEF IInv, ResolvePaths
<1>2. Joined' /\ Placed' /\ Ran'
  BY Early DEF ResolvePaths, Late
<1>3. TypeOK'
  BY DEF IInv, ResolvePaths, TypeOK, found, results
<1> QED
  BY <1>1, <1>2, <1>3 DEF IInv

\* walk_path
LEMMA WalkPathStep ==
  ASSUME IInv, NEW path \in DiskGroup \X Db, WalkPath(path)
  PROVE  IInv'
<1>1. TypeOK /\ Read /\ Listed
  BY DEF IInv
<1>2. /\ at = "walk" /\ at' = at /\ left' = left \ {path}
      /\ UNCHANGED <<host, found, catalog, guids, results, answered>>
  BY DEF WalkPath
<1>3. Read' /\ Joined' /\ Placed' /\ Ran'
  BY <1>1, <1>2, ReadStays, Early DEF Late
<1>4. PICK rows \in SUBSET {f \in File : HasAlias(f)} :
        /\ walked' = walked \cup {AliasOf(f) : f \in rows} /\ seen' = seen \cup rows
        /\ failed' \subseteq failed \cup {path}
  <2> DEFINE there == {f \in File : HasAlias(f) /\ <<host[f].dg, host[f].db>> = path}
  <2>1. there \subseteq {f \in File : HasAlias(f)} /\ \A f \in there : AliasRecord(path, f) = AliasOf(f)
    BY DEF AliasOf
  <2>2. \/ \E r \in IF RemoteFails THEN SUBSET there ELSE {there} :
            walked' = walked \cup {AliasRecord(path, f) : f \in r} /\ seen' = seen \cup r /\ failed' = failed
        \/ failed' = failed \cup {path} /\ walked' = walked /\ seen' = seen
    BY DEF WalkPath
  <2> HIDE DEF there
  <2>3. CASE \E r \in IF RemoteFails THEN SUBSET there ELSE {there} :
               walked' = walked \cup {AliasRecord(path, f) : f \in r} /\ seen' = seen \cup r /\ failed' = failed
    <3>1. PICK r \in SUBSET there :
            walked' = walked \cup {AliasRecord(path, f) : f \in r} /\ seen' = seen \cup r /\ failed' = failed
      BY <2>3
    <3>2. {AliasRecord(path, f) : f \in r} = {AliasOf(f) : f \in r}
      BY <2>1, <3>1
    <3> QED
      BY <2>1, <3>1, <3>2
  <2>4. CASE failed' = failed \cup {path} /\ walked' = walked /\ seen' = seen
    <3> WITNESS {} \in SUBSET {f \in File : HasAlias(f)}
    <3> QED
      BY <2>4
  <2> QED
    BY <2>2, <2>3, <2>4
<1>5. \A f \in File : AliasOf(f)' = AliasOf(f) /\ (HasAlias(f)' <=> HasAlias(f))
  BY <1>2 DEF AliasOf, AliasRecord, GuidOf, HasAlias
<1>6. seen \subseteq File
  BY <1>1 DEF TypeOK
<1>7. Listed'
  BY <1>1, <1>4, <1>5, <1>6 DEF Listed
<1>8. \A f \in rows : AliasOf(f) \in [source : Path, target : Path, guid : Guid \cup {NoGuid}, dg : DiskGroup, db : Db]
  <2> SUFFICES ASSUME NEW f \in rows
               PROVE  AliasOf(f) \in [source : Path, target : Path, guid : Guid \cup {NoGuid}, dg : DiskGroup, db : Db]
    OBVIOUS
  <2>1. f \in File /\ HasAlias(f)
    BY <1>4
  <2>2. AsWalked(AliasName(f)) \in Path /\ AsWalked(OmfName(f)) \in Path
    BY <2>1 DEF AsWalked, AliasName, OmfName, Path, Name
  <2>3. GuidOf(AliasName(f)) \in Guid \cup {NoGuid} /\ GuidOf(OmfName(f)) \in Guid \cup {NoGuid}
    BY <1>1, <2>1, HostFacts DEF GuidOf, AliasName, OmfName
  <2> QED
    BY <1>1, <2>1, <2>2, <2>3, HostFacts DEF AliasOf, AliasRecord
<1>9. TypeOK'
  BY <1>1, <1>2, <1>4, <1>8 DEF TypeOK, found, results
<1> QED
  BY <1>3, <1>7, <1>9 DEF IInv

\* The walk is over.
LEMMA EndWalkStep ==
  ASSUME IInv, EndWalk
  PROVE  IInv'
<1>1. Read' /\ Listed'
  BY ReadStays, ListedStays DEF IInv, EndWalk
<1>2. Joined' /\ Placed' /\ Ran'
  BY Early DEF EndWalk, Late
<1>3. TypeOK'
  BY DEF IInv, EndWalk, TypeOK, found, results
<1> QED
  BY <1>1, <1>2, <1>3 DEF IInv

\* An exception before the walk.
LEMMA AbortStep ==
  ASSUME IInv, Abort
  PROVE  IInv'
<1>1. Read' /\ Listed'
  BY ReadStays, ListedStays DEF IInv, Abort
<1>2. Joined' /\ Placed' /\ Ran'
  BY Early DEF Abort, Late
<1>3. TypeOK'
  BY DEF IInv, Abort, TypeOK, found, results
<1> QED
  BY <1>1, <1>2, <1>3 DEF IInv


(***************************************************************************)
(* Joining the records and writing the scripts.                            *)
(***************************************************************************)

\* The joined records depend on what was read alone.
LEMMA JoinsStay ==
  ASSUME UNCHANGED <<host, catalog, guids, walked>>
  PROVE  Joins' = Joins
<1>1. \A a : Remap(a)' = Remap(a)
  BY DEF Remap, GuidOf, LabelOf
<1>2. \A n : Standalone(n)' = Standalone(n)
  BY DEF Standalone, GuidOf
<1>3. Matched' = Matched
  BY DEF Matched
<1> QED
  BY <1>1, <1>2, <1>3 DEF Joins

\* enrich_and_persist
LEMMA EnrichStep ==
  ASSUME IInv, Enrich
  PROVE  IInv'
<1>1. TypeOK /\ Read /\ Listed
  BY DEF IInv
<1>2. /\ at' = "emit" /\ records' = Joins /\ left' = records'
      /\ UNCHANGED <<host, found, catalog, guids, walked, failed, scripts, answered, seen>>
  BY DEF Enrich, Joins
<1>3. DOMAIN scripts' = {}
  BY <1>2 DEF Enrich, IInv, Placed, Late
<1>4. Read' /\ Listed'
  BY <1>1, <1>2, ReadStays, ListedStays
<1>5. Joined'
  BY <1>2, JoinsStay DEF Joined
<1>6. records' \subseteq Record
  BY <1>1, <1>2, RecordsAre, RecordFacts
<1>7. TypeOK'
  BY <1>1, <1>2, <1>3, <1>6 DEF TypeOK, found
<1>8. Placed' /\ Ran'
  BY <1>2, <1>3 DEF Placed, Ran, Late
<1> QED
  BY <1>4, <1>5, <1>7, <1>8 DEF IInv

\* The container at a MOVE is decided by the switches up to it.
LEMMA SamePrefix ==
  ASSUME NEW s, NEW t, NEW i \in Nat, NEW label,
         \A k \in 1 .. i : t[k].switch = s[k].switch,
         IsIn(s, i, label)
  PROVE  IsIn(t, i, label)
<1>1. CASE label = Root /\ \A k \in 1 .. i : s[k].switch = Stay
  BY <1>1 DEF IsIn
<1>2. ASSUME NEW m \in 1 .. i, s[m].switch = label, label # Stay,
             \A k \in m + 1 .. i : s[k].switch = Stay
      PROVE  IsIn(t, i, label)
  <2>1. \A k \in m + 1 .. i : k \in 1 .. i
    OBVIOUS
  <2> QED
    BY <1>2, <2>1 DEF IsIn
<1> QED
  BY <1>1, <1>2 DEF IsIn

\* Without a switch a MOVE runs where the one before it ran.
LEMMA NoSwitch ==
  ASSUME NEW s, NEW i \in Nat, NEW label, IsIn(s, i, label), s[i + 1].switch = Stay
  PROVE  IsIn(s, i + 1, label)
<1>1. \A k \in 1 .. i + 1 : k \in 1 .. i \/ k = i + 1
  OBVIOUS
<1>2. CASE label = Root /\ \A k \in 1 .. i : s[k].switch = Stay
  BY <1>1, <1>2 DEF IsIn
<1>3. ASSUME NEW m \in 1 .. i, s[m].switch = label, label # Stay,
             \A k \in m + 1 .. i : s[k].switch = Stay
      PROVE  IsIn(s, i + 1, label)
  <2>1. m \in 1 .. i + 1 /\ \A k \in m + 1 .. i + 1 : k \in m + 1 .. i \/ k = i + 1
    OBVIOUS
  <2> QED
    BY <1>3, <2>1 DEF IsIn
<1> QED
  BY <1>2, <1>3 DEF IsIn

\* The next record's MOVE is put at the end of its database's script.
LEMMA EmitFacts ==
  ASSUME IInv, NEW r \in records, Emit(r)
  PROVE  LET script == ScriptOf(r.db)
             n == Len(script)
             switch == Switch(Resolved(r), LastContainer(script))
         IN  /\ r \in left /\ r \in Record /\ r.db \in Db /\ Resolved(r) \in Label
             /\ script \in Seq(Statement) /\ n \in Nat
             /\ r.db \in DOMAIN scripts => script = scripts[r.db]
             /\ r.db \notin DOMAIN scripts => n = 0
             /\ DOMAIN scripts' = DOMAIN scripts \cup {r.db}
             /\ \A d \in DOMAIN scripts \ {r.db} : scripts'[d] = scripts[d]
             /\ scripts'[r.db] \in Seq(Statement) /\ Len(scripts'[r.db]) = n + 1
             /\ \A i \in 1 .. n : scripts'[r.db][i] = script[i]
             /\ scripts'[r.db][n + 1].move = r /\ scripts'[r.db][n + 1].switch = switch
<1> DEFINE script == ScriptOf(r.db)
           n == Len(script)
           switch == Switch(Resolved(r), LastContainer(script))
           statement == [move |-> r, switch |-> switch]
<1>1. TypeOK /\ Read /\ at = "emit"
  BY DEF IInv, Emit
<1>2. r \in left /\ r \in Record /\ r.db \in Db /\ r.guid \in Guid \cup {NoGuid}
  BY <1>1 DEF Emit, IsNext, TypeOK, Record
<1>3. Resolved(r) \in Label
  BY <1>1, <1>2, LabelFacts DEF Resolved, Label
<1>4. /\ script \in Seq(Statement)
      /\ r.db \in DOMAIN scripts => script = scripts[r.db]
      /\ r.db \notin DOMAIN scripts => script = <<>>
  BY <1>1 DEF TypeOK, ScriptOf
<1>5. scripts' = [d \in DOMAIN scripts \cup {r.db} |->
                    IF d = r.db THEN Append(script, statement) ELSE scripts[d]]
  BY DEF Emit
<1>6. switch \in Label \cup {Stay}
  BY <1>3 DEF Switch
<1> HIDE DEF script, switch
<1>7. statement \in Statement
  BY <1>2, <1>6 DEF Statement
<1>8. scripts'[r.db] = Append(script, statement)
  BY <1>5
<1>9. n \in Nat /\ (r.db \notin DOMAIN scripts => n = 0)
  BY <1>4
<1>10. statement.move = r /\ statement.switch = switch
  OBVIOUS
<1> HIDE DEF statement
<1>11. /\ scripts'[r.db] \in Seq(Statement) /\ Len(scripts'[r.db]) = n + 1
       /\ \A i \in 1 .. n : scripts'[r.db][i] = script[i]
       /\ scripts'[r.db][n + 1] = statement
  BY <1>4, <1>7, <1>8
<1>12. /\ DOMAIN scripts' = DOMAIN scripts \cup {r.db}
       /\ \A d \in DOMAIN scripts \ {r.db} : scripts'[d] = scripts[d]
  BY <1>5
<1> QED
  BY <1>2, <1>3, <1>4, <1>9, <1>10, <1>11, <1>12 DEF script, switch

\* emit_by_database, for one record
LEMMA EmitStep ==
  ASSUME IInv, NEW r \in records, Emit(r)
  PROVE  IInv'
<1> DEFINE script == ScriptOf(r.db)
           n == Len(script)
           switch == Switch(Resolved(r), LastContainer(script))
<1>1. TypeOK /\ Read /\ Listed /\ Joined /\ Placed /\ Ran
  BY DEF IInv
<1>2. /\ at = "emit" /\ at' = at /\ left' = left \ {r}
      /\ UNCHANGED <<host, at, found, catalog, guids, walked, failed, records, answered, seen>>
  BY DEF Emit
<1>3. /\ r \in left /\ r \in Record /\ r.db \in Db /\ Resolved(r) \in Label
      /\ script \in Seq(Statement) /\ n \in Nat
      /\ r.db \in DOMAIN scripts => script = scripts[r.db]
      /\ r.db \notin DOMAIN scripts => n = 0
      /\ DOMAIN scripts' = DOMAIN scripts \cup {r.db}
      /\ \A d \in DOMAIN scripts \ {r.db} : scripts'[d] = scripts[d]
      /\ scripts'[r.db] \in Seq(Statement) /\ Len(scripts'[r.db]) = n + 1
      /\ \A i \in 1 .. n : scripts'[r.db][i] = script[i]
      /\ scripts'[r.db][n + 1].move = r /\ scripts'[r.db][n + 1].switch = switch
  BY EmitFacts
<1>4. switch = IF Resolved(r) = (IF n = 0 THEN Root ELSE Resolved(script[n].move)) THEN Stay ELSE Resolved(r)
  <2>1. script = <<>> <=> n = 0
    BY <1>3
  <2> QED
    BY <2>1 DEF Switch, LastContainer
<1> HIDE DEF script, n, switch
<1>5. \A d \in DOMAIN scripts : \A i \in 1 .. Len(scripts[d]) :
        i \in 1 .. Len(scripts'[d]) /\ scripts'[d][i] = scripts[d][i]
  <2> SUFFICES ASSUME NEW d \in DOMAIN scripts, NEW i \in 1 .. Len(scripts[d])
               PROVE  i \in 1 .. Len(scripts'[d]) /\ scripts'[d][i] = scripts[d][i]
    OBVIOUS
  <2>1. CASE d = r.db
    BY <1>3, <2>1 DEF n
  <2>2. CASE d # r.db
    BY <1>3, <2>2
  <2> QED
    BY <2>1, <2>2
<1>6. \A d \in DOMAIN scripts' : \A i \in 1 .. Len(scripts'[d]) :
        \/ d \in DOMAIN scripts /\ i \in 1 .. Len(scripts[d])
        \/ d = r.db /\ i = n + 1
  <2> SUFFICES ASSUME NEW d \in DOMAIN scripts', NEW i \in 1 .. Len(scripts'[d]), ~(d = r.db /\ i = n + 1)
               PROVE  d \in DOMAIN scripts /\ i \in 1 .. Len(scripts[d])
    OBVIOUS
  <2>1. CASE d = r.db
    <3>1. i \in 1 .. n
      BY <1>3, <2>1
    <3> QED
      BY <1>3, <2>1, <3>1 DEF n
  <2>2. CASE d # r.db
    BY <1>3, <2>2
  <2> QED
    BY <2>1, <2>2
<1>7. TypeOK'
  <2>1. \A d \in DOMAIN scripts' : scripts'[d] \in Seq(Statement)
    BY <1>1, <1>3 DEF TypeOK
  <2>2. DOMAIN scripts' \subseteq Db
    BY <1>1, <1>3 DEF TypeOK
  <2>3. left' \subseteq records'
    BY <1>1, <1>2 DEF TypeOK
  <2> QED
    BY <1>1, <1>2, <2>1, <2>2, <2>3 DEF TypeOK, found
<1>8. Read' /\ Listed'
  BY <1>1, <1>2, ReadStays, ListedStays
<1>9. Joined'
  BY <1>1, <1>2, JoinsStay DEF Joined
<1>10. Placed'
  <2>1. \A d \in DOMAIN scripts' : \A i \in 1 .. Len(scripts'[d]) :
          scripts'[d][i].move \in records' \ left' /\ scripts'[d][i].move.db = d
    <3> SUFFICES ASSUME NEW d \in DOMAIN scripts', NEW i \in 1 .. Len(scripts'[d])
                 PROVE  scripts'[d][i].move \in records \ left' /\ scripts'[d][i].move.db = d
      BY <1>2
    <3>1. CASE d \in DOMAIN scripts /\ i \in 1 .. Len(scripts[d])
      <4>1. scripts'[d][i] = scripts[d][i]
        BY <1>5, <3>1
      <4> QED
        BY <1>1, <1>2, <3>1, <4>1 DEF Placed
    <3>2. CASE d = r.db /\ i = n + 1
      BY <1>2, <1>3, <3>2
    <3> QED
      BY <1>6, <3>1, <3>2
  <2>2. \A x \in records' \ left' :
          x.db \in DOMAIN scripts' /\ \E i \in 1 .. Len(scripts'[x.db]) : scripts'[x.db][i].move = x
    <3> SUFFICES ASSUME NEW x \in records, x \notin left \/ x = r
                 PROVE  x.db \in DOMAIN scripts' /\ \E i \in 1 .. Len(scripts'[x.db]) : scripts'[x.db][i].move = x
      BY <1>2
    <3>1. CASE x \notin left
      <4>1. x.db \in DOMAIN scripts /\ \E i \in 1 .. Len(scripts[x.db]) : scripts[x.db][i].move = x
        BY <1>1, <1>2, <3>1 DEF Placed, Late
      <4> QED
        BY <1>3, <1>5, <4>1
    <3>2. CASE x = r
      <4>1. n + 1 \in 1 .. Len(scripts'[r.db])
        BY <1>3
      <4> QED
        BY <1>3, <3>2, <4>1
    <3> QED
      BY <3>1, <3>2
  <2>3. \A d \in DOMAIN scripts' : \A i, j \in 1 .. Len(scripts'[d]) :
          scripts'[d][i].move = scripts'[d][j].move => i = j
    <3>1. \A d \in DOMAIN scripts : \A i \in 1 .. Len(scripts[d]) : scripts'[d][i].move # r
      BY <1>1, <1>3, <1>5 DEF Placed
    <3> SUFFICES ASSUME NEW d \in DOMAIN scripts', NEW i \in 1 .. Len(scripts'[d]), NEW j \in 1 .. Len(scripts'[d]),
                        scripts'[d][i].move = scripts'[d][j].move
                 PROVE  i = j
      OBVIOUS
    <3>2. CASE d \in DOMAIN scripts /\ i \in 1 .. Len(scripts[d]) /\ j \in 1 .. Len(scripts[d])
      BY <1>1, <1>5, <3>2 DEF Placed
    <3>3. CASE d = r.db /\ i = n + 1
      BY <1>3, <1>6, <3>1, <3>3
    <3>4. CASE d = r.db /\ j = n + 1
      BY <1>3, <1>6, <3>1, <3>4
    <3> QED
      BY <1>6, <3>2, <3>3, <3>4
  <2> QED
    BY <1>2, <2>1, <2>2, <2>3 DEF Placed, Late
<1>11. Ran'
  <2>1. \A x : Resolved(x)' = Resolved(x)
    BY <1>2 DEF Resolved, LabelOf
  <2> SUFFICES ASSUME NEW d \in DOMAIN scripts', NEW i \in 1 .. Len(scripts'[d])
               PROVE  IsIn(scripts'[d], i, Resolved(scripts'[d][i].move))
    BY <2>1 DEF Ran, IsIn
  <2>2. CASE d \in DOMAIN scripts /\ i \in 1 .. Len(scripts[d])
    <3>1. IsIn(scripts[d], i, Resolved(scripts[d][i].move))
      BY <1>1, <2>2 DEF Ran
    <3>2. \A k \in 1 .. i : scripts'[d][k].switch = scripts[d][k].switch
      BY <1>5, <2>2
    <3>3. scripts'[d][i] = scripts[d][i]
      BY <1>5, <2>2
    <3> QED
      BY <3>1, <3>2, <3>3, SamePrefix
  <2>3. CASE d = r.db /\ i = n + 1
    <3> SUFFICES IsIn(scripts'[r.db], n + 1, Resolved(r))
      BY <1>3, <2>3
    <3>1. CASE switch # Stay
      <4>1. switch = Resolved(r) /\ n + 1 \in 1 .. n + 1 /\ \A k \in n + 2 .. n + 1 : FALSE
        BY <1>3, <1>4, <3>1
      <4> QED
        BY <1>3, <3>1, <4>1 DEF IsIn
    <3>2. CASE switch = Stay /\ n = 0
      <4>1. Resolved(r) = Root
        BY <1>3, <1>4, <3>2, LabelFacts, <1>1
      <4>2. \A k \in 1 .. n + 1 : k = n + 1
        BY <3>2
      <4> QED
        BY <1>3, <3>2, <4>1, <4>2 DEF IsIn
    <3>3. CASE switch = Stay /\ n # 0
      <4>1. Resolved(r) = Resolved(script[n].move)
        BY <1>1, <1>3, <1>4, <3>3, LabelFacts
      <4>2. r.db \in DOMAIN scripts /\ n \in 1 .. n
        BY <1>3, <3>3
      <4>3. IsIn(script, n, Resolved(r))
        BY <1>1, <1>3, <4>1, <4>2 DEF Ran, n
      <4>4. IsIn(scripts'[r.db], n, Resolved(r))
        BY <1>3, <4>3, SamePrefix
      <4> QED
        BY <1>3, <3>3, <4>4, NoSwitch
    <3> QED
      BY <3>1, <3>2, <3>3
  <2> QED
    BY <1>6, <2>2, <2>3
<1> QED
  BY <1>7, <1>8, <1>9, <1>10, <1>11 DEF IInv

\* Every script is there.
LEMMA CompleteStep ==
  ASSUME IInv, Complete
  PROVE  IInv'
<1>1. TypeOK /\ Read /\ Listed /\ Joined /\ Placed /\ Ran
  BY DEF IInv
<1>2. /\ at = "emit" /\ at' = "completed" /\ left = {}
      /\ UNCHANGED <<host, groups, databases, left, catalog, guids, walked, failed, records, scripts, answered, seen>>
  BY DEF Complete, found, results
<1>3. Read' /\ Listed'
  BY <1>1, <1>2, ReadStays, ListedStays
<1>4. Joined'
  BY <1>1, <1>2, JoinsStay DEF Joined, Late
<1>5. Placed'
  BY <1>1, <1>2 DEF Placed, Late
<1>6. Ran'
  BY <1>1, <1>2 DEF Ran, IsIn, Resolved, LabelOf
<1>7. TypeOK'
  BY <1>1, <1>2 DEF TypeOK
<1> QED
  BY <1>3, <1>4, <1>5, <1>6, <1>7 DEF IInv

(***************************************************************************)
(* The invariant holds.                                                    *)
(***************************************************************************)

LEMMA Start ==
  ASSUME Init
  PROVE  IInv
<1>1. DOMAIN catalog = {} /\ DOMAIN guids = {} /\ DOMAIN scripts = {}
  BY DEF Init
<1>2. TypeOK
  BY <1>1 DEF Init, TypeOK
<1>3. Read
  BY <1>1 DEF Init, Read, Known
<1>4. Listed
  BY DEF Init, Listed
<1>5. Joined /\ Placed /\ Ran
  BY <1>1 DEF Init, Joined, Placed, Ran, Late
<1> QED
  BY <1>2, <1>3, <1>4, <1>5 DEF IInv

LEMMA Step ==
  ASSUME IInv, [Next]_vars
  PROVE  IInv'
<1>1. CASE DiscoverDiskGroups \/ DiscoverDatabases
  BY <1>1, DiscoverDiskGroupsStep, DiscoverDatabasesStep
<1>2. CASE \E d \in Db : Collect(d)
  BY <1>2, CollectStep
<1>3. CASE ResolvePaths
  BY <1>3, ResolvePathsStep
<1>4. CASE \E path \in DiskGroup \X Db : WalkPath(path)
  BY <1>4, WalkPathStep
<1>5. CASE EndWalk
  BY <1>5, EndWalkStep
<1>6. CASE Enrich
  BY <1>6, EnrichStep
<1>7. CASE \E r \in records : Emit(r)
  BY <1>7, EmitStep
<1>8. CASE Complete
  BY <1>8, CompleteStep
<1>9. CASE Abort
  BY <1>9, AbortStep
<1>10. CASE UNCHANGED vars
  <2>1. UNCHANGED <<host, at, groups, databases, left, catalog, guids, walked, failed, records, scripts, answered, seen>>
    BY <1>10 DEF vars, found, results
  <2>2. TypeOK /\ Read /\ Listed /\ Joined /\ Placed /\ Ran
    BY DEF IInv
  <2>3. Read' /\ Listed' /\ Joins' = Joins
    BY <2>1, <2>2, ReadStays, ListedStays, JoinsStay
  <2>4. Joined' /\ Placed'
    BY <2>1, <2>2, <2>3 DEF Joined, Placed
  <2>5. Ran'
    BY <2>1, <2>2 DEF Ran, IsIn, Resolved, LabelOf
  <2>6. TypeOK'
    BY <2>1, <2>2 DEF TypeOK
  <2> QED
    BY <2>3, <2>4, <2>5, <2>6 DEF IInv
<1> QED
  BY <1>1, <1>2, <1>3, <1>4, <1>5, <1>6, <1>7, <1>8, <1>9, <1>10 DEF Next

\* IInv holds in every state of every scan.
THEOREM Invariance == Spec => []IInv
BY Start, Step, PTL DEF Spec

(***************************************************************************)
(* The results.                                                            *)
(***************************************************************************)

\* Every variable stays within its type.
THEOREM TypesHold == Spec => []TypeOK
<1>1. IInv => TypeOK
  BY DEF IInv
<1> QED
  BY <1>1, Invariance, PTL

\* A MOVE of a completed scan's scripts is that of a file which was to be moved, and is in
\* the script of the file's database.
LEMMA PlaceFacts ==
  ASSUME IInv, at = "completed", NEW p \in Places
  PROVE  /\ p[1] \in DOMAIN scripts /\ p[2] \in 1 .. Len(scripts[p[1]]) /\ p = <<p[1], p[2]>>
         /\ FileOf(p) \in File /\ ToMove(FileOf(p)) /\ Move(p) = RecordOf(FileOf(p))
         /\ p[1] = host[FileOf(p)].db
<1>1. TypeOK /\ Read /\ Listed /\ Joined /\ Placed
  BY DEF IInv
<1>2. PICK d \in DOMAIN scripts : p \in {d} \X DOMAIN scripts[d]
  BY DEF Places
<1>3. DOMAIN scripts[d] = 1 .. Len(scripts[d])
  BY <1>1, <1>2 DEF TypeOK
<1>4. p[1] = d /\ p[2] \in 1 .. Len(scripts[d]) /\ p = <<p[1], p[2]>>
  BY <1>2, <1>3
<1>5. Move(p) \in records /\ Move(p).db = d
  BY <1>1, <1>2, <1>4 DEF Placed, Move
<1>6. PICK f \in File : ToMove(f) /\ Move(p) = RecordOf(f)
  BY <1>1, <1>5, RecordsAre DEF Joined, Late
<1>7. FileOf(p) = f /\ Move(p).db = host[f].db
  BY <1>1, <1>6, RecordFacts DEF FileOf
<1> QED
  BY <1>2, <1>4, <1>5, <1>6, <1>7

\* Whatever failed on the way, the scripts of a completed scan move each file that is to be
\* moved exactly once, in its own database and under the name its dictionary has for it.
THEOREM EachFileMovesOnce == Spec => []MovesEachFileOnce
<1>1. ASSUME IInv  PROVE MovesEachFileOnce
  <2> SUFFICES ASSUME at = "completed", NEW f \in File
               PROVE  LET places == {p \in Places : FileOf(p) = f}
                      IN  IF ~ToMove(f) THEN places = {}
                          ELSE \E p \in places :
                                 /\ places = {p}
                                 /\ p[1] = host[f].db
                                 /\ Move(p).source = IF Known(f) THEN AsCataloged(CatalogName(f))
                                                     ELSE AsWalked(AliasName(f))
    BY DEF MovesEachFileOnce
  <2> DEFINE places == {p \in Places : FileOf(p) = f}
             r == RecordOf(f)
  <2>1. TypeOK /\ Read /\ Listed /\ Joined /\ Placed
    BY <1>1 DEF IInv
  <2>2. CASE ~ToMove(f)
    BY <1>1, <2>2, PlaceFacts
  <2>3. CASE ToMove(f)
    <3>1. r \in records /\ r \notin left
      BY <2>1, <2>3, RecordsAre DEF Joined, Placed, Late
    <3>2. /\ r.source.name.file = f /\ r.db = host[f].db
          /\ r.source = IF Known(f) THEN AsCataloged(CatalogName(f)) ELSE AsWalked(AliasName(f))
      BY <2>1, <2>3, RecordFacts
    <3> HIDE DEF r
    <3>3. r.db \in DOMAIN scripts /\ \E i \in 1 .. Len(scripts[r.db]) : scripts[r.db][i].move = r
      BY <2>1, <3>1 DEF Placed, Late
    <3>4. PICK i \in 1 .. Len(scripts[r.db]) : scripts[r.db][i].move = r
      BY <3>3
    <3> DEFINE p == <<r.db, i>>
    <3>5. DOMAIN scripts[r.db] = 1 .. Len(scripts[r.db])
      BY <2>1, <3>3 DEF TypeOK
    <3>6. p \in Places
      BY <3>3, <3>4, <3>5 DEF Places
    <3>7. p[1] = r.db /\ p[2] = i /\ Move(p) = r /\ FileOf(p) = f
      BY <3>2, <3>4 DEF Move, FileOf
    <3>8. ASSUME NEW q \in places  PROVE q = p
      <4>1. /\ q \in Places /\ FileOf(q) = f
        OBVIOUS
      <4>2. /\ q[1] \in DOMAIN scripts /\ q[2] \in 1 .. Len(scripts[q[1]]) /\ q = <<q[1], q[2]>>
            /\ Move(q) = r /\ q[1] = r.db
        BY <1>1, <3>2, <4>1, PlaceFacts DEF r
      <4>3. scripts[r.db][q[2]].move = r
        BY <4>2 DEF Move
      <4>4. q[2] = i
        BY <2>1, <3>3, <3>4, <4>2, <4>3 DEF Placed
      <4> QED
        BY <4>2, <4>4
    <3> HIDE DEF p
    <3>9. p \in places /\ places = {p}
      BY <3>6, <3>7, <3>8
    <3> QED
      BY <2>3, <3>2, <3>7, <3>9
  <2> QED
    BY <2>2, <2>3
<1> QED
  BY <1>1, Invariance, PTL

\* IsIn tells the session's container.
LEMMA SessionIs ==
  ASSUME NEW p, p[2] \in Nat, NEW label, IsIn(scripts[p[1]], p[2], label)
  PROVE  SessionAt(p) = label
<1> DEFINE script == scripts[p[1]]
           switches == {j \in 1 .. p[2] : script[j].switch # Stay}
<1>1. SessionAt(p) = IF switches = {} THEN Root ELSE script[Max(switches)].switch
  BY DEF SessionAt
<1>2. CASE label = Root /\ \A k \in 1 .. p[2] : script[k].switch = Stay
  BY <1>1, <1>2
<1>3. ASSUME NEW m \in 1 .. p[2], script[m].switch = label, label # Stay,
             \A k \in m + 1 .. p[2] : script[k].switch = Stay
      PROVE  SessionAt(p) = label
  <2>1. m \in switches /\ \A k \in switches : k \in Nat /\ m >= k
    BY <1>3
  <2> HIDE DEF switches
  <2>2. Max(switches) \in switches /\ \A k \in switches : Max(switches) >= k
    BY <2>1, Zenon DEF Max
  <2> DEFINE max == Max(switches)
  <2> HIDE DEF max
  <2>3. m \in Nat /\ max \in Nat /\ m >= max /\ max >= m
    BY <2>1, <2>2 DEF max
  <2>4. Max(switches) = m
    BY <2>3 DEF max
  <2> QED
    BY <1>1, <1>3, <2>1, <2>4
<1> QED
  BY <1>2, <1>3 DEF IsIn

\* Where no two databases use its GUID for PDBs of different names, a MOVE never runs in
\* another PDB than its file's; it runs in the file's container whenever a path that was read
\* names the PDB and the dictionary was read (MoveSqlEmitter.emit).  Else it runs in CDB$ROOT, or
\* after a placeholder no session can switch to.
THEOREM RunsAtHome == Spec => []MovesRunAtHome
<1>1. ASSUME IInv  PROVE MovesRunAtHome
  <2> SUFFICES ASSUME at = "completed", NEW p \in Places, Unambiguous(host[FileOf(p)].pdb.guid)
               PROVE  LET home == host[FileOf(p)].pdb
                      IN  \/ SessionAt(p) = home.label
                          \/ SessionAt(p) = Placeholder(home.guid) /\ host[FileOf(p)].db \notin answered
                          \/ SessionAt(p) = Root /\ FileOf(p) \notin seen /\ ~host[FileOf(p)].deep
    BY DEF MovesRunAtHome
  <2> DEFINE f == FileOf(p)
             r == RecordOf(f)
             home == host[f].pdb
  <2>1. TypeOK /\ Read /\ Listed /\ Ran
    BY <1>1 DEF IInv
  <2>2. /\ p[1] \in DOMAIN scripts /\ p[2] \in 1 .. Len(scripts[p[1]])
        /\ f \in File /\ ToMove(f) /\ Move(p) = r
    BY <1>1, PlaceFacts
  <2>3. r.guid = home.guid \/ (r.guid = NoGuid /\ f \notin seen /\ ~host[f].deep)
    BY <2>1, <2>2, RecordFacts
  <2>4. SessionAt(p) = Resolved(r)
    <3>1. IsIn(scripts[p[1]], p[2], Resolved(Move(p)))
      BY <2>1, <2>2 DEF Ran, Move
    <3>2. p[2] \in Nat
      BY <2>2
    <3> QED
      BY <2>2, <3>1, <3>2, SessionIs
  <2>5. /\ home.guid = NoGuid => home.label = Root
        /\ home.guid # NoGuid => home \in Pdbs[host[f].db] /\ host[f].db \in Db
    BY <2>1, <2>2, HostFacts
  <2> HIDE DEF r
  <2>6. CASE r.guid = NoGuid
    BY <2>3, <2>4, <2>5, <2>6 DEF Resolved
  <2>7. CASE r.guid # NoGuid /\ r.guid \in DOMAIN guids
    <3>1. home.guid = r.guid /\ home \in UNION {Pdbs[d] : d \in Db}
      BY <2>3, <2>5, <2>7
    <3>2. PICK d \in Db : \E q \in Pdbs[d] : q.guid = r.guid /\ guids[r.guid] = q.label
      BY <2>1, <2>7 DEF Read
    <3>3. PICK q \in Pdbs[d] : q.guid = r.guid /\ guids[r.guid] = q.label
      BY <3>2
    <3>4. q \in UNION {Pdbs[e] : e \in Db}
      BY <3>2, <3>3
    <3>5. q.label = home.label
      BY <3>1, <3>3, <3>4 DEF Unambiguous
    <3> QED
      BY <2>4, <2>7, <3>3, <3>5 DEF Resolved, LabelOf
  <2>8. CASE r.guid # NoGuid /\ r.guid \notin DOMAIN guids
    <3>1. home.guid = r.guid /\ home \in Pdbs[host[f].db]
      BY <2>3, <2>5, <2>8
    <3>2. host[f].db \notin answered
      BY <2>1, <2>8, <3>1 DEF Read
    <3> QED
      BY <2>4, <2>8, <3>1, <3>2 DEF Resolved, LabelOf
  <2> QED
    BY <2>6, <2>7, <2>8
<1> QED
  BY <1>1, Invariance, PTL
=============================================================================
