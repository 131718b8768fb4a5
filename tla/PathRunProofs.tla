---------------------------- MODULE PathRunProofs ----------------------------
(***************************************************************************)
(* Proofs about PathRun, for any hosts, scopes, policies and names.        *)
(***************************************************************************)
EXTENDS PathRun, LoopsProofs

-----------------------------------------------------------------------------
(* Names, paths and lists of them. *)

LEMMA UpperIs == ASSUME NEW name \in Name PROVE Upper(name) \in Name /\ Upper(name).word = name.word
  BY DEF Upper, Name

\* Folding keeps the words and forgets their spelling.
LEMMA FoldIs ==
  ASSUME NEW path \in Seq(Name)
  PROVE  /\ Fold(path) \in Seq(Word) /\ Len(Fold(path)) = Len(path)
         /\ \A i \in 1 .. Len(path) : Fold(path)[i] = path[i].word
<1>1. DOMAIN path = 1 .. Len(path) /\ Len(path) \in Nat /\ \A i \in 1 .. Len(path) : path[i].word \in Word
  <2>1. DOMAIN path = 1 .. Len(path) /\ Len(path) \in Nat /\ \A i \in 1 .. Len(path) : path[i] \in Name
    OBVIOUS
  <2>2. \A name \in Name : name.word \in Word
    BY DEF Name
  <2> QED
    BY <2>1, <2>2
<1>2. Fold(path) = [i \in 1 .. Len(path) |-> path[i].word]
  BY <1>1 DEF Fold
<1>3. Fold(path) \in [1 .. Len(path) -> Word]
  BY <1>1, <1>2
<1>4. Fold(path) \in Seq(Word) /\ Len(Fold(path)) = Len(path)
  BY <1>1, <1>3
<1> QED
  BY <1>2, <1>4

LEMMA FoldAppend ==
  ASSUME NEW path \in Seq(Name), NEW name \in Name
  PROVE  /\ Append(path, name) \in Seq(Name)
         /\ Fold(Append(path, name)) = Append(Fold(path), name.word)
<1> DEFINE more == Append(path, name)
           N == Len(path)
<1>1. /\ more \in Seq(Name) /\ Len(more) = N + 1 /\ N \in Nat
      /\ \A i \in 1 .. N : more[i] = path[i]
      /\ more[N + 1] = name
  BY AppendProperties
<1>2. name.word \in Word
  BY DEF Name
<1>3. /\ Fold(path) \in Seq(Word) /\ Len(Fold(path)) = N
      /\ \A i \in 1 .. N : Fold(path)[i] = path[i].word
  BY FoldIs
<1> HIDE DEF more, N
<1>4. /\ Fold(more) \in Seq(Word) /\ Len(Fold(more)) = N + 1
      /\ \A i \in 1 .. N + 1 : Fold(more)[i] = more[i].word
  BY <1>1, FoldIs
<1> DEFINE to == Append(Fold(path), name.word)
<1>5. /\ to \in Seq(Word) /\ Len(to) = N + 1
      /\ \A i \in 1 .. N : to[i] = Fold(path)[i]
      /\ to[N + 1] = name.word
  BY <1>2, <1>3, AppendProperties
<1> HIDE DEF to
<1>6. \A i \in 1 .. N + 1 : Fold(more)[i] = to[i]
  <2> SUFFICES ASSUME NEW i \in 1 .. N + 1 PROVE Fold(more)[i] = to[i]
    OBVIOUS
  <2>1. i = N + 1 \/ i \in 1 .. N
    BY <1>1
  <2> QED
    BY <1>1, <1>3, <1>4, <1>5, <2>1
<1>7. Fold(more) = to
  BY <1>4, <1>5, <1>6, SeqEqual
<1> QED
  BY <1>1, <1>7 DEF more, to

\* Normalising changes spellings only.
LEMMA NormalizeIs ==
  ASSUME NEW path \in Seq(Name)
  PROVE  /\ NormalizePath(path) \in Seq(Name)
         /\ Fold(NormalizePath(path)) = Fold(path)
<1> DEFINE norm == NormalizePath(path)
<1>1. DOMAIN path = 1 .. Len(path) /\ Len(path) \in Nat /\ \A i \in 1 .. Len(path) : path[i] \in Name
  OBVIOUS
<1>2. norm = [i \in 1 .. Len(path) |-> IF i = 1 \/ i < Len(path) THEN Upper(path[i]) ELSE path[i]]
  BY <1>1 DEF NormalizePath
<1>3. \A i \in 1 .. Len(path) : norm[i] \in Name /\ norm[i].word = path[i].word
  BY <1>1, <1>2, UpperIs
<1>4. norm \in [1 .. Len(path) -> Name]
  <2>1. norm = [i \in 1 .. Len(path) |-> norm[i]]
    BY <1>2
  <2> HIDE DEF norm
  <2> QED
    BY <1>3, <2>1
<1> HIDE DEF norm
<1>5. norm \in Seq(Name) /\ Len(norm) = Len(path) /\ DOMAIN norm = DOMAIN path
  BY <1>1, <1>4
<1>6. [i \in DOMAIN norm |-> norm[i].word] = [i \in DOMAIN path |-> path[i].word]
  BY <1>1, <1>3, <1>5
<1> QED
  BY <1>5, <1>6 DEF norm, Fold

\* The names of a scope that are not excluded, or in the filter.
LEMMA DatabasesAre ==
  ASSUME NEW scope, IsScope(scope), NEW filter \in SUBSET Name
  PROVE  /\ Databases(scope, filter) \in Seq(Name)
         /\ \A x : Has(Databases(scope, filter), x) <=>
              /\ Has(scope.databases, x)
              /\ x.word \notin scope.excludes /\ (filter = {} \/ x \in filter)
<1> DEFINE all == scope.databases
           places == {i \in DOMAIN all : all[i].word \notin scope.excludes /\ (filter = {} \/ all[i] \in filter)}
<1>1. all \in Seq(Name) /\ DOMAIN all = 1 .. Len(all)
  BY DEF IsScope
<1>2. Databases(scope, filter) = Pick(all, places)
  BY DEF Databases, Filtered, Once
<1> HIDE DEF all
<1>3. places \in SUBSET (1 .. Len(all))
  BY <1>1
<1>4. /\ Databases(scope, filter) \in Seq(Name)
      /\ \A x : Has(Databases(scope, filter), x) <=> \E i \in places : all[i] = x
  <2> HIDE DEF places
  <2> QED
    BY <1>1, <1>2, <1>3, PickElements
<1>5. ASSUME NEW x
      PROVE  (\E i \in places : all[i] = x) <=>
               Has(all, x) /\ x.word \notin scope.excludes /\ (filter = {} \/ x \in filter)
  BY <1>1 DEF Has
<1> QED
  BY <1>4, <1>5 DEF all
-----------------------------------------------------------------------------
(* Listings and the alias records of them. *)

LEMMA RowFields ==
  ASSUME NEW row \in Row
  PROVE  row.name \in Name /\ row.guid \in Guid \cup {None} /\ row.home \in Name
  BY DEF Row

LEMMA ListingFields == ASSUME NEW listing \in Listing PROVE listing.path \in Seq(Name) /\ listing.rows \in Seq(Row)
  BY DEF Listing

\* The record of an alias row.
RecordOf(listing, row) ==
  LET source == Append(listing.path, row.name)
  IN  [source |-> source, guid |-> row.guid, db |-> IF NamesDatabase(source) THEN source[2] ELSE row.home]

LEMMA RecordType ==
  ASSUME NEW listing \in Listing, NEW row \in Row
  PROVE  /\ RecordOf(listing, row) \in Alias
         /\ Fold(RecordOf(listing, row).source) = Append(Fold(listing.path), row.name.word)
<1> DEFINE source == Append(listing.path, row.name)
           db == IF NamesDatabase(source) THEN source[2] ELSE row.home
<1>1. row.name \in Name /\ row.guid \in Guid \cup {None} /\ row.home \in Name /\ listing.path \in Seq(Name)
  BY RowFields, ListingFields
<1>2. source \in Seq(Name) /\ Fold(source) = Append(Fold(listing.path), row.name.word)
  BY <1>1, FoldAppend
<1>3. db \in Name
  <2> HIDE DEF source
  <2> QED
    BY <1>1, <1>2 DEF NamesDatabase
<1> HIDE DEF db, source
<1>4. RecordOf(listing, row) = [source |-> source, guid |-> row.guid, db |-> db]
  BY DEF RecordOf, source, db
<1> QED
  BY <1>1, <1>2, <1>3, <1>4 DEF Alias

\* A listing has a record for each of its alias rows, and no other.
LEMMA RecordsAre ==
  ASSUME NEW listing \in Listing
  PROVE  /\ Records(listing) \in Seq(Alias)
         /\ \A x : Has(Records(listing), x) <=>
              \E i \in 1 .. Len(listing.rows) : listing.rows[i].kind = "alias" /\ x = RecordOf(listing, listing.rows[i])
<1> DEFINE all == listing.rows
           places == {i \in DOMAIN all : all[i].kind = "alias"}
           rows == Pick(all, places)
<1>1. all \in Seq(Row) /\ DOMAIN all = 1 .. Len(all)
  BY ListingFields
<1>2. Records(listing) = [i \in DOMAIN rows |-> RecordOf(listing, rows[i])]
  BY DEF Records, Filtered, Once, RecordOf
<1> HIDE DEF all
<1>3. places \in SUBSET (1 .. Len(all))
  BY <1>1
<1>4. rows \in Seq(Row) /\ \A x : Has(rows, x) <=> \E i \in places : all[i] = x
  <2> HIDE DEF places
  <2> QED
    BY <1>1, <1>3, PickElements
<1> HIDE DEF rows
<1>5. DOMAIN rows = 1 .. Len(rows) /\ Len(rows) \in Nat /\ \A i \in 1 .. Len(rows) : rows[i] \in Row
  BY <1>4
<1>6. Records(listing) \in [1 .. Len(rows) -> Alias]
  BY <1>2, <1>5, RecordType
<1>7. /\ Records(listing) \in Seq(Alias) /\ Len(Records(listing)) = Len(rows)
      /\ \A i \in 1 .. Len(rows) : Records(listing)[i] = RecordOf(listing, rows[i])
  BY <1>2, <1>5, <1>6
<1>8. ASSUME NEW x
      PROVE  Has(Records(listing), x) <=> \E i \in 1 .. Len(all) : all[i].kind = "alias" /\ x = RecordOf(listing, all[i])
  <2>1. ASSUME NEW k \in 1 .. Len(rows), Records(listing)[k] = x
        PROVE  \E i \in 1 .. Len(all) : all[i].kind = "alias" /\ x = RecordOf(listing, all[i])
    <3>1. Has(rows, rows[k])
      BY DEF Has
    <3>2. PICK i \in places : all[i] = rows[k]
      BY <1>4, <3>1
    <3>3. x = RecordOf(listing, all[i]) /\ i \in 1 .. Len(all) /\ all[i].kind = "alias"
      BY <1>1, <1>7, <2>1, <3>2
    <3> QED
      BY <3>3
  <2>2. ASSUME NEW i \in 1 .. Len(all), all[i].kind = "alias", x = RecordOf(listing, all[i])
        PROVE  Has(Records(listing), x)
    <3>1. i \in places
      BY <1>1, <2>2
    <3>2. Has(rows, all[i])
      BY <1>4, <3>1
    <3>3. PICK k \in 1 .. Len(rows) : rows[k] = all[i]
      BY <3>2 DEF Has
    <3>4. k \in 1 .. Len(Records(listing)) /\ Records(listing)[k] = x
      BY <1>7, <2>2, <3>3
    <3> QED
      BY <3>4 DEF Has
  <2>3. Has(Records(listing), x) <=> \E k \in 1 .. Len(rows) : Records(listing)[k] = x
    BY <1>7 DEF Has
  <2> QED
    BY <2>1, <2>2, <2>3
<1> QED
  BY <1>7, <1>8 DEF all

\* A listing of the inventory has an alias row for a record.
FromRow(record) ==
  \E i \in 1 .. Len(listed) : \E k \in 1 .. Len(listed[i].rows) :
    listed[i].rows[k].kind = "alias" /\ record = RecordOf(listed[i], listed[i].rows[k])

\* The aliases of an inventory are its alias rows, one for each path.
LEMMA AliasesAre ==
  ASSUME listed \in Seq(Listing)
  PROVE  /\ Aliases \in Seq(Alias)
         /\ \A i \in 1 .. Len(Aliases) : FromRow(Aliases[i])
         /\ \A record : FromRow(record) =>
              \E i \in 1 .. Len(Aliases) : Fold(Aliases[i].source) = Fold(record.source)
         /\ \A i, j \in 1 .. Len(Aliases) : Fold(Aliases[i].source) = Fold(Aliases[j].source) => i = j
<1> DEFINE parts == [i \in DOMAIN listed |-> Records(listed[i])]
           all == FlattenSeq(parts)
           places == {i \in DOMAIN all : \A j \in 1 .. i - 1 : Fold(all[j].source) # Fold(all[i].source)}
           keys == [i \in DOMAIN all |-> Fold(all[i].source)]
<1>1. DOMAIN listed = 1 .. Len(listed) /\ Len(listed) \in Nat /\ \A i \in 1 .. Len(listed) : listed[i] \in Listing
  OBVIOUS
<1>2. /\ parts \in Seq(Seq(Alias)) /\ Len(parts) = Len(listed)
      /\ \A i \in 1 .. Len(listed) : parts[i] = Records(listed[i])
  <2>1. parts \in [1 .. Len(listed) -> Seq(Alias)]
    BY <1>1, RecordsAre
  <2> QED
    BY <1>1, <2>1
<1>3. Aliases = Pick(all, places)
  BY DEF Aliases, FirstOfEach, Once
<1> HIDE DEF parts
<1>4. all \in Seq(Alias) /\ \A x : Has(all, x) <=> \E i \in 1 .. Len(parts) : Has(parts[i], x)
  BY <1>2, FlattenElements
<1>5. ASSUME NEW x PROVE Has(all, x) <=> FromRow(x)
  <2>1. Has(all, x) <=> \E i \in 1 .. Len(listed) : Has(Records(listed[i]), x)
    BY <1>2, <1>4
  <2>2. \A i \in 1 .. Len(listed) : Has(Records(listed[i]), x) <=>
          \E k \in 1 .. Len(listed[i].rows) :
            listed[i].rows[k].kind = "alias" /\ x = RecordOf(listed[i], listed[i].rows[k])
    BY <1>1, RecordsAre
  <2> QED
    BY <2>1, <2>2 DEF FromRow
<1> HIDE DEF all
<1>6. DOMAIN all = 1 .. Len(all) /\ Len(all) \in Nat
  BY <1>4
<1>7. places \in SUBSET (1 .. Len(all))
  BY <1>6
<1>8. \A i \in 1 .. Len(all) : i \in places <=> \A j \in 1 .. i - 1 : keys[j] # keys[i]
  <2> SUFFICES ASSUME NEW i \in 1 .. Len(all)
               PROVE  i \in places <=> \A j \in 1 .. i - 1 : keys[j] # keys[i]
    OBVIOUS
  <2>1. \A j \in 1 .. i - 1 : j \in 1 .. Len(all)
    BY <1>6
  <2> QED
    BY <1>6, <2>1
<1>9. \A i \in 1 .. Len(all) : keys[i] = Fold(all[i].source)
  BY <1>6
<1> HIDE DEF places, keys
<1>10. Aliases \in Seq(Alias) /\ OnePerKey(Aliases, all, keys)
  BY <1>3, <1>4, <1>7, <1>8, FirstPlaces
<1> DEFINE out == Aliases
<1>11. out \in Seq(Alias) /\ OnePerKey(out, all, keys)
  BY <1>10
<1> HIDE DEF out
<1>12. \A i \in 1 .. Len(out) : FromRow(out[i])
  <2> SUFFICES ASSUME NEW i \in 1 .. Len(out) PROVE FromRow(out[i])
    OBVIOUS
  <2>1. PICK k \in 1 .. Len(all) : out[i] = all[k]
    BY <1>11 DEF OnePerKey
  <2>2. Has(all, out[i])
    BY <2>1 DEF Has
  <2> QED
    BY <1>5, <2>2
<1>13. ASSUME NEW record, FromRow(record) PROVE \E i \in 1 .. Len(out) : Fold(out[i].source) = Fold(record.source)
  <2>1. Has(all, record)
    BY <1>5, <1>13
  <2>2. PICK k \in 1 .. Len(all) : all[k] = record
    BY <2>1 DEF Has
  <2>3. PICK i \in 1 .. Len(out), m \in 1 .. Len(all) : out[i] = all[m] /\ keys[m] = keys[k]
    BY <1>11 DEF OnePerKey
  <2>4. Fold(out[i].source) = Fold(record.source)
    BY <1>9, <2>2, <2>3
  <2> QED
    BY <2>4
<1>14. ASSUME NEW i \in 1 .. Len(out), NEW j \in 1 .. Len(out), i # j PROVE Fold(out[i].source) # Fold(out[j].source)
  <2>1. PICK m \in 1 .. Len(all), n \in 1 .. Len(all) : out[i] = all[m] /\ out[j] = all[n] /\ keys[m] # keys[n]
    BY <1>11, <1>14 DEF OnePerKey
  <2> QED
    BY <1>9, <2>1
<1> QED
  BY <1>11, <1>12, <1>13, <1>14 DEF out

-----------------------------------------------------------------------------
(* The databases of the map, and maps. *)

\* What IsAsk and IsHost say of the ask and the host of a run.
LEMMA AskFields ==
  ASSUME ask \in Asks
  PROVE  /\ ask.path \in Seq(Name) \cup {None} /\ ask.filter \in SUBSET Name
         /\ ask.scope # None => IsScope(ask.scope)
         /\ ask.policy # None => ask.policy.auto \in BOOLEAN /\ ask.policy.manual \in GuidMap
         /\ ask.shell \in BOOLEAN
<1>1. IsAsk(ask)
  BY PathAssumption
<1> QED
  BY <1>1 DEF IsAsk

LEMMA HostFields ==
  ASSUME host \in Hosts
  PROVE  host.pdbs \in [Word -> GuidMap]
<1>1. IsHost(host)
  BY PathAssumption
<1> QED
  BY <1>1 DEF IsHost

\* The databases of the map are of the scope or of an alias, with every one of the aliases.
LEMMA DatabasesForMapAre ==
  ASSUME ask \in Asks, listed \in Seq(Listing)
  PROVE  /\ DatabasesForMap \in Seq(Name)
         /\ \A i \in 1 .. Len(DatabasesForMap) :
              \/ \E k \in 1 .. Len(Aliases) : DatabasesForMap[i] = Aliases[k].db
              \/ ask.scope # None /\ Has(ask.scope.databases, DatabasesForMap[i])
         /\ \A k \in 1 .. Len(Aliases) :
              \E i \in 1 .. Len(DatabasesForMap) : DatabasesForMap[i].word = Aliases[k].db.word
<1> DEFINE inScope == IF ask.scope # None /\ KnowsFilter(ask.scope, ask.filter)
                      THEN Databases(ask.scope, ask.filter) ELSE <<>>
           ofAliases == [i \in DOMAIN Aliases |-> Aliases[i].db]
           all == inScope \o ofAliases
           places == {i \in DOMAIN all : \A j \in 1 .. i - 1 : all[j].word # all[i].word}
           keys == [i \in DOMAIN all |-> all[i].word]
           out == DatabasesForMap
<1>1. out = Pick(all, places)
  BY DEF DatabasesForMap, FirstOfEach, Once
<1>2. inScope \in Seq(Name) /\ \A x : Has(inScope, x) => ask.scope # None /\ Has(ask.scope.databases, x)
  <2>1. CASE ask.scope # None /\ KnowsFilter(ask.scope, ask.filter)
    <3>1. IsScope(ask.scope) /\ ask.filter \in SUBSET Name
      BY <2>1, AskFields
    <3> QED
      BY <2>1, <3>1, DatabasesAre
  <2>2. CASE ~(ask.scope # None /\ KnowsFilter(ask.scope, ask.filter))
    <3>1. inScope = <<>>
      BY <2>2
    <3>2. <<>> \in Seq(Name) /\ \A x : ~Has(<<>>, x)
      BY DEF Has
    <3> HIDE DEF inScope
    <3> QED
      BY <3>1, <3>2, Zenon
  <2> QED
    BY <2>1, <2>2
<1>3. Aliases \in Seq(Alias)
  BY AliasesAre
<1>4. ofAliases \in Seq(Name) /\ Len(ofAliases) = Len(Aliases) /\ \A k \in 1 .. Len(Aliases) : ofAliases[k] = Aliases[k].db
  <2>1. DOMAIN Aliases = 1 .. Len(Aliases) /\ Len(Aliases) \in Nat /\ \A k \in 1 .. Len(Aliases) : Aliases[k] \in Alias
    BY <1>3
  <2>2. \A a \in Alias : a.db \in Name
    BY DEF Alias
  <2>3. ofAliases \in [1 .. Len(Aliases) -> Name]
    BY <2>1, <2>2
  <2> QED
    BY <2>1, <2>3
<1> HIDE DEF inScope, ofAliases
<1>5. all \in Seq(Name) /\ \A x : Has(all, x) <=> Has(inScope, x) \/ Has(ofAliases, x)
  BY <1>2, <1>4, ConcatElements
<1> HIDE DEF all
<1>6. DOMAIN all = 1 .. Len(all) /\ Len(all) \in Nat
  BY <1>5
<1>7. places \in SUBSET (1 .. Len(all))
  BY <1>6
<1>8. \A i \in 1 .. Len(all) : i \in places <=> \A j \in 1 .. i - 1 : keys[j] # keys[i]
  <2> SUFFICES ASSUME NEW i \in 1 .. Len(all)
               PROVE  i \in places <=> \A j \in 1 .. i - 1 : keys[j] # keys[i]
    OBVIOUS
  <2>1. \A j \in 1 .. i - 1 : j \in 1 .. Len(all)
    BY <1>6
  <2> QED
    BY <1>6, <2>1
<1>9. \A i \in 1 .. Len(all) : keys[i] = all[i].word
  BY <1>6
<1> HIDE DEF places, keys, out
<1>10. out \in Seq(Name) /\ OnePerKey(out, all, keys)
  BY <1>1, <1>5, <1>7, <1>8, FirstPlaces
<1>11. ASSUME NEW i \in 1 .. Len(out)
       PROVE  \/ \E k \in 1 .. Len(Aliases) : out[i] = Aliases[k].db
              \/ ask.scope # None /\ Has(ask.scope.databases, out[i])
  <2>1. PICK k \in 1 .. Len(all) : out[i] = all[k]
    BY <1>10 DEF OnePerKey
  <2>2. Has(all, out[i])
    BY <2>1 DEF Has
  <2>3. CASE Has(inScope, out[i])
    BY <1>2, <2>3
  <2>4. CASE Has(ofAliases, out[i])
    BY <1>4, <2>4 DEF Has
  <2> QED
    BY <1>5, <2>2, <2>3, <2>4
<1>12. ASSUME NEW k \in 1 .. Len(Aliases) PROVE \E i \in 1 .. Len(out) : out[i].word = Aliases[k].db.word
  <2>1. Has(ofAliases, Aliases[k].db)
    BY <1>4 DEF Has
  <2>2. Has(all, Aliases[k].db)
    BY <1>5, <2>1
  <2>3. PICK n \in 1 .. Len(all) : all[n] = Aliases[k].db
    BY <2>2 DEF Has
  <2>4. PICK i \in 1 .. Len(out), m \in 1 .. Len(all) : out[i] = all[m] /\ keys[m] = keys[n]
    BY <1>10 DEF OnePerKey
  <2>5. out[i].word = Aliases[k].db.word
    BY <1>9, <2>3, <2>4
  <2> QED
    BY <2>5
<1> QED
  BY <1>10, <1>11, <1>12 DEF out

LEMMA MapIs ==
  ASSUME NEW m
  PROVE  m \in GuidMap <=> DOMAIN m \in SUBSET Guid /\ m \in [DOMAIN m -> Pdb]
  BY DEF GuidMap

\* Merging keeps the GUIDs of both maps, and the first one wins.
LEMMA OverIs ==
  ASSUME NEW guids \in GuidMap, NEW other \in GuidMap
  PROVE  /\ Over(guids, other) \in GuidMap
         /\ DOMAIN Over(guids, other) = DOMAIN guids \cup DOMAIN other
         /\ \A g \in DOMAIN guids : Over(guids, other)[g] = guids[g]
         /\ \A g \in DOMAIN other \ DOMAIN guids : Over(guids, other)[g] = other[g]
<1> DEFINE both == Over(guids, other)
<1>1. /\ DOMAIN guids \in SUBSET Guid /\ DOMAIN other \in SUBSET Guid
      /\ \A g \in DOMAIN guids : guids[g] \in Pdb
      /\ \A g \in DOMAIN other : other[g] \in Pdb
  BY MapIs
<1>2. /\ DOMAIN both = DOMAIN guids \cup DOMAIN other
      /\ both = [g \in DOMAIN both |-> both[g]]
      /\ \A g \in DOMAIN both : both[g] = IF g \in DOMAIN guids THEN guids[g] ELSE other[g]
  BY DEF Over
<1> HIDE DEF both
<1>3. both \in [DOMAIN both -> Pdb]
  BY <1>1, <1>2
<1>4. both \in GuidMap
  BY <1>1, <1>2, <1>3, MapIs
<1> QED
  BY <1>2, <1>4 DEF both

LEMMA EmptyMap == <<>> \in GuidMap /\ DOMAIN <<>> = {}
<1>1. \A S : <<>> \in Seq(S)
  OBVIOUS
<1>2. DOMAIN <<>> = {}
  OBVIOUS
<1>3. <<>> \in [{} -> Pdb]
  OBVIOUS
<1> QED
  BY <1>2, <1>3, MapIs

-----------------------------------------------------------------------------
(* The roots of a scope. *)

LEMMA TwoSegments ==
  ASSUME NEW a \in Name, NEW b \in Name
  PROVE  /\ NormalizePath(<<a, b>>) \in Seq(Name)
         /\ Fold(NormalizePath(<<a, b>>)) = <<a.word, b.word>>
<1>1. <<a, b>> \in Seq(Name) /\ Len(<<a, b>>) = 2
  OBVIOUS
<1>2. Fold(<<a, b>>) = <<a.word, b.word>>
  BY DEF Fold
<1> QED
  BY <1>1, <1>2, NormalizeIs

\* The expansion has every disk group with every database, each pair once.
LEMMA ExpandAre ==
  ASSUME NEW dgs \in Seq(Name), NEW dbs \in Seq(Name)
  PROVE  /\ Expand(dgs, dbs) \in Seq(Seq(Name))
         /\ \A k \in 1 .. Len(Expand(dgs, dbs)) : \E i \in 1 .. Len(dgs), j \in 1 .. Len(dbs) :
              Fold(Expand(dgs, dbs)[k]) = <<dgs[i].word, dbs[j].word>>
         /\ \A i \in 1 .. Len(dgs), j \in 1 .. Len(dbs) : \E k \in 1 .. Len(Expand(dgs, dbs)) :
              Fold(Expand(dgs, dbs)[k]) = <<dgs[i].word, dbs[j].word>>
         /\ \A k, m \in 1 .. Len(Expand(dgs, dbs)) : k # m => Fold(Expand(dgs, dbs)[k]) # Fold(Expand(dgs, dbs)[m])
<1> DEFINE Row2(i) == [j \in DOMAIN dbs |-> NormalizePath(<<dgs[i], dbs[j]>>)]
           parts == [i \in DOMAIN dgs |-> [j \in DOMAIN dbs |-> NormalizePath(<<dgs[i], dbs[j]>>)]]
           all == FlattenSeq(parts)
           places == {i \in DOMAIN all : \A j \in 1 .. i - 1 : Fold(all[j]) # Fold(all[i])}
           keys == [i \in DOMAIN all |-> Fold(all[i])]
           out == Expand(dgs, dbs)
<1>1. /\ DOMAIN dgs = 1 .. Len(dgs) /\ DOMAIN dbs = 1 .. Len(dbs) /\ Len(dgs) \in Nat /\ Len(dbs) \in Nat
      /\ \A i \in 1 .. Len(dgs) : dgs[i] \in Name
      /\ \A j \in 1 .. Len(dbs) : dbs[j] \in Name
  OBVIOUS
<1>2. ASSUME NEW i \in 1 .. Len(dgs)
      PROVE  /\ Row2(i) \in Seq(Seq(Name)) /\ Len(Row2(i)) = Len(dbs)
             /\ \A j \in 1 .. Len(dbs) : Row2(i)[j] = NormalizePath(<<dgs[i], dbs[j]>>)
  <2>1. Row2(i) \in [1 .. Len(dbs) -> Seq(Name)]
    BY <1>1, TwoSegments
  <2> QED
    BY <1>1, <2>1
<1>3. /\ parts \in Seq(Seq(Seq(Name))) /\ Len(parts) = Len(dgs)
      /\ \A i \in 1 .. Len(dgs) : parts[i] = Row2(i)
  <2>1. parts = [i \in DOMAIN dgs |-> Row2(i)]
    OBVIOUS
  <2> HIDE DEF parts, Row2
  <2>2. parts \in [1 .. Len(dgs) -> Seq(Seq(Name))]
    BY <1>1, <1>2, <2>1
  <2> QED
    BY <1>1, <2>1, <2>2
<1>4. out = Pick(all, places)
  BY DEF Expand, FirstOfEach, Once
<1> HIDE DEF parts, Row2
<1>5. all \in Seq(Seq(Name)) /\ \A x : Has(all, x) <=> \E i \in 1 .. Len(parts) : Has(parts[i], x)
  BY <1>3, FlattenElements
<1>6. ASSUME NEW x
      PROVE  Has(all, x) <=> \E i \in 1 .. Len(dgs), j \in 1 .. Len(dbs) : x = NormalizePath(<<dgs[i], dbs[j]>>)
  <2>1. Has(all, x) <=> \E i \in 1 .. Len(dgs) : Has(Row2(i), x)
    BY <1>3, <1>5
  <2>2. \A i \in 1 .. Len(dgs) : Has(Row2(i), x) <=> \E j \in 1 .. Len(dbs) : x = NormalizePath(<<dgs[i], dbs[j]>>)
    BY <1>2 DEF Has
  <2> QED
    BY <2>1, <2>2
<1> HIDE DEF all
<1>7. DOMAIN all = 1 .. Len(all) /\ Len(all) \in Nat
  BY <1>5
<1>8. places \in SUBSET (1 .. Len(all))
  BY <1>7
<1>9. \A i \in 1 .. Len(all) : i \in places <=> \A j \in 1 .. i - 1 : keys[j] # keys[i]
  <2> SUFFICES ASSUME NEW i \in 1 .. Len(all)
               PROVE  i \in places <=> \A j \in 1 .. i - 1 : keys[j] # keys[i]
    OBVIOUS
  <2>1. \A j \in 1 .. i - 1 : j \in 1 .. Len(all)
    BY <1>7
  <2> QED
    BY <1>7, <2>1
<1>10. \A i \in 1 .. Len(all) : keys[i] = Fold(all[i])
  BY <1>7
<1> HIDE DEF places, keys, out
<1>11. out \in Seq(Seq(Name)) /\ OnePerKey(out, all, keys)
  BY <1>4, <1>5, <1>8, <1>9, FirstPlaces
<1>12. \A i \in 1 .. Len(dgs), j \in 1 .. Len(dbs) :
         Fold(NormalizePath(<<dgs[i], dbs[j]>>)) = <<dgs[i].word, dbs[j].word>>
  BY <1>1, TwoSegments
<1>13. ASSUME NEW k \in 1 .. Len(out)
       PROVE  \E i \in 1 .. Len(dgs), j \in 1 .. Len(dbs) : Fold(out[k]) = <<dgs[i].word, dbs[j].word>>
  <2>1. PICK n \in 1 .. Len(all) : out[k] = all[n]
    BY <1>11 DEF OnePerKey
  <2>2. Has(all, out[k])
    BY <2>1 DEF Has
  <2>3. PICK i \in 1 .. Len(dgs), j \in 1 .. Len(dbs) : out[k] = NormalizePath(<<dgs[i], dbs[j]>>)
    BY <1>6, <2>2
  <2> QED
    BY <1>12, <2>3
<1>14. ASSUME NEW i \in 1 .. Len(dgs), NEW j \in 1 .. Len(dbs)
       PROVE  \E k \in 1 .. Len(out) : Fold(out[k]) = <<dgs[i].word, dbs[j].word>>
  <2>1. Has(all, NormalizePath(<<dgs[i], dbs[j]>>))
    BY <1>6
  <2>2. PICK n \in 1 .. Len(all) : all[n] = NormalizePath(<<dgs[i], dbs[j]>>)
    BY <2>1 DEF Has
  <2>3. PICK k \in 1 .. Len(out), m \in 1 .. Len(all) : out[k] = all[m] /\ keys[m] = keys[n]
    BY <1>11 DEF OnePerKey
  <2>4. Fold(out[k]) = Fold(all[n])
    BY <1>10, <2>3
  <2>5. Fold(out[k]) = <<dgs[i].word, dbs[j].word>>
    BY <1>12, <2>2, <2>4
  <2> QED
    BY <2>5
<1>15. ASSUME NEW k \in 1 .. Len(out), NEW m \in 1 .. Len(out), k # m PROVE Fold(out[k]) # Fold(out[m])
  <2>1. PICK x \in 1 .. Len(all), y \in 1 .. Len(all) : out[k] = all[x] /\ out[m] = all[y] /\ keys[x] # keys[y]
    BY <1>11, <1>15 DEF OnePerKey
  <2> QED
    BY <1>10, <2>1
<1> QED
  BY <1>11, <1>13, <1>14, <1>15 DEF out

\* A path that the scope leaves out, by its words.
Excluded(words) ==
  \E pattern \in ask.scope.patterns :
    IF pattern.below THEN IsPrefix(pattern.text, words) /\ words # pattern.text ELSE words = pattern.text

\* No pattern matches a path exactly when its folded words are not excluded.
LEMMA MatchesIs ==
  ASSUME NEW path
  PROVE  (\A pattern \in ask.scope.patterns : ~Matches(path, pattern)) <=> ~Excluded(Fold(path))
  BY DEF Matches, Excluded, IsStrictPrefix

\* The disk groups that are expanded.
Dgs == IF ask.scope.groups # <<>> THEN [i \in DOMAIN ask.scope.groups |-> Upper(ask.scope.groups[i])] ELSE groups

\* The disk groups of an expansion are those of the scope, if it has any.
LEMMA DgsAre ==
  ASSUME groups \in Seq(Name), IsScope(ask.scope)
  PROVE  /\ Dgs \in Seq(Name)
         /\ ask.scope.groups # <<>> =>
              /\ Len(Dgs) = Len(ask.scope.groups)
              /\ \A i \in 1 .. Len(Dgs) : Dgs[i].word = ask.scope.groups[i].word
<1> DEFINE given2 == ask.scope.groups
           ups == [i \in DOMAIN given2 |-> Upper(given2[i])]
<1>1. given2 \in Seq(Name)
  BY DEF IsScope
<1> HIDE DEF given2
<1>2. DOMAIN given2 = 1 .. Len(given2) /\ Len(given2) \in Nat /\ \A i \in 1 .. Len(given2) : given2[i] \in Name
  BY <1>1
<1>3. ups \in [1 .. Len(given2) -> Name]
  BY <1>2, UpperIs
<1>4. ups \in Seq(Name) /\ Len(ups) = Len(given2) /\ \A i \in 1 .. Len(given2) : ups[i].word = given2[i].word
  BY <1>2, <1>3, UpperIs
<1> HIDE DEF ups
<1>5. Dgs = IF given2 # <<>> THEN ups ELSE groups
  BY DEF Dgs, ups, given2
<1> QED
  BY <1>4, <1>5 DEF given2

\* What resolve_paths returns.
LEMMA ResolvedAre ==
  ASSUME ask \in Asks, groups \in Seq(Name), ask.scope # None
  PROVE  LET dbs == Databases(ask.scope, ask.filter)
         IN  /\ Resolved \in Seq(Seq(Name))
             /\ GivenPath = None /\ KnowsFilter(ask.scope, ask.filter) =>
                  /\ \A k \in 1 .. Len(Resolved) :
                       /\ ~Excluded(Fold(Resolved[k]))
                       /\ \E i \in 1 .. Len(Dgs), j \in 1 .. Len(dbs) : Fold(Resolved[k]) = <<Dgs[i].word, dbs[j].word>>
                  /\ \A i \in 1 .. Len(Dgs), j \in 1 .. Len(dbs) : ~Excluded(<<Dgs[i].word, dbs[j].word>>) =>
                       \E k \in 1 .. Len(Resolved) : Fold(Resolved[k]) = <<Dgs[i].word, dbs[j].word>>
                  /\ \A k, m \in 1 .. Len(Resolved) : k # m => Fold(Resolved[k]) # Fold(Resolved[m])
<1> DEFINE dbs == Databases(ask.scope, ask.filter)
           all == IF GivenPath # None THEN <<NormalizePath(GivenPath)>>
                  ELSE IF KnowsFilter(ask.scope, ask.filter) THEN Expand(Dgs, dbs)
                  ELSE <<>>
           places == {i \in DOMAIN all : \A pattern \in ask.scope.patterns : ~Matches(all[i], pattern)}
           out == Resolved
<1>1. IsScope(ask.scope) /\ ask.filter \in SUBSET Name /\ ask.path \in Seq(Name) \cup {None}
  BY AskFields
<1>2. dbs \in Seq(Name) /\ Dgs \in Seq(Name)
  BY <1>1, DatabasesAre, DgsAre
<1>3. out = Pick(all, places)
  BY DEF Resolved, Filtered, Once, Dgs
<1> HIDE DEF dbs
<1>4. all \in Seq(Seq(Name))
  <2>1. CASE GivenPath # None
    <3>1. GivenPath \in Seq(Name)
      BY <1>1, <2>1 DEF GivenPath, IsScope
    <3>2. NormalizePath(GivenPath) \in Seq(Name) /\ all = <<NormalizePath(GivenPath)>>
      BY <2>1, <3>1, NormalizeIs
    <3> HIDE DEF all
    <3> QED
      BY <3>2
  <2>2. CASE GivenPath = None /\ KnowsFilter(ask.scope, ask.filter)
    <3>1. Expand(Dgs, dbs) \in Seq(Seq(Name)) /\ all = Expand(Dgs, dbs)
      BY <1>2, <2>2, ExpandAre
    <3> QED
      BY <3>1
  <2>3. CASE GivenPath = None /\ ~KnowsFilter(ask.scope, ask.filter)
    <3>1. all = <<>>
      BY <2>3
    <3> HIDE DEF all
    <3> QED
      BY <3>1, EmptySeq
  <2> QED
    BY <2>1, <2>2, <2>3
<1>5. GivenPath = None /\ KnowsFilter(ask.scope, ask.filter) => all = Expand(Dgs, dbs)
  OBVIOUS
<1> HIDE DEF all
<1>6. DOMAIN all = 1 .. Len(all) /\ Len(all) \in Nat
  BY <1>4
<1>7. places \in SUBSET (1 .. Len(all)) /\ \A i \in 1 .. Len(all) : i \in places <=> ~Excluded(Fold(all[i]))
  BY <1>6, MatchesIs
<1> HIDE DEF places, out
<1>8. out \in Seq(Seq(Name)) /\ \E f : IsPicked(out, all, places, f)
  BY <1>3, <1>4, <1>7, PickProperties
<1>9. ASSUME GivenPath = None, KnowsFilter(ask.scope, ask.filter)
      PROVE  /\ \A k \in 1 .. Len(out) :
                  /\ ~Excluded(Fold(out[k]))
                  /\ \E i \in 1 .. Len(Dgs), j \in 1 .. Len(dbs) : Fold(out[k]) = <<Dgs[i].word, dbs[j].word>>
             /\ \A i \in 1 .. Len(Dgs), j \in 1 .. Len(dbs) : ~Excluded(<<Dgs[i].word, dbs[j].word>>) =>
                  \E k \in 1 .. Len(out) : Fold(out[k]) = <<Dgs[i].word, dbs[j].word>>
             /\ \A k, m \in 1 .. Len(out) : k # m => Fold(out[k]) # Fold(out[m])
  <2>1. PICK f : IsPicked(out, all, places, f)
    BY <1>8
  <2>2. /\ f \in [1 .. Len(out) -> places]
        /\ \A i \in 1 .. Len(out) : out[i] = all[f[i]]
        /\ \A i, j \in 1 .. Len(out) : i < j => f[i] < f[j]
        /\ \A k \in places : \E i \in 1 .. Len(out) : f[i] = k
    BY <2>1 DEF IsPicked
  <2>3. \A i \in 1 .. Len(out) : f[i] \in places /\ f[i] \in 1 .. Len(all)
    BY <1>7, <2>2
  <2>4. /\ \A k \in 1 .. Len(all) : \E i \in 1 .. Len(Dgs), j \in 1 .. Len(dbs) : Fold(all[k]) = <<Dgs[i].word, dbs[j].word>>
        /\ \A i \in 1 .. Len(Dgs), j \in 1 .. Len(dbs) :
             \E k \in 1 .. Len(all) : Fold(all[k]) = <<Dgs[i].word, dbs[j].word>>
        /\ \A k, m \in 1 .. Len(all) : k # m => Fold(all[k]) # Fold(all[m])
    <3> DEFINE e == Expand(Dgs, dbs)
    <3>1. /\ \A k \in 1 .. Len(e) : \E i \in 1 .. Len(Dgs), j \in 1 .. Len(dbs) : Fold(e[k]) = <<Dgs[i].word, dbs[j].word>>
          /\ \A i \in 1 .. Len(Dgs), j \in 1 .. Len(dbs) : \E k \in 1 .. Len(e) : Fold(e[k]) = <<Dgs[i].word, dbs[j].word>>
          /\ \A k, m \in 1 .. Len(e) : k # m => Fold(e[k]) # Fold(e[m])
      BY <1>2, ExpandAre
    <3>2. all = e
      BY <1>5, <1>9
    <3> HIDE DEF e
    <3> QED
      BY <3>1, <3>2
  <2>5. ASSUME NEW k \in 1 .. Len(out)
        PROVE  /\ ~Excluded(Fold(out[k]))
               /\ \E i \in 1 .. Len(Dgs), j \in 1 .. Len(dbs) : Fold(out[k]) = <<Dgs[i].word, dbs[j].word>>
    <3>1. out[k] = all[f[k]] /\ f[k] \in places /\ f[k] \in 1 .. Len(all)
      BY <2>2, <2>3
    <3> QED
      BY <1>7, <2>4, <3>1
  <2>6. ASSUME NEW i \in 1 .. Len(Dgs), NEW j \in 1 .. Len(dbs), ~Excluded(<<Dgs[i].word, dbs[j].word>>)
        PROVE  \E k \in 1 .. Len(out) : Fold(out[k]) = <<Dgs[i].word, dbs[j].word>>
    <3>1. PICK n \in 1 .. Len(all) : Fold(all[n]) = <<Dgs[i].word, dbs[j].word>>
      BY <2>4
    <3>2. n \in places
      BY <1>7, <2>6, <3>1
    <3>3. PICK k \in 1 .. Len(out) : f[k] = n
      BY <2>2, <3>2
    <3>4. Fold(out[k]) = <<Dgs[i].word, dbs[j].word>>
      BY <2>2, <3>1, <3>3
    <3> QED
      BY <3>4
  <2>7. ASSUME NEW k \in 1 .. Len(out), NEW m \in 1 .. Len(out), k # m PROVE Fold(out[k]) # Fold(out[m])
    <3>1. f[k] # f[m]
      <4>1. Len(out) \in Nat /\ f[k] \in Nat /\ f[m] \in Nat
        BY <1>6, <1>8, <2>3
      <4>2. k < m \/ m < k
        BY <2>7, <4>1
      <4> QED
        BY <2>2, <4>1, <4>2
    <3>2. out[k] = all[f[k]] /\ out[m] = all[f[m]] /\ f[k] \in 1 .. Len(all) /\ f[m] \in 1 .. Len(all)
      BY <2>2, <2>3
    <3> QED
      BY <2>4, <3>1, <3>2
  <2> QED
    BY <2>5, <2>6, <2>7
<1> QED
  BY <1>8, <1>9 DEF out, dbs

\* What is discovered is what the host prints of disk groups.
LEMMA FoundAre ==
  ASSUME host \in Hosts
  PROVE  /\ Found \in Seq(Name)
         /\ \A i \in 1 .. Len(Found) : \E k \in 1 .. Len(host.prints) :
              host.prints[k].token /\ Found[i].word = host.prints[k].name.word
         /\ \A k \in 1 .. Len(host.prints) : host.prints[k].token =>
              \E i \in 1 .. Len(Found) : Found[i].word = host.prints[k].name.word
<1> DEFINE Entry2 == [name : Name, token : BOOLEAN]
           prints == host.prints
           tokenAt == {i \in DOMAIN prints : prints[i].token}
           tokens == Pick(prints, tokenAt)
           all == [i \in DOMAIN tokens |-> Upper(tokens[i].name)]
           places == {i \in DOMAIN all : \A j \in 1 .. i - 1 : all[j].word # all[i].word}
           keys == [i \in DOMAIN all |-> all[i].word]
           out == Found
<1>0. Tokens = tokens
  BY DEF Tokens, Filtered, Once
<1>1. out = Pick(all, places)
  <2>1. [i \in DOMAIN Tokens |-> Upper(Tokens[i].name)] = all
    BY <1>0
  <2> HIDE DEF all
  <2> QED
    BY <2>1 DEF Found, FirstOfEach, Once
<1>2. prints \in Seq(Entry2)
  <2>1. IsHost(host)
    BY PathAssumption
  <2> QED
    BY <2>1 DEF IsHost
<1>3. \A entry \in Entry2 : entry.name \in Name /\ entry.token \in BOOLEAN
  OBVIOUS
<1> HIDE DEF Entry2, prints
<1>4. DOMAIN prints = 1 .. Len(prints) /\ Len(prints) \in Nat
  BY <1>2
<1>5. tokenAt \in SUBSET (1 .. Len(prints)) /\ \A k \in 1 .. Len(prints) : k \in tokenAt <=> prints[k].token
  BY <1>4
<1> HIDE DEF tokenAt
<1>6. tokens \in Seq(Entry2) /\ \A x : Has(tokens, x) <=> \E i \in tokenAt : prints[i] = x
  BY <1>2, <1>5, PickElements
<1> HIDE DEF tokens
<1>7. DOMAIN tokens = 1 .. Len(tokens) /\ Len(tokens) \in Nat /\ \A i \in 1 .. Len(tokens) : tokens[i] \in Entry2
  BY <1>6
<1>8. all \in [1 .. Len(tokens) -> Name] /\ \A i \in 1 .. Len(tokens) : all[i].word = tokens[i].name.word
  BY <1>3, <1>7, UpperIs
<1> HIDE DEF all
<1>9. all \in Seq(Name) /\ Len(all) = Len(tokens) /\ DOMAIN all = 1 .. Len(all)
  BY <1>7, <1>8
<1>10. places \in SUBSET (1 .. Len(all))
  BY <1>9
<1>11. \A i \in 1 .. Len(all) : i \in places <=> \A j \in 1 .. i - 1 : keys[j] # keys[i]
  <2> SUFFICES ASSUME NEW i \in 1 .. Len(all)
               PROVE  i \in places <=> \A j \in 1 .. i - 1 : keys[j] # keys[i]
    OBVIOUS
  <2>1. \A j \in 1 .. i - 1 : j \in 1 .. Len(all)
    BY <1>7, <1>9
  <2> QED
    BY <1>9, <2>1
<1>12. \A i \in 1 .. Len(all) : keys[i] = all[i].word
  BY <1>9
<1> HIDE DEF places, keys, out
<1>13. out \in Seq(Name) /\ OnePerKey(out, all, keys)
  BY <1>1, <1>9, <1>10, <1>11, FirstPlaces
<1>14. ASSUME NEW i \in 1 .. Len(out)
       PROVE  \E k \in 1 .. Len(prints) : prints[k].token /\ out[i].word = prints[k].name.word
  <2>1. PICK n \in 1 .. Len(all) : out[i] = all[n]
    BY <1>13 DEF OnePerKey
  <2>2. n \in 1 .. Len(tokens) /\ Has(tokens, tokens[n])
    BY <1>9 DEF Has
  <2>3. PICK k \in tokenAt : prints[k] = tokens[n]
    BY <1>6, <2>2
  <2> QED
    BY <1>5, <1>8, <2>1, <2>2, <2>3
<1>15. ASSUME NEW k \in 1 .. Len(prints), prints[k].token
       PROVE  \E i \in 1 .. Len(out) : out[i].word = prints[k].name.word
  <2>1. Has(tokens, prints[k])
    BY <1>5, <1>6, <1>15
  <2>2. PICK n \in 1 .. Len(tokens) : tokens[n] = prints[k]
    BY <2>1 DEF Has
  <2>3. n \in 1 .. Len(all)
    BY <1>9
  <2>4. PICK i \in 1 .. Len(out), m \in 1 .. Len(all) : out[i] = all[m] /\ keys[m] = keys[n]
    BY <1>13, <2>3 DEF OnePerKey
  <2>5. out[i].word = all[n].word
    BY <1>12, <2>3, <2>4
  <2>6. all[n].word = prints[k].name.word
    BY <1>8, <2>2
  <2> QED
    BY <2>5, <2>6
<1> QED
  BY <1>13, <1>14, <1>15 DEF out, prints

\* The directory of a row.
ChildOf(directory, row) == [path |-> Append(directory.path, row.name), depth |-> directory.depth + 1]

\* The children of a directory are its subdirectory rows, each once.
LEMMA ChildrenAre ==
  ASSUME NEW directory \in Place, NEW rows \in Seq(Row)
  PROVE  LET out == Children(directory, rows)
         IN  /\ out \in Seq(Place)
             /\ \A i \in 1 .. Len(out) : \E k \in 1 .. Len(rows) :
                  IsSubdirectory(rows[k]) /\ out[i] = ChildOf(directory, rows[k])
             /\ \A k \in 1 .. Len(rows) : IsSubdirectory(rows[k]) =>
                  \E i \in 1 .. Len(out) : out[i] = ChildOf(directory, rows[k])
             /\ \A i, j \in 1 .. Len(out) : i # j =>
                  \E k, m \in 1 .. Len(rows) :
                    /\ k # m /\ IsSubdirectory(rows[k]) /\ IsSubdirectory(rows[m])
                    /\ out[i] = ChildOf(directory, rows[k]) /\ out[j] = ChildOf(directory, rows[m])
<1> DEFINE places == {i \in DOMAIN rows : IsSubdirectory(rows[i])}
           dirs == Pick(rows, places)
           out == Children(directory, rows)
<1>1. out = [i \in DOMAIN dirs |-> ChildOf(directory, dirs[i])]
  BY DEF Children, Filtered, Once, ChildOf
<1>2. DOMAIN rows = 1 .. Len(rows) /\ Len(rows) \in Nat
  OBVIOUS
<1>3. places \in SUBSET (1 .. Len(rows)) /\ \A k \in 1 .. Len(rows) : k \in places <=> IsSubdirectory(rows[k])
  BY <1>2
<1> HIDE DEF places
<1>4. dirs \in Seq(Row) /\ \E f : IsPicked(dirs, rows, places, f)
  BY <1>3, PickProperties
<1> HIDE DEF dirs
<1>5. DOMAIN dirs = 1 .. Len(dirs) /\ Len(dirs) \in Nat /\ \A i \in 1 .. Len(dirs) : dirs[i] \in Row
  BY <1>4
<1>6. \A row \in Row : ChildOf(directory, row) \in Place
  <2> SUFFICES ASSUME NEW row \in Row PROVE ChildOf(directory, row) \in Place
    OBVIOUS
  <2>1. directory.path \in Seq(Name) /\ directory.depth \in Nat /\ row.name \in Name
    BY RowFields DEF Place
  <2>2. Append(directory.path, row.name) \in Seq(Name)
    BY <2>1
  <2> QED
    BY <2>1, <2>2 DEF ChildOf, Place
<1>7. out \in [1 .. Len(dirs) -> Place]
  BY <1>1, <1>5, <1>6
<1>8. /\ out \in Seq(Place) /\ Len(out) = Len(dirs)
      /\ \A i \in 1 .. Len(dirs) : out[i] = ChildOf(directory, dirs[i])
  BY <1>1, <1>5, <1>7
<1> HIDE DEF out
<1>9. PICK f : IsPicked(dirs, rows, places, f)
  BY <1>4
<1>10. /\ f \in [1 .. Len(dirs) -> places]
       /\ \A i \in 1 .. Len(dirs) : dirs[i] = rows[f[i]]
       /\ \A i, j \in 1 .. Len(dirs) : i < j => f[i] < f[j]
       /\ \A k \in places : \E i \in 1 .. Len(dirs) : f[i] = k
  BY <1>9 DEF IsPicked
<1>11. \A i \in 1 .. Len(dirs) : f[i] \in 1 .. Len(rows) /\ IsSubdirectory(rows[f[i]]) /\ out[i] = ChildOf(directory, rows[f[i]])
  BY <1>3, <1>8, <1>10
<1>12. \A i \in 1 .. Len(out) : \E k \in 1 .. Len(rows) : IsSubdirectory(rows[k]) /\ out[i] = ChildOf(directory, rows[k])
  BY <1>8, <1>11
<1>13. ASSUME NEW k \in 1 .. Len(rows), IsSubdirectory(rows[k])
       PROVE  \E i \in 1 .. Len(out) : out[i] = ChildOf(directory, rows[k])
  <2>1. PICK i \in 1 .. Len(dirs) : f[i] = k
    BY <1>3, <1>10, <1>13
  <2> QED
    BY <1>8, <1>11, <2>1
<1>14. ASSUME NEW i \in 1 .. Len(out), NEW j \in 1 .. Len(out), i # j
       PROVE  \E k, m \in 1 .. Len(rows) :
                /\ k # m /\ IsSubdirectory(rows[k]) /\ IsSubdirectory(rows[m])
                /\ out[i] = ChildOf(directory, rows[k]) /\ out[j] = ChildOf(directory, rows[m])
  <2>1. i \in 1 .. Len(dirs) /\ j \in 1 .. Len(dirs) /\ f[i] \in Nat /\ f[j] \in Nat
    BY <1>8, <1>11
  <2>2. i < j \/ j < i
    BY <1>5, <1>14, <2>1
  <2>3. f[i] # f[j]
    BY <1>10, <2>1, <2>2
  <2> QED
    BY <1>11, <2>1, <2>3
<1> QED
  BY <1>8, <1>12, <1>13, <1>14 DEF out

-----------------------------------------------------------------------------
(* Type correctness. *)

LEMMA TypeInit == Init => TypeOK
<1> SUFFICES ASSUME Init PROVE TypeOK
  OBVIOUS
<1>1. <<>> \in GuidMap
  BY EmptyMap
<1>2. \A S : <<>> \in Seq(S)
  OBVIOUS
<1> QED
  BY <1>1, <1>2 DEF Init, TypeOK, Ends

LEMMA TypeDiscover == ASSUME TypeOK, Discover PROVE TypeOK'
<1>1. Found \in Seq(Name)
  BY FoundAre DEF TypeOK
<1>2. groups' \in Seq(Name)
  BY <1>1 DEF Discover, TypeOK
<1>3. at' \in {"groups", "raised"} /\ stack = <<>>
  BY DEF Discover, TypeOK
<1> QED
  BY <1>2, <1>3 DEF Discover, TypeOK, Ends, given, walk, fetch

LEMMA TypeResolve == ASSUME TypeOK, Resolve PROVE TypeOK'
<1> DEFINE paths == IF ask.scope # None THEN Resolved
                    ELSE IF ask.path = None THEN <<>> ELSE <<NormalizePath(ask.path)>>
<1>1. paths \in Seq(Seq(Name))
  <2>1. CASE ask.scope # None
    BY <2>1, ResolvedAre DEF TypeOK
  <2>2. CASE ask.scope = None /\ ask.path = None
    BY <2>2, EmptySeq
  <2>3. CASE ask.scope = None /\ ask.path # None
    <3>1. ask.path \in Seq(Name)
      BY <2>3, AskFields DEF TypeOK
    <3>2. NormalizePath(ask.path) \in Seq(Name)
      BY <3>1, NormalizeIs
    <3> QED
      BY <2>3, <3>2
  <2> QED
    BY <2>1, <2>2, <2>3
<1>2. /\ roots' = paths
      /\ IF paths = <<>> THEN at' = "refused" /\ UNCHANGED stack
         ELSE at' = "walk" /\ \E root \in Range(paths) : stack' = <<[path |-> root, depth |-> 0]>>
  BY DEF Resolve
<1> HIDE DEF paths
<1>3. \A root \in Range(paths) : root \in Seq(Name)
  BY <1>1 DEF Range
<1>4. at' \in {"refused", "walk"} /\ stack' \in Seq(Place)
  <2>1. CASE paths = <<>>
    BY <1>2, <2>1 DEF TypeOK
  <2>2. CASE paths # <<>>
    <3>1. PICK root \in Range(paths) : stack' = <<[path |-> root, depth |-> 0]>>
      BY <1>2, <2>2
    <3>2. [path |-> root, depth |-> 0] \in Place
      BY <1>3, <3>1 DEF Place
    <3> QED
      BY <1>2, <2>2, <3>1, <3>2
  <2> QED
    BY <2>1, <2>2
<1>5. stack' # <<>> => at' \in {"walk", "raised"}
  <2>1. at \in {"start", "groups"} /\ stack = <<>>
    BY DEF Resolve, TypeOK
  <2> QED
    BY <1>2, <2>1
<1>6. roots' \in Seq(Seq(Name))
  BY <1>1, <1>2
<1> QED
  BY <1>4, <1>5, <1>6 DEF Resolve, TypeOK, Ends, given, fetch

LEMMA TypeList == ASSUME TypeOK, List PROVE TypeOK'
<1> DEFINE here == Head(stack)
           rows == host.tree[Fold(here.path)]
<1>1. here \in Place /\ Tail(stack) \in Seq(Place) /\ stack \in Seq(Place)
  <2>1. stack \in Seq(Place) /\ stack # <<>>
    BY DEF List, TypeOK
  <2> QED
    BY <2>1
<1>2. CASE Fold(here.path) \in DOMAIN host.tree /\ listed' = Append(listed, [path |-> here.path, rows |-> rows])
           /\ stack' = (IF Descends(here.depth) THEN Children(here, rows) ELSE <<>>) \o Tail(stack)
           /\ UNCHANGED at
  <2>1. rows \in Seq(Row)
    <3>1. IsHost(host)
      BY PathAssumption DEF TypeOK
    <3> QED
      BY <1>2, <3>1 DEF IsHost
  <2>2. here.path \in Seq(Name)
    BY <1>1 DEF Place
  <2> HIDE DEF rows
  <2> DEFINE new == IF Descends(here.depth) THEN Children(here, rows) ELSE <<>>
  <2>3. new \in Seq(Place)
    BY <1>1, <2>1, ChildrenAre, EmptySeq
  <2>4. stack' = new \o Tail(stack)
    BY <1>2
  <2> HIDE DEF new
  <2>5. stack' \in Seq(Place)
    BY <1>1, <2>3, <2>4
  <2>6. [path |-> here.path, rows |-> rows] \in Listing
    BY <2>1, <2>2 DEF Listing
  <2>7. listed' \in Seq(Listing)
    <3>1. listed \in Seq(Listing)
      BY DEF TypeOK
    <3> QED
      BY <1>2, <2>6, <3>1
  <2>8. at' = "walk" /\ at' = at
    BY <1>2 DEF List
  <2> QED
    BY <2>5, <2>7, <2>8 DEF List, TypeOK, resolved, fetch
<1>3. CASE at' = "raised" /\ UNCHANGED walk
  BY <1>3 DEF List, TypeOK, Ends, resolved, fetch, walk
<1> QED
  BY <1>2, <1>3 DEF List

LEMMA TypeResolvePolicy == ASSUME TypeOK, ResolvePolicy PROVE TypeOK'
<1>1. DatabasesForMap \in Seq(Name)
  BY DatabasesForMapAre DEF TypeOK
<1>2. ask.policy # None => ask.policy.manual \in GuidMap
  BY AskFields DEF TypeOK
<1>3. Aliases # <<>> /\ ask.policy # None => left' \in Seq(Name) /\ map' \in GuidMap
  BY <1>1, <1>2 DEF ResolvePolicy, TypeOK
<1>4. Aliases = <<>> \/ ask.policy = None => UNCHANGED <<left, map>>
  BY DEF ResolvePolicy
<1>5. left' \in Seq(Name) /\ map' \in GuidMap
  BY <1>3, <1>4 DEF TypeOK
<1>6. at' \in {"nothing", "raised", "fetch", "emit"} /\ stack = <<>>
  BY DEF ResolvePolicy
<1>7. again' => left' # <<>>
  <2> SUFFICES ASSUME again' PROVE left' # <<>>
    OBVIOUS
  <2>1. again /\ left # <<>>
    BY DEF ResolvePolicy, TypeOK
  <2>2. left' = left \/ (left' = DatabasesForMap /\ Aliases # <<>>)
    BY DEF ResolvePolicy
  <2>3. Aliases # <<>> => DatabasesForMap # <<>>
    <3> SUFFICES ASSUME Aliases # <<>> PROVE DatabasesForMap # <<>>
      OBVIOUS
    <3>1. Aliases \in Seq(Alias)
      BY AliasesAre DEF TypeOK
    <3>2. 1 \in 1 .. Len(Aliases)
      BY <3>1
    <3>3. \E i \in 1 .. Len(DatabasesForMap) : DatabasesForMap[i].word = Aliases[1].db.word
      BY <3>2, DatabasesForMapAre DEF TypeOK
    <3> QED
      BY <1>1, <3>3
  <2> QED
    BY <2>1, <2>2, <2>3
<1> QED
  BY <1>5, <1>6, <1>7 DEF ResolvePolicy, TypeOK, Ends, resolved, walk

LEMMA TypeCollect == ASSUME TypeOK, ask.policy # None, Collect PROVE TypeOK'
<1> DEFINE db == Head(left)
           name == IF again THEN Upper(db) ELSE db
<1>1. left \in Seq(Name) /\ left # <<>> /\ db \in Name /\ Tail(left) \in Seq(Name)
  <2>1. left \in Seq(Name) /\ left # <<>>
    BY DEF Collect, TypeOK
  <2> QED
    BY <2>1
<1>2. CASE name \in host.srvctl /\ host.pdbs[db.word] # <<>> /\ fetched' = Over(host.pdbs[db.word], fetched)
           /\ left' = Tail(left) /\ StartsOver /\ UNCHANGED <<at, map>>
  <2>1. db.word \in Word
    BY <1>1 DEF Name
  <2>2. host.pdbs[db.word] \in GuidMap
    BY <2>1, HostFields DEF TypeOK
  <2>3. fetched' \in GuidMap
    BY <1>2, <2>2, OverIs DEF TypeOK
  <2> QED
    BY <1>1, <1>2, <2>3 DEF Collect, TypeOK, StartsOver, resolved, walk
<1>3. CASE Retries(db) /\ again' = TRUE /\ UNCHANGED <<at, left, fetched, map>>
  BY <1>1, <1>3 DEF Collect, TypeOK, resolved, walk
<1>4. CASE ~Retries(db) /\ (IF ManualCovers THEN at' = "emit" /\ map' = ask.policy.manual
                            ELSE at' = "blocked" /\ UNCHANGED map)
           /\ UNCHANGED fetch
  <2>1. ask.policy.manual \in GuidMap
    BY AskFields DEF TypeOK
  <2>2. map' \in GuidMap /\ at' \in {"emit", "blocked"}
    BY <1>4, <2>1 DEF TypeOK
  <2>3. stack = <<>>
    BY DEF Collect, TypeOK
  <2> QED
    BY <1>4, <2>2, <2>3 DEF Collect, TypeOK, Ends, resolved, walk, fetch
<1> QED
  BY <1>2, <1>3, <1>4 DEF Collect

LEMMA TypeMerge == ASSUME TypeOK, ask.policy # None, Merge PROVE TypeOK'
<1>1. ask.policy.manual \in GuidMap
  BY AskFields DEF TypeOK
<1>2. map' \in GuidMap
  BY <1>1, OverIs DEF Merge, Merged, TypeOK
<1> QED
  BY <1>2 DEF Merge, TypeOK, resolved, walk, fetch

LEMMA TypeEmit == ASSUME TypeOK, Emit PROVE TypeOK'
<1> DEFINE line(i) == [move |-> Aliases[i], pdb |-> IF Aliases[i].guid = None THEN None ELSE map[Aliases[i].guid]]
           lines == [i \in DOMAIN Aliases |-> line(i)]
           Line2 == [move : Alias, pdb : Pdb \cup {None}]
<1>1. Aliases \in Seq(Alias)
  BY AliasesAre DEF TypeOK
<1>2. CASE Needed \subseteq DOMAIN map
  <2>1. DOMAIN Aliases = 1 .. Len(Aliases) /\ Len(Aliases) \in Nat /\ \A i \in 1 .. Len(Aliases) : Aliases[i] \in Alias
    BY <1>1
  <2>2. ASSUME NEW i \in 1 .. Len(Aliases) PROVE line(i) \in Line2
    <3>1. Aliases[i].guid # None => Aliases[i].guid \in DOMAIN map
      BY <1>2, <2>1 DEF Needed, Range
    <3>2. \A g \in DOMAIN map : map[g] \in Pdb
      BY MapIs DEF TypeOK
    <3> QED
      BY <2>1, <3>1, <3>2
  <2> HIDE DEF line, Line2
  <2>3. lines \in [1 .. Len(Aliases) -> Line2]
    BY <2>1, <2>2
  <2>4. lines \in Seq(Line2)
    BY <2>1, <2>3
  <2>5. script' = lines /\ at' = "written"
    BY <1>2 DEF Emit, line
  <2>6. script' \in Seq([move : Alias, pdb : Pdb \cup {None}])
    BY <2>4, <2>5 DEF Line2
  <2> QED
    BY <2>5, <2>6 DEF Emit, TypeOK, Ends, resolved, walk, fetch
<1>3. CASE ~(Needed \subseteq DOMAIN map)
  BY <1>3 DEF Emit, TypeOK, Ends, resolved, walk, fetch
<1> QED
  BY <1>2, <1>3

\* Databases are asked, and GUIDs mapped, for a policy.
HasPolicy == at \in {"fetch", "emit", "written", "blocked"} => ask.policy # None

\* A policy is there from the fetch on, which Collect and Merge need.
LEMMA TypeStep == TypeOK /\ HasPolicy /\ [Next]_vars => TypeOK' /\ HasPolicy'
<1> SUFFICES ASSUME TypeOK, HasPolicy, [Next]_vars PROVE TypeOK' /\ HasPolicy'
  OBVIOUS
<1>1. CASE Discover
  BY <1>1, TypeDiscover DEF Discover, HasPolicy, given
<1>2. CASE Resolve
  <2>1. at' \in {"refused", "walk"}
    BY <1>2 DEF Resolve
  <2> QED
    BY <1>2, <2>1, TypeResolve DEF HasPolicy
<1>3. CASE List
  BY <1>3, TypeList DEF List, HasPolicy, resolved
<1>4. CASE ResolvePolicy
  <2>1. HasPolicy'
    BY <1>4 DEF ResolvePolicy, HasPolicy, resolved
  <2> QED
    BY <1>4, <2>1, TypeResolvePolicy
<1>5. CASE Collect
  <2>1. ask.policy # None /\ ask' = ask
    BY <1>5 DEF Collect, HasPolicy, resolved
  <2> QED
    BY <1>5, <2>1, TypeCollect DEF HasPolicy
<1>6. CASE Merge
  <2>1. ask.policy # None /\ ask' = ask
    BY <1>6 DEF Merge, HasPolicy, resolved
  <2> QED
    BY <1>6, <2>1, TypeMerge DEF HasPolicy
<1>7. CASE Emit
  <2>1. ask.policy # None /\ ask' = ask
    BY <1>7 DEF Emit, HasPolicy, resolved
  <2> QED
    BY <1>7, <2>1, TypeEmit DEF HasPolicy
<1>8. CASE UNCHANGED vars
  BY <1>8 DEF vars, TypeOK, HasPolicy
<1> QED
  BY <1>1, <1>2, <1>3, <1>4, <1>5, <1>6, <1>7, <1>8 DEF Next

LEMMA Typed == Spec => [](TypeOK /\ HasPolicy)
<1>1. Init => TypeOK /\ HasPolicy
  BY TypeInit DEF Init, HasPolicy
<1> QED
  BY <1>1, TypeStep, PTL DEF Spec

\* Every variable stays within its type, whatever is asked of which host: above all the depths
\* of the walk, the aliases of the script, and that a retry has a database to ask for.
THEOREM TypeCorrect == Spec => []TypeOK
  BY Typed, PTL

-----------------------------------------------------------------------------
(* The roots are the scope. *)

\* The discovered disk groups are those the host prints.
GroupsFound ==
  /\ \A i \in 1 .. Len(groups) : \E k \in 1 .. Len(host.prints) :
       host.prints[k].token /\ groups[i].word = host.prints[k].name.word
  /\ \A k \in 1 .. Len(host.prints) : host.prints[k].token =>
       \E i \in 1 .. Len(groups) : groups[i].word = host.prints[k].name.word

\* The roots are the disk groups with the databases, without the excluded paths, each once.
RootsExpand ==
  LET dbs == Databases(ask.scope, ask.filter)
  IN  /\ \A k \in 1 .. Len(roots) :
           /\ ~Excluded(Fold(roots[k]))
           /\ \E i \in 1 .. Len(Dgs), j \in 1 .. Len(dbs) : Fold(roots[k]) = <<Dgs[i].word, dbs[j].word>>
      /\ \A i \in 1 .. Len(Dgs), j \in 1 .. Len(dbs) : ~Excluded(<<Dgs[i].word, dbs[j].word>>) =>
           \E k \in 1 .. Len(roots) : Fold(roots[k]) = <<Dgs[i].word, dbs[j].word>>
      /\ \A k, m \in 1 .. Len(roots) : k # m => Fold(roots[k]) # Fold(roots[m])

Expands == ask.scope # None /\ GivenPath = None /\ KnowsFilter(ask.scope, ask.filter)

\* Before the roots are resolved there are groups or none; then they are the scope, unless the
\* discovery raised, and none is left only of a refused run.
RootsInv ==
  /\ at = "start" => groups = <<>> /\ roots = <<>>
  /\ at = "groups" => GroupsFound
  /\ at \notin {"start", "groups"} /\ Expands =>
       \/ at = "raised" /\ NeedsGroups /\ groups = <<>> /\ roots = <<>>
       \/ /\ NeedsGroups => GroupsFound
          /\ RootsExpand
          /\ at = "refused" <=> roots = <<>>

\* A step that leaves ask, host and groups alone leaves the scope and what it resolves to.
LEMMA ScopeSame ==
  ASSUME UNCHANGED <<ask, host, groups>>
  PROVE  /\ Expands' = Expands /\ NeedsGroups' = NeedsGroups /\ GroupsFound' = GroupsFound /\ Dgs' = Dgs
         /\ Databases(ask.scope, ask.filter)' = Databases(ask.scope, ask.filter)
         /\ \A words : Excluded(words)' = Excluded(words)
<1>1. Expands' = Expands /\ NeedsGroups' = NeedsGroups
  BY DEF Expands, NeedsGroups, GivenPath
<1>2. GroupsFound' = GroupsFound
  BY DEF GroupsFound
<1>3. Dgs' = Dgs
  BY DEF Dgs
<1>4. Databases(ask.scope, ask.filter)' = Databases(ask.scope, ask.filter)
  OBVIOUS
<1>5. ASSUME NEW CONSTANT words PROVE Excluded(words)' = Excluded(words)
  BY DEF Excluded
<1> QED
  BY <1>1, <1>2, <1>3, <1>4, <1>5

LEMMA RootsSame ==
  ASSUME UNCHANGED <<ask, host, groups, roots>>, RootsExpand PROVE RootsExpand'
<1> DEFINE dbs == Databases(ask.scope, ask.filter)
<1>1. /\ Dgs' = Dgs /\ Databases(ask.scope, ask.filter)' = dbs
      /\ \A words : Excluded(words)' = Excluded(words)
  BY ScopeSame
<1>2. roots' = roots
  OBVIOUS
<1>3. /\ \A k \in 1 .. Len(roots) :
           /\ ~Excluded(Fold(roots[k]))
           /\ \E i \in 1 .. Len(Dgs), j \in 1 .. Len(dbs) : Fold(roots[k]) = <<Dgs[i].word, dbs[j].word>>
      /\ \A i \in 1 .. Len(Dgs), j \in 1 .. Len(dbs) : ~Excluded(<<Dgs[i].word, dbs[j].word>>) =>
           \E k \in 1 .. Len(roots) : Fold(roots[k]) = <<Dgs[i].word, dbs[j].word>>
      /\ \A k, m \in 1 .. Len(roots) : k # m => Fold(roots[k]) # Fold(roots[m])
  BY DEF RootsExpand
<1> HIDE DEF dbs
<1> QED
  BY <1>1, <1>2, <1>3 DEF RootsExpand

\* Resolve is the only step that gives roots.
LEMMA RootsResolve == ASSUME TypeOK, RootsInv, Resolve PROVE RootsInv'
<1> DEFINE paths == IF ask.scope # None THEN Resolved
                    ELSE IF ask.path = None THEN <<>> ELSE <<NormalizePath(ask.path)>>
<1>1. /\ roots' = paths /\ UNCHANGED <<ask, host, groups>>
      /\ IF paths = <<>> THEN at' = "refused" ELSE at' = "walk"
  BY DEF Resolve, given
<1>2. at' \in {"refused", "walk"} /\ (at' = "refused" <=> roots' = <<>>)
  BY <1>1
<1>3. NeedsGroups => GroupsFound
  BY DEF Resolve, RootsInv
<1>4. ASSUME Expands PROVE RootsExpand'
  <2>1. roots' = Resolved
    BY <1>1, <1>4 DEF Expands
  <2>2. ask \in Asks /\ groups \in Seq(Name) /\ ask.scope # None
    BY <1>4 DEF TypeOK, Expands
  <2> DEFINE dbs == Databases(ask.scope, ask.filter)
             out == Resolved
  <2>3. /\ \A k \in 1 .. Len(out) :
             /\ ~Excluded(Fold(out[k]))
             /\ \E i \in 1 .. Len(Dgs), j \in 1 .. Len(dbs) : Fold(out[k]) = <<Dgs[i].word, dbs[j].word>>
        /\ \A i \in 1 .. Len(Dgs), j \in 1 .. Len(dbs) : ~Excluded(<<Dgs[i].word, dbs[j].word>>) =>
             \E k \in 1 .. Len(out) : Fold(out[k]) = <<Dgs[i].word, dbs[j].word>>
        /\ \A k, m \in 1 .. Len(out) : k # m => Fold(out[k]) # Fold(out[m])
    BY <1>4, <2>2, ResolvedAre DEF Expands
  <2>4. /\ Dgs' = Dgs /\ Databases(ask.scope, ask.filter)' = dbs
        /\ \A words : Excluded(words)' = Excluded(words)
    BY <1>1, ScopeSame
  <2>5. ask' = ask
    BY <1>1
  <2> HIDE DEF out
  <2>6. roots' = out
    BY <2>1 DEF out
  <2> HIDE DEF dbs
  <2> QED
    BY <2>3, <2>4, <2>6 DEF RootsExpand
<1>5. /\ Expands' = Expands /\ NeedsGroups' = NeedsGroups /\ GroupsFound' = GroupsFound
  BY <1>1, ScopeSame
<1> QED
  BY <1>2, <1>3, <1>4, <1>5 DEF RootsInv

LEMMA RootsStep == TypeOK /\ RootsInv /\ [Next]_vars => RootsInv'
<1> SUFFICES ASSUME TypeOK, RootsInv, [Next]_vars PROVE RootsInv'
  OBVIOUS
<1>1. CASE Discover
  <2>1. CASE at' = "groups" /\ groups' = Found
    <3>1. groups' = Found /\ host' = host
      BY <1>1, <2>1 DEF Discover, given
    <3>2. host \in Hosts
      BY DEF TypeOK
    <3>3. GroupsFound'
      BY <3>1, <3>2, FoundAre DEF GroupsFound
    <3> QED
      BY <2>1, <3>3 DEF RootsInv
  <2>2. CASE at' = "raised" /\ UNCHANGED groups
    <3>1. at = "start" /\ NeedsGroups /\ UNCHANGED <<ask, roots>>
      BY <1>1 DEF Discover, given
    <3>2. NeedsGroups' = NeedsGroups
      BY <3>1 DEF NeedsGroups, GivenPath
    <3> QED
      BY <2>2, <3>1, <3>2 DEF RootsInv
  <2> QED
    BY <1>1, <2>1, <2>2 DEF Discover
<1>2. CASE Resolve
  BY <1>2, RootsResolve
<1>3. CASE List \/ ResolvePolicy \/ Collect \/ Merge \/ Emit
  <2>1. /\ at \notin {"start", "groups", "refused"}
        /\ UNCHANGED <<ask, host, groups, roots>>
        /\ at' \notin {"start", "groups", "refused"}
    <3>1. CASE List
      BY <3>1 DEF List, resolved
    <3>2. CASE ResolvePolicy
      BY <3>2 DEF ResolvePolicy, resolved
    <3>3. CASE Collect
      BY <3>3 DEF Collect, resolved
    <3>4. CASE Merge
      BY <3>4 DEF Merge, resolved
    <3>5. CASE Emit
      BY <3>5 DEF Emit, resolved
    <3> QED
      BY <1>3, <3>1, <3>2, <3>3, <3>4, <3>5
  <2>2. at # "raised"
    BY <1>3 DEF List, ResolvePolicy, Collect, Merge, Emit
  <2>3. /\ Expands' = Expands /\ NeedsGroups' = NeedsGroups /\ GroupsFound' = GroupsFound
        /\ RootsExpand => RootsExpand'
    BY <2>1, ScopeSame, RootsSame
  <2> QED
    BY <2>1, <2>2, <2>3 DEF RootsInv
<1>4. CASE UNCHANGED vars
  <2>1. UNCHANGED <<ask, host, groups, roots, at>>
    BY <1>4 DEF vars
  <2>2. /\ Expands' = Expands /\ NeedsGroups' = NeedsGroups /\ GroupsFound' = GroupsFound
        /\ RootsExpand => RootsExpand'
    BY <2>1, ScopeSame, RootsSame
  <2> QED
    BY <2>1, <2>2 DEF RootsInv
<1> QED
  BY <1>1, <1>2, <1>3, <1>4 DEF Next

\* The roots of the invariant, place by place, are the sets of the property.
LEMMA RootsShow == TypeOK /\ RootsInv => RootsAreTheScope
<1> SUFFICES ASSUME TypeOK, RootsInv, Expands, at \notin {"start", "groups"} PROVE RootsAreTheScope
  BY DEF RootsAreTheScope, Expands
<1> DEFINE scope == ask.scope
           dgs == IF scope.groups # <<>> THEN {dg.word : dg \in Range(scope.groups)}
                  ELSE {entry.name.word : entry \in {e \in Range(host.prints) : e.token}}
           dbs == {db.word : db \in IF ask.filter = {} THEN Range(scope.databases) ELSE ask.filter}
           kept == Databases(scope, ask.filter)
           Same == {Fold(root) : root \in Range(roots)} = {p \in dgs \X (dbs \ scope.excludes) : ~Excluded(p)}
<1>1. SUFFICES /\ groups # <<>> \/ scope.groups # <<>> => Same
               /\ \A i, j \in DOMAIN roots : Fold(roots[i]) = Fold(roots[j]) => i = j
               /\ (at = "refused") <=> (roots = <<>> /\ at # "raised")
  BY DEF RootsAreTheScope, Excluded
<1>2. CASE at = "raised" /\ NeedsGroups /\ groups = <<>> /\ roots = <<>>
  <2>1. scope.groups = <<>>
    BY <1>2 DEF NeedsGroups
  <2>2. \A i, j \in DOMAIN roots : Fold(roots[i]) = Fold(roots[j]) => i = j
    BY <1>2
  <2> HIDE DEF Same, scope
  <2> QED
    BY <1>2, <2>1, <2>2
<1>3. CASE (NeedsGroups => GroupsFound) /\ RootsExpand /\ (at = "refused" <=> roots = <<>>)
  <2>1. IsScope(scope) /\ ask.filter \in SUBSET Name /\ IsHost(host) /\ groups \in Seq(Name) /\ roots \in Seq(Seq(Name))
    BY AskFields, PathAssumption DEF TypeOK, Expands
  <2>2. scope.groups \in Seq(Name) /\ scope.databases \in Seq(Name) /\ DOMAIN host.prints = 1 .. Len(host.prints)
    BY <2>1 DEF IsScope, IsHost
  <2>3. DOMAIN roots = 1 .. Len(roots)
    BY <2>1
  <2>4. ASSUME NEW x PROVE x \in dgs <=> \E i \in 1 .. Len(Dgs) : x = Dgs[i].word
    <3>1. CASE scope.groups # <<>>
      <4>1. x \in dgs <=> \E i \in 1 .. Len(scope.groups) : x = scope.groups[i].word
        BY <2>2, <3>1 DEF Range
      <4>2. Len(Dgs) = Len(scope.groups) /\ \A i \in 1 .. Len(Dgs) : Dgs[i].word = scope.groups[i].word
        BY <2>1, <3>1, DgsAre
      <4> QED
        BY <4>1, <4>2
    <3>2. CASE scope.groups = <<>>
      <4>1. x \in dgs <=> \E k \in 1 .. Len(host.prints) : host.prints[k].token /\ x = host.prints[k].name.word
        BY <2>2, <3>2 DEF Range
      <4>2. Dgs = groups /\ GroupsFound
        BY <1>3, <3>2 DEF Dgs, NeedsGroups, Expands
      <4>3. (\E k \in 1 .. Len(host.prints) : host.prints[k].token /\ x = host.prints[k].name.word)
              <=> \E i \in 1 .. Len(groups) : x = groups[i].word
        <5> HIDE DEF scope, dgs, dbs, kept, Same
        <5> QED
          BY <4>2 DEF GroupsFound
      <4> QED
        BY <4>1, <4>2, <4>3
    <3> QED
      BY <3>1, <3>2
  <2>5. ASSUME NEW y PROVE y \in dbs \ scope.excludes <=> \E j \in 1 .. Len(kept) : y = kept[j].word
    <3>1. \A x : Has(kept, x) <=>
            Has(scope.databases, x) /\ x.word \notin scope.excludes /\ (ask.filter = {} \/ x \in ask.filter)
      BY <2>1, DatabasesAre
    <3>2. \A x \in ask.filter : Has(scope.databases, x)
      BY <2>2 DEF Expands, KnowsFilter, Range, Has
    <3>3. \A x : Has(scope.databases, x) <=> x \in Range(scope.databases)
      BY <2>2 DEF Range, Has
    <3>4. (\E j \in 1 .. Len(kept) : y = kept[j].word) <=> \E x : Has(kept, x) /\ y = x.word
      BY DEF Has
    <3>5. y \in dbs <=> \E x : Has(scope.databases, x) /\ (ask.filter = {} \/ x \in ask.filter) /\ y = x.word
      BY <3>2, <3>3
    <3> QED
      BY <3>1, <3>4, <3>5
  <2> HIDE DEF dgs, dbs, kept
  <2>6. Same
    <3>1. ASSUME NEW k \in 1 .. Len(roots)
          PROVE  Fold(roots[k]) \in dgs \X (dbs \ scope.excludes) /\ ~Excluded(Fold(roots[k]))
      <4>1. /\ ~Excluded(Fold(roots[k]))
            /\ \E i \in 1 .. Len(Dgs), j \in 1 .. Len(kept) : Fold(roots[k]) = <<Dgs[i].word, kept[j].word>>
        BY <1>3 DEF RootsExpand, kept
      <4>2. PICK i \in 1 .. Len(Dgs), j \in 1 .. Len(kept) : Fold(roots[k]) = <<Dgs[i].word, kept[j].word>>
        BY <4>1
      <4>3. Dgs[i].word \in dgs /\ kept[j].word \in dbs \ scope.excludes
        BY <2>4, <2>5
      <4> QED
        BY <4>1, <4>2, <4>3
    <3>2. ASSUME NEW p \in dgs \X (dbs \ scope.excludes), ~Excluded(p)
          PROVE  \E k \in 1 .. Len(roots) : Fold(roots[k]) = p
      <4>1. PICK a \in dgs, b \in dbs \ scope.excludes : p = <<a, b>>
        OBVIOUS
      <4>2. PICK i \in 1 .. Len(Dgs), j \in 1 .. Len(kept) : a = Dgs[i].word /\ b = kept[j].word
        BY <2>4, <2>5
      <4>3. p = <<Dgs[i].word, kept[j].word>>
        BY <4>1, <4>2
      <4> QED
        BY <1>3, <3>2, <4>3 DEF RootsExpand, kept
    <3>3. \A p : p \in {Fold(root) : root \in Range(roots)} <=> \E k \in 1 .. Len(roots) : Fold(roots[k]) = p
      BY <2>3 DEF Range
    <3> QED
      BY <3>1, <3>2, <3>3
  <2>7. \A i, j \in DOMAIN roots : Fold(roots[i]) = Fold(roots[j]) => i = j
    BY <1>3, <2>3 DEF RootsExpand
  <2> HIDE DEF Same, scope
  <2> QED
    BY <1>3, <2>6, <2>7
<1> QED
  BY <1>2, <1>3 DEF RootsInv

\* Whatever the scope spells, in whatever order and however often, and whatever the host prints:
\* the roots of a run are the disk groups of the scope with its databases, without what it
\* excludes, one root for a directory: see RootsAreTheScope.
THEOREM RootsCorrect == Spec => []RootsAreTheScope
<1>1. Init => RootsInv
  BY DEF Init, RootsInv
<1> QED
  BY <1>1, RootsStep, RootsShow, Typed, PTL DEF Spec

-----------------------------------------------------------------------------
(* The walk is exact. *)

\* Of a walk that began with a directory, what is still to list and what was listed.
StackUnder(root, st) ==
  \A i \in 1 .. Len(st) :
    Under(root, Fold(st[i].path)) /\ st[i].depth = Len(Fold(st[i].path)) - Len(root)
ListedReached(root, li) == \A i \in 1 .. Len(li) : Fold(li[i].path) \in Reachable(root)

\* A directory that can be reached is listed, or below one that is still to list.
NoneForgotten(root, st, li) ==
  \A p \in Reachable(root) :
    \/ \E i \in 1 .. Len(li) : p = Fold(li[i].path)
    \/ \E i \in 1 .. Len(st) : IsPrefix(Fold(st[i].path), p)

\* No directory that is still to list is above another one, or above one that is listed.
StackApart(st) ==
  \A i, j \in 1 .. Len(st) : IsPrefix(Fold(st[i].path), Fold(st[j].path)) => i = j
ListedAside(st, li) ==
  \A i \in 1 .. Len(st), j \in 1 .. Len(li) : ~IsPrefix(Fold(st[i].path), Fold(li[j].path))
ListedInOrder(li) ==
  \A i, j \in 1 .. Len(li) : IsPrefix(Fold(li[i].path), Fold(li[j].path)) => i <= j

Walks(root, st, li) ==
  /\ StackUnder(root, st) /\ ListedReached(root, li) /\ NoneForgotten(root, st, li)
  /\ StackApart(st) /\ ListedAside(st, li) /\ ListedInOrder(li)

\* The directory the walk began with.
Root == IF listed = <<>> THEN Fold(stack[1].path) ELSE Fold(listed[1].path)
WalkInv ==
  /\ at \in {"start", "groups"} => listed = <<>>
  /\ at = "walk" => (listed = <<>> => Len(stack) = 1) /\ Walks(Root, stack, listed)

LEMMA LimitIs == ASSUME ask \in Asks PROVE MaxDepth = None \/ MaxDepth \in Nat
<1>1. ask.scope # None => ask.scope.depth \in Nat \cup {None}
  BY AskFields DEF IsScope
<1> QED
  BY <1>1 DEF MaxDepth

\* The directories of a host, and the one row that leads to a subdirectory.
LEMMA TreeIs ==
  ASSUME host \in Hosts, NEW d \in DOMAIN host.tree
  PROVE  /\ d \in Seq(Word) /\ host.tree[d] \in Seq(Row)
         /\ \A word : Leads(d, word) <=>
              \E k \in 1 .. Len(host.tree[d]) : IsSubdirectory(host.tree[d][k]) /\ host.tree[d][k].name.word = word
         /\ \A k, m \in 1 .. Len(host.tree[d]) :
              IsSubdirectory(host.tree[d][k]) /\ IsSubdirectory(host.tree[d][m])
                /\ host.tree[d][k].name.word = host.tree[d][m].name.word => k = m
<1> DEFINE rows == host.tree[d]
<1>1. /\ d \in Seq(Word) /\ rows \in Seq(Row)
      /\ \A i, j \in DOMAIN rows :
           rows[i].kind = "dir" /\ rows[j].kind = "dir" /\ rows[i].name.word = rows[j].name.word => i = j
  <2>1. IsHost(host)
    BY PathAssumption
  <2> QED
    BY <2>1 DEF IsHost
<1>2. \A word : Leads(d, word) <=> \E row \in Range(rows) : row.kind = "dir" /\ row.name.word = word
  BY DEF Leads
<1> HIDE DEF rows
<1>3. DOMAIN rows = 1 .. Len(rows)
  BY <1>1
<1>4. ASSUME NEW word
      PROVE  Leads(d, word) <=>
               \E k \in 1 .. Len(rows) : IsSubdirectory(rows[k]) /\ rows[k].name.word = word
  BY <1>2, <1>3 DEF Range, IsSubdirectory
<1> QED
  BY <1>1, <1>3, <1>4 DEF IsSubdirectory, rows

\* One directory deeper.
LEMMA UnderDeeper ==
  ASSUME NEW root \in Seq(Word), NEW h \in Seq(Word), NEW word \in Word, ask \in Asks,
         Under(root, h), Leads(h, word), Descends(Len(h) - Len(root))
  PROVE  Under(root, Append(h, word))
<1> DEFINE more == Append(h, word)
<1>1. /\ more \in Seq(Word) /\ Len(more) = Len(h) + 1 /\ Len(h) \in Nat /\ Len(root) \in Nat
      /\ \A i \in 1 .. Len(h) : more[i] = h[i]
      /\ more[Len(h) + 1] = word
  BY AppendProperties
<1>2. IsPrefix(root, h) /\ IsPrefix(h, more)
  BY PrefixAppend DEF Under
<1>3. IsPrefix(root, more)
  BY <1>1, <1>2, PrefixChain
<1>4. Len(root) <= Len(h)
  BY <1>2, PrefixIs
<1>5. MaxDepth # None => Len(more) - Len(root) <= MaxDepth
  BY <1>1, <1>4, LimitIs DEF Descends
<1>6. ASSUME NEW n \in Len(root) .. Len(more) - 1 PROVE Leads(SubSeq(more, 1, n), more[n + 1])
  <2>1. n \in 0 .. Len(h)
    BY <1>1, <1>4
  <2>2. SubSeq(more, 1, n) = SubSeq(h, 1, n)
    BY <2>1, AppendCut
  <2>3. CASE n = Len(h)
    <3>1. SubSeq(h, 1, n) = h
      BY <2>3, PrefixNext, PrefixAppend
    <3> QED
      BY <1>1, <2>2, <2>3, <3>1
  <2>4. CASE n # Len(h)
    <3>1. n \in Len(root) .. Len(h) - 1 /\ n + 1 \in 1 .. Len(h)
      BY <1>1, <1>4, <2>4
    <3>2. Leads(SubSeq(h, 1, n), h[n + 1])
      BY <3>1 DEF Under
    <3> QED
      BY <1>1, <2>2, <3>1, <3>2
  <2> QED
    BY <2>3, <2>4
<1> HIDE DEF more
<1> QED
  BY <1>3, <1>5, <1>6 DEF Under, more

\* A path below a directory goes on through one of its subdirectories.
LEMMA UnderNext ==
  ASSUME NEW root \in Seq(Word), NEW h \in Seq(Word), NEW p \in Seq(Word), ask \in Asks,
         IsPrefix(root, h), IsPrefix(h, p), h # p, Under(root, p)
  PROVE  \E word \in Word : Leads(h, word) /\ IsPrefix(Append(h, word), p) /\ Descends(Len(h) - Len(root))
<1> DEFINE word == p[Len(h) + 1]
<1>1. /\ SubSeq(p, 1, Len(h)) = h /\ Len(h) + 1 <= Len(p)
      /\ word \in Word /\ IsPrefix(Append(h, word), p)
  BY PrefixNext
<1>2. Len(root) <= Len(h) /\ Len(h) \in Nat /\ Len(root) \in Nat /\ Len(p) \in Nat
  BY PrefixIs
<1>3. Len(h) \in Len(root) .. Len(p) - 1
  BY <1>1, <1>2
<1>4. Leads(h, word)
  BY <1>1, <1>3 DEF Under
<1>5. MaxDepth # None => Len(p) - Len(root) <= MaxDepth
  BY DEF Under
<1>6. Descends(Len(h) - Len(root))
  BY <1>1, <1>2, <1>5, LimitIs DEF Descends
<1> QED
  BY <1>1, <1>4, <1>6

\* What List puts before the rest of the stack.
Kids(here, rows) == IF Descends(here.depth) THEN Children(here, rows) ELSE <<>>

AreKids(kids, here, h) ==
  /\ kids \in Seq(Place)
  /\ \A i \in 1 .. Len(kids) :
       /\ Descends(here.depth) /\ kids[i].depth = here.depth + 1
       /\ \E word \in Word : Leads(h, word) /\ Fold(kids[i].path) = Append(h, word)
  /\ \A word \in Word : Leads(h, word) /\ Descends(here.depth) =>
       \E i \in 1 .. Len(kids) : Fold(kids[i].path) = Append(h, word)
  /\ \A i, j \in 1 .. Len(kids) : Fold(kids[i].path) = Fold(kids[j].path) => i = j

\* The children of a directory are its subdirectory rows, one level down, if the limit allows.
LEMMA KidsAre ==
  ASSUME host \in Hosts, NEW here \in Place, Fold(here.path) \in DOMAIN host.tree
  PROVE  AreKids(Kids(here, host.tree[Fold(here.path)]), here, Fold(here.path))
<1> DEFINE h == Fold(here.path)
           rows == host.tree[h]
           kids == Kids(here, rows)
<1>1. here.path \in Seq(Name) /\ here.depth \in Nat
  BY DEF Place
<1>2. /\ h \in Seq(Word) /\ rows \in Seq(Row)
      /\ \A word : Leads(h, word) <=> \E k \in 1 .. Len(rows) : IsSubdirectory(rows[k]) /\ rows[k].name.word = word
      /\ \A k, m \in 1 .. Len(rows) :
           IsSubdirectory(rows[k]) /\ IsSubdirectory(rows[m]) /\ rows[k].name.word = rows[m].name.word => k = m
  BY TreeIs
<1> HIDE DEF rows
<1>3. ASSUME NEW k \in 1 .. Len(rows)
      PROVE  /\ rows[k].name.word \in Word
             /\ Fold(ChildOf(here, rows[k]).path) = Append(h, rows[k].name.word)
             /\ ChildOf(here, rows[k]).depth = here.depth + 1
  <2>1. rows[k] \in Row
    BY <1>2
  <2>2. rows[k].name \in Name
    BY <2>1, RowFields
  <2>3. rows[k].name.word \in Word
    BY <2>2 DEF Name
  <2>4. Fold(Append(here.path, rows[k].name)) = Append(h, rows[k].name.word)
    BY <1>1, <2>2, FoldAppend
  <2> QED
    BY <2>3, <2>4 DEF ChildOf
<1>4. CASE ~Descends(here.depth)
  <2>1. kids = <<>>
    BY <1>4 DEF Kids
  <2>2. kids \in Seq(Place) /\ Len(kids) = 0
    BY <2>1
  <2> HIDE DEF kids
  <2>3. ~\E i \in 1 .. Len(kids) : TRUE
    BY <2>2
  <2> QED
    BY <1>4, <2>2, <2>3 DEF kids, rows, AreKids
<1>5. CASE Descends(here.depth)
  <2>1. /\ kids \in Seq(Place)
        /\ \A i \in 1 .. Len(kids) : \E k \in 1 .. Len(rows) : IsSubdirectory(rows[k]) /\ kids[i] = ChildOf(here, rows[k])
        /\ \A k \in 1 .. Len(rows) : IsSubdirectory(rows[k]) => \E i \in 1 .. Len(kids) : kids[i] = ChildOf(here, rows[k])
        /\ \A i, j \in 1 .. Len(kids) : i # j =>
             \E k, m \in 1 .. Len(rows) :
               /\ k # m /\ IsSubdirectory(rows[k]) /\ IsSubdirectory(rows[m])
               /\ kids[i] = ChildOf(here, rows[k]) /\ kids[j] = ChildOf(here, rows[m])
    <3>1. kids = Children(here, rows)
      BY <1>5 DEF Kids
    <3>2. rows \in Seq(Row)
      BY <1>2
    <3> HIDE DEF rows, h
    <3> DEFINE out == Children(here, rows)
    <3>3. /\ out \in Seq(Place)
          /\ \A i \in 1 .. Len(out) : \E k \in 1 .. Len(rows) : IsSubdirectory(rows[k]) /\ out[i] = ChildOf(here, rows[k])
      BY <3>2, ChildrenAre
    <3>4. \A k \in 1 .. Len(rows) : IsSubdirectory(rows[k]) => \E i \in 1 .. Len(out) : out[i] = ChildOf(here, rows[k])
      BY <3>2, ChildrenAre
    <3>5. \A i, j \in 1 .. Len(out) : i # j =>
             \E k, m \in 1 .. Len(rows) :
               /\ k # m /\ IsSubdirectory(rows[k]) /\ IsSubdirectory(rows[m])
               /\ out[i] = ChildOf(here, rows[k]) /\ out[j] = ChildOf(here, rows[m])
      BY <3>2, ChildrenAre
    <3>6. kids = out
      BY <3>1
    <3> HIDE DEF out, kids
    <3> QED
      BY <3>3, <3>4, <3>5, <3>6
  <2> HIDE DEF kids, h
  <2>2. ASSUME NEW i \in 1 .. Len(kids)
        PROVE  /\ kids[i].depth = here.depth + 1
               /\ \E word \in Word : Leads(h, word) /\ Fold(kids[i].path) = Append(h, word)
    <3>1. PICK k \in 1 .. Len(rows) : IsSubdirectory(rows[k]) /\ kids[i] = ChildOf(here, rows[k])
      BY <2>1
    <3> QED
      BY <1>2, <1>3, <3>1
  <2>3. ASSUME NEW word \in Word, Leads(h, word)
        PROVE  \E i \in 1 .. Len(kids) : Fold(kids[i].path) = Append(h, word)
    <3>1. PICK k \in 1 .. Len(rows) : IsSubdirectory(rows[k]) /\ rows[k].name.word = word
      BY <1>2, <2>3
    <3>2. PICK i \in 1 .. Len(kids) : kids[i] = ChildOf(here, rows[k])
      BY <2>1, <3>1
    <3> QED
      BY <1>3, <3>1, <3>2
  <2>4. ASSUME NEW i \in 1 .. Len(kids), NEW j \in 1 .. Len(kids), Fold(kids[i].path) = Fold(kids[j].path), i # j
        PROVE  FALSE
    <3>1. PICK k \in 1 .. Len(rows), m \in 1 .. Len(rows) :
            /\ k # m /\ IsSubdirectory(rows[k]) /\ IsSubdirectory(rows[m])
            /\ kids[i] = ChildOf(here, rows[k]) /\ kids[j] = ChildOf(here, rows[m])
      BY <2>1, <2>4
    <3>2. Append(h, rows[k].name.word) = Append(h, rows[m].name.word)
      BY <1>3, <2>4, <3>1
    <3>3. rows[k].name.word = rows[m].name.word
      BY <1>2, <1>3, <3>2, AppendProperties
    <3> QED
      BY <1>2, <3>1, <3>3
  <2> QED
    BY <1>5, <2>1, <2>2, <2>3, <2>4 DEF kids, rows, h, AreKids
<1> QED
  BY <1>4, <1>5

\* The walk goes on: the first directory is listed, what is below it takes its place.
LEMMA WalkGoesOn ==
  ASSUME ask \in Asks, host \in Hosts, NEW root \in Seq(Word), NEW st \in Seq(Place), NEW li \in Seq(Listing),
         st # <<>>, Walks(root, st, li), Fold(st[1].path) \in DOMAIN host.tree
  PROVE  LET here == st[1]
             rows == host.tree[Fold(here.path)]
         IN  Walks(root, Kids(here, rows) \o Tail(st), Append(li, [path |-> here.path, rows |-> rows]))
<1> DEFINE here == st[1]
           h == Fold(here.path)
           rows == host.tree[h]
           kids == Kids(here, rows)
           K == Len(kids)
           st2 == kids \o Tail(st)
           li2 == Append(li, [path |-> here.path, rows |-> rows])
           N == Len(li)
<1>1. here \in Place /\ here.path \in Seq(Name) /\ here.depth \in Nat /\ h \in Seq(Word)
  <2>1. here \in Place
    OBVIOUS
  <2>2. here.path \in Seq(Name) /\ here.depth \in Nat
    BY <2>1 DEF Place
  <2> QED
    BY <2>1, <2>2, FoldIs
<1>2. /\ kids \in Seq(Place) /\ K \in Nat
      /\ \A i \in 1 .. K :
           /\ Descends(here.depth) /\ kids[i].depth = here.depth + 1
           /\ \E word \in Word : Leads(h, word) /\ Fold(kids[i].path) = Append(h, word)
      /\ \A word \in Word : Leads(h, word) /\ Descends(here.depth) =>
           \E i \in 1 .. K : Fold(kids[i].path) = Append(h, word)
      /\ \A i, j \in 1 .. K : Fold(kids[i].path) = Fold(kids[j].path) => i = j
  <2>1. here \in Place
    BY <1>1
  <2>2. AreKids(kids, here, h)
    BY <2>1, KidsAre
  <2> HIDE DEF here, kids, h
  <2>3. kids \in Seq(Place)
    BY <2>2 DEF AreKids
  <2>4. K \in Nat
    BY <2>3
  <2>5. \A i \in 1 .. K :
           /\ Descends(here.depth) /\ kids[i].depth = here.depth + 1
           /\ \E word \in Word : Leads(h, word) /\ Fold(kids[i].path) = Append(h, word)
    BY <2>2 DEF AreKids
  <2>6. /\ \A word \in Word : Leads(h, word) /\ Descends(here.depth) =>
             \E i \in 1 .. K : Fold(kids[i].path) = Append(h, word)
        /\ \A i, j \in 1 .. K : Fold(kids[i].path) = Fold(kids[j].path) => i = j
    BY <2>2 DEF AreKids
  <2> HIDE DEF K
  <2> QED
    BY <2>3, <2>4, <2>5, <2>6
<1>3. /\ Len(st2) = K + Len(st) - 1 /\ Len(st) \in Nat \ {0}
      /\ \A i \in 1 .. K : st2[i] = kids[i]
      /\ \A i \in 2 .. Len(st) : st2[K + i - 1] = st[i]
  <2>1. /\ Tail(st) \in Seq(Place) /\ Len(Tail(st)) = Len(st) - 1 /\ Len(st) \in Nat \ {0}
        /\ \A i \in 1 .. Len(st) - 1 : Tail(st)[i] = st[i + 1]
    OBVIOUS
  <2> DEFINE tail == Tail(st)
  <2> HIDE DEF tail, kids
  <2>2. Len(kids \o tail) = K + Len(tail) /\ (\A i \in 1 .. K : (kids \o tail)[i] = kids[i])
        /\ \A i \in 1 .. Len(tail) : (kids \o tail)[K + i] = tail[i]
    BY <1>2, <2>1 DEF tail
  <2>3. ASSUME NEW i \in 2 .. Len(st) PROVE (kids \o tail)[K + i - 1] = st[i]
    <3>1. i - 1 \in 1 .. Len(tail) /\ K + (i - 1) = K + i - 1 /\ (i - 1) + 1 = i
      BY <1>2, <2>1 DEF tail
    <3>2. (kids \o tail)[K + (i - 1)] = tail[i - 1]
      BY <2>2, <3>1
    <3>3. tail[i - 1] = st[(i - 1) + 1]
      BY <2>1, <3>1 DEF tail
    <3> QED
      BY <3>1, <3>2, <3>3
  <2> QED
    BY <1>2, <2>1, <2>2, <2>3 DEF tail
<1>4. /\ Len(li2) = N + 1 /\ N \in Nat
      /\ \A i \in 1 .. N : li2[i] = li[i]
      /\ li2[N + 1].path = here.path
  <2> DEFINE new == [path |-> here.path, rows |-> rows]
  <2>1. rows \in Seq(Row)
    BY TreeIs
  <2>2. new.path = here.path /\ new \in Listing
    BY <1>1, <2>1 DEF Listing
  <2> HIDE DEF new
  <2> QED
    BY <2>2, AppendProperties DEF new
<1> HIDE DEF st2, li2, kids, K, N, rows
\* Every directory that is still to list is a child or was there before.
<1>5. ASSUME NEW i \in 1 .. Len(st2)
      PROVE  \/ i \in 1 .. K /\ st2[i] = kids[i]
             \/ i - K + 1 \in 2 .. Len(st) /\ st2[i] = st[i - K + 1]
  <2> DEFINE M == Len(st)
             m == i - K + 1
  <2>0. K \in Nat /\ M \in Nat \ {0} /\ i \in 1 .. K + M - 1
    BY <1>2, <1>3
  <2> HIDE DEF M
  <2>1. CASE i <= K
    <3>1. i \in 1 .. K
      BY <2>0, <2>1
    <3> QED
      BY <1>3, <3>1
  <2>2. CASE ~(i <= K)
    <3>1. m \in 2 .. Len(st) /\ K + m - 1 = i
      BY <2>0, <2>2 DEF M
    <3>2. \A j \in 2 .. Len(st) : st2[K + j - 1] = st[j]
      BY <1>3
    <3> HIDE DEF m
    <3>3. st2[K + m - 1] = st[m]
      BY <3>1, <3>2
    <3>4. st2[i] = st[m]
      BY <3>1, <3>3
    <3> QED
      BY <3>1, <3>4 DEF m
  <2> QED
    BY <2>1, <2>2
<1>6. ASSUME NEW i \in 1 .. Len(li2)
      PROVE  (i \in 1 .. N /\ li2[i] = li[i]) \/ (i = N + 1 /\ Fold(li2[i].path) = h)
  BY <1>4
<1>7. ASSUME NEW i \in 1 .. Len(st) PROVE Fold(st[i].path) \in Seq(Word)
  <2>1. st[i] \in Place
    OBVIOUS
  <2>2. st[i].path \in Seq(Name)
    BY <2>1 DEF Place
  <2> QED
    BY <2>2, FoldIs
<1>8. ASSUME NEW i \in 1 .. N PROVE Fold(li[i].path) \in Seq(Word)
  <2>1. li[i] \in Listing
    BY DEF N
  <2>2. li[i].path \in Seq(Name)
    BY <2>1, ListingFields
  <2> QED
    BY <2>2, FoldIs
<1>9. Under(root, h) /\ here.depth = Len(h) - Len(root) /\ IsPrefix(root, h)
  <2>1. 1 \in 1 .. Len(st)
    BY <1>3
  <2>2. Under(root, h) /\ here.depth = Len(h) - Len(root)
    BY <2>1 DEF Walks, StackUnder
  <2> QED
    BY <2>2 DEF Under
<1>10. Len(h) \in Nat /\ Len(root) \in Nat
  BY <1>1
<1>11. StackUnder(root, st2)
  <2> SUFFICES ASSUME NEW i \in 1 .. Len(st2)
               PROVE  Under(root, Fold(st2[i].path)) /\ st2[i].depth = Len(Fold(st2[i].path)) - Len(root)
    BY DEF StackUnder
  <2>1. CASE i \in 1 .. K /\ st2[i] = kids[i]
    <3>1. PICK word \in Word : Leads(h, word) /\ Fold(kids[i].path) = Append(h, word)
      BY <1>2, <2>1
    <3>2. Descends(here.depth) /\ kids[i].depth = here.depth + 1
      BY <1>2, <2>1
    <3>3. Under(root, Append(h, word))
      BY <1>1, <1>9, <3>1, <3>2, UnderDeeper
    <3>4. Len(Append(h, word)) = Len(h) + 1
      BY <1>1, AppendProperties
    <3> QED
      BY <1>9, <1>10, <2>1, <3>1, <3>2, <3>3, <3>4
  <2>2. CASE i - K + 1 \in 2 .. Len(st) /\ st2[i] = st[i - K + 1]
    <3>1. i - K + 1 \in 1 .. Len(st)
      BY <2>2
    <3> QED
      BY <2>2, <3>1 DEF Walks, StackUnder
  <2> QED
    BY <1>5, <2>1, <2>2
<1>12. ListedReached(root, li2)
  <2>1. h \in Reachable(root)
    BY <1>9 DEF Reachable
  <2>2. \A i \in 1 .. N : Fold(li[i].path) \in Reachable(root)
    BY DEF Walks, ListedReached, N
  <2> QED
    BY <1>6, <2>1, <2>2 DEF ListedReached
<1>13. NoneForgotten(root, st2, li2)
  <2> SUFFICES ASSUME NEW p \in Reachable(root)
               PROVE  \/ \E i \in 1 .. Len(li2) : p = Fold(li2[i].path)
                      \/ \E i \in 1 .. Len(st2) : IsPrefix(Fold(st2[i].path), p)
    BY DEF NoneForgotten
  <2>1. \/ \E i \in 1 .. Len(li) : p = Fold(li[i].path)
        \/ \E i \in 1 .. Len(st) : IsPrefix(Fold(st[i].path), p)
    BY DEF Walks, NoneForgotten
  <2>2. p \in Seq(Word) /\ Under(root, p)
    <3>1. p \in DOMAIN host.tree /\ Under(root, p)
      BY DEF Reachable
    <3> QED
      BY <3>1, TreeIs
  <2>3. CASE \E i \in 1 .. Len(li) : p = Fold(li[i].path)
    <3>1. PICK i \in 1 .. N : p = Fold(li[i].path)
      BY <2>3 DEF N
    <3>2. i \in 1 .. Len(li2) /\ li2[i] = li[i]
      BY <1>4
    <3> QED
      BY <3>1, <3>2
  <2>4. CASE p = h
    <3>1. N + 1 \in 1 .. Len(li2) /\ Fold(li2[N + 1].path) = h
      BY <1>4
    <3> QED
      BY <2>4, <3>1
  <2>5. CASE p # h /\ IsPrefix(h, p)
    <3>1. PICK word \in Word : Leads(h, word) /\ IsPrefix(Append(h, word), p) /\ Descends(Len(h) - Len(root))
      BY <1>1, <1>9, <2>2, <2>5, UnderNext
    <3>2. PICK i \in 1 .. K : Fold(kids[i].path) = Append(h, word)
      BY <1>2, <1>9, <3>1
    <3>3. i \in 1 .. Len(st2) /\ st2[i] = kids[i]
      BY <1>2, <1>3
    <3> QED
      BY <3>1, <3>2, <3>3
  <2>6. ASSUME NEW i \in 2 .. Len(st), IsPrefix(Fold(st[i].path), p)
        PROVE  \E k \in 1 .. Len(st2) : IsPrefix(Fold(st2[k].path), p)
    <3>1. K + i - 1 \in 1 .. Len(st2) /\ st2[K + i - 1] = st[i]
      BY <1>2, <1>3
    <3> QED
      BY <2>6, <3>1
  <2>7. ASSUME NEW i \in 1 .. Len(st), IsPrefix(Fold(st[i].path), p)
        PROVE  IsPrefix(h, p) \/ \E k \in 1 .. Len(st2) : IsPrefix(Fold(st2[k].path), p)
    <3>1. i = 1 \/ i \in 2 .. Len(st)
      BY <1>3
    <3> QED
      BY <2>6, <2>7, <3>1
  <2> QED
    BY <2>1, <2>3, <2>4, <2>5, <2>7
\* The directory that is listed is not above or below the others.
<1>14. /\ \A m \in 2 .. Len(st) : ~IsPrefix(h, Fold(st[m].path)) /\ ~IsPrefix(Fold(st[m].path), h)
       /\ \A j \in 1 .. N : ~IsPrefix(h, Fold(li[j].path))
  <2>1. 1 \in 1 .. Len(st) /\ \A m \in 2 .. Len(st) : m \in 1 .. Len(st) /\ m # 1
    BY <1>3
  <2> QED
    BY <2>1 DEF Walks, StackApart, ListedAside, N
<1>15. ASSUME NEW i \in 1 .. K, NEW q \in Seq(Word)
       PROVE  /\ Fold(kids[i].path) \in Seq(Word) /\ ~IsPrefix(Fold(kids[i].path), h)
              /\ IsPrefix(Fold(kids[i].path), q) => IsPrefix(h, q)
              /\ IsPrefix(q, Fold(kids[i].path)) => IsPrefix(q, h) \/ (q = Fold(kids[i].path) /\ IsPrefix(h, q))
  <2>1. PICK word \in Word : Fold(kids[i].path) = Append(h, word)
    BY <1>2
  <2>2. Append(h, word) \in Seq(Word)
    BY <1>1, AppendProperties
  <2>3. /\ IsPrefix(h, Append(h, word)) /\ ~IsPrefix(Append(h, word), h)
        /\ IsPrefix(Append(h, word), q) => IsPrefix(h, q)
        /\ IsPrefix(q, Append(h, word)) => IsPrefix(q, h) \/ q = Append(h, word)
    BY <1>1, PrefixAppend
  <2> QED
    BY <2>1, <2>2, <2>3
<1>16. StackApart(st2)
  <2> SUFFICES ASSUME NEW i \in 1 .. Len(st2), NEW j \in 1 .. Len(st2),
                      IsPrefix(Fold(st2[i].path), Fold(st2[j].path))
               PROVE  i = j
    BY DEF StackApart
  <2>1. CASE (i \in 1 .. K /\ st2[i] = kids[i]) /\ (j \in 1 .. K /\ st2[j] = kids[j])
    <3>1. Fold(kids[i].path) \in Seq(Word) /\ ~IsPrefix(Fold(kids[i].path), h)
      BY <1>1, <1>15, <2>1
    <3>2. Fold(kids[i].path) = Fold(kids[j].path)
      BY <1>15, <2>1, <3>1
    <3> QED
      BY <1>2, <2>1, <3>2
  <2>2. CASE (i \in 1 .. K /\ st2[i] = kids[i]) /\ (j - K + 1 \in 2 .. Len(st) /\ st2[j] = st[j - K + 1])
    <3> DEFINE m == j - K + 1
    <3>1. m \in 2 .. Len(st) /\ st2[j] = st[m]
      BY <2>2
    <3> HIDE DEF m
    <3>2. Fold(st[m].path) \in Seq(Word)
      BY <1>7, <3>1
    <3> QED
      BY <1>14, <1>15, <2>2, <3>1, <3>2
  <2>3. CASE (i - K + 1 \in 2 .. Len(st) /\ st2[i] = st[i - K + 1]) /\ (j \in 1 .. K /\ st2[j] = kids[j])
    <3> DEFINE m == i - K + 1
    <3>1. m \in 2 .. Len(st) /\ st2[i] = st[m]
      BY <2>3
    <3> HIDE DEF m
    <3>2. Fold(st[m].path) \in Seq(Word)
      BY <1>7, <3>1
    <3> QED
      BY <1>14, <1>15, <2>3, <3>1, <3>2
  <2>4. CASE /\ i - K + 1 \in 2 .. Len(st) /\ st2[i] = st[i - K + 1]
             /\ j - K + 1 \in 2 .. Len(st) /\ st2[j] = st[j - K + 1]
    <3>1. i - K + 1 \in 1 .. Len(st) /\ j - K + 1 \in 1 .. Len(st)
      BY <2>4
    <3>2. i - K + 1 = j - K + 1
      BY <2>4, <3>1 DEF Walks, StackApart
    <3> QED
      BY <1>2, <3>2
  <2> QED
    BY <1>5, <2>1, <2>2, <2>3, <2>4
<1>17. ListedAside(st2, li2)
  <2> SUFFICES ASSUME NEW i \in 1 .. Len(st2), NEW j \in 1 .. Len(li2)
               PROVE  ~IsPrefix(Fold(st2[i].path), Fold(li2[j].path))
    BY DEF ListedAside
  <2>1. CASE i \in 1 .. K /\ st2[i] = kids[i]
    <3>1. CASE j \in 1 .. N /\ li2[j] = li[j]
      BY <1>8, <1>14, <1>15, <2>1, <3>1
    <3>2. CASE j = N + 1 /\ Fold(li2[j].path) = h
      BY <1>1, <1>15, <2>1, <3>2
    <3> QED
      BY <1>6, <3>1, <3>2
  <2>2. CASE i - K + 1 \in 2 .. Len(st) /\ st2[i] = st[i - K + 1]
    <3> DEFINE m == i - K + 1
    <3>1. m \in 2 .. Len(st) /\ m \in 1 .. Len(st) /\ st2[i] = st[m]
      BY <2>2
    <3> HIDE DEF m
    <3>2. CASE j \in 1 .. N /\ li2[j] = li[j]
      BY <3>1, <3>2 DEF Walks, ListedAside, N
    <3>3. CASE j = N + 1 /\ Fold(li2[j].path) = h
      BY <1>14, <3>1, <3>3
    <3> QED
      BY <1>6, <3>2, <3>3
  <2> QED
    BY <1>5, <2>1, <2>2
<1>18. ListedInOrder(li2)
  <2> SUFFICES ASSUME NEW i \in 1 .. Len(li2), NEW j \in 1 .. Len(li2),
                      IsPrefix(Fold(li2[i].path), Fold(li2[j].path))
               PROVE  i <= j
    BY DEF ListedInOrder
  <2>1. CASE j = N + 1
    BY <1>4, <2>1
  <2>2. CASE (i \in 1 .. N /\ li2[i] = li[i]) /\ (j \in 1 .. N /\ li2[j] = li[j])
    BY <2>2 DEF Walks, ListedInOrder, N
  <2>3. CASE (i = N + 1 /\ Fold(li2[i].path) = h) /\ (j \in 1 .. N /\ li2[j] = li[j])
    BY <1>14, <2>3
  <2> QED
    BY <1>6, <2>1, <2>2, <2>3
<1>19. Walks(root, st2, li2)
  BY <1>11, <1>12, <1>13, <1>16, <1>17, <1>18 DEF Walks
<1> QED
  BY <1>19 DEF st2, li2, kids, rows

\* A walk begins with its root on the stack, which is above all that can be reached.
LEMMA WalkStarts ==
  ASSUME ask \in Asks, NEW path \in Seq(Name)
  PROVE  Walks(Fold(path), <<[path |-> path, depth |-> 0]>>, <<>>)
<1> DEFINE root == Fold(path)
           here == [path |-> path, depth |-> 0]
           st == <<here>>
           li == <<>>
<1>1. root \in Seq(Word) /\ Len(root) \in Nat
  BY FoldIs
<1>2. here.path = path /\ here.depth = 0
  OBVIOUS
<1> HIDE DEF here
<1>3. Len(st) = 1 /\ st[1] = here /\ Len(li) = 0
  OBVIOUS
<1> HIDE DEF st, li, root
<1>4. \A i \in 1 .. Len(st) : i = 1 /\ st[i].path = path /\ Fold(st[i].path) = root
  BY <1>2, <1>3 DEF root
<1>5. ~\E i \in 1 .. Len(li) : TRUE
  BY <1>3
<1>6. Under(root, root)
  <2>1. IsPrefix(root, root)
    BY <1>1, PrefixIs
  <2>2. Len(root) - Len(root) = 0 /\ ~\E n \in Len(root) .. Len(root) - 1 : TRUE
    BY <1>1
  <2>3. MaxDepth # None => 0 <= MaxDepth
    BY LimitIs
  <2> QED
    BY <2>1, <2>2, <2>3 DEF Under
<1>7. StackUnder(root, st)
  <2>1. st[1].depth = 0 /\ Len(root) - Len(root) = 0
    BY <1>1, <1>2, <1>3
  <2> QED
    BY <1>4, <1>6, <2>1 DEF StackUnder
<1>8. NoneForgotten(root, st, li)
  <2>1. \A p \in Reachable(root) : IsPrefix(root, p)
    BY DEF Reachable, Under
  <2> QED
    BY <1>3, <1>4, <2>1 DEF NoneForgotten
<1>9. StackApart(st)
  BY <1>4 DEF StackApart
<1> QED
  BY <1>5, <1>7, <1>8, <1>9 DEF Walks, ListedReached, ListedAside, ListedInOrder, root, here, st, li

\* What a walk has done depends on ask and host only.
LEMMA WalkSame ==
  ASSUME UNCHANGED <<ask, host>>, NEW CONSTANT root, NEW CONSTANT st, NEW CONSTANT li
  PROVE  Walks(root, st, li)' = Walks(root, st, li)
<1>1. MaxDepth' = MaxDepth
  BY DEF MaxDepth
<1>2. ASSUME NEW CONSTANT p, NEW CONSTANT word PROVE Leads(p, word)' = Leads(p, word)
  BY DEF Leads
<1>3. ASSUME NEW CONSTANT p PROVE Under(root, p)' = Under(root, p)
  BY <1>1, <1>2 DEF Under
<1>4. Reachable(root)' = Reachable(root)
  BY <1>3 DEF Reachable
<1>5. StackUnder(root, st)' = StackUnder(root, st)
  BY <1>3 DEF StackUnder
<1>6. ListedReached(root, li)' = ListedReached(root, li)
  BY <1>4 DEF ListedReached
<1>7. NoneForgotten(root, st, li)' = NoneForgotten(root, st, li)
  BY <1>4 DEF NoneForgotten
<1>8. /\ StackApart(st)' = StackApart(st) /\ ListedAside(st, li)' = ListedAside(st, li)
      /\ ListedInOrder(li)' = ListedInOrder(li)
  OBVIOUS
<1> QED
  BY <1>5, <1>6, <1>7, <1>8 DEF Walks

LEMMA WalkKept ==
  ASSUME UNCHANGED <<ask, host>>, Walks(Root', stack', listed')
  PROVE  Walks(Root, stack, listed)'
<1>1. ASSUME NEW CONSTANT root, NEW CONSTANT st, NEW CONSTANT li, Walks(root, st, li)
      PROVE  Walks(root, st, li)'
  BY <1>1, WalkSame
<1> QED
  BY <1>1

\* A walk begins at one of the roots, with nothing listed.
LEMMA WalkResolve == ASSUME TypeOK, WalkInv, Resolve PROVE WalkInv'
<1> DEFINE paths == IF ask.scope # None THEN Resolved
                    ELSE IF ask.path = None THEN <<>> ELSE <<NormalizePath(ask.path)>>
<1>1. /\ roots' = paths /\ UNCHANGED <<ask, host, listed>> /\ at \in {"start", "groups"}
      /\ IF paths = <<>> THEN at' = "refused" /\ UNCHANGED stack
         ELSE at' = "walk" /\ \E root \in Range(paths) : stack' = <<[path |-> root, depth |-> 0]>>
  BY DEF Resolve, given
<1> HIDE DEF paths
<1>2. listed = <<>> /\ listed' = <<>>
  BY <1>1 DEF WalkInv
<1>3. CASE paths = <<>>
  BY <1>1, <1>2, <1>3 DEF WalkInv
<1>4. CASE paths # <<>>
  <2>1. PICK root \in Range(paths) : stack' = <<[path |-> root, depth |-> 0]>>
    BY <1>1, <1>4
  <2>2. at' = "walk"
    BY <1>1, <1>4
  <2>3. root \in Seq(Name)
    <3>1. roots' \in Seq(Seq(Name))
      BY TypeResolve DEF TypeOK
    <3> QED
      BY <1>1, <2>1, <3>1 DEF Range
  <2>4. Walks(Fold(root), stack', listed')
    BY <1>2, <2>1, <2>3, WalkStarts DEF TypeOK
  <2>6. Len(stack') = 1 /\ stack'[1].path = root
    BY <2>1
  <2>7. Root' = Fold(root)
    BY <1>2, <2>6 DEF Root
  <2>8. Walks(Root, stack, listed)'
    BY <1>1, <2>4, <2>7, WalkKept
  <2> QED
    BY <1>2, <2>2, <2>6, <2>8 DEF WalkInv
<1> QED
  BY <1>3, <1>4

\* Listing the first directory puts its children before the rest of the stack.
LEMMA WalkList == ASSUME TypeOK, WalkInv, List PROVE WalkInv'
<1> DEFINE here == Head(stack)
           rows == host.tree[Fold(here.path)]
<1>1. /\ at = "walk" /\ stack # <<>> /\ UNCHANGED <<ask, host>>
      /\ stack \in Seq(Place) /\ listed \in Seq(Listing) /\ ask \in Asks /\ host \in Hosts
  BY DEF List, TypeOK, resolved
<1>2. CASE at' = "raised"
  BY <1>2 DEF WalkInv
<1>3. CASE /\ Fold(here.path) \in DOMAIN host.tree
           /\ listed' = Append(listed, [path |-> here.path, rows |-> rows])
           /\ stack' = (IF Descends(here.depth) THEN Children(here, rows) ELSE <<>>) \o Tail(stack)
           /\ UNCHANGED at
  <2>1. here = stack[1] /\ Len(stack) \in Nat \ {0} /\ stack[1] \in Place
    BY <1>1
  <2>2. stack' = Kids(here, rows) \o Tail(stack)
    BY <1>3 DEF Kids
  <2>3. Walks(Root, stack, listed) /\ (listed = <<>> => Len(stack) = 1)
    BY <1>1 DEF WalkInv
  <2>4. stack[1].path \in Seq(Name)
    BY <2>1 DEF Place
  <2>5. Root \in Seq(Word)
    <3>1. CASE listed = <<>>
      BY <2>4, <3>1, FoldIs DEF Root
    <3>2. CASE listed # <<>>
      <4>1. listed[1] \in Listing
        BY <1>1, <3>2
      <4>2. listed[1].path \in Seq(Name)
        BY <4>1, ListingFields
      <4> QED
        BY <3>2, <4>2, FoldIs DEF Root
    <3> QED
      BY <3>1, <3>2
  <2>6. Walks(Root, stack', listed')
    <3>1. Fold(stack[1].path) \in DOMAIN host.tree /\ Walks(Root, stack, listed)
      BY <1>3, <2>1, <2>3
    <3>2. Walks(Root, Kids(stack[1], host.tree[Fold(stack[1].path)]) \o Tail(stack),
                Append(listed, [path |-> stack[1].path, rows |-> host.tree[Fold(stack[1].path)]]))
      BY <1>1, <2>5, <3>1, WalkGoesOn
    <3> QED
      BY <1>3, <2>1, <2>2, <3>2
  <2>7. listed' # <<>> /\ Root' = Root
    <3> DEFINE new == [path |-> here.path, rows |-> rows]
    <3>1. rows \in Seq(Row) /\ new.path = here.path
      BY <1>1, <1>3, TreeIs
    <3>2. new \in Listing
      BY <2>1, <2>4, <3>1 DEF Listing
    <3>3. listed' = Append(listed, new)
      BY <1>3
    <3> HIDE DEF new, rows, here
    <3>4. listed' # <<>> /\ listed'[1] = IF listed = <<>> THEN new ELSE listed[1]
      BY <1>1, <3>2, <3>3, AppendProperties
    <3>5. Root' = Fold(listed'[1].path)
      BY <3>4 DEF Root
    <3>6. Root = Fold(listed'[1].path)
      BY <2>1, <3>1, <3>4 DEF Root
    <3> QED
      BY <3>4, <3>5, <3>6
  <2>8. Walks(Root, stack, listed)'
    BY <1>1, <2>6, <2>7, WalkKept
  <2> QED
    BY <1>1, <1>3, <2>7, <2>8 DEF WalkInv
<1> QED
  BY <1>2, <1>3 DEF List

LEMMA WalkStep == TypeOK /\ WalkInv /\ [Next]_vars => WalkInv'
<1> SUFFICES ASSUME TypeOK, WalkInv, [Next]_vars PROVE WalkInv'
  OBVIOUS
<1>1. CASE Discover
  <2>1. at = "start" /\ at' \in {"groups", "raised"} /\ listed' = listed
    BY <1>1 DEF Discover, walk
  <2> QED
    BY <2>1 DEF WalkInv
<1>2. CASE Resolve
  BY <1>2, WalkResolve
<1>3. CASE List
  BY <1>3, WalkList
<1>4. CASE ResolvePolicy
  <2>1. at' \in {"nothing", "raised", "fetch", "emit"}
    BY <1>4 DEF ResolvePolicy
  <2> QED
    BY <2>1 DEF WalkInv
<1>5. CASE Collect
  <2>1. at' \in {"fetch", "emit", "blocked"}
    BY <1>5 DEF Collect
  <2> QED
    BY <2>1 DEF WalkInv
<1>6. CASE Merge
  BY <1>6 DEF Merge, WalkInv
<1>7. CASE Emit
  <2>1. at' \in {"written", "blocked"}
    BY <1>7 DEF Emit
  <2> QED
    BY <2>1 DEF WalkInv
<1>8. CASE UNCHANGED vars
  <2>1. UNCHANGED <<ask, host, at, stack, listed>>
    BY <1>8 DEF vars
  <2>2. CASE at = "walk"
    <3>1. Walks(Root, stack, listed) /\ (listed = <<>> => Len(stack) = 1)
      BY <2>2 DEF WalkInv
    <3>2. Root' = Root
      BY <2>1 DEF Root
    <3>3. Walks(Root, stack, listed)'
      BY <2>1, <3>1, <3>2, WalkKept
    <3> QED
      BY <2>1, <2>2, <3>1, <3>3 DEF WalkInv
  <2>3. CASE at # "walk"
    BY <2>1, <2>3 DEF WalkInv
  <2> QED
    BY <2>2, <2>3
<1> QED
  BY <1>1, <1>2, <1>3, <1>4, <1>5, <1>6, <1>7, <1>8 DEF Next

\* With an empty stack nothing is left that is below one of it.
LEMMA WalkShow == TypeOK /\ WalkInv => WalkIsExact
<1> SUFFICES ASSUME TypeOK, WalkInv, at = "walk", stack = <<>>
             PROVE  /\ {Fold(listing.path) : listing \in Range(listed)} = Reachable(Fold(listed[1].path))
                    /\ \A i, j \in DOMAIN listed :
                         IsPrefix(Fold(listed[i].path), Fold(listed[j].path)) => i <= j
  BY DEF WalkIsExact, WalkIsOver
<1>1. Walks(Root, stack, listed) /\ (listed = <<>> => Len(stack) = 1)
  BY DEF WalkInv
<1>2. Len(stack) = 0 /\ ~\E i \in 1 .. Len(stack) : TRUE
  OBVIOUS
<1>3. listed # <<>> /\ Root = Fold(listed[1].path) /\ DOMAIN listed = 1 .. Len(listed)
  BY <1>1, <1>2 DEF Root, TypeOK
<1>4. \A i \in 1 .. Len(listed) : Fold(listed[i].path) \in Reachable(Root)
  BY <1>1 DEF Walks, ListedReached
<1>5. \A p \in Reachable(Root) : \E i \in 1 .. Len(listed) : p = Fold(listed[i].path)
  BY <1>1, <1>2 DEF Walks, NoneForgotten
<1>6. {Fold(listing.path) : listing \in Range(listed)} = Reachable(Root)
  BY <1>3, <1>4, <1>5 DEF Range
<1>7. ListedInOrder(listed)
  BY <1>1 DEF Walks
<1> QED
  BY <1>3, <1>6, <1>7 DEF ListedInOrder

\* Whatever tree a host has and however deep the scope lets the walk go: a walk that comes to its
\* end has listed exactly the directories that subdirectory rows lead to from its root, each once
\* and after the one it is in: see WalkIsExact.
THEOREM WalkCorrect == Spec => []WalkIsExact
<1>1. Init => WalkInv
  BY DEF Init, WalkInv
<1> QED
  BY <1>1, WalkStep, WalkShow, Typed, PTL DEF Spec

-----------------------------------------------------------------------------
(* A transcript reads back. *)

Reading == [done : Seq(Listing), open : Listing \cup {None}]
TextLine ==
  {Line("header", None), Line("rule", None)} \cup {Line("dir", path) : path \in Seq(Name)}
    \cup {Line("row", row) : row \in Row}
Begins == [done |-> <<>>, open |-> None]

LEMMA NoListing == None \notin Listing
  BY PathAssumption DEF Listing

\* What each kind of line does to a reading.
LEMMA ReadHeader ==
  ASSUME NEW state
  PROVE  Read(state, Line("header", None)) = state /\ Read(state, Line("rule", None)) = state
  BY DEF Read, Line

LEMMA ReadDir ==
  ASSUME NEW state \in Reading, NEW path \in Seq(Name)
  PROVE  /\ Read(state, Line("dir", path)) \in Reading
         /\ Read(state, Line("dir", path)).done = Flushed(state.done, state.open)
         /\ Read(state, Line("dir", path)).open = [path |-> path, rows |-> <<>>]
         /\ AtEnd(state) \in Seq(Listing)
<1> DEFINE new == [path |-> path, rows |-> <<>>]
<1>1. new \in Listing
  BY EmptySeq DEF Listing
<1>2. state.done \in Seq(Listing) /\ state.open \in Listing \cup {None}
  BY DEF Reading
<1>3. Flushed(state.done, state.open) \in Seq(Listing)
  BY <1>2, AppendProperties DEF Flushed
<1>4. Read(state, Line("dir", path)) = [done |-> Flushed(state.done, state.open), open |-> new]
  BY DEF Read, Line
<1> HIDE DEF new
<1>5. [done |-> Flushed(state.done, state.open), open |-> new] \in Reading
  BY <1>1, <1>3 DEF Reading
<1> QED
  BY <1>3, <1>4, <1>5 DEF AtEnd, new

LEMMA ReadRow ==
  ASSUME NEW state \in Reading, NEW row \in Row
  PROVE  /\ Read(state, Line("row", row)) \in Reading
         /\ state.open # None =>
              /\ state.open \in Listing
              /\ Read(state, Line("row", row)).done = state.done
              /\ Read(state, Line("row", row)).open = [path |-> state.open.path, rows |-> Append(state.open.rows, row)]
<1>1. state.done \in Seq(Listing) /\ state.open \in Listing \cup {None}
      /\ state = [done |-> state.done, open |-> state.open]
  BY DEF Reading
<1>2. CASE state.open = None
  BY <1>2 DEF Read, Line
<1>3. CASE state.open # None
  <2> DEFINE open == state.open
             more == [path |-> open.path, rows |-> Append(open.rows, row)]
  <2>1. open \in Listing /\ open.path \in Seq(Name) /\ open.rows \in Seq(Row)
        /\ open = [path |-> open.path, rows |-> open.rows]
    BY <1>1, <1>3 DEF Listing
  <2>2. more \in Listing
    <3>1. Append(open.rows, row) \in Seq(Row)
      BY <2>1, AppendProperties
    <3> QED
      BY <2>1, <3>1 DEF Listing
  <2>3. Read(state, Line("row", row)) = [state EXCEPT !.open.rows = Append(@, row)]
    BY <1>3 DEF Read, Line
  <2>4. [state EXCEPT !.open.rows = Append(@, row)] = [done |-> state.done, open |-> more]
    <3> DEFINE rows == Append(state.open.rows, row)
    <3>1. [state EXCEPT !.open.rows = Append(@, row)] = [state EXCEPT !.open = [state.open EXCEPT !.rows = rows]]
      OBVIOUS
    <3>2. more = [path |-> state.open.path, rows |-> rows] /\ state.open = [path |-> state.open.path, rows |-> state.open.rows]
      BY <2>1
    <3> HIDE DEF rows, more
    <3>3. [state.open EXCEPT !.rows = rows] = more
      BY <3>2
    <3>4. [state EXCEPT !.open = more] = [done |-> state.done, open |-> more]
      BY <1>1
    <3> QED
      BY <3>1, <3>3, <3>4
  <2> HIDE DEF more
  <2>5. [done |-> state.done, open |-> more] \in Reading
    BY <1>1, <2>2 DEF Reading
  <2> QED
    BY <2>1, <2>3, <2>4, <2>5 DEF more
<1> QED
  BY <1>2, <1>3

LEMMA ReadType == ASSUME NEW state \in Reading, NEW line \in TextLine PROVE Read(state, line) \in Reading
<1>1. CASE line \in {Line("header", None), Line("rule", None)}
  BY <1>1, ReadHeader
<1>2. CASE \E path \in Seq(Name) : line = Line("dir", path)
  BY <1>2, ReadDir
<1>3. CASE \E row \in Row : line = Line("row", row)
  BY <1>3, ReadRow
<1> QED
  BY <1>1, <1>2, <1>3 DEF TextLine

\* Reading is the loop over the lines.
LEMMA ReadingsAre ==
  ASSUME NEW lines \in Seq(TextLine)
  PROVE  /\ Readings(lines)[0] = Begins
         /\ \A n \in 1 .. Len(lines) : Readings(lines)[n] = Read(Readings(lines)[n - 1], lines[n])
         /\ \A n \in 0 .. Len(lines) : Readings(lines)[n] \in Reading
<1> DEFINE N == Len(lines)
           Solves(f) == f = [n \in 0 .. N |-> IF n = 0 THEN Begins ELSE Read(f[n - 1], lines[n])]
<1>1. N \in Nat /\ \A n \in 1 .. N : lines[n] \in TextLine
  OBVIOUS
<1>2. Begins \in Reading
  BY EmptySeq DEF Begins, Reading
<1> HIDE DEF N
<1>3. \E f : Solves(f) /\ f \in [0 .. N -> Reading]
  <2> DEFINE step == [x \in (1 .. N) \X Reading |-> Read(x[2], lines[x[1]])]
  <2>1. step \in [(1 .. N) \X Reading -> Reading]
    BY <1>1, ReadType
  <2> HIDE DEF step
  <2>2. PICK f : IsLoop(f, Reading, Begins, N, step)
    BY <1>1, <1>2, <2>1, Recursion
  <2>3. f \in [0 .. N -> Reading] /\ f[0] = Begins /\ \A n \in 1 .. N : f[n] = step[<<n, f[n - 1]>>]
    BY <2>2 DEF IsLoop
  <2>4. \A n \in 1 .. N : n - 1 \in 0 .. N
    BY <1>1
  <2>5. \A n \in 1 .. N : f[n] = Read(f[n - 1], lines[n])
    BY <1>1, <2>3, <2>4 DEF step
  <2>6. \A n \in 0 .. N : f[n] = IF n = 0 THEN Begins ELSE Read(f[n - 1], lines[n])
    <3> SUFFICES ASSUME NEW n \in 0 .. N PROVE f[n] = IF n = 0 THEN Begins ELSE Read(f[n - 1], lines[n])
      OBVIOUS
    <3>1. n = 0 \/ n \in 1 .. N
      BY <1>1
    <3> QED
      BY <1>1, <2>3, <2>5, <3>1
  <2>7. f = [n \in 0 .. N |-> f[n]]
    BY <2>3
  <2>8. Solves(f)
    BY <2>6, <2>7
  <2> HIDE DEF Solves
  <2> QED
    BY <2>3, <2>8
<1> DEFINE r == Readings(lines)
<1>4. Readings(lines) = CHOOSE f : Solves(f)
  BY DEF Readings, N, Begins
<1>5. Solves(r)
  <2> HIDE DEF Solves
  <2> QED
    BY <1>3, <1>4, Zenon
<1> HIDE DEF r
<1>6. \A n \in 0 .. N : r[n] = IF n = 0 THEN Begins ELSE Read(r[n - 1], lines[n])
  <2>1. r = [n \in 0 .. N |-> IF n = 0 THEN Begins ELSE Read(r[n - 1], lines[n])]
    BY <1>5
  <2> QED
    BY <2>1
<1>7. r[0] = Begins
  BY <1>1, <1>6
<1>8. \A n \in 1 .. N : r[n] = Read(r[n - 1], lines[n])
  <2> SUFFICES ASSUME NEW n \in 1 .. N PROVE r[n] = Read(r[n - 1], lines[n])
    OBVIOUS
  <2>1. n \in 0 .. N /\ n # 0
    BY <1>1
  <2> QED
    BY <1>6, <2>1
<1>9. \A n \in 0 .. N : r[n] \in Reading
  <2> DEFINE T == {n \in Nat : n <= N => r[n] \in Reading}
  <2>1. 0 \in T
    BY <1>2, <1>7
  <2>2. ASSUME NEW n \in Nat, n \in T PROVE n + 1 \in T
    <3> SUFFICES ASSUME n + 1 <= N PROVE r[n + 1] \in Reading
      OBVIOUS
    <3>1. n + 1 \in 1 .. N /\ (n + 1) - 1 = n /\ n <= N
      BY <1>1
    <3>2. r[n] \in Reading
      BY <2>2, <3>1
    <3>3. r[n + 1] = Read(r[n], lines[n + 1]) /\ lines[n + 1] \in TextLine
      BY <1>1, <1>8, <3>1
    <3> QED
      BY <3>2, <3>3, ReadType
  <2>3. Nat \subseteq T
    <3> HIDE DEF T
    <3> QED
      BY <2>1, <2>2, SetInduction
  <2> QED
    BY <1>1, <2>3
<1> QED
  BY <1>7, <1>8, <1>9 DEF r, N

\* The lines of one listing.
Chunk(listing) == <<Line("dir", listing.path), Line("rule", None)>> \o Rows(listing)

\* A directory is a line for its path, one for the rule and one for each row.
LEMMA ChunkIs ==
  ASSUME NEW listing \in Listing
  PROVE  /\ Chunk(listing) \in Seq(TextLine) /\ Len(Chunk(listing)) = Len(listing.rows) + 2
         /\ Chunk(listing)[1] = Line("dir", listing.path) /\ Chunk(listing)[2] = Line("rule", None)
         /\ \A k \in 1 .. Len(listing.rows) : Chunk(listing)[k + 2] = Line("row", listing.rows[k])
<1> DEFINE first == Line("dir", listing.path)
           second == Line("rule", None)
           rows == Rows(listing)
           N == Len(listing.rows)
           front == <<first, second>>
<1>1. /\ listing.path \in Seq(Name) /\ N \in Nat /\ DOMAIN listing.rows = 1 .. N
      /\ \A k \in 1 .. N : listing.rows[k] \in Row
  BY ListingFields
<1>2. first \in TextLine /\ second \in TextLine
  BY <1>1 DEF TextLine
<1>3. /\ rows \in Seq(TextLine) /\ Len(rows) = N
      /\ \A k \in 1 .. N : rows[k] = Line("row", listing.rows[k])
  <2>1. rows = [k \in 1 .. N |-> Line("row", listing.rows[k])]
    BY <1>1 DEF Rows
  <2>2. \A k \in 1 .. N : Line("row", listing.rows[k]) \in TextLine
    BY <1>1 DEF TextLine
  <2> HIDE DEF rows, N
  <2>3. rows \in [1 .. N -> TextLine]
    BY <2>1, <2>2
  <2> QED
    BY <1>1, <2>1, <2>3
<1> HIDE DEF rows, first, second, N
<1>4. front \in Seq(TextLine) /\ Len(front) = 2 /\ front[1] = first /\ front[2] = second
  BY <1>2
<1> HIDE DEF front
<1>5. /\ front \o rows \in Seq(TextLine) /\ Len(front \o rows) = N + 2
      /\ \A k \in 1 .. 2 : (front \o rows)[k] = front[k]
      /\ \A k \in 1 .. N : (front \o rows)[2 + k] = rows[k]
  <2>1. /\ front \o rows \in Seq(TextLine) /\ Len(front \o rows) = Len(front) + Len(rows)
        /\ \A k \in 1 .. Len(front) : (front \o rows)[k] = front[k]
        /\ \A k \in 1 .. Len(rows) : (front \o rows)[Len(front) + k] = rows[k]
    <3>1. front \in Seq(TextLine) /\ rows \in Seq(TextLine)
      BY <1>3, <1>4
    <3> QED
      BY <3>1, ConcatPlaces
  <2> QED
    BY <1>1, <1>3, <1>4, <2>1
<1>6. Chunk(listing) = front \o rows
  BY DEF Chunk, front, rows, first, second
<1>7. \A k \in 1 .. N : 2 + k = k + 2
  BY <1>1
<1> QED
  BY <1>3, <1>4, <1>5, <1>6, <1>7 DEF first, second, N

\* A directory more is its chunk at the end of the text.
LEMMA TranscriptAppend ==
  ASSUME NEW inv \in Seq(Listing), NEW listing \in Listing, ToTranscript(inv) \in Seq(TextLine)
  PROVE  ToTranscript(Append(inv, listing)) = ToTranscript(inv) \o Chunk(listing)
<1> DEFINE more == Append(inv, listing)
           chunks == [i \in DOMAIN inv |-> Chunk(inv[i])]
           chunks2 == [i \in DOMAIN more |-> Chunk(more[i])]
           N == Len(inv)
<1>1. /\ N \in Nat /\ DOMAIN inv = 1 .. N /\ more \in Seq(Listing) /\ DOMAIN more = 1 .. N + 1 /\ Len(more) = N + 1
      /\ \A i \in 1 .. N : more[i] = inv[i] /\ inv[i] \in Listing
      /\ more[N + 1] = listing
  <2>1. more \in Seq(Listing) /\ Len(more) = N + 1 /\ (\A i \in 1 .. N : more[i] = inv[i]) /\ more[N + 1] = listing
    BY AppendProperties
  <2> HIDE DEF more
  <2> QED
    BY <2>1
<1> HIDE DEF more, N
<1>2. \A l \in Listing : Chunk(l) \in Seq(TextLine)
  BY ChunkIs
<1> DEFINE all == Seq(TextLine)
<1> HIDE DEF all
<1>3. chunks \in Seq(all) /\ Len(chunks) = N /\ \A i \in 1 .. N : chunks[i] = Chunk(inv[i])
  <2>1. chunks = [i \in 1 .. N |-> Chunk(inv[i])]
    BY <1>1
  <2>2. \A i \in 1 .. N : Chunk(inv[i]) \in all
    BY <1>1, <1>2 DEF all
  <2> HIDE DEF chunks
  <2>3. chunks \in [1 .. N -> all]
    BY <2>1, <2>2
  <2> QED
    BY <1>1, <2>1, <2>3
<1>4. chunks2 \in Seq(all) /\ Len(chunks2) = N + 1 /\ \A i \in 1 .. N + 1 : chunks2[i] = Chunk(more[i])
  <2>1. chunks2 = [i \in 1 .. N + 1 |-> Chunk(more[i])]
    BY <1>1
  <2>2. \A i \in 1 .. N + 1 : more[i] \in Listing
    BY <1>1
  <2>3. \A i \in 1 .. N + 1 : Chunk(more[i]) \in all
    BY <1>2, <2>2 DEF all
  <2> HIDE DEF chunks2
  <2>4. chunks2 \in [1 .. N + 1 -> all]
    BY <2>1, <2>3
  <2> QED
    BY <1>1, <2>1, <2>4
<1> HIDE DEF chunks, chunks2
<1> DEFINE last == Chunk(listing)
<1>5. last \in all
  BY <1>2 DEF all
<1> HIDE DEF last
<1>6. chunks2 = Append(chunks, last)
  <2> DEFINE to == Append(chunks, last)
  <2>1. /\ to \in Seq(all) /\ Len(to) = N + 1 /\ (\A i \in 1 .. N : to[i] = chunks[i]) /\ to[N + 1] = last
    BY <1>3, <1>5, AppendProperties
  <2> HIDE DEF to
  <2>2. \A i \in 1 .. N + 1 : chunks2[i] = to[i]
    <3> SUFFICES ASSUME NEW i \in 1 .. N + 1 PROVE chunks2[i] = to[i]
      OBVIOUS
    <3>1. i = N + 1 \/ i \in 1 .. N
      BY <1>1
    <3> QED
      BY <1>1, <1>3, <1>4, <2>1, <3>1 DEF last
  <2>3. chunks2 = to
    BY <1>4, <2>1, <2>2, SeqEqual
  <2> QED
    BY <2>3 DEF to
<1>7. FlattenSeq(chunks2) = FlattenSeq(chunks) \o last
  BY <1>3, <1>5, <1>6, FlattenAppend DEF all
<1>8. FlattenSeq(chunks) \in Seq(TextLine)
  BY <1>3, FlattenElements DEF all
<1> DEFINE header == <<Line("header", None)>>
<1>9. header \in Seq(TextLine)
  BY DEF TextLine
<1>10. ToTranscript(inv) = header \o FlattenSeq(chunks) /\ ToTranscript(more) = header \o FlattenSeq(chunks2)
  BY DEF ToTranscript, chunks, chunks2, Chunk
<1> DEFINE flat == FlattenSeq(chunks)
<1>11. last \in Seq(TextLine) /\ flat \in Seq(TextLine)
  BY <1>5, <1>8 DEF all
<1> HIDE DEF header, flat
<1>12. (header \o flat) \o last = header \o (flat \o last)
  <2>1. ASSUME NEW s \in Seq(TextLine), NEW t \in Seq(TextLine), NEW u \in Seq(TextLine)
        PROVE  (s \o t) \o u = s \o (t \o u)
    OBVIOUS
  <2> HIDE DEF last
  <2> QED
    BY <1>9, <1>11, <2>1
<1> QED
  BY <1>7, <1>10, <1>12 DEF more, last, flat

\* A beginning of an inventory.
IsCut(part, inv) ==
  /\ part \in Seq(Listing) /\ Len(part) <= Len(inv)
  /\ \A i \in 1 .. Len(part) :
       /\ part[i].path = inv[i].path /\ IsPrefix(part[i].rows, inv[i].rows)
       /\ i < Len(part) => part[i].rows = inv[i].rows

ReadsBack(inv) ==
  /\ ToTranscript(inv) \in Seq(TextLine)
  /\ AtEnd(Readings(ToTranscript(inv))[Len(ToTranscript(inv))]) = inv
  /\ \A n \in 0 .. Len(ToTranscript(inv)) : IsCut(AtEnd(Readings(ToTranscript(inv))[n]), inv)

LEMMA EmptyReadsBack == ReadsBack(<<>>)
<1> DEFINE inv == <<>>
           lines == ToTranscript(inv)
           r == Readings(lines)
           header == Line("header", None)
<1>1. inv \in Seq(Listing) /\ Len(inv) = 0 /\ DOMAIN inv = {}
  OBVIOUS
<1>2. lines = <<header>>
  <2> DEFINE chunks == [i \in DOMAIN inv |-> <<Line("dir", inv[i].path), Line("rule", None)>> \o Rows(inv[i])]
  <2>1. chunks = <<>>
    BY <1>1
  <2>2. FlattenSeq(chunks) = <<>>
    <3>1. Len(chunks) = 0
      BY <2>1
    <3> QED
      BY <2>1, <3>1, FlattenIs
  <2>3. lines = <<header>> \o FlattenSeq(chunks)
    BY DEF ToTranscript
  <2> HIDE DEF chunks, header, lines
  <2> QED
    BY <2>2, <2>3
<1>3. header \in TextLine
  BY DEF TextLine
<1> HIDE DEF lines, header
<1>4. lines \in Seq(TextLine) /\ Len(lines) = 1 /\ lines[1] = header
  BY <1>2, <1>3
<1>5. r[0] = Begins /\ r[1] = Read(r[0], header)
  <2>1. 1 \in 1 .. Len(lines) /\ 1 - 1 = 0
    BY <1>4
  <2>2. r[0] = Begins /\ \A n \in 1 .. Len(lines) : r[n] = Read(r[n - 1], lines[n])
    BY <1>4, ReadingsAre
  <2> QED
    BY <1>4, <2>1, <2>2
<1>6. r[1] = Begins
  BY <1>5, ReadHeader DEF header
<1>7. AtEnd(Begins) = inv
  BY DEF AtEnd, Begins, Flushed
<1> HIDE DEF r, inv
<1>8. IsCut(inv, inv)
  BY <1>1 DEF IsCut
<1>9. \A n \in 0 .. Len(lines) : r[n] = Begins
  BY <1>4, <1>5, <1>6
<1>10. ReadsBack(inv)
  BY <1>4, <1>7, <1>8, <1>9 DEF ReadsBack, r, lines
<1> QED
  BY <1>10 DEF inv

\* Cuts of an inventory are cuts of a longer one; so is the inventory with a beginning of one
\* more listing.
LEMMA CutAppend ==
  ASSUME NEW inv \in Seq(Listing), NEW listing \in Listing, NEW part, IsCut(part, inv)
  PROVE  IsCut(part, Append(inv, listing))
<1> DEFINE more == Append(inv, listing)
<1>1. Len(more) = Len(inv) + 1 /\ Len(inv) \in Nat /\ \A i \in 1 .. Len(inv) : more[i] = inv[i]
  BY AppendProperties
<1> HIDE DEF more
<1>2. part \in Seq(Listing) /\ Len(part) \in Nat /\ Len(part) <= Len(inv)
  BY DEF IsCut
<1>3. \A i \in 1 .. Len(part) : i \in 1 .. Len(inv)
  BY <1>1, <1>2
<1>4. Len(part) <= Len(more)
  BY <1>1, <1>2
<1>5. IsCut(part, more)
  BY <1>1, <1>2, <1>3, <1>4 DEF IsCut
<1> QED
  BY <1>5 DEF more

\* An inventory cut inside its last directory is a beginning of it.
LEMMA CutInside ==
  ASSUME NEW inv \in Seq(Listing), NEW listing \in Listing, NEW open \in Listing,
         open.path = listing.path, IsPrefix(open.rows, listing.rows)
  PROVE  IsCut(Append(inv, open), Append(inv, listing))
<1> DEFINE part == Append(inv, open)
           more == Append(inv, listing)
           N == Len(inv)
<1>1. /\ Len(more) = N + 1 /\ N \in Nat /\ (\A i \in 1 .. N : more[i] = inv[i]) /\ more[N + 1] = listing
  BY AppendProperties
<1>2. /\ Len(part) = N + 1 /\ part \in Seq(Listing) /\ (\A i \in 1 .. N : part[i] = inv[i]) /\ part[N + 1] = open
  BY AppendProperties
<1> HIDE DEF part, more
<1>3. \A i \in 1 .. N : IsPrefix(inv[i].rows, inv[i].rows)
  <2> SUFFICES ASSUME NEW i \in 1 .. N PROVE IsPrefix(inv[i].rows, inv[i].rows)
    OBVIOUS
  <2>1. inv[i] \in Listing
    OBVIOUS
  <2>2. inv[i].rows \in Seq(Row)
    BY <2>1, ListingFields
  <2> QED
    BY <2>2, PrefixIs
<1> HIDE DEF N
<1>4. ASSUME NEW i \in 1 .. Len(part)
      PROVE  /\ part[i].path = more[i].path /\ IsPrefix(part[i].rows, more[i].rows)
             /\ i < Len(part) => part[i].rows = more[i].rows
  <2>1. CASE i \in 1 .. N
    BY <1>1, <1>2, <1>3, <2>1
  <2>2. CASE i = N + 1
    BY <1>1, <1>2, <2>2
  <2> QED
    BY <1>1, <1>2, <2>1, <2>2
<1>5. IsCut(part, more)
  BY <1>1, <1>2, <1>4 DEF IsCut
<1> QED
  BY <1>5 DEF part, more

\* What was read of the first lines is read of any text that begins with them.
LEMMA ReadingsAgree ==
  ASSUME NEW lines \in Seq(TextLine), NEW more \in Seq(TextLine), Len(lines) <= Len(more),
         \A n \in 1 .. Len(lines) : more[n] = lines[n]
  PROVE  \A n \in 0 .. Len(lines) : Readings(more)[n] = Readings(lines)[n]
<1> DEFINE r == Readings(lines)
           q == Readings(more)
           T == {n \in Nat : n <= Len(lines) => q[n] = r[n]}
<1>1. /\ r[0] = Begins /\ Len(lines) \in Nat
      /\ \A n \in 1 .. Len(lines) : r[n] = Read(r[n - 1], lines[n])
  BY ReadingsAre
<1>2. /\ q[0] = Begins /\ Len(more) \in Nat
      /\ \A n \in 1 .. Len(more) : q[n] = Read(q[n - 1], more[n])
  BY ReadingsAre
<1> HIDE DEF r, q
<1>3. 0 \in T
  BY <1>1, <1>2
<1>4. ASSUME NEW n \in Nat, n \in T PROVE n + 1 \in T
  <2> SUFFICES ASSUME n + 1 <= Len(lines) PROVE q[n + 1] = r[n + 1]
    OBVIOUS
  <2>1. n + 1 \in 1 .. Len(lines) /\ n + 1 \in 1 .. Len(more) /\ (n + 1) - 1 = n /\ n <= Len(lines)
    BY <1>1, <1>2
  <2>2. q[n] = r[n]
    BY <1>4, <2>1
  <2>3. r[n + 1] = Read(r[n], lines[n + 1])
    BY <1>1, <2>1
  <2>4. q[n + 1] = Read(q[n], more[n + 1])
    BY <1>2, <2>1
  <2> QED
    BY <2>1, <2>2, <2>3, <2>4
<1>5. Nat \subseteq T
  <2> HIDE DEF T
  <2> QED
    BY <1>3, <1>4, SetInduction
<1> QED
  BY <1>1, <1>5 DEF r, q

\* Where the row k + 1 of a chunk of N rows is, after a text of L lines.
LEMMA RowPlaces ==
  ASSUME NEW L \in Nat, NEW N \in Nat, NEW k \in Nat, k + 1 <= N, NEW M, M = L + N + 2, NEW C, C = N + 2
  PROVE  /\ (L + 2 + k) + 1 \in 1 .. M /\ ((L + 2 + k) + 1) - 1 = L + 2 + k /\ L + 2 + k \in 0 .. M
         /\ (L + 2 + k) + 1 = L + (k + 1 + 2)
         /\ k + 1 + 2 \in 1 .. C /\ k + 1 \in 1 .. N /\ L + 2 + (k + 1) = (L + 2 + k) + 1
  OBVIOUS

\* After the lines of inv the reading has inv; each line of the chunk adds to the last directory.
LEMMA ReadsOn ==
  ASSUME NEW inv \in Seq(Listing), NEW listing \in Listing, ReadsBack(inv)
  PROVE  ReadsBack(Append(inv, listing))
<1> DEFINE inv2 == Append(inv, listing)
           lines == ToTranscript(inv)
           chunk == Chunk(listing)
           more == ToTranscript(inv2)
           r == Readings(lines)
           q == Readings(more)
           L == Len(lines)
           N == Len(listing.rows)
           path == listing.path
           rows == listing.rows
<1>1. lines \in Seq(TextLine) /\ L \in Nat /\ AtEnd(r[L]) = inv /\ \A n \in 0 .. L : IsCut(AtEnd(r[n]), inv)
  BY DEF ReadsBack
<1>2. path \in Seq(Name) /\ rows \in Seq(Row) /\ N \in Nat /\ \A k \in 1 .. N : rows[k] \in Row
  BY ListingFields
<1>3. /\ chunk \in Seq(TextLine) /\ Len(chunk) = N + 2
      /\ chunk[1] = Line("dir", path) /\ chunk[2] = Line("rule", None)
      /\ \A k \in 1 .. N : chunk[k + 2] = Line("row", rows[k])
  BY ChunkIs
<1>4. more = lines \o chunk
  BY <1>1, TranscriptAppend
<1> HIDE DEF lines, chunk, more, N, rows, path
<1>5. /\ more \in Seq(TextLine) /\ Len(more) = L + Len(chunk)
      /\ \A k \in 1 .. L : more[k] = lines[k]
      /\ \A k \in 1 .. Len(chunk) : more[L + k] = chunk[k]
  <2>1. lines \in Seq(TextLine) /\ chunk \in Seq(TextLine)
    BY <1>1, <1>3
  <2> QED
    BY <1>4, <2>1, ConcatPlaces
<1> HIDE DEF L
<1>6. /\ L \in Nat /\ N \in Nat /\ Len(chunk) = N + 2 /\ Len(more) = L + N + 2 /\ L <= Len(more)
  <2>1. L \in Nat /\ N \in Nat /\ Len(chunk) = N + 2 /\ Len(more) = L + Len(chunk)
    BY <1>1, <1>2, <1>3, <1>5
  <2> QED
    BY <2>1
<1>7. \A n \in 0 .. L : q[n] = r[n]
  BY <1>1, <1>5, <1>6, ReadingsAgree DEF L
<1>8. /\ \A n \in 1 .. Len(more) : q[n] = Read(q[n - 1], more[n])
      /\ \A n \in 0 .. Len(more) : q[n] \in Reading
  BY <1>5, ReadingsAre
<1> HIDE DEF q, r
<1>9. q[L] \in Reading /\ AtEnd(q[L]) = inv
  BY <1>1, <1>6, <1>7, <1>8
<1> DEFINE Holds(n, k) ==
             /\ q[n].done = inv /\ q[n].open \in Listing /\ q[n].open.path = path /\ Len(q[n].open.rows) = k
             /\ \A i \in 1 .. k : q[n].open.rows[i] = rows[i]
<1>10. Holds(L + 1, 0)
  <2>1. L + 1 \in 1 .. Len(more) /\ (L + 1) - 1 = L /\ 1 \in 1 .. Len(chunk)
    BY <1>6
  <2>2. q[L + 1] = Read(q[L], Line("dir", path))
    <3>1. more[L + 1] = Line("dir", path)
      BY <1>3, <1>5, <2>1
    <3>2. q[L + 1] = Read(q[(L + 1) - 1], more[L + 1])
      BY <1>8, <2>1
    <3> QED
      BY <2>1, <3>1, <3>2
  <2>3. q[L + 1].done = inv /\ q[L + 1].open = [path |-> path, rows |-> <<>>]
    BY <1>2, <1>9, <2>2, ReadDir DEF AtEnd
  <2>4. [path |-> path, rows |-> <<>>] \in Listing
    BY <1>2, EmptySeq DEF Listing
  <2> QED
    BY <2>3, <2>4
<1>11. Holds(L + 2, 0)
  <2>1. L + 2 \in 1 .. Len(more) /\ (L + 2) - 1 = L + 1 /\ 2 \in 1 .. Len(chunk)
    BY <1>6
  <2>2. q[L + 2] = Read(q[L + 1], Line("rule", None))
    <3>1. more[L + 2] = Line("rule", None)
      BY <1>3, <1>5, <2>1
    <3>2. q[L + 2] = Read(q[(L + 2) - 1], more[L + 2])
      BY <1>8, <2>1
    <3> QED
      BY <2>1, <3>1, <3>2
  <2>3. q[L + 2] = q[L + 1]
    BY <2>2, ReadHeader
  <2> QED
    BY <1>10, <2>3
<1>12. ASSUME NEW k \in Nat, k + 1 <= N, Holds(L + 2 + k, k) PROVE Holds(L + 2 + (k + 1), k + 1)
  <2> DEFINE n == L + 2 + k
             old == q[n].open
  <2>1. /\ n + 1 \in 1 .. Len(more) /\ (n + 1) - 1 = n /\ n \in 0 .. Len(more) /\ n + 1 = L + (k + 1 + 2)
        /\ k + 1 + 2 \in 1 .. Len(chunk) /\ k + 1 \in 1 .. N /\ L + 2 + (k + 1) = n + 1
    BY <1>6, <1>12, RowPlaces
  <2>2. more[n + 1] = Line("row", rows[k + 1])
    BY <1>3, <1>5, <2>1
  <2>3. q[n + 1] = Read(q[n], Line("row", rows[k + 1])) /\ q[n] \in Reading
    BY <1>8, <2>1, <2>2
  <2>4. rows[k + 1] \in Row
    BY <1>2, <2>1
  <2>5. /\ q[n].done = inv /\ old \in Listing /\ old.path = path /\ Len(old.rows) = k
        /\ \A i \in 1 .. k : old.rows[i] = rows[i]
    BY <1>12
  <2> HIDE DEF n
  <2>6. old # None
    BY <2>5, NoListing
  <2> DEFINE new == Append(old.rows, rows[k + 1])
  <2>7. q[n + 1].done = inv /\ q[n + 1].open = [path |-> path, rows |-> new] /\ q[n + 1] \in Reading
    <3> DEFINE row == rows[k + 1]
               state == q[n]
    <3>1. state \in Reading /\ row \in Row /\ state.open # None
      BY <2>3, <2>4, <2>6
    <3> HIDE DEF state, row
    <3>2. /\ Read(state, Line("row", row)) \in Reading
          /\ Read(state, Line("row", row)).done = state.done
          /\ Read(state, Line("row", row)).open = [path |-> state.open.path, rows |-> Append(state.open.rows, row)]
      BY <3>1, ReadRow
    <3> QED
      BY <2>3, <2>5, <3>2 DEF state, row
  <2>8. old.rows \in Seq(Row)
    BY <2>5, ListingFields
  <2>9. new \in Seq(Row) /\ Len(new) = k + 1 /\ (\A i \in 1 .. k : new[i] = old.rows[i]) /\ new[k + 1] = rows[k + 1]
    BY <2>4, <2>5, <2>8, AppendProperties
  <2> HIDE DEF new
  <2>10. [path |-> path, rows |-> new] \in Listing
    BY <1>2, <2>9 DEF Listing
  <2>11. \A i \in 1 .. k + 1 : new[i] = rows[i]
    BY <2>5, <2>9
  <2>12. Holds(n + 1, k + 1)
    BY <2>7, <2>9, <2>10, <2>11
  <2> QED
    BY <2>1, <2>12
<1>13. ASSUME NEW k \in 0 .. N PROVE Holds(L + 2 + k, k)
  <2> DEFINE T == {m \in Nat : m <= N => Holds(L + 2 + m, m)}
  <2>1. 0 \in T
    <3>1. L + 2 + 0 = L + 2
      BY <1>1
    <3> QED
      BY <1>11, <3>1
  <2>2. ASSUME NEW m \in Nat, m \in T PROVE m + 1 \in T
    <3> HIDE DEF Holds
    <3>1. m + 1 <= N => m <= N
      BY <1>2
    <3> QED
      BY <1>12, <2>2, <3>1
  <2>3. Nat \subseteq T
    <3> HIDE DEF T
    <3> QED
      BY <2>1, <2>2, SetInduction
  <2> HIDE DEF Holds
  <2> QED
    BY <1>2, <2>3
<1>14. ASSUME NEW n \in Nat, NEW k \in 0 .. N, Holds(n, k)
       PROVE  IsCut(AtEnd(q[n]), inv2) /\ (k = N => AtEnd(q[n]) = inv2)
  <2> DEFINE open == q[n].open
  <2>1. q[n].done = inv /\ open \in Listing /\ open.path = path /\ Len(open.rows) = k
        /\ \A i \in 1 .. k : open.rows[i] = rows[i]
    BY <1>14
  <2> HIDE DEF open
  <2>2. AtEnd(q[n]) = Append(inv, open)
    <3>1. open # None
      BY <2>1, NoListing
    <3> QED
      BY <2>1, <3>1 DEF AtEnd, Flushed, open
  <2>3. open.rows \in Seq(Row) /\ open = [path |-> open.path, rows |-> open.rows]
    BY <2>1 DEF Listing
  <2>4. IsPrefix(open.rows, rows)
    <3> DEFINE some == open.rows
    <3>1. N = Len(rows)
      BY DEF N, rows
    <3>2. some \in Seq(Row) /\ Len(some) <= Len(rows) /\ \A i \in 1 .. Len(some) : some[i] = rows[i]
      BY <1>2, <2>1, <2>3, <3>1
    <3> HIDE DEF some
    <3>3. IsPrefix(some, rows)
      BY <1>2, <3>2, PrefixIs
    <3> QED
      BY <3>3 DEF some
  <2>5. IsCut(Append(inv, open), Append(inv, listing))
    BY <2>1, <2>4, CutInside DEF path, rows
  <2>6. ASSUME k = N PROVE open = listing
    <3>1. open.rows = rows
      BY <1>2, <2>1, <2>3, <2>6, SeqEqual DEF N, rows
    <3>2. listing = [path |-> listing.path, rows |-> listing.rows]
      BY DEF Listing
    <3> QED
      BY <2>1, <2>3, <3>1, <3>2 DEF path, rows
  <2> QED
    BY <2>2, <2>5, <2>6
<1>15. AtEnd(q[Len(more)]) = inv2
  <2>1. Len(more) = L + 2 + N /\ N \in 0 .. N /\ L + 2 + N \in Nat
    BY <1>1, <1>2, <1>6
  <2>2. Holds(L + 2 + N, N)
    BY <1>13, <2>1
  <2> HIDE DEF Holds, inv2
  <2> QED
    BY <1>14, <2>1, <2>2
<1>16. ASSUME NEW n \in 0 .. Len(more) PROVE IsCut(AtEnd(q[n]), inv2)
  <2>1. CASE n \in 0 .. L
    BY <1>1, <1>7, <2>1, CutAppend
  <2>2. CASE n = L + 1
    <3>1. 0 \in 0 .. N /\ L + 1 \in Nat
      BY <1>1, <1>2
    <3> HIDE DEF Holds, inv2
    <3> QED
      BY <1>10, <1>14, <2>2, <3>1
  <2>3. CASE n \in L + 2 .. Len(more)
    <3>1. n - L - 2 \in 0 .. N /\ L + 2 + (n - L - 2) = n /\ n \in Nat
      BY <1>1, <1>2, <1>6, <2>3
    <3>2. Holds(n, n - L - 2)
      <4> HIDE DEF Holds
      <4> QED
        BY <1>13, <3>1
    <3> HIDE DEF Holds, inv2
    <3> QED
      BY <1>14, <3>1, <3>2
  <2> QED
    BY <1>1, <1>6, <2>1, <2>2, <2>3
<1>17. ReadsBack(inv2)
  <2> HIDE DEF inv2
  <2> QED
    BY <1>5, <1>15, <1>16 DEF ReadsBack, q, more
<1> QED
  BY <1>17

\* By induction on the number of directories.
LEMMA EveryInventoryReadsBack == \A inv \in Seq(Listing) : ReadsBack(inv)
<1> DEFINE T == {n \in Nat : \A inv \in Seq(Listing) : Len(inv) = n => ReadsBack(inv)}
<1>1. 0 \in T
  <2> SUFFICES ASSUME NEW inv \in Seq(Listing), Len(inv) = 0 PROVE ReadsBack(inv)
    OBVIOUS
  <2>1. inv = <<>>
    OBVIOUS
  <2> QED
    BY <2>1, EmptyReadsBack, Zenon
<1>2. ASSUME NEW n \in Nat, n \in T PROVE n + 1 \in T
  <2> SUFFICES ASSUME NEW inv \in Seq(Listing), Len(inv) = n + 1 PROVE ReadsBack(inv)
    OBVIOUS
  <2> DEFINE front == SubSeq(inv, 1, n)
             last == inv[n + 1]
  <2>1. /\ front \in Seq(Listing) /\ Len(front) = n /\ last \in Listing
        /\ \A i \in 1 .. n : front[i] = inv[i]
    OBVIOUS
  <2> HIDE DEF front, last
  <2> DEFINE to == Append(front, last)
  <2>2. /\ to \in Seq(Listing) /\ Len(to) = n + 1
        /\ (\A i \in 1 .. n : to[i] = front[i]) /\ to[n + 1] = last
    BY <2>1, AppendProperties
  <2> HIDE DEF to
  <2>3. \A i \in 1 .. n + 1 : inv[i] = to[i]
    <3> SUFFICES ASSUME NEW i \in 1 .. n + 1 PROVE inv[i] = to[i]
      OBVIOUS
    <3>1. i = n + 1 \/ i \in 1 .. n
      OBVIOUS
    <3> QED
      BY <2>1, <2>2, <3>1 DEF last
  <2>4. inv = to
    BY <2>2, <2>3, SeqEqual
  <2>5. ReadsBack(front)
    BY <1>2, <2>1
  <2>6. ReadsBack(to)
    BY <2>1, <2>5, ReadsOn DEF to
  <2> QED
    BY <2>4, <2>6
<1>3. Nat \subseteq T
  <2> HIDE DEF T
  <2> QED
    BY <1>1, <1>2, SetInduction
<1> SUFFICES ASSUME NEW inv \in Seq(Listing) PROVE ReadsBack(inv)
  OBVIOUS
<1>4. Len(inv) \in T
  <2> HIDE DEF T
  <2> QED
    BY <1>3
<1> QED
  BY <1>4

LEMMA TranscriptShows == TypeOK => TranscriptReadsBack
<1> SUFFICES ASSUME TypeOK
             PROVE  /\ AtEnd(Readings(ToTranscript(listed))[Len(ToTranscript(listed))]) = listed
                    /\ \A n \in 0 .. Len(ToTranscript(listed)) :
                         LET part == AtEnd(Readings(ToTranscript(listed))[n])
                         IN  \A i \in DOMAIN part :
                               /\ part[i].path = listed[i].path /\ IsPrefix(part[i].rows, listed[i].rows)
                               /\ i < Len(part) => part[i].rows = listed[i].rows
  BY DEF TranscriptReadsBack
<1>1. ReadsBack(listed)
  BY EveryInventoryReadsBack DEF TypeOK
<1>2. ASSUME NEW part, IsCut(part, listed), NEW i \in DOMAIN part
      PROVE  /\ part[i].path = listed[i].path /\ IsPrefix(part[i].rows, listed[i].rows)
             /\ i < Len(part) => part[i].rows = listed[i].rows
  <2>1. DOMAIN part = 1 .. Len(part)
    BY <1>2 DEF IsCut
  <2> QED
    BY <1>2, <2>1 DEF IsCut
<1> QED
  BY <1>1, <1>2 DEF ReadsBack

\* Whatever was listed, the transcript of it reads back as the same inventory, and the first
\* lines of it as a beginning of that, with at most its last listing cut short: see
\* TranscriptReadsBack.  It holds at every moment of a run, not only when its walk is over.
THEOREM TranscriptCorrect == Spec => []TranscriptReadsBack
  BY Typed, TranscriptShows, PTL

-----------------------------------------------------------------------------
(* Scripts are mapped, and blocked for a cause. *)

\* A database has a PDB with that GUID.
Answers(db, g, pdb) == g \in DOMAIN host.pdbs[db] /\ pdb = host.pdbs[db][g]

\* What was fetched is what databases answered that were asked; so are those still to ask.
FetchedFrom(f) == \A g \in DOMAIN f : \E db \in AskedDatabases : Answers(db, g, f[g])
LeftAsked(l) == \A i \in 1 .. Len(l) : l[i].word \in AskedDatabases

\* The database of an alias is still to ask, or its GUIDs were fetched.
AllAsked(l, f) ==
  \A k \in 1 .. Len(Aliases) :
    \/ \E i \in 1 .. Len(l) : l[i].word = Aliases[k].db.word
    \/ DOMAIN host.pdbs[Aliases[k].db.word] \subseteq DOMAIN f

\* A map has the manual PDBs, and otherwise answers.
MapFrom(m) ==
  \A g \in DOMAIN m :
    IF g \in DOMAIN ask.policy.manual THEN m[g] = ask.policy.manual[g]
    ELSE \E db \in AskedDatabases : Answers(db, g, m[g])

\* Why a map may lack a GUID: no fetch was to be made, or every database was asked.
MapCause(m, l, f) ==
  \/ ManualCovers \/ ~ask.policy.auto \/ ~ask.shell
  \/ l = <<>> /\ AllAsked(l, f) /\ DOMAIN f \subseteq DOMAIN m

\* A script moves the aliases, in the containers of a map.
ScriptFrom(s, m) ==
  /\ DOMAIN s = DOMAIN Aliases
  /\ \A i \in DOMAIN Aliases :
       /\ s[i].move = Aliases[i]
       /\ IF Aliases[i].guid = None THEN s[i].pdb = None
          ELSE Aliases[i].guid \in DOMAIN m /\ s[i].pdb = m[Aliases[i].guid]

FetchInv ==
  /\ at \in {"start", "groups", "walk"} => fetched = <<>>
  /\ at = "fetch" => FetchedFrom(fetched) /\ LeftAsked(left) /\ AllAsked(left, fetched)
  /\ at \in {"emit", "written"} => MapFrom(map) /\ DOMAIN ask.policy.manual \subseteq DOMAIN map
  /\ at = "emit" => MapCause(map, left, fetched)
  /\ at = "written" => ScriptFrom(script, map)
  /\ BlockedForCause

\* An alias is one of the records, and its database is one that is asked.
LEMMA AliasFields ==
  ASSUME TypeOK, NEW k \in 1 .. Len(Aliases)
  PROVE  /\ Aliases[k] \in Range(Aliases) /\ DOMAIN Aliases = 1 .. Len(Aliases)
         /\ Aliases[k].guid \in Guid \cup {None} /\ Aliases[k].db.word \in Word
         /\ Aliases[k].db.word \in AskedDatabases
         /\ Aliases[k].guid # None => Aliases[k].guid \in Needed
<1>1. Aliases \in Seq(Alias)
  BY AliasesAre DEF TypeOK
<1>2. DOMAIN Aliases = 1 .. Len(Aliases) /\ Aliases[k] \in Alias
  BY <1>1
<1>3. Aliases[k] \in Range(Aliases)
  BY <1>2 DEF Range
<1>4. Aliases[k].guid \in Guid \cup {None} /\ Aliases[k].db \in Name
  BY <1>2 DEF Alias
<1>5. Aliases[k].db.word \in Word
  BY <1>4 DEF Name
<1> QED
  BY <1>2, <1>3, <1>4, <1>5 DEF AskedDatabases, Needed

\* The invariant reads what the fetch does not change.
LEMMA FetchSame ==
  ASSUME UNCHANGED <<ask, host, listed>>
  PROVE  /\ Aliases' = Aliases /\ Needed' = Needed /\ AskedDatabases' = AskedDatabases
         /\ ManualCovers' = ManualCovers
<1>1. Aliases' = Aliases
  <2> DEFINE all(li) == FlattenSeq([i \in DOMAIN li |-> Records(li[i])])
             places(seq) == {i \in DOMAIN seq : \A j \in 1 .. i - 1 : Fold(seq[j].source) # Fold(seq[i].source)}
             of(li) == Pick(all(li), places(all(li)))
  <2>1. Aliases = of(listed) /\ Aliases' = of(listed')
    BY DEF Aliases, FirstOfEach, Once
  <2> HIDE DEF of
  <2> QED
    BY <2>1
<1>2. Needed' = Needed
  BY <1>1 DEF Needed
<1> QED
  BY <1>1, <1>2 DEF AskedDatabases, ManualCovers

\* Where GUIDs come from depends on ask, host and inventory only.
LEMMA MapSame ==
  ASSUME UNCHANGED <<ask, host, listed>>, NEW CONSTANT m, NEW CONSTANT l, NEW CONSTANT f, NEW CONSTANT s
  PROVE  /\ FetchedFrom(f)' = FetchedFrom(f) /\ LeftAsked(l)' = LeftAsked(l) /\ AllAsked(l, f)' = AllAsked(l, f)
         /\ MapFrom(m)' = MapFrom(m) /\ MapCause(m, l, f)' = MapCause(m, l, f)
         /\ ScriptFrom(s, m)' = ScriptFrom(s, m)
<1>1. Aliases' = Aliases /\ AskedDatabases' = AskedDatabases /\ ManualCovers' = ManualCovers
  BY FetchSame
<1>2. FetchedFrom(f)' = FetchedFrom(f)
  BY <1>1 DEF FetchedFrom, Answers
<1>3. LeftAsked(l)' = LeftAsked(l)
  BY <1>1 DEF LeftAsked
<1>4. AllAsked(l, f)' = AllAsked(l, f)
  BY <1>1 DEF AllAsked
<1>5. MapFrom(m)' = MapFrom(m)
  BY <1>1 DEF MapFrom, Answers
<1>6. MapCause(m, l, f)' = MapCause(m, l, f)
  BY <1>1, <1>4 DEF MapCause
<1>7. ScriptFrom(s, m)' = ScriptFrom(s, m)
  BY <1>1 DEF ScriptFrom
<1> QED
  BY <1>2, <1>3, <1>4, <1>5, <1>6, <1>7

\* So does the cause of a block, of what is left to fetch.
Cause(l, a) ==
  \E guid \in Needed \ DOMAIN ask.policy.manual :
    \/ ~ask.policy.auto \/ ~ask.shell
    \/ l # <<>> /\ (a \/ Head(l).upper)
    \/ l = <<>> /\ \A record \in Range(Aliases) :
                     record.guid = guid => guid \notin DOMAIN host.pdbs[record.db.word]

LEMMA CauseSame ==
  ASSUME UNCHANGED <<ask, host, listed>>, NEW CONSTANT l, NEW CONSTANT a
  PROVE  Cause(l, a)' = Cause(l, a)
  BY FetchSame DEF Cause

LEMMA FetchKept ==
  ASSUME UNCHANGED <<ask, host, listed>>
  PROVE  /\ FetchedFrom(fetched') => FetchedFrom(fetched)'
         /\ LeftAsked(left') => LeftAsked(left)'
         /\ AllAsked(left', fetched') => AllAsked(left, fetched)'
         /\ MapFrom(map') => MapFrom(map)'
         /\ MapCause(map', left', fetched') => MapCause(map, left, fetched)'
         /\ ScriptFrom(script', map') => ScriptFrom(script, map)'
         /\ Cause(left', again') => Cause(left, again)'
<1>1. ASSUME NEW CONSTANT f PROVE FetchedFrom(f)' = FetchedFrom(f)
  BY MapSame
<1>2. ASSUME NEW CONSTANT l PROVE LeftAsked(l)' = LeftAsked(l)
  BY MapSame
<1>3. ASSUME NEW CONSTANT l, NEW CONSTANT f PROVE AllAsked(l, f)' = AllAsked(l, f)
  BY MapSame
<1>4. ASSUME NEW CONSTANT m PROVE MapFrom(m)' = MapFrom(m)
  BY MapSame
<1>5. ASSUME NEW CONSTANT m, NEW CONSTANT l, NEW CONSTANT f PROVE MapCause(m, l, f)' = MapCause(m, l, f)
  BY MapSame
<1>6. ASSUME NEW CONSTANT s, NEW CONSTANT m PROVE ScriptFrom(s, m)' = ScriptFrom(s, m)
  BY MapSame
<1>7. ASSUME NEW CONSTANT l, NEW CONSTANT a PROVE Cause(l, a)' = Cause(l, a)
  BY CauseSame
<1> QED
  BY <1>1, <1>2, <1>3, <1>4, <1>5, <1>6, <1>7

LEMMA BlockedIs == BlockedForCause <=> (at = "blocked" => Cause(left, again))
  BY DEF BlockedForCause, Cause

LEMMA FetchResolvePolicy == ASSUME TypeOK, FetchInv, ResolvePolicy PROVE FetchInv'
<1>1. /\ at = "walk" /\ fetched = <<>> /\ UNCHANGED <<ask, host, listed>> /\ fetched' = <<>>
      /\ \/ at' \in {"nothing", "raised"}
         \/ at' = "fetch" /\ left' = DatabasesForMap
         \/ /\ at' = "emit" /\ map' = ask.policy.manual
            /\ ~(ask.policy.auto /\ ask.shell /\ Needed # {})
  BY DEF ResolvePolicy, FetchInv, resolved, walk
<1>2. CASE at' \in {"nothing", "raised"}
  BY <1>2, BlockedIs DEF FetchInv, BlockedForCause
<1>3. CASE at' = "fetch" /\ left' = DatabasesForMap
  <2> DEFINE dbs == DatabasesForMap
  <2>1. /\ dbs \in Seq(Name)
        /\ \A i \in 1 .. Len(dbs) :
              \/ \E k \in 1 .. Len(Aliases) : dbs[i] = Aliases[k].db
              \/ ask.scope # None /\ Has(ask.scope.databases, dbs[i])
        /\ \A k \in 1 .. Len(Aliases) : \E i \in 1 .. Len(dbs) : dbs[i].word = Aliases[k].db.word
    BY DatabasesForMapAre DEF TypeOK
  <2> HIDE DEF dbs
  <2>2. FetchedFrom(<<>>)
    BY EmptyMap DEF FetchedFrom
  <2>3. LeftAsked(dbs)
    <3> SUFFICES ASSUME NEW i \in 1 .. Len(dbs) PROVE dbs[i].word \in AskedDatabases
      BY DEF LeftAsked
    <3>1. CASE \E k \in 1 .. Len(Aliases) : dbs[i] = Aliases[k].db
      BY <3>1, AliasFields
    <3>2. CASE ask.scope # None /\ Has(ask.scope.databases, dbs[i])
      <4>1. ask.scope.databases \in Seq(Name)
        BY <3>2, AskFields DEF IsScope, TypeOK
      <4>2. DOMAIN ask.scope.databases = 1 .. Len(ask.scope.databases)
        BY <4>1
      <4>3. dbs[i] \in Range(ask.scope.databases)
        BY <3>2, <4>2 DEF Has, Range
      <4> QED
        BY <3>2, <4>3 DEF AskedDatabases
    <3> QED
      BY <2>1, <3>1, <3>2
  <2>4. AllAsked(dbs, <<>>)
    BY <2>1 DEF AllAsked
  <2>5. FetchedFrom(fetched) ' /\ LeftAsked(left)' /\ AllAsked(left, fetched)'
    BY <1>1, <1>3, <2>2, <2>3, <2>4, FetchKept DEF dbs
  <2> QED
    BY <1>3, <2>5 DEF FetchInv, BlockedForCause
<1>4. CASE at' = "emit" /\ map' = ask.policy.manual /\ ~(ask.policy.auto /\ ask.shell /\ Needed # {})
  <2> DEFINE m == ask.policy.manual
  <2>1. MapFrom(m) /\ MapCause(m, left', fetched')
    BY <1>4 DEF MapFrom, MapCause, ManualCovers
  <2>2. MapFrom(map)' /\ MapCause(map, left, fetched)'
    BY <1>1, <1>4, <2>1, FetchKept
  <2>3. DOMAIN ask'.policy.manual \subseteq DOMAIN map'
    BY <1>1, <1>4
  <2> QED
    BY <1>4, <2>2, <2>3 DEF FetchInv, BlockedForCause
<1> QED
  BY <1>1, <1>2, <1>3, <1>4

\* Each outcome of a fetch: one database less to ask, a retry, or the end of the fetch.
LEMMA FetchCollect == ASSUME TypeOK, HasPolicy, FetchInv, Collect PROVE FetchInv'
<1> DEFINE db == Head(left)
           pdbs == host.pdbs[db.word]
           more == Over(pdbs, fetched)
<1>1. /\ at = "fetch" /\ left # <<>> /\ UNCHANGED <<ask, host, listed>>
      /\ FetchedFrom(fetched) /\ LeftAsked(left) /\ AllAsked(left, fetched)
      /\ left \in Seq(Name) /\ fetched \in GuidMap /\ host \in Hosts /\ ask.policy # None /\ ask \in Asks
  BY DEF Collect, FetchInv, resolved, walk, TypeOK, HasPolicy
<1>2. /\ db \in Name /\ db = left[1] /\ Tail(left) \in Seq(Name)
      /\ Len(left) \in Nat \ {0} /\ Len(Tail(left)) = Len(left) - 1
      /\ \A i \in 1 .. Len(left) - 1 : Tail(left)[i] = left[i + 1]
  BY <1>1
<1>3. db.word \in Word /\ db.word \in AskedDatabases
  <2>1. db.word \in Word
    BY <1>2 DEF Name
  <2>2. 1 \in 1 .. Len(left)
    BY <1>2
  <2> QED
    BY <1>1, <1>2, <2>1, <2>2 DEF LeftAsked
<1>4. pdbs \in GuidMap
  BY <1>1, <1>3, HostFields
<1>5. CASE fetched' = more /\ left' = Tail(left) /\ UNCHANGED <<at, map>>
  <2>1. /\ DOMAIN more = DOMAIN pdbs \cup DOMAIN fetched
        /\ \A g \in DOMAIN pdbs : more[g] = pdbs[g]
        /\ \A g \in DOMAIN fetched \ DOMAIN pdbs : more[g] = fetched[g]
    BY <1>1, <1>4, OverIs
  <2>2. FetchedFrom(more)
    <3> SUFFICES ASSUME NEW g \in DOMAIN more PROVE \E d \in AskedDatabases : Answers(d, g, more[g])
      BY DEF FetchedFrom
    <3>1. CASE g \in DOMAIN pdbs
      <4>1. Answers(db.word, g, more[g])
        BY <2>1, <3>1 DEF Answers
      <4> QED
        BY <1>3, <4>1
    <3>2. CASE g \in DOMAIN fetched \ DOMAIN pdbs
      BY <1>1, <2>1, <3>2 DEF FetchedFrom
    <3> QED
      BY <2>1, <3>1, <3>2
  <2> DEFINE tail == Tail(left)
  <2>3. /\ Len(tail) = Len(left) - 1 /\ \A i \in 1 .. Len(tail) : i + 1 \in 1 .. Len(left) /\ tail[i] = left[i + 1]
    BY <1>2
  <2>4. ASSUME NEW i \in 1 .. Len(left), i # 1 PROVE i - 1 \in 1 .. Len(tail) /\ tail[i - 1] = left[i]
    <3>1. i - 1 \in 1 .. Len(tail) /\ (i - 1) + 1 = i
      BY <1>2, <2>3, <2>4
    <3>2. tail[i - 1] = left[(i - 1) + 1]
      BY <2>3, <3>1
    <3> QED
      BY <3>1, <3>2
  <2> HIDE DEF tail, more
  <2>5. LeftAsked(tail)
    BY <1>1, <2>3 DEF LeftAsked
  <2>6. AllAsked(tail, more)
    <3> SUFFICES ASSUME NEW k \in 1 .. Len(Aliases)
                 PROVE  \/ \E i \in 1 .. Len(tail) : tail[i].word = Aliases[k].db.word
                        \/ DOMAIN host.pdbs[Aliases[k].db.word] \subseteq DOMAIN more
      BY DEF AllAsked
    <3>1. CASE \E i \in 1 .. Len(left) : left[i].word = Aliases[k].db.word
      <4>1. PICK i \in 1 .. Len(left) : left[i].word = Aliases[k].db.word
        BY <3>1
      <4>2. CASE i = 1
        BY <1>2, <2>1, <4>1, <4>2
      <4>3. CASE i # 1
        BY <2>4, <4>1, <4>3
      <4> QED
        BY <4>2, <4>3
    <3>2. CASE DOMAIN host.pdbs[Aliases[k].db.word] \subseteq DOMAIN fetched
      BY <2>1, <3>2
    <3> QED
      BY <1>1, <3>1, <3>2 DEF AllAsked
  <2>7. FetchedFrom(fetched)' /\ LeftAsked(left)' /\ AllAsked(left, fetched)'
    BY <1>1, <1>5, <2>2, <2>5, <2>6, FetchKept DEF tail
  <2>8. at' = "fetch"
    BY <1>1, <1>5
  <2> QED
    BY <2>7, <2>8 DEF FetchInv, BlockedForCause
<1>6. CASE UNCHANGED <<at, left, fetched, map>>
  <2>1. FetchedFrom(fetched)' /\ LeftAsked(left)' /\ AllAsked(left, fetched)'
    BY <1>1, <1>6, FetchKept
  <2>2. at' = "fetch"
    BY <1>1, <1>6
  <2> QED
    BY <2>1, <2>2 DEF FetchInv, BlockedForCause
<1>7. CASE ManualCovers /\ at' = "emit" /\ map' = ask.policy.manual /\ UNCHANGED fetch
  <2> DEFINE m == ask.policy.manual
  <2>1. MapFrom(m) /\ MapCause(m, left', fetched')
    BY <1>7 DEF MapFrom, MapCause
  <2>2. MapFrom(map)' /\ MapCause(map, left, fetched)'
    BY <1>1, <1>7, <2>1, FetchKept
  <2>3. DOMAIN ask'.policy.manual \subseteq DOMAIN map'
    BY <1>1, <1>7
  <2> QED
    BY <1>7, <2>2, <2>3 DEF FetchInv, BlockedForCause
<1>8. CASE ~Retries(db) /\ ~ManualCovers /\ at' = "blocked" /\ UNCHANGED fetch
  <2>1. again \/ db.upper
    BY <1>8 DEF Retries
  <2>2. PICK guid \in Needed : guid \notin DOMAIN ask.policy.manual
    BY <1>8 DEF ManualCovers
  <2>3. Cause(left, again)
    BY <1>1, <2>1, <2>2 DEF Cause
  <2>4. Cause(left, again)'
    BY <1>1, <1>8, <2>3, FetchKept DEF fetch
  <2>5. BlockedForCause'
    BY <2>4 DEF BlockedForCause, Cause
  <2> QED
    BY <1>8, <2>5 DEF FetchInv
<1> QED
  BY <1>5, <1>6, <1>7, <1>8 DEF Collect

LEMMA FetchMerge == ASSUME TypeOK, HasPolicy, FetchInv, Merge PROVE FetchInv'
<1> DEFINE m == Over(ask.policy.manual, fetched)
<1>1. /\ at = "fetch" /\ left = <<>> /\ UNCHANGED <<ask, host, listed, left, fetched>>
      /\ at' = "emit" /\ map' = m
      /\ FetchedFrom(fetched) /\ AllAsked(left, fetched) /\ fetched \in GuidMap
      /\ ask \in Asks /\ ask.policy # None
  BY DEF Merge, Merged, FetchInv, resolved, walk, fetch, TypeOK, HasPolicy
<1>2. ask.policy.manual \in GuidMap
  BY <1>1, AskFields
<1>3. /\ DOMAIN m = DOMAIN ask.policy.manual \cup DOMAIN fetched
      /\ \A g \in DOMAIN ask.policy.manual : m[g] = ask.policy.manual[g]
      /\ \A g \in DOMAIN fetched \ DOMAIN ask.policy.manual : m[g] = fetched[g]
  BY <1>1, <1>2, OverIs
<1> HIDE DEF m
<1>4. MapFrom(m)
  BY <1>1, <1>3 DEF MapFrom, FetchedFrom
<1>5. MapCause(m, left, fetched)
  BY <1>1, <1>3 DEF MapCause
<1>6. MapFrom(map)' /\ MapCause(map, left, fetched)'
  BY <1>1, <1>4, <1>5, FetchKept
<1>7. DOMAIN ask'.policy.manual \subseteq DOMAIN map'
  BY <1>1, <1>3
<1> QED
  BY <1>1, <1>6, <1>7 DEF FetchInv, BlockedForCause

LEMMA FetchEmit == ASSUME TypeOK, FetchInv, Emit PROVE FetchInv'
<1>1. /\ at = "emit" /\ UNCHANGED <<ask, host, listed, left, again, fetched, map>>
      /\ MapFrom(map) /\ DOMAIN ask.policy.manual \subseteq DOMAIN map /\ MapCause(map, left, fetched)
  BY DEF Emit, FetchInv, resolved, walk, fetch
<1>2. CASE /\ Needed \subseteq DOMAIN map /\ at' = "written"
           /\ script' = [i \in DOMAIN Aliases |->
                [move |-> Aliases[i],
                 pdb |-> IF Aliases[i].guid = None THEN None ELSE map[Aliases[i].guid]]]
  <2> DEFINE s == [i \in DOMAIN Aliases |->
                     [move |-> Aliases[i],
                      pdb |-> IF Aliases[i].guid = None THEN None ELSE map[Aliases[i].guid]]]
  <2>1. \A i \in DOMAIN Aliases : Aliases[i].guid # None => Aliases[i].guid \in DOMAIN map
    <3>1. Aliases \in Seq(Alias)
      BY AliasesAre DEF TypeOK
    <3>2. DOMAIN Aliases = 1 .. Len(Aliases)
      BY <3>1
    <3> QED
      BY <1>2, <3>2, AliasFields
  <2>2. /\ DOMAIN s = DOMAIN Aliases
        /\ \A i \in DOMAIN Aliases :
             /\ s[i].move = Aliases[i]
             /\ s[i].pdb = IF Aliases[i].guid = None THEN None ELSE map[Aliases[i].guid]
    OBVIOUS
  <2> HIDE DEF s
  <2>3. ScriptFrom(s, map)
    BY <2>1, <2>2 DEF ScriptFrom
  <2>4. script' = s /\ map' = map
    BY <1>1, <1>2 DEF s
  <2>5. MapFrom(map)' /\ ScriptFrom(script, map)'
    BY <1>1, <2>3, <2>4, FetchKept
  <2>6. DOMAIN ask'.policy.manual \subseteq DOMAIN map'
    BY <1>1
  <2> QED
    BY <1>2, <2>5, <2>6 DEF FetchInv, BlockedForCause
<1>3. CASE ~(Needed \subseteq DOMAIN map) /\ at' = "blocked"
  <2>1. PICK guid \in Needed : guid \notin DOMAIN map
    BY <1>3
  <2>2. guid \notin DOMAIN ask.policy.manual
    BY <1>1, <2>1
  <2>3. Cause(left, again)
    <3>1. CASE ~ask.policy.auto \/ ~ask.shell
      BY <2>1, <2>2, <3>1 DEF Cause
    <3>2. CASE left = <<>> /\ AllAsked(left, fetched) /\ DOMAIN fetched \subseteq DOMAIN map
      <4>1. ASSUME NEW record \in Range(Aliases), record.guid = guid
            PROVE  guid \notin DOMAIN host.pdbs[record.db.word]
        <5>1. Aliases \in Seq(Alias)
          BY AliasesAre DEF TypeOK
        <5>2. PICK k \in 1 .. Len(Aliases) : record = Aliases[k]
          BY <5>1 DEF Range
        <5>3. ~\E i \in 1 .. Len(left) : TRUE
          BY <3>2
        <5>4. DOMAIN host.pdbs[Aliases[k].db.word] \subseteq DOMAIN fetched
          BY <3>2, <5>3 DEF AllAsked
        <5> QED
          BY <2>1, <3>2, <5>2, <5>4
      <4> QED
        BY <2>1, <2>2, <3>2, <4>1 DEF Cause
    <3> QED
      BY <1>1, <2>1, <2>2, <3>1, <3>2 DEF MapCause, ManualCovers
  <2>4. Cause(left, again)'
    BY <1>1, <2>3, FetchKept
  <2>5. BlockedForCause'
    BY <2>4 DEF BlockedForCause, Cause
  <2> QED
    BY <1>3, <2>5 DEF FetchInv
<1> QED
  BY <1>2, <1>3 DEF Emit

LEMMA FetchStep == TypeOK /\ HasPolicy /\ FetchInv /\ [Next]_vars => FetchInv'
<1> SUFFICES ASSUME TypeOK, HasPolicy, FetchInv, [Next]_vars PROVE FetchInv'
  OBVIOUS
<1>1. CASE Discover
  <2>1. at \in {"start", "groups", "walk"} /\ at' \in {"groups", "raised"} /\ fetched' = fetched
    BY <1>1 DEF Discover, fetch
  <2> QED
    BY <2>1 DEF FetchInv, BlockedForCause
<1>2. CASE Resolve
  <2>1. at \in {"start", "groups", "walk"} /\ at' \in {"refused", "walk"} /\ fetched' = fetched
    BY <1>2 DEF Resolve, fetch
  <2> QED
    BY <2>1 DEF FetchInv, BlockedForCause
<1>3. CASE List
  <2>1. at \in {"start", "groups", "walk"} /\ at' \in {"walk", "raised"} /\ fetched' = fetched
    BY <1>3 DEF List, fetch
  <2> QED
    BY <2>1 DEF FetchInv, BlockedForCause
<1>4. CASE ResolvePolicy
  BY <1>4, FetchResolvePolicy
<1>5. CASE Collect
  BY <1>5, FetchCollect
<1>6. CASE Merge
  BY <1>6, FetchMerge
<1>7. CASE Emit
  BY <1>7, FetchEmit
<1>8. CASE UNCHANGED vars
  <2>1. UNCHANGED <<ask, host, at, listed, left, again, fetched, map, script>>
    BY <1>8 DEF vars
  <2>2. at = "fetch" => FetchedFrom(fetched)' /\ LeftAsked(left)' /\ AllAsked(left, fetched)'
    BY <2>1, FetchKept DEF FetchInv
  <2>3. at \in {"emit", "written"} => MapFrom(map)' /\ DOMAIN ask'.policy.manual \subseteq DOMAIN map'
    BY <2>1, FetchKept DEF FetchInv
  <2>4. at = "emit" => MapCause(map, left, fetched)'
    BY <2>1, FetchKept DEF FetchInv
  <2>5. at = "written" => ScriptFrom(script, map)'
    BY <2>1, FetchKept DEF FetchInv
  <2>6. BlockedForCause'
    <3>1. at = "blocked" => Cause(left, again)
      BY BlockedIs DEF FetchInv
    <3>2. at' = "blocked" => Cause(left, again)'
      BY <2>1, <3>1, FetchKept
    <3> QED
      BY <3>2 DEF BlockedForCause, Cause
  <2> QED
    BY <2>1, <2>2, <2>3, <2>4, <2>5, <2>6 DEF FetchInv
<1> QED
  BY <1>1, <1>2, <1>3, <1>4, <1>5, <1>6, <1>7, <1>8 DEF Next

\* The script of the invariant, place by place, is the one of the property.
LEMMA ScriptShows == TypeOK /\ FetchInv => ScriptIsMapped
<1> SUFFICES ASSUME TypeOK, FetchInv, at = "written" PROVE ScriptIsMapped
  BY DEF ScriptIsMapped
<1>1. MapFrom(map) /\ ScriptFrom(script, map) /\ DOMAIN ask.policy.manual \subseteq DOMAIN map
  BY DEF FetchInv
<1>2. listed \in Seq(Listing) /\ DOMAIN listed = 1 .. Len(listed)
  BY DEF TypeOK
<1>3. /\ DOMAIN Aliases = 1 .. Len(Aliases)
      /\ \A i \in 1 .. Len(Aliases) : FromRow(Aliases[i])
      /\ \A record : FromRow(record) =>
           \E i \in 1 .. Len(Aliases) : Fold(Aliases[i].source) = Fold(record.source)
      /\ \A i, j \in 1 .. Len(Aliases) : Fold(Aliases[i].source) = Fold(Aliases[j].source) => i = j
  <2>1. Aliases \in Seq(Alias)
    BY <1>2, AliasesAre
  <2>2. DOMAIN Aliases = 1 .. Len(Aliases)
    BY <2>1
  <2> QED
    BY <1>2, <2>2, AliasesAre
<1>4. DOMAIN script = 1 .. Len(Aliases) /\ \A i \in 1 .. Len(Aliases) : script[i].move = Aliases[i]
  BY <1>1, <1>3 DEF ScriptFrom
<1> DEFINE Sources == {Fold(line.move.source) : line \in Range(script)}
           ListedAliases == UNION {{Append(Fold(listing.path), row.name.word) :
                                     row \in {r \in Range(listing.rows) : r.kind = "alias"}} : listing \in Range(listed)}
           IsAliasPath(p) == \E i \in 1 .. Len(listed) : \E k \in 1 .. Len(listed[i].rows) :
                               /\ listed[i].rows[k].kind = "alias"
                               /\ p = Append(Fold(listed[i].path), listed[i].rows[k].name.word)
<1>5. ASSUME NEW p PROVE p \in ListedAliases <=> IsAliasPath(p)
  <2> DEFINE Above(listing) == \E row \in Range(listing.rows) :
                                 row.kind = "alias" /\ p = Append(Fold(listing.path), row.name.word)
             Holds(listing) == \E k \in 1 .. Len(listing.rows) :
                                 listing.rows[k].kind = "alias"
                                   /\ p = Append(Fold(listing.path), listing.rows[k].name.word)
  <2>1. p \in ListedAliases <=> \E listing \in Range(listed) : Above(listing)
    OBVIOUS
  <2>2. ASSUME NEW listing \in Listing PROVE Above(listing) <=> Holds(listing)
    <3>1. DOMAIN listing.rows = 1 .. Len(listing.rows)
      BY ListingFields
    <3> QED
      BY <3>1 DEF Range
  <2>3. \A i \in 1 .. Len(listed) : listed[i] \in Listing
    BY <1>2
  <2>4. IsAliasPath(p) <=> \E i \in 1 .. Len(listed) : Holds(listed[i])
    OBVIOUS
  <2> HIDE DEF Above, Holds, IsAliasPath, ListedAliases
  <2>5. (\E listing \in Range(listed) : Above(listing)) <=> \E i \in 1 .. Len(listed) : Above(listed[i])
    BY <1>2 DEF Range
  <2>6. (\E i \in 1 .. Len(listed) : Above(listed[i])) <=> \E i \in 1 .. Len(listed) : Holds(listed[i])
    BY <2>2, <2>3
  <2> QED
    BY <2>1, <2>4, <2>5, <2>6
<1>6. ASSUME NEW p PROVE IsAliasPath(p) <=> \E record : FromRow(record) /\ p = Fold(record.source)
  <2>1. ASSUME NEW i \in 1 .. Len(listed), NEW k \in 1 .. Len(listed[i].rows)
        PROVE  Fold(RecordOf(listed[i], listed[i].rows[k]).source)
                 = Append(Fold(listed[i].path), listed[i].rows[k].name.word)
    <3>1. listed[i] \in Listing
      BY <1>2
    <3>2. listed[i].rows[k] \in Row
      BY <3>1, ListingFields
    <3> QED
      BY <3>1, <3>2, RecordType
  <2>2. ASSUME IsAliasPath(p) PROVE \E record : FromRow(record) /\ p = Fold(record.source)
    <3>0. PICK i \in 1 .. Len(listed) : \E k \in 1 .. Len(listed[i].rows) :
            listed[i].rows[k].kind = "alias" /\ p = Append(Fold(listed[i].path), listed[i].rows[k].name.word)
      BY <2>2
    <3>1. PICK k \in 1 .. Len(listed[i].rows) :
            listed[i].rows[k].kind = "alias" /\ p = Append(Fold(listed[i].path), listed[i].rows[k].name.word)
      BY <3>0
    <3> DEFINE record == RecordOf(listed[i], listed[i].rows[k])
    <3>2. p = Fold(record.source)
      BY <2>1, <3>1
    <3>3. FromRow(record)
      BY <3>1 DEF FromRow
    <3> QED
      BY <3>2, <3>3
  <2>3. ASSUME NEW record, FromRow(record), p = Fold(record.source) PROVE IsAliasPath(p)
    <3>0. PICK i \in 1 .. Len(listed) : \E k \in 1 .. Len(listed[i].rows) :
            listed[i].rows[k].kind = "alias" /\ record = RecordOf(listed[i], listed[i].rows[k])
      BY <2>3 DEF FromRow
    <3>1. PICK k \in 1 .. Len(listed[i].rows) :
            listed[i].rows[k].kind = "alias" /\ record = RecordOf(listed[i], listed[i].rows[k])
      BY <3>0
    <3>2. p = Append(Fold(listed[i].path), listed[i].rows[k].name.word)
      BY <2>1, <2>3, <3>1
    <3> QED
      BY <3>1, <3>2
  <2> QED
    BY <2>2, <2>3
<1>7. ASSUME NEW p PROVE p \in Sources <=> \E i \in 1 .. Len(Aliases) : p = Fold(Aliases[i].source)
  <2>1. p \in Sources <=> \E i \in DOMAIN script : p = Fold(script[i].move.source)
    BY DEF Range
  <2> QED
    BY <1>4, <2>1
<1>8. Sources = ListedAliases
  <2> HIDE DEF Sources, ListedAliases, IsAliasPath
  <2>1. \A p : p \in Sources <=> p \in ListedAliases
    BY <1>3, <1>5, <1>6, <1>7
  <2> QED
    BY <2>1
<1>9. \A i, j \in DOMAIN script : Fold(script[i].move.source) = Fold(script[j].move.source) => i = j
  BY <1>3, <1>4
<1>10. ASSUME NEW line \in Range(script)
       PROVE  LET guid == line.move.guid
              IN  IF guid = None THEN line.pdb = None
                  ELSE IF guid \in DOMAIN ask.policy.manual THEN line.pdb = ask.policy.manual[guid]
                  ELSE \E db \in AskedDatabases : guid \in DOMAIN host.pdbs[db] /\ line.pdb = host.pdbs[db][guid]
  <2>1. PICK i \in 1 .. Len(Aliases) : line = script[i]
    BY <1>4 DEF Range
  <2> DEFINE guid == Aliases[i].guid
  <2>2. line.move.guid = guid
    BY <1>4, <2>1
  <2>3. IF guid = None THEN line.pdb = None ELSE guid \in DOMAIN map /\ line.pdb = map[guid]
    BY <1>1, <1>3, <2>1 DEF ScriptFrom
  <2> HIDE DEF guid
  <2> QED
    BY <1>1, <2>2, <2>3 DEF MapFrom, Answers
<1> HIDE DEF IsAliasPath
<1> QED
  BY <1>8, <1>9, <1>10 DEF ScriptIsMapped

LEMMA Fetched == Spec => []FetchInv
<1>1. Init => FetchInv
  BY DEF Init, FetchInv, BlockedForCause
<1> QED
  BY <1>1, FetchStep, Typed, PTL DEF Spec

\* Whatever the walk finds, the databases answer and the manual map has: a script moves each alias
\* that was listed once, into the container the manual map names or a database that was asked
\* gives for its GUID: see ScriptIsMapped.
THEOREM ScriptCorrect == Spec => []ScriptIsMapped
  BY Fetched, Typed, ScriptShows, PTL

\* A script is blocked only for a GUID that the manual map lacks, and that no fetch was to get, a
\* failed fetch did not, or no database of its aliases has: see BlockedForCause.
THEOREM BlockedCorrect == Spec => []BlockedForCause
<1>1. FetchInv => BlockedForCause
  BY DEF FetchInv
<1> QED
  BY <1>1, Fetched, PTL
=============================================================================
