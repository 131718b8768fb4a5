------------------------- MODULE DatabaseSetupProofs -------------------------
(***************************************************************************)
(* Proofs about DatabaseSetup for any number of starts, output paths,      *)
(* files and faults.                                                       *)
(***************************************************************************)
EXTENDS DatabaseSetup, TLAPS

(***************************************************************************)
(* The inductive invariant.  The schema may be stamped without a lock      *)
(* because only one process owns a revision: the one that made its first   *)
(* object.  Everyone else fails on that object.                            *)
(***************************************************************************)

\* Starters are on the production file, the build never is, and only it unlinks and seeds.
Places ==
  /\ \A p \in Starter : /\ process[p].at \notin {"unlink", "seed"}
                        /\ At(p, "idle") \/ process[p].file = Production
  /\ process[Builder].file # Production
  /\ \A p \in Process : process[p].at \in Working \cup {"ready"} => process[p].file \in File
  /\ db[Production].rows # "demo"

\* The objects of the revision at hand that a process has made.
Made(p) == {Revision(p)[i] : i \in 1 .. process[p].next - 1}
Owner(p) == process[p].at \in Migrating /\ process[p].next > 1

\* A process that runs a revision has everything up to it and what it made under it; until
\* it made something the file may have gone on, from then on it has not.
RunsRevision(p) ==
  /\ process[p].version < Latest /\ process[p].version <= Here(p).version
  /\ process[p].next \in 1 .. Len(Revision(p)) + 1
  /\ At(p, "stamp") => process[p].next = Len(Revision(p)) + 1
  /\ Schema(process[p].version) \cup Made(p) \subseteq Here(p).objects
  /\ Owner(p) => Here(p).version = process[p].version
Underway == \A p \in Process : process[p].at \in Migrating => RunsRevision(p)

OneOwner ==
  \A p, q \in Process : Owner(p) /\ Owner(q) /\ process[p].file = process[q].file => p = q

\* Without a fault a file is whole but for what the owner of its next revision made.
Exact ==
  faults = 0 => \A f \in File :
    \/ db[f].objects = Schema(db[f].version)
    \/ \E p \in Process : /\ Owner(p) /\ process[p].file = f
                          /\ db[f].objects = Schema(db[f].version) \cup Made(p)

IInv == TypeOK /\ Places /\ Underway /\ OneOwner /\ StampIsTrue /\ ReadyHasSchema /\ Exact

\* The three revisions, spelt out.
LEMMA RevisionsAre ==
  /\ Len(Revisions) = 3
  /\ Revisions[1] = CreateTables /\ Revisions[2] = AddProgressMessage /\ Revisions[3] = AddMoveOnline
  BY DEF Revisions

\* The objects of each revision.
LEMMA ObjectsAre ==
  /\ ObjectsOf(1) = {"targets", "ix_targets_name", "scans", "scan_aliases"}
  /\ ObjectsOf(2) = {"scans.progress_message"}
  /\ ObjectsOf(3) = {"targets.move_online"}
<1>1. ObjectsOf(1) = {CreateTables[i] : i \in 1 .. 4}
  BY RevisionsAre DEF ObjectsOf, CreateTables
<1>2. ObjectsOf(1) = {CreateTables[1], CreateTables[2], CreateTables[3], CreateTables[4]}
  BY <1>1
<1>3. ObjectsOf(2) = {AddProgressMessage[i] : i \in 1 .. 1}
  BY RevisionsAre DEF ObjectsOf, AddProgressMessage
<1>4. ObjectsOf(3) = {AddMoveOnline[i] : i \in 1 .. 1}
  BY RevisionsAre DEF ObjectsOf, AddMoveOnline
<1> QED
  BY <1>2, <1>3, <1>4 DEF CreateTables, AddProgressMessage, AddMoveOnline

\* What a version holds: nothing, then the objects of one more revision each time.
LEMMA SchemaGrows ==
  /\ Schema(0) = {}
  /\ \A v \in 0 .. Latest - 1 : Schema(v + 1) = Schema(v) \cup ObjectsOf(v + 1)
<1>1. Schema(0) = {}
  BY DEF Schema
<1>2. ASSUME NEW v \in 0 .. Latest - 1 PROVE Schema(v + 1) = Schema(v) \cup ObjectsOf(v + 1)
  <2>1. 1 .. (v + 1) = (1 .. v) \cup {v + 1}
    BY DEF Latest
  <2> QED
    BY <2>1 DEF Schema
<1> QED
  BY <1>1, <1>2

\* A later version holds all that an earlier one does.
LEMMA SchemaKeeps == \A v, w \in 0 .. Latest : v <= w => Schema(v) \subseteq Schema(w)
  BY DEF Schema, Latest

\* A revision has one to four objects, all different and none of an earlier version.
LEMMA RevisionIsNew ==
  ASSUME NEW v \in 0 .. Latest - 1
  PROVE  /\ Len(Revisions[v + 1]) \in 1 .. 4
         /\ ObjectsOf(v + 1) = {Revisions[v + 1][i] : i \in 1 .. Len(Revisions[v + 1])}
         /\ \A i \in 1 .. Len(Revisions[v + 1]) :
              /\ Revisions[v + 1][i] \notin Schema(v)
              /\ Revisions[v + 1][i] \in ObjectsOf(v + 1)
              /\ \A j \in 1 .. Len(Revisions[v + 1]) :
                   Revisions[v + 1][i] = Revisions[v + 1][j] => i = j
<1>1. /\ Len(CreateTables) = 4 /\ Len(AddProgressMessage) = 1 /\ Len(AddMoveOnline) = 1
  BY DEF CreateTables, AddProgressMessage, AddMoveOnline
<1>2. ObjectsOf(v + 1) = {Revisions[v + 1][i] : i \in 1 .. Len(Revisions[v + 1])}
  BY DEF ObjectsOf
<1>3. \A i \in 1 .. Len(Revisions[v + 1]) : Revisions[v + 1][i] \in ObjectsOf(v + 1)
  BY <1>2
<1>4. /\ Schema(0) = {} /\ Schema(1) = ObjectsOf(1) /\ Schema(2) = ObjectsOf(1) \cup ObjectsOf(2)
  <2>1. Schema(0 + 1) = Schema(0) \cup ObjectsOf(0 + 1) /\ Schema(1 + 1) = Schema(1) \cup ObjectsOf(1 + 1)
    BY SchemaGrows DEF Latest
  <2> QED
    BY <2>1, SchemaGrows
<1>5. CASE v = 0
  <2>1. Revisions[v + 1] = CreateTables /\ Schema(v) = {}
    BY <1>4, <1>5, RevisionsAre
  <2>2. ASSUME NEW i \in 1 .. 4, NEW j \in 1 .. 4, CreateTables[i] = CreateTables[j] PROVE i = j
    BY <2>2 DEF CreateTables
  <2>3. \A i, j \in 1 .. Len(Revisions[v + 1]) : Revisions[v + 1][i] = Revisions[v + 1][j] => i = j
    BY <1>1, <2>1, <2>2
  <2>4. \A i \in 1 .. Len(Revisions[v + 1]) : Revisions[v + 1][i] \notin Schema(v)
    BY <2>1
  <2>5. Len(Revisions[v + 1]) \in 1 .. 4
    BY <1>1, <2>1
  <2> QED
    BY <1>2, <1>3, <2>3, <2>4, <2>5
<1>6. CASE v = 1
  <2>1. Revisions[v + 1] = AddProgressMessage /\ AddProgressMessage[1] \notin Schema(v)
    BY <1>4, <1>6, RevisionsAre, ObjectsAre DEF AddProgressMessage
  <2>2. Len(Revisions[v + 1]) = 1
    BY <1>1, <2>1
  <2> QED
    BY <1>2, <1>3, <2>1, <2>2
<1>7. CASE v = 2
  <2>1. Revisions[v + 1] = AddMoveOnline /\ AddMoveOnline[1] \notin Schema(v)
    BY <1>4, <1>7, RevisionsAre, ObjectsAre DEF AddMoveOnline
  <2>2. Len(Revisions[v + 1]) = 1
    BY <1>1, <2>1
  <2> QED
    BY <1>2, <1>3, <2>1, <2>2
<1> QED
  BY <1>5, <1>6, <1>7 DEF Latest

\* What TypeOK says of one process and of one file.
Place == [at : Working \cup Ended \cup {"idle"}, file : File \cup {None}, version : 0 .. Latest,
          next : 1 .. 5]
Contents == [objects : SUBSET Schema(Latest), table : BOOLEAN, version : 0 .. Latest,
             rows : Rows]

\* The place of a process that did nothing yet.
LEMMA IdleType == Idle \in Place
  BY DEF Idle, Place, Latest

\* A process that may run a statement has a revision and its next object.
LEMMA CreateIsInRange ==
  ASSUME TypeOK, NEW p \in Process, At(p, "create")
  PROVE  /\ process[p].version \in 0 .. Latest - 1 /\ process[p].next \in 1 .. Len(Revision(p))
         /\ Len(Revision(p)) \in 1 .. 4
         /\ Revision(p)[process[p].next] \in Schema(Latest)
<1>1. process[p].version \in 0 .. Latest - 1
  BY DEF TypeOK, At, Latest
<1>2. Len(Revision(p)) \in 1 .. 4 /\ process[p].next \in 1 .. Len(Revision(p))
  BY <1>1, RevisionIsNew DEF TypeOK, At, Revision
<1>3. Revision(p)[process[p].next] \in ObjectsOf(process[p].version + 1)
  BY <1>1, <1>2, RevisionIsNew DEF Revision
<1>4. ObjectsOf(process[p].version + 1) \subseteq Schema(Latest)
  <2>1. Schema(process[p].version + 1) \subseteq Schema(Latest)
    BY <1>1, SchemaKeeps DEF Latest
  <2> QED
    BY <1>1, <2>1, SchemaGrows
<1> QED
  BY <1>1, <1>2, <1>3, <1>4

\* Where a process goes on to from a version it read or stamped is a place with a next object.
LEMMA OnwardType ==
  ASSUME TypeOK, NEW p \in Process, NEW version \in 0 .. Latest
  PROVE  /\ Onward(p, version) = [process EXCEPT ![p] = Onward(p, version)[p]]
         /\ Onward(p, version)[p] \in Place
         /\ Onward(p, version)[p].file = process[p].file
         /\ Onward(p, version)[p].version = version /\ Onward(p, version)[p].next = 1
         /\ Onward(p, version)[p].at = IF version < Latest THEN "create" ELSE Migrated(p)
         /\ version < Latest => Onward(p, version)[p].next <= Len(Revisions[version + 1])
<1>1. process[p] \in Place /\ process \in [Process -> Place]
  BY DEF TypeOK, Place
<1>2. Migrated(p) \in {"seed", "ready"}
  BY DEF Migrated
<1>3. version < Latest => 1 <= Len(Revisions[version + 1])
  <2> SUFFICES ASSUME version < Latest PROVE 1 <= Len(Revisions[version + 1])
    OBVIOUS
  <2>1. version \in 0 .. Latest - 1
    BY DEF Latest
  <2>2. Len(Revisions[version + 1]) \in 1 .. 4
    BY <2>1, RevisionIsNew
  <2> QED
    BY <2>2
<1> DEFINE label == IF version < Latest THEN "create" ELSE Migrated(p)
           onward == [[[process[p] EXCEPT !.version = version] EXCEPT !.next = 1] EXCEPT !.at = label]
<1>4. Onward(p, version) = [process EXCEPT ![p] = onward]
  BY <1>1 DEF Onward, Place
<1>5. label \in Working \cup Ended
  BY <1>2 DEF Working, Ended, Migrating
<1>6. /\ onward \in Place /\ onward.file = process[p].file /\ onward.version = version
      /\ onward.next = 1 /\ onward.at = label
  <2> HIDE DEF label
  <2>1. 1 \in 1 .. 5
    OBVIOUS
  <2>2. [process[p] EXCEPT !.version = version] \in Place
    BY <1>1 DEF Place
  <2>3. [[process[p] EXCEPT !.version = version] EXCEPT !.next = 1] \in Place
    BY <2>1, <2>2 DEF Place
  <2>4. onward \in Place
    BY <1>5, <2>3 DEF Place
  <2> QED
    BY <1>1, <2>2, <2>3, <2>4 DEF Place
<1>7. Onward(p, version)[p] = onward
  BY <1>1, <1>4
<1> HIDE DEF onward
<1> QED
  BY <1>3, <1>4, <1>6, <1>7

\* Every step keeps every variable in its type.
LEMMA TypeStep == TypeOK /\ Places /\ Underway /\ [Next]_vars => TypeOK'
<1> SUFFICES ASSUME TypeOK, Places, Underway, [Next]_vars PROVE TypeOK'
  OBVIOUS
<1> DEFINE Ranged(pl) == pl.at = "create" =>
                           pl.version < Latest /\ pl.next <= Len(Revisions[pl.version + 1])
<1>a. /\ configured \in BOOLEAN /\ faults \in 0 .. MaxFaults /\ MaxFaults \in Nat
      /\ db \in [File -> Contents] /\ process \in [Process -> Place]
      /\ \A p \in Process : Ranged(process[p])
  BY SetupAssumption DEF TypeOK, Contents, Place, At, Revision
<1>b. ASSUME configured' \in BOOLEAN, faults' \in 0 .. MaxFaults, db' \in [File -> Contents],
             process' \in [Process -> Place], \A p \in Process : Ranged(process'[p])
      PROVE  TypeOK'
  BY <1>b DEF TypeOK, Contents, Place, At, Revision
<1>c. ASSUME UNCHANGED configured, faults' \in 0 .. MaxFaults, db' \in [File -> Contents],
             NEW p \in Process, NEW place \in Place, process' = [process EXCEPT ![p] = place],
             Ranged(place)
      PROVE  TypeOK'
  <2>1. process' \in [Process -> Place]
    BY <1>a, <1>c
  <2>2. \A q \in Process : Ranged(process'[q])
    BY <1>a, <1>c
  <2> QED
    BY <1>a, <1>b, <1>c, <2>1, <2>2
<1>d. ASSUME NEW p \in Process, NEW label \in (Working \cup Ended) \ {"create"}, Goto(p, label),
             faults' \in 0 .. MaxFaults, db' \in [File -> Contents], UNCHANGED configured
      PROVE  TypeOK'
  <2> DEFINE place == [process[p] EXCEPT !.at = label]
  <2>1. place \in Place /\ Ranged(place) /\ process' = [process EXCEPT ![p] = place]
    BY <1>a, <1>d DEF Goto, Place
  <2> QED
    BY <1>c, <1>d, <2>1
<1>e. ASSUME NEW p \in Process, StatementFails(p), UNCHANGED configured PROVE TypeOK'
  <2>1. faults' \in 0 .. MaxFaults
    BY <1>a, <1>e DEF StatementFails, Fault
  <2> QED
    BY <1>a, <1>d, <1>e, <2>1 DEF StatementFails, Failed, Ended
<1> HIDE DEF Ranged
<1>f. ASSUME NEW p \in Process, process' = Onward(p, 0), db' \in [File -> Contents],
             UNCHANGED <<configured, faults>>
      PROVE  TypeOK'
  <2>1. 0 \in 0 .. Latest
    BY DEF Latest
  <2>2. Ranged(Onward(p, 0)[p])
    BY <2>1, OnwardType DEF Ranged, Migrated
  <2> QED
    BY <1>a, <1>c, <1>f, <2>1, <2>2, OnwardType
<1>1. ASSUME NEW p \in Process, Kill(p) PROVE TypeOK'
  <2>1. faults' \in 0 .. MaxFaults
    BY <1>a, <1>1 DEF Kill, Fault
  <2> QED
    BY <1>a, <1>d, <1>1, <2>1 DEF Kill, Ended
<1>2. ASSUME NEW p \in Process, Unlink(p) PROVE TypeOK'
  <2>1. Nothing \in Contents
    BY DEF Nothing, Contents, Rows, Latest
  <2>2. CASE /\ db' = [db EXCEPT ![process[p].file] = Nothing]
             /\ Goto(p, "open") /\ UNCHANGED faults
    <3>1. db' \in [File -> Contents]
      BY <1>a, <2>1, <2>2
    <3> QED
      BY <1>a, <1>d, <1>2, <2>2, <3>1 DEF Unlink, Working, Reading
  <2> QED
    BY <1>2, <1>e, <2>2 DEF Unlink
<1>3. ASSUME NEW p \in Process, ReadVersion(p) PROVE TypeOK'
  <2>1. CASE ~ configured
    BY <1>a, <1>d, <1>3, <2>1 DEF ReadVersion, Migrated, Working, Ended
  <2>2. CASE process' = Onward(p, Here(p).version) /\ UNCHANGED <<db, faults>>
    <3>1. process[p].file \in File
      BY <1>3 DEF ReadVersion, At, Places, Working, Reading
    <3>2. Here(p).version \in 0 .. Latest
      BY <1>a, <3>1 DEF Here, Contents
    <3>3. Ranged(Onward(p, Here(p).version)[p])
      BY <3>2, OnwardType DEF Ranged, Migrated
    <3> QED
      BY <1>a, <1>c, <1>3, <2>2, <3>2, <3>3, OnwardType DEF ReadVersion
  <2>3. CASE Goto(p, "check") /\ UNCHANGED <<db, faults>>
    BY <1>a, <1>d, <1>3, <2>3 DEF ReadVersion, Working, Reading
  <2> QED
    BY <1>3, <1>e, <2>1, <2>2, <2>3 DEF ReadVersion
<1>4. ASSUME NEW p \in Process, Create(p) PROVE TypeOK'
  <2> DEFINE object == Revision(p)[process[p].next]
             made == [process[p] EXCEPT !.next = @ + 1,
                                        !.at = IF StampIsNext(p) THEN "stamp" ELSE "create"]
  <2>1. CASE process' = [process EXCEPT ![p] = made] /\ UNCHANGED faults
             /\ db' = [db EXCEPT ![process[p].file].objects = @ \cup {object}]
    <3>1. /\ process[p].file \in File /\ At(p, "create")
      BY <1>4 DEF Create, At, Places, Working, Migrating
    <3>2. /\ object \in Schema(Latest) /\ process[p].next \in 1 .. Len(Revision(p))
          /\ Len(Revision(p)) \in 1 .. 4 /\ process[p].version \in 0 .. Latest - 1
      BY <3>1, CreateIsInRange
    <3>3. db' \in [File -> Contents]
      BY <1>a, <2>1, <3>1, <3>2 DEF Contents
    <3>4. made \in Place
      <4>1. process[p].next + 1 \in 1 .. 5 /\ process[p] \in Place
        BY <1>a, <3>2
      <4>2. (IF StampIsNext(p) THEN "stamp" ELSE "create") \in Working
        BY DEF Working, Migrating
      <4> QED
        BY <4>1, <4>2 DEF Place
    <3>5. Ranged(made)
      BY <1>a, <3>2 DEF Ranged, Place, StampIsNext, Revision, Latest
    <3> QED
      BY <1>a, <1>c, <1>4, <2>1, <3>3, <3>4, <3>5 DEF Create
  <2>2. CASE Goto(p, Failed) /\ UNCHANGED <<db, faults>>
    BY <1>a, <1>d, <1>4, <2>2 DEF Create, Failed, Ended
  <2>3. process' = [process EXCEPT ![p].next = @ + 1,
                      ![p].at = IF StampIsNext(p) THEN "stamp" ELSE "create"]
        => process' = [process EXCEPT ![p] = made]
    BY <1>a DEF Place
  <2> QED
    BY <1>4, <1>e, <2>1, <2>2, <2>3 DEF Create
<1>5. ASSUME NEW p \in Process, Stamp(p) PROVE TypeOK'
  <2>1. CASE /\ db' = [db EXCEPT ![process[p].file].version = Stamped(p)]
             /\ process' = Onward(p, process[p].version + 1) /\ UNCHANGED faults
    <3>1. process[p].file \in File /\ process[p].version < Latest
      BY <1>5 DEF Stamp, At, Places, Underway, RunsRevision, Working, Migrating
    <3>2. process[p].version + 1 \in 0 .. Latest
      BY <1>a, <3>1 DEF Place, Latest
    <3>3. db' \in [File -> Contents]
      BY <1>a, <2>1, <3>1, <3>2 DEF Contents, Stamped
    <3>4. Ranged(Onward(p, process[p].version + 1)[p])
      BY <3>2, OnwardType DEF Ranged, Migrated
    <3> QED
      BY <1>a, <1>c, <1>5, <2>1, <3>2, <3>3, <3>4, OnwardType DEF Stamp
  <2> QED
    BY <1>5, <1>e, <2>1 DEF Stamp
<1>6. ASSUME NEW p \in Process, Seed(p) PROVE TypeOK'
  <2>1. process[p].file \in File
    BY <1>6 DEF Seed, At, Places, Working
  <2>2. CASE db' = [db EXCEPT ![process[p].file].rows = "demo"] /\ Goto(p, "ready")
             /\ UNCHANGED faults
    <3>1. db' \in [File -> Contents]
      BY <1>a, <2>1, <2>2 DEF Contents, Rows
    <3> QED
      BY <1>a, <1>d, <1>6, <2>2, <3>1 DEF Seed, Ended
  <2>3. CASE Goto(p, Failed) /\ UNCHANGED <<db, faults>>
    BY <1>a, <1>d, <1>6, <2>3 DEF Seed, Failed, Ended
  <2> QED
    BY <1>6, <1>e, <2>2, <2>3 DEF Seed
<1>7. ASSUME NEW p \in Starter, Start(p) PROVE TypeOK'
  <2>1. [Idle EXCEPT !.at = "open", !.file = Production] \in Place
    <3>1. "open" \in Working /\ Production \in File
      BY SetupAssumption DEF Working, Reading
    <3> QED
      BY <3>1, IdleType DEF Place
  <2> QED
    BY <1>a, <1>c, <1>7, <2>1 DEF Start, Process, Ranged, Idle
<1>8. ASSUME NEW p \in Starter, SaveRows(p) PROVE TypeOK'
  <2>1. db' \in [File -> Contents]
    BY <1>a, <1>8, SetupAssumption DEF SaveRows, Contents, Rows
  <2> QED
    BY <1>a, <1>b, <1>8, <2>1 DEF SaveRows
<1>9. ASSUME NEW path \in Output, Build(path) PROVE TypeOK'
  <2>1. /\ [Idle EXCEPT !.at = "refused"] \in Place
        /\ [Idle EXCEPT !.at = "unlink", !.file = FileAt[path]] \in Place
    <3>1. "refused" \in Ended /\ "unlink" \in Working /\ FileAt[path] \in File
      BY SetupAssumption DEF Working, Ended
    <3> QED
      BY <3>1, IdleType DEF Place
  <2>2. Builder \in Process
    BY DEF Process
  <2> QED
    BY <1>a, <1>c, <1>9, <2>1, <2>2 DEF Build, Ranged, Idle
<1>10. CASE UNCHANGED vars
  BY <1>a, <1>b, <1>10 DEF vars
<1>11. ASSUME NEW p \in Process, CheckTable(p) PROVE TypeOK'
  <2>1. CASE process' = Onward(p, 0) /\ UNCHANGED <<db, faults>>
    BY <1>a, <1>f, <1>11, <2>1 DEF CheckTable
  <2>2. CASE Goto(p, "table") /\ UNCHANGED <<db, faults>>
    BY <1>a, <1>d, <1>11, <2>2 DEF CheckTable, Working, Reading
  <2> QED
    BY <1>11, <1>e, <2>1, <2>2 DEF CheckTable
<1>12. ASSUME NEW p \in Process, CreateTable(p) PROVE TypeOK'
  <2>1. CASE /\ db' = [db EXCEPT ![process[p].file].table = TRUE]
             /\ process' = Onward(p, 0) /\ UNCHANGED faults
    <3>1. db' \in [File -> Contents]
      BY <1>a, <2>1 DEF Contents
    <3> QED
      BY <1>a, <1>f, <1>12, <2>1, <3>1 DEF CreateTable
  <2>2. CASE Goto(p, Failed) /\ UNCHANGED <<db, faults>>
    BY <1>a, <1>d, <1>12, <2>2 DEF CreateTable, Failed, Ended
  <2> QED
    BY <1>12, <1>e, <2>1, <2>2 DEF CreateTable
<1> QED
  BY <1>1, <1>2, <1>3, <1>4, <1>5, <1>6, <1>7, <1>8, <1>9, <1>10, <1>11, <1>12 DEF Next, Step

\* What the invariant says of a process holds on when the process stands still, what is under
\* it only grows, and the version stays the same for an owner.
LEMMA StandsOn ==
  ASSUME NEW q \in Process, process'[q] = process[q], RunsRevision(q),
         NEW f, f = process[q].file,
         db[f].objects \subseteq db'[f].objects, db[f].version <= db'[f].version,
         db[f].version \in Nat, db'[f].version \in Nat, process[q].version \in Nat,
         Owner(q) => db'[f].version = db[f].version
  PROVE  RunsRevision(q)'
<1>1. (Owner(q)' <=> Owner(q)) /\ Made(q)' = Made(q) /\ Revision(q)' = Revision(q)
  BY DEF Owner, Made, Revision
<1>2. Here(q) = db[f] /\ Here(q)' = db'[f]
  BY DEF Here
<1> QED
  BY <1>1, <1>2 DEF RunsRevision, At

\* A step that takes one process on to a place without a half-made revision and leaves every
\* file's schema alone keeps the invariant.
LEMMA Moves ==
  ASSUME IInv, TypeOK', Places', NEW p \in Process, UNCHANGED configured,
         \A q \in Process : q # p => process'[q] = process[q],
         \A f \in File : db'[f].objects = db[f].objects /\ db'[f].version = db[f].version,
         process'[p].at \in Migrating => RunsRevision(p)' /\ process'[p].next = 1,
         configured /\ process'[p].at \in {"ready", "seed"} =>
           /\ process'[p].file \in File /\ db[process'[p].file].version = Latest
           /\ Schema(Latest) \subseteq db[process'[p].file].objects,
         faults' >= faults, Owner(p) => faults' > 0
  PROVE  IInv'
<1>1. /\ process \in [Process -> Place]
      /\ \A f \in File : db[f] \in Contents /\ db'[f] \in Contents
      /\ faults \in Nat /\ faults' \in Nat
  BY DEF IInv, TypeOK, Place, Contents
<1>2. \A q \in Process : process[q].at \in Migrating \cup {"ready", "seed"} => process[q].file \in File
  BY DEF IInv, Places, Working
<1>3. Underway'
  <2> SUFFICES ASSUME NEW q \in Process, process'[q].at \in Migrating PROVE RunsRevision(q)'
    BY DEF Underway
  <2>1. CASE q = p
    BY <1>1, <2>1
  <2>2. CASE q # p
    <3>1. process'[q] = process[q] /\ RunsRevision(q) /\ process[q].file \in File
      BY <1>1, <1>2, <2>2 DEF IInv, Underway
    <3>2. process[q].version \in Nat /\ db[process[q].file].version \in Nat
      BY <1>1, <3>1 DEF Place, Contents, Latest
    <3> QED
      BY <3>1, <3>2, StandsOn
  <2> QED
    BY <2>1, <2>2
<1>4. ~ Owner(p)' /\ \A q \in Process : q # p => (Owner(q)' <=> Owner(q)) /\ Made(q)' = Made(q)
  BY <1>1 DEF Owner, Made, Revision
<1>5. OneOwner'
  BY <1>1, <1>4 DEF IInv, OneOwner
<1>6. StampIsTrue'
  BY DEF IInv, StampIsTrue
<1>7. ReadyHasSchema'
  <2> SUFFICES ASSUME NEW q \in Process, configured, process'[q].at \in {"ready", "seed"}
               PROVE  /\ Schema(Latest) \subseteq db'[process'[q].file].objects
                      /\ db'[process'[q].file].version = Latest
    BY DEF ReadyHasSchema, Here
  <2>1. CASE q = p
    BY <1>1, <2>1
  <2>2. CASE q # p
    BY <1>1, <1>2, <2>2 DEF IInv, ReadyHasSchema, Here
  <2> QED
    BY <2>1, <2>2
<1>8. Exact'
  <2> SUFFICES ASSUME faults' = 0, NEW f \in File
               PROVE  \/ db'[f].objects = Schema(db'[f].version)
                      \/ \E q \in Process : /\ Owner(q)' /\ process'[q].file = f
                           /\ db'[f].objects = Schema(db'[f].version) \cup Made(q)'
    BY DEF Exact
  <2>1. faults = 0 /\ ~ Owner(p)
    BY <1>1
  <2>2. CASE db[f].objects = Schema(db[f].version)
    BY <2>2
  <2>3. ASSUME NEW q \in Process, Owner(q), process[q].file = f,
               db[f].objects = Schema(db[f].version) \cup Made(q)
        PROVE  /\ Owner(q)' /\ process'[q].file = f
               /\ db'[f].objects = Schema(db'[f].version) \cup Made(q)'
    BY <1>1, <1>4, <2>1, <2>3
  <2> QED
    BY <2>1, <2>2, <2>3 DEF IInv, Exact
<1> QED
  BY <1>3, <1>5, <1>6, <1>7, <1>8 DEF IInv

\* A build removes a file under nobody else.
LEMMA UnlinkKeeps ==
  ASSUME IInv, TypeOK', NEW p \in Process, At(p, "unlink"), UNCHANGED <<configured, faults>>,
         db' = [db EXCEPT ![process[p].file] = Nothing], Goto(p, "open")
  PROVE  IInv'
<1> DEFINE F == process[p].file
<1>1. /\ p = Builder /\ F \in File /\ F # Production
  BY DEF IInv, Places, Process, At, Working
<1>2. /\ process \in [Process -> Place] /\ process'[p].at = "open" /\ process'[p].file = F
      /\ \A q \in Process : q # p => process'[q] = process[q] /\ q \in Starter
      /\ db \in [File -> Contents] /\ db'[F] = Nothing
      /\ \A f \in File : f # F => db'[f] = db[f]
      /\ UNCHANGED <<configured, faults>>
  BY <1>1 DEF IInv, TypeOK, Place, Contents, Goto, Process
<1>3. \A q \in Process : /\ process[q].at \in Migrating \cup {"ready", "seed"} /\ q # p
                         => process[q].file = Production
  BY <1>2 DEF IInv, Places, At, Migrating
<1>4. Places'
  <2>1. \A q \in Starter : q # p /\ process'[q] = process[q]
    BY <1>1, <1>2, SetupAssumption DEF Process
  <2> QED
    BY <1>1, <1>2, <2>1, SetupAssumption DEF IInv, Places, At, Process
<1>5. Underway'
  <2> SUFFICES ASSUME NEW q \in Process, process'[q].at \in Migrating PROVE RunsRevision(q)'
    BY DEF Underway
  <2>1. q # p
    BY <1>2 DEF Migrating
  <2>2. /\ process'[q] = process[q] /\ RunsRevision(q) /\ process[q].file = Production
        /\ db'[Production] = db[Production]
    BY <1>1, <1>2, <1>3, <2>1, SetupAssumption DEF IInv, Underway
  <2>3. process[q].version \in Nat /\ db[Production].version \in Nat
    BY <1>2, SetupAssumption DEF Place, Contents, Latest
  <2> QED
    BY <2>2, <2>3, StandsOn
<1>6. /\ ~ Owner(p) /\ ~ Owner(p)'
      /\ \A q \in Process : q # p => (Owner(q)' <=> Owner(q)) /\ Made(q)' = Made(q)
  BY <1>2 DEF Owner, Made, Revision, Migrating, At
<1>7. OneOwner'
  BY <1>2, <1>6 DEF IInv, OneOwner
<1>8. Nothing.objects = Schema(Nothing.version)
  BY SchemaGrows DEF Nothing
<1>9. StampIsTrue'
  BY <1>2, <1>8 DEF IInv, StampIsTrue
<1>10. ReadyHasSchema'
  BY <1>1, <1>2, <1>3, SetupAssumption DEF IInv, ReadyHasSchema, Here
<1>11. Exact'
  <2> SUFFICES ASSUME faults' = 0, NEW f \in File
               PROVE  \/ db'[f].objects = Schema(db'[f].version)
                      \/ \E q \in Process : /\ Owner(q)' /\ process'[q].file = f
                           /\ db'[f].objects = Schema(db'[f].version) \cup Made(q)'
    BY DEF Exact
  <2>1. CASE f = F
    BY <1>2, <1>8, <2>1
  <2>2. CASE f # F
    BY <1>2, <1>6, <2>2 DEF IInv, Exact
  <2> QED
    BY <2>1, <2>2
<1> QED
  BY <1>4, <1>5, <1>7, <1>9, <1>10, <1>11 DEF IInv

\* Whoever makes the next object of a revision is at the version of the file, and owns the
\* revision alone: everyone else's next object is there already.
LEMMA MakersOwn ==
  ASSUME IInv, NEW p \in Process, At(p, "create"),
         Revision(p)[process[p].next] \notin Here(p).objects
  PROVE  /\ Here(p).version = process[p].version
         /\ \A q \in Process : Owner(q) /\ process[q].file = process[p].file => q = p
<1> DEFINE v == process[p].version
           object == Revision(p)[process[p].next]
<1>1. /\ v \in 0 .. Latest - 1 /\ process[p].next \in 1 .. Len(Revision(p))
      /\ RunsRevision(p) /\ process[p].file \in File /\ Here(p).version \in 0 .. Latest
      /\ Schema(Here(p).version) \subseteq Here(p).objects
  <2>1. process[p].file \in File
    BY DEF IInv, Places, At, Working, Migrating
  <2> QED
    BY <2>1, CreateIsInRange DEF IInv, Underway, At, Migrating, TypeOK, Here, StampIsTrue
<1>2. object \in Schema(v + 1)
  BY <1>1, RevisionIsNew, SchemaGrows DEF Revision
<1>3. Here(p).version = v
  <2>1. ASSUME v + 1 <= Here(p).version PROVE FALSE
    <3>1. Schema(v + 1) \subseteq Schema(Here(p).version)
      BY <1>1, <2>1, SchemaKeeps DEF Latest
    <3> QED
      BY <1>1, <1>2, <3>1
  <2> QED
    BY <1>1, <2>1 DEF RunsRevision, Latest
<1>4. ASSUME NEW q \in Process, Owner(q), process[q].file = process[p].file, q # p PROVE FALSE
  <2>1. ~ Owner(p)
    BY <1>4 DEF IInv, OneOwner
  <2>2. process[p].next = 1
    BY <1>1, <2>1 DEF Owner, At, Migrating
  <2>3. RunsRevision(q) /\ process[q].version = v
    BY <1>3, <1>4 DEF IInv, Underway, Owner, RunsRevision, Here
  <2>4. Revision(q) = Revision(p) /\ 1 \in 1 .. process[q].next - 1
    <3>1. process[q].next \in 1 .. 5
      BY DEF IInv, TypeOK
    <3> QED
      BY <1>4, <2>3, <3>1 DEF Revision, Owner
  <2>5. Revision(q)[1] \in Made(q)
    BY <2>4 DEF Made
  <2>6. object \in Here(q).objects
    BY <2>2, <2>3, <2>4, <2>5 DEF RunsRevision
  <2> QED
    BY <1>4, <2>6 DEF Here
<1> QED
  BY <1>3, <1>4

\* The owner of a revision finds its next object missing, unless there was a fault.
LEMMA OwnersGoOn ==
  ASSUME IInv, NEW p \in Process, At(p, "create"), Owner(p), faults = 0
  PROVE  Revision(p)[process[p].next] \notin Here(p).objects
<1> DEFINE v == process[p].version
           object == Revision(p)[process[p].next]
<1>1. /\ v \in 0 .. Latest - 1 /\ process[p].next \in 1 .. Len(Revision(p))
      /\ RunsRevision(p) /\ process[p].file \in File /\ Here(p).version = v
  <2>1. process[p].file \in File
    BY DEF IInv, Places, At, Working, Migrating
  <2> QED
    BY <2>1, CreateIsInRange DEF IInv, Underway, At, Migrating, RunsRevision
<1>2. object \notin Schema(v) /\ object \notin Made(p)
  <2>1. object \notin Schema(v)
    BY <1>1, RevisionIsNew DEF Revision
  <2>2. ASSUME NEW i \in 1 .. process[p].next - 1 PROVE Revision(p)[i] # object
    <3>1. i \in 1 .. Len(Revision(p)) /\ i # process[p].next
      BY <1>1
    <3> QED
      BY <1>1, <3>1, RevisionIsNew DEF Revision
  <2> QED
    BY <2>1, <2>2 DEF Made
<1>3. Here(p).objects \subseteq Schema(v) \cup Made(p)
  BY <1>1 DEF IInv, Exact, OneOwner, Here
<1> QED
  BY <1>2, <1>3

\* Making an object keeps the invariant.
LEMMA MakeKeeps ==
  ASSUME IInv, TypeOK', NEW p \in Process, At(p, "create"), UNCHANGED <<configured, faults>>,
         NEW object, object = Revision(p)[process[p].next], object \notin Here(p).objects,
         db' = [db EXCEPT ![process[p].file].objects = @ \cup {object}],
         process' = [process EXCEPT ![p].next = @ + 1,
                                    ![p].at = IF StampIsNext(p) THEN "stamp" ELSE "create"]
  PROVE  IInv'
<1> DEFINE F == process[p].file
           v == process[p].version
<1>1. /\ v \in 0 .. Latest - 1 /\ process[p].next \in 1 .. Len(Revision(p)) /\ Len(Revision(p)) \in 1 .. 4
      /\ RunsRevision(p) /\ F \in File
  <2>1. F \in File
    BY DEF IInv, Places, At, Working, Migrating
  <2> QED
    BY <2>1, CreateIsInRange DEF IInv, Underway, At, Migrating
<1>2. /\ process \in [Process -> Place]
      /\ process'[p].at = IF StampIsNext(p) THEN "stamp" ELSE "create"
      /\ process'[p].next = process[p].next + 1
      /\ process'[p].version = v /\ process'[p].file = F
      /\ \A q \in Process : q # p => process'[q] = process[q]
  BY DEF IInv, TypeOK, Place
<1>3. /\ db \in [File -> Contents]
      /\ db'[F].objects = db[F].objects \cup {object}
      /\ db'[F].version = db[F].version /\ db'[F].rows = db[F].rows
      /\ \A f \in File : f # F => db'[f] = db[f]
  BY <1>1 DEF IInv, TypeOK, Contents
<1>4. /\ db[F].version = v
      /\ \A q \in Process : Owner(q) /\ process[q].file = F => q = p
  BY MakersOwn DEF Here
<1>5. Places'
  <2>1. db'[Production].rows # "demo"
    BY <1>3, SetupAssumption DEF IInv, Places
  <2>2. process'[p].at \in Migrating /\ \A q \in Process : process'[q].file = process[q].file
    BY <1>2 DEF Migrating
  <2>3. p \in Starter => F = Production
    BY DEF IInv, Places, At
  <2> QED
    BY <1>1, <1>2, <2>1, <2>2, <2>3 DEF IInv, Places, At, Process, Migrating
<1>6. Revision(p)' = Revision(p) /\ Made(p)' = Made(p) \cup {object}
  <2>1. Revision(p)' = Revision(p)
    BY <1>2 DEF Revision
  <2>2. 1 .. process'[p].next - 1 = (1 .. process[p].next - 1) \cup {process[p].next}
    BY <1>1, <1>2
  <2> QED
    BY <2>1, <2>2 DEF Made
<1>7. \A q \in Process : q # p => (Owner(q)' <=> Owner(q)) /\ Made(q)' = Made(q)
  BY <1>2 DEF Owner, Made, Revision
<1>8. Owner(p)' /\ RunsRevision(p)'
  <2>1. Owner(p)'
    BY <1>1, <1>2 DEF Owner, Migrating
  <2>2. process'[p].next \in 1 .. Len(Revision(p)) + 1
    BY <1>1, <1>2
  <2>3. process'[p].at = "stamp" => process'[p].next = Len(Revision(p)) + 1
    BY <1>1, <1>2 DEF StampIsNext
  <2>4. Here(p) = db[F] /\ Here(p)' = db'[F]
    BY <1>2 DEF Here
  <2> QED
    BY <1>1, <1>2, <1>3, <1>4, <1>6, <2>1, <2>2, <2>3, <2>4 DEF RunsRevision, At, Latest
<1>9. Underway'
  <2> SUFFICES ASSUME NEW q \in Process, process'[q].at \in Migrating, q # p PROVE RunsRevision(q)'
    BY <1>8 DEF Underway
  <2>1. process'[q] = process[q] /\ RunsRevision(q) /\ process[q].file \in File
    BY <1>2 DEF IInv, Underway, Places, Working
  <2>2. process[q].version \in Nat /\ db[process[q].file].version \in Nat
    BY <1>2, <1>3, <2>1 DEF Place, Contents, Latest
  <2>3. /\ db[process[q].file].objects \subseteq db'[process[q].file].objects
        /\ db'[process[q].file].version = db[process[q].file].version
    BY <1>3, <2>1
  <2>4. /\ db[process[q].file].version <= db'[process[q].file].version
        /\ db'[process[q].file].version \in Nat
    BY <2>2, <2>3
  <2> QED
    BY <2>1, <2>2, <2>3, <2>4, StandsOn
<1>10. OneOwner'
  BY <1>2, <1>4, <1>7 DEF IInv, OneOwner
<1>11. StampIsTrue'
  BY <1>3 DEF IInv, StampIsTrue
<1>12. ReadyHasSchema'
  <2> SUFFICES ASSUME NEW q \in Process, configured, process'[q].at \in {"ready", "seed"}
               PROVE  /\ Schema(Latest) \subseteq db'[process'[q].file].objects
                      /\ db'[process'[q].file].version = Latest
    BY DEF ReadyHasSchema, Here
  <2>1. q # p
    BY <1>2
  <2>2. process'[q] = process[q] /\ process[q].file \in File
    BY <1>2, <2>1 DEF IInv, Places, Working
  <2>3. /\ db[process[q].file].objects \subseteq db'[process[q].file].objects
        /\ db'[process[q].file].version = db[process[q].file].version
    BY <1>3, <2>2
  <2>4. /\ Schema(Latest) \subseteq db[process[q].file].objects
        /\ db[process[q].file].version = Latest
    BY <2>2 DEF IInv, ReadyHasSchema, Here
  <2> QED
    BY <2>2, <2>3, <2>4
<1>13. Exact'
  <2> SUFFICES ASSUME faults' = 0, NEW f \in File
               PROVE  \/ db'[f].objects = Schema(db'[f].version)
                      \/ \E q \in Process : /\ Owner(q)' /\ process'[q].file = f
                           /\ db'[f].objects = Schema(db'[f].version) \cup Made(q)'
    BY DEF Exact
  <2>1. CASE f = F
    <3>1. db[F].objects = Schema(v) \/ db[F].objects = Schema(v) \cup Made(p)
      BY <1>1, <1>4 DEF IInv, Exact
    <3>2. Made(p) \subseteq db[F].objects
      BY <1>1 DEF RunsRevision, Here
    <3>3. db'[F].objects = Schema(v) \cup Made(p)'
      BY <1>3, <1>6, <3>1, <3>2
    <3> QED
      BY <1>2, <1>3, <1>4, <1>8, <2>1, <3>3
  <2>2. CASE f # F
    BY <1>2, <1>3, <1>7, <2>2 DEF IInv, Exact
  <2> QED
    BY <2>1, <2>2
<1> QED
  BY <1>5, <1>9, <1>10, <1>11, <1>12, <1>13 DEF IInv

\* Stamping a revision keeps the invariant: its owner stamps it, and alone.
LEMMA StampKeeps ==
  ASSUME IInv, TypeOK', NEW p \in Process, At(p, "stamp"), UNCHANGED <<configured, faults>>,
         db' = [db EXCEPT ![process[p].file].version = Stamped(p)],
         process' = Onward(p, process[p].version + 1)
  PROVE  IInv'
<1> DEFINE F == process[p].file
           v == process[p].version
<1>1. /\ v \in 0 .. Latest - 1 /\ F \in File /\ RunsRevision(p)
      /\ Len(Revision(p)) \in 1 .. 4 /\ process[p].next = Len(Revision(p)) + 1
  <2>1. F \in File /\ RunsRevision(p)
    BY DEF IInv, Places, Underway, At, Working, Migrating
  <2>2. v \in 0 .. Latest - 1
    BY <2>1 DEF IInv, TypeOK, RunsRevision, Latest
  <2> QED
    BY <2>1, <2>2, RevisionIsNew DEF RunsRevision, Revision
<1>2. Owner(p) /\ db[F].version = v
  <2>1. process[p].next > 1
    <3>1. \A n \in 1 .. 4 : n + 1 > 1
      OBVIOUS
    <3> QED
      BY <1>1, <3>1
  <2>2. Owner(p)
    BY <2>1 DEF Owner, At, Migrating
  <2> QED
    BY <1>1, <2>2 DEF RunsRevision, Here
<1>3. /\ v + 1 \in 0 .. Latest /\ process'[p].file = F
      /\ process'[p].version = v + 1 /\ process'[p].next = 1
      /\ process'[p].at = IF v + 1 < Latest THEN "create" ELSE Migrated(p)
      /\ \A q \in Process : q # p => process'[q] = process[q]
      /\ process \in [Process -> Place]
  <2>1. v + 1 \in 0 .. Latest
    BY <1>1 DEF Latest
  <2>2. process \in [Process -> Place] /\ TypeOK
    BY DEF IInv, TypeOK, Place
  <2> QED
    BY <2>1, <2>2, OnwardType
<1>4. /\ db \in [File -> Contents] /\ db'[F].objects = db[F].objects /\ db'[F].version = v + 1
      /\ db'[F].rows = db[F].rows /\ \A f \in File : f # F => db'[f] = db[f]
  BY <1>1 DEF IInv, TypeOK, Contents, Stamped
<1>5. Made(p) = ObjectsOf(v + 1) /\ Schema(v + 1) = Schema(v) \cup Made(p)
  <2>1. 1 .. process[p].next - 1 = 1 .. Len(Revision(p))
    BY <1>1
  <2>2. Made(p) = {Revision(p)[i] : i \in 1 .. Len(Revision(p))}
    BY <2>1 DEF Made
  <2> QED
    BY <1>1, <2>2, RevisionIsNew, SchemaGrows DEF Revision
<1>6. Schema(v + 1) \subseteq db[F].objects
  BY <1>1, <1>5 DEF RunsRevision, Here
<1>7. \A q \in Process : q # p => (Owner(q)' <=> Owner(q)) /\ Made(q)' = Made(q)
  BY <1>3 DEF Owner, Made, Revision
<1>8. \A q \in Process : q # p /\ process[q].file = F => ~ Owner(q)
  BY <1>2 DEF IInv, OneOwner
<1>9. Places'
  <2>1. db'[Production].rows # "demo"
    BY <1>4, SetupAssumption DEF IInv, Places
  <2>2. \A q \in Process : process'[q].file = process[q].file
    BY <1>3
  <2>3. p \in Starter => F = Production /\ process'[p].at \notin {"idle", "unlink", "seed"}
    BY <1>3, SetupAssumption DEF IInv, Places, At, Migrated
  <2> QED
    BY <1>1, <1>3, <2>1, <2>2, <2>3 DEF IInv, Places, At, Process
<1>10. Underway'
  <2> SUFFICES ASSUME NEW q \in Process, process'[q].at \in Migrating PROVE RunsRevision(q)'
    BY DEF Underway
  <2>1. CASE q = p
    <3>1. v + 1 \in 0 .. Latest - 1
      BY <1>3, <2>1 DEF Latest, Migrated, Migrating
    <3>2. Revision(p)' = Revisions[(v + 1) + 1] /\ Len(Revision(p)') \in 1 .. 4
      BY <1>3, <3>1, RevisionIsNew DEF Revision
    <3>3. Made(p)' = {}
      BY <1>3 DEF Made
    <3>4. ~ At(p, "stamp")' /\ ~ Owner(p)' /\ Here(p)' = db'[F]
      BY <1>3 DEF At, Migrated, Owner, Here
    <3> QED
      BY <1>3, <1>4, <1>6, <2>1, <3>1, <3>2, <3>3, <3>4 DEF RunsRevision, Latest
  <2>2. CASE q # p
    <3>1. process'[q] = process[q] /\ RunsRevision(q) /\ process[q].file \in File
      BY <1>3, <2>2 DEF IInv, Underway, Places, Working
    <3>a. process[q] \in Place /\ db[process[q].file] \in Contents
      BY <1>3, <1>4, <3>1
    <3>b. process[q].version \in Nat /\ db[process[q].file].version \in Nat
      BY <3>a DEF Place, Contents, Latest
    <3>2. /\ process[q].version \in Nat /\ db[process[q].file].version \in Nat
          /\ db'[process[q].file].version \in Nat
      BY <1>1, <1>3, <1>4, <3>1, <3>b DEF Latest
    <3>3. /\ db[process[q].file].objects \subseteq db'[process[q].file].objects
          /\ db[process[q].file].version <= db'[process[q].file].version
          /\ Owner(q) => db'[process[q].file].version = db[process[q].file].version
      BY <1>1, <1>2, <1>4, <1>8, <2>2, <3>1, <3>2
    <3> QED
      BY <3>1, <3>2, <3>3, StandsOn
  <2> QED
    BY <2>1, <2>2
<1>11. OneOwner'
  <2>1. ~ Owner(p)'
    BY <1>3 DEF Owner
  <2> QED
    BY <1>3, <1>7, <2>1 DEF IInv, OneOwner
<1>12. StampIsTrue'
  BY <1>4, <1>6 DEF IInv, StampIsTrue
<1>13. ReadyHasSchema'
  <2> SUFFICES ASSUME NEW q \in Process, configured, process'[q].at \in {"ready", "seed"}
               PROVE  /\ Schema(Latest) \subseteq db'[process'[q].file].objects
                      /\ db'[process'[q].file].version = Latest
    BY DEF ReadyHasSchema, Here
  <2>1. CASE q = p
    <3>1. v + 1 = Latest
      BY <1>3, <2>1 DEF Latest
    <3> QED
      BY <1>3, <1>4, <1>6, <2>1, <3>1
  <2>2. CASE q # p
    <3>1. process'[q] = process[q] /\ process[q].file \in File
      BY <1>3, <2>2 DEF IInv, Places, Working
    <3>2. Schema(Latest) \subseteq db[process[q].file].objects /\ db[process[q].file].version = Latest
      BY <3>1 DEF IInv, ReadyHasSchema, Here
    <3>3. process[q].file # F
      BY <1>1, <1>2, <3>2 DEF Latest
    <3> QED
      BY <1>4, <3>1, <3>2, <3>3
  <2> QED
    BY <2>1, <2>2
<1>14. Exact'
  <2> SUFFICES ASSUME faults' = 0, NEW f \in File
               PROVE  \/ db'[f].objects = Schema(db'[f].version)
                      \/ \E q \in Process : /\ Owner(q)' /\ process'[q].file = f
                           /\ db'[f].objects = Schema(db'[f].version) \cup Made(q)'
    BY DEF Exact
  <2>1. CASE f = F
    <3>1. db[F].objects = Schema(v) \/ db[F].objects = Schema(v) \cup Made(p)
      BY <1>1, <1>2, <1>8 DEF IInv, Exact
    <3> QED
      <4>1. db[F].objects = Schema(v + 1)
        BY <1>5, <1>6, <3>1
      <4> QED
        BY <1>4, <2>1, <4>1
  <2>2. CASE f # F
    BY <1>3, <1>4, <1>7, <2>2 DEF IInv, Exact
  <2> QED
    BY <2>1, <2>2
<1> QED
  BY <1>9, <1>10, <1>11, <1>12, <1>13, <1>14 DEF IInv

\* A process that ends, killed or by an error, keeps the invariant: an owner ends by a fault.
LEMMA EndKeeps ==
  ASSUME IInv, TypeOK', NEW p \in Process, NEW label \in {"failed", "killed"}, Goto(p, label),
         process[p].at # "idle",
         UNCHANGED <<configured, db>>, faults' >= faults, Owner(p) => faults' > 0
  PROVE  IInv'
<1> DEFINE place == [process[p] EXCEPT !.at = label]
<1>1. /\ process' = [process EXCEPT ![p] = place] /\ place.at = label
      /\ process'[p].at = label /\ process'[p].file = process[p].file
      /\ \A q \in Process : q # p => process'[q] = process[q]
  BY DEF IInv, TypeOK, Goto
<1>2. Places'
  BY <1>1 DEF IInv, Places, At, Process, Working, Reading, Migrating
<1> QED
  BY <1>1, <1>2, Moves DEF Migrating

\* A statement that fails keeps the invariant.
LEMMA FaultKeeps ==
  ASSUME IInv, TypeOK', NEW p \in Process, StatementFails(p), process[p].at # "idle",
         UNCHANGED configured
  PROVE  IInv'
<1>1. faults \in Nat
  BY DEF IInv, TypeOK
<1> QED
  BY <1>1, EndKeeps DEF StatementFails, Fault, Failed

\* A process that goes on from a version it read, which the file has come to, keeps the
\* invariant, if the schema of every file stands.
LEMMA OnwardKeeps ==
  ASSUME IInv, TypeOK', NEW p \in Process, process[p].at \in Reading,
         NEW version \in 0 .. Latest, version <= Here(p).version, process' = Onward(p, version),
         \A f \in File : /\ db'[f].objects = db[f].objects /\ db'[f].version = db[f].version
                         /\ db'[f].rows = db[f].rows,
         UNCHANGED <<configured, faults>>
  PROVE  IInv'
<1> DEFINE place == Onward(p, version)[p]
<1>1. /\ process[p].file \in File /\ ~ Owner(p) /\ process \in [Process -> Place]
      /\ Here(p) = db[process[p].file] /\ db[process[p].file] \in Contents /\ faults \in Nat
  BY DEF IInv, TypeOK, Places, Working, Reading, Migrating, Owner, Here, Place, Contents
<1>2. p \in Starter => process[p].file = Production /\ Migrated(p) = "ready"
  BY SetupAssumption DEF IInv, Places, At, Migrated, Reading
<1> HIDE DEF place
<1>3. /\ process'[p] = place
      /\ place.file = process[p].file /\ place.version = version /\ place.next = 1
      /\ place.at = IF version < Latest THEN "create" ELSE Migrated(p)
      /\ \A q \in Process : q # p => process'[q] = process[q]
  BY <1>1, OnwardType DEF IInv, place
<1>4. Places'
  <2>1. db'[Production].rows # "demo"
    BY SetupAssumption DEF IInv, Places
  <2>2. \A q \in Process : process'[q].file = process[q].file
    BY <1>3
  <2>3. p \in Starter => process'[p].at \notin {"idle", "unlink", "seed"}
    BY <1>2, <1>3
  <2> QED
    BY <1>1, <1>2, <1>3, <2>1, <2>2, <2>3 DEF IInv, Places, At, Process
<1>5. Here(p).version \in 0 .. Latest /\ Schema(version) \subseteq Here(p).objects
  <2>1. Here(p).version \in 0 .. Latest /\ Schema(Here(p).version) \subseteq Here(p).objects
    BY <1>1 DEF IInv, StampIsTrue, Contents
  <2> QED
    BY <2>1, SchemaKeeps
<1>6. place.at \in Migrating => RunsRevision(p)'
  <2> SUFFICES ASSUME place.at \in Migrating PROVE RunsRevision(p)'
    OBVIOUS
  <2>1. version \in 0 .. Latest - 1 /\ place.at = "create"
    BY <1>3 DEF Latest, Migrated, Migrating
  <2>2. Revision(p)' = Revisions[version + 1] /\ Len(Revision(p)') \in 1 .. 4
    BY <1>3, <2>1, RevisionIsNew DEF Revision
  <2>3. /\ Made(p)' = {} /\ ~ Owner(p)'
        /\ Here(p)'.version = Here(p).version /\ Here(p)'.objects = Here(p).objects
    BY <1>1, <1>3 DEF Made, Owner, Here
  <2> QED
    BY <1>3, <1>5, <2>1, <2>2, <2>3 DEF RunsRevision, At, Latest
<1>7. place.at \in {"ready", "seed"} =>
        db[place.file].version = Latest /\ Schema(Latest) \subseteq db[place.file].objects
  <2>1. place.at \in {"ready", "seed"} => version = Latest
    BY <1>3 DEF Latest
  <2> QED
    BY <1>1, <1>3, <1>5, <2>1 DEF Latest
<1> QED
  BY <1>1, <1>3, <1>4, <1>6, <1>7, Moves

\* A process that goes from one reading of the version to the next keeps the invariant.
LEMMA ReadsOn ==
  ASSUME IInv, TypeOK', NEW p \in Process, process[p].at \in Reading, NEW label \in Reading,
         Goto(p, label), UNCHANGED <<configured, db, faults>>
  PROVE  IInv'
<1>1. /\ process[p].file \in File /\ ~ Owner(p) /\ process \in [Process -> Place] /\ faults \in Nat
      /\ p \in Starter => process[p].file = Production
  BY DEF IInv, TypeOK, Places, Working, Reading, Migrating, Owner, Place, At
<1> DEFINE place == [process[p] EXCEPT !.at = label]
<1>2. /\ process'[p] = place /\ place.at = label /\ place.file = process[p].file
      /\ \A q \in Process : q # p => process'[q] = process[q]
  BY <1>1 DEF Goto, Place
<1> HIDE DEF place
<1>3. label \notin Migrating \cup {"idle", "unlink", "seed", "ready"}
  BY DEF Reading, Migrating
<1>4. Places'
  BY <1>1, <1>2, <1>3 DEF IInv, Places, At, Process
<1> QED
  BY <1>1, <1>2, <1>3, <1>4, Moves

\* The initial state satisfies the invariant.
LEMMA InitInv == Init => IInv
<1> SUFFICES ASSUME Init PROVE IInv
  OBVIOUS
<1>1. PICK version \in 0 .. Latest :
        db = [f \in File |->
               IF f = Production
               THEN [objects |-> Schema(version), table |-> version # 0, version |-> version,
                     rows |-> IF version = 0 THEN "none" ELSE "real"]
               ELSE Nothing]
  BY DEF Init
<1>2. /\ configured \in BOOLEAN /\ faults = 0 /\ process = [p \in Process |-> Idle]
  BY DEF Init
<1>3. \A p \in Process : process[p] = Idle /\ Idle.at = "idle" /\ Idle.file = None
  BY <1>2 DEF Idle
<1>4. \A f \in File : db[f] \in Contents
  <2>1. Nothing \in Contents
    BY DEF Nothing, Contents, Rows, Latest
  <2>2. [objects |-> Schema(version), table |-> version # 0, version |-> version,
         rows |-> IF version = 0 THEN "none" ELSE "real"] \in Contents
    BY SchemaKeeps DEF Contents, Rows, Latest
  <2> QED
    BY <1>1, <2>1, <2>2
<1>5. TypeOK
  <2>1. db \in [File -> Contents]
    BY <1>1, <1>4
  <2>2. process \in [Process -> Place]
    BY <1>2, IdleType
  <2>3. faults \in 0 .. MaxFaults
    BY <1>2, SetupAssumption
  <2>4. \A p \in Process : ~ At(p, "create")
    BY <1>3 DEF At
  <2> QED
    BY <1>2, <2>1, <2>2, <2>3, <2>4 DEF TypeOK, Contents, Place
<1>6. Places
  <2>1. db[Production].rows # "demo"
    BY <1>1, SetupAssumption
  <2> QED
    BY <1>3, <2>1, SetupAssumption DEF Places, At, Process, Working, Reading, Migrating
<1>7. Underway /\ OneOwner /\ ReadyHasSchema
  BY <1>3 DEF Underway, OneOwner, Owner, ReadyHasSchema, Migrating
<1>8. \A f \in File : db[f].objects = Schema(db[f].version)
  BY <1>1, SchemaGrows DEF Nothing
<1>9. StampIsTrue /\ Exact
  BY <1>8 DEF StampIsTrue, Exact
<1> QED
  BY <1>5, <1>6, <1>7, <1>9 DEF IInv

\* Every step keeps the invariant.
LEMMA StepInv == IInv /\ [Next]_vars => IInv'
<1> SUFFICES ASSUME IInv, [Next]_vars PROVE IInv'
  OBVIOUS
<1>a. TypeOK'
  BY TypeStep DEF IInv
<1>b. /\ process \in [Process -> Place] /\ db \in [File -> Contents] /\ faults \in Nat
      /\ TypeOK /\ Places
  BY DEF IInv, TypeOK, Place, Contents
<1>1. ASSUME NEW p \in Process, Kill(p) PROVE IInv'
  <2>1. process[p].at # "idle" /\ faults' = faults + 1
    BY <1>1 DEF Kill, Fault, Working, Reading, Migrating
  <2> QED
    BY <1>a, <1>b, <1>1, <2>1, EndKeeps DEF Kill
<1>2. ASSUME NEW p \in Process, Unlink(p) PROVE IInv'
  <2>1. At(p, "unlink") /\ process[p].at # "idle" /\ UNCHANGED configured
    BY <1>2 DEF Unlink, At
  <2> QED
    BY <1>a, <1>2, <2>1, FaultKeeps, UnlinkKeeps DEF Unlink
<1>3. ASSUME NEW p \in Process, ReadVersion(p) PROVE IInv'
  <2>1. process[p].at = "open" /\ process[p].file \in File /\ ~ Owner(p)
    BY <1>b, <1>3 DEF ReadVersion, At, Places, Working, Reading, Owner, Migrating
  <2>2. p \in Starter => process[p].file = Production /\ Migrated(p) = "ready"
    BY <1>b, <2>1, SetupAssumption DEF Places, At, Migrated
  <2>3. CASE ~ configured /\ Goto(p, Migrated(p)) /\ UNCHANGED <<db, faults>>
    <3> DEFINE place == [process[p] EXCEPT !.at = Migrated(p)]
    <3>1. /\ process' = [process EXCEPT ![p] = place] /\ place.at \in {"ready", "seed"}
          /\ process'[p] = place /\ place.at = Migrated(p) /\ place.file = process[p].file
          /\ \A q \in Process : q # p => process'[q] = process[q]
      BY <1>b, <2>3 DEF Goto, Place, Migrated
    <3> HIDE DEF place
    <3>2. Places'
      BY <1>b, <2>1, <2>2, <2>3, <3>1 DEF Places, At, Process
    <3>3. UNCHANGED <<configured, db, faults>> /\ ~ configured /\ place.at \notin Migrating
      BY <1>3, <2>3, <3>1 DEF ReadVersion, Migrating
    <3> QED
      BY <1>a, <1>b, <2>1, <3>1, <3>2, <3>3, Moves
  <2>4. CASE process' = Onward(p, Here(p).version) /\ UNCHANGED <<db, faults>>
    <3>1. Here(p).version \in 0 .. Latest
      BY <1>b, <2>1 DEF Here, Contents
    <3>2. Here(p).version <= Here(p).version
      BY <3>1 DEF Latest
    <3> QED
      BY <1>a, <1>3, <2>1, <2>4, <3>1, <3>2, OnwardKeeps DEF ReadVersion, Reading
  <2>5. CASE Goto(p, "check") /\ UNCHANGED <<db, faults>>
    BY <1>a, <1>3, <2>1, <2>5, ReadsOn DEF ReadVersion, Reading
  <2> QED
    BY <1>a, <1>3, <2>1, <2>3, <2>4, <2>5, FaultKeeps DEF ReadVersion
<1>4. ASSUME NEW p \in Process, Create(p) PROVE IInv'
  <2> DEFINE object == Revision(p)[process[p].next]
  <2>1. At(p, "create") /\ process[p].at # "idle" /\ UNCHANGED configured
    BY <1>4 DEF Create, At
  <2>2. CASE object \in Here(p).objects /\ Goto(p, Failed) /\ UNCHANGED <<db, faults>>
    <3>1. Owner(p) => faults > 0
      BY <1>b, <2>1, <2>2, OwnersGoOn
    <3> QED
      BY <1>a, <1>b, <2>1, <2>2, <3>1, EndKeeps DEF Failed
  <2> QED
    BY <1>a, <1>4, <2>1, <2>2, FaultKeeps, MakeKeeps DEF Create
<1>5. ASSUME NEW p \in Process, Stamp(p) PROVE IInv'
  <2>1. At(p, "stamp") /\ process[p].at # "idle" /\ UNCHANGED configured
    BY <1>5 DEF Stamp, At
  <2> QED
    BY <1>a, <1>5, <2>1, FaultKeeps, StampKeeps DEF Stamp
<1>6. ASSUME NEW p \in Process, Seed(p) PROVE IInv'
  <2>1. /\ process[p].at = "seed" /\ p = Builder /\ process[p].file \in File
        /\ process[p].file # Production /\ ~ Owner(p)
    BY <1>b, <1>6 DEF Seed, At, Places, Process, Working, Owner, Migrating
  <2>2. CASE Goto(p, Failed) /\ UNCHANGED <<db, faults>>
    BY <1>a, <1>b, <1>6, <2>1, <2>2, EndKeeps DEF Failed, Seed
  <2>3. CASE db' = [db EXCEPT ![process[p].file].rows = "demo"] /\ Goto(p, "ready")
             /\ UNCHANGED faults
    <3> DEFINE place == [process[p] EXCEPT !.at = "ready"]
    <3>1. /\ process' = [process EXCEPT ![p] = place] /\ place.at = "ready"
          /\ process'[p] = place /\ place.file = process[p].file
          /\ \A q \in Process : q # p => process'[q] = process[q]
      BY <1>b, <2>3 DEF Goto, Place
    <3>2. /\ \A f \in File : db'[f].objects = db[f].objects /\ db'[f].version = db[f].version
          /\ db'[Production] = db[Production]
      BY <1>b, <2>1, <2>3, SetupAssumption DEF Contents
    <3> HIDE DEF place
    <3>3. Places'
      BY <1>b, <2>1, <3>1, <3>2, SetupAssumption DEF Places, At, Process
    <3>4. configured => Schema(Latest) \subseteq db[place.file].objects /\ db[place.file].version = Latest
      BY <2>1, <3>1 DEF IInv, ReadyHasSchema, Here
    <3>5. UNCHANGED <<configured, faults>> /\ place.at \notin Migrating
      BY <1>6, <2>3, <3>1 DEF Seed, Migrating
    <3> QED
      BY <1>a, <1>b, <2>1, <3>1, <3>2, <3>3, <3>4, <3>5, Moves
  <2> QED
    BY <1>a, <1>6, <2>1, <2>2, <2>3, FaultKeeps DEF Seed
<1>7. ASSUME NEW p \in Starter, Start(p) PROVE IInv'
  <2> DEFINE place == [Idle EXCEPT !.at = "open", !.file = Production]
  <2>1. /\ p \in Process /\ process' = [process EXCEPT ![p] = place] /\ process'[p] = place
        /\ place.at = "open" /\ place.file = Production /\ ~ Owner(p)
        /\ \A q \in Process : q # p => process'[q] = process[q]
    BY <1>b, <1>7 DEF Start, Process, Idle, Owner, Migrating
  <2> HIDE DEF place
  <2>2. Places'
    BY <1>b, <1>7, <2>1, SetupAssumption DEF Places, At, Process, Start
  <2>3. UNCHANGED <<configured, db, faults>> /\ place.at \notin Migrating
    BY <1>7, <2>1 DEF Start, Migrating
  <2> QED
    BY <1>a, <1>b, <2>1, <2>2, <2>3, Moves
<1>8. ASSUME NEW p \in Starter, SaveRows(p) PROVE IInv'
  <2>1. /\ p \in Process /\ process' = [process EXCEPT ![p] = process[p]] /\ process[p].at = "ready"
        /\ process[p].file \in File /\ ~ Owner(p) /\ UNCHANGED <<configured, faults, process>>
    BY <1>b, <1>8 DEF SaveRows, Process, At, Places, Owner, Migrating
  <2>2. /\ \A f \in File : db'[f].objects = db[f].objects /\ db'[f].version = db[f].version
        /\ db'[Production].rows = "real"
    BY <1>b, <1>8, SetupAssumption DEF SaveRows, Contents
  <2>3. Places'
    BY <1>b, <2>1, <2>2 DEF Places, At
  <2> QED
    BY <1>a, <1>b, <2>1, <2>2, <2>3, Moves DEF IInv, ReadyHasSchema, Here, Migrating
<1>9. ASSUME NEW path \in Output, Build(path) PROVE IInv'
  <2>1. Builder \in Process /\ process[Builder].at \notin Working /\ ~ Owner(Builder)
    BY <1>9 DEF Build, Process, Owner, Working
  <2>2. PICK place \in Place :
          /\ process' = [process EXCEPT ![Builder] = place] /\ place.at \in {"refused", "unlink"}
          /\ place.file # Production /\ (place.at = "unlink" => place.file \in File)
    <3>1. CASE IsProduction(path)
      <4>1. [Idle EXCEPT !.at = "refused"] \in Place /\ [Idle EXCEPT !.at = "refused"].file = None
        BY IdleType DEF Place, Ended, Idle
      <4> QED
        BY <1>9, <3>1, <4>1, SetupAssumption DEF Build, Idle
    <3>2. CASE ~ IsProduction(path)
      <4>1. /\ [Idle EXCEPT !.at = "unlink", !.file = FileAt[path]] \in Place
            /\ FileAt[path] \in File /\ FileAt[path] # Production
        BY <3>2, IdleType, SetupAssumption DEF Place, Working, IsProduction
      <4> QED
        BY <1>9, <3>2, <4>1 DEF Build, Idle
    <3> QED
      BY <3>1, <3>2
  <2>3. process'[Builder] = place /\ \A q \in Process : q # Builder => process'[q] = process[q]
    BY <1>b, <2>1, <2>2
  <2>4. UNCHANGED <<configured, db, faults>> /\ place.at \notin Migrating
    BY <1>9, <2>2 DEF Build, Migrating
  <2>5. Places'
    <3>1. \A q \in Starter : q \in Process /\ q # Builder
      BY SetupAssumption DEF Process
    <3>2. "refused" \notin Working \cup {"ready"}
      BY DEF Working, Reading, Migrating
    <3> QED
      BY <1>b, <2>2, <2>3, <2>4, <3>1, <3>2 DEF Places, At
  <2> QED
    BY <1>a, <1>b, <2>1, <2>2, <2>4, <2>5, Moves
<1>10. CASE UNCHANGED vars
  <2>1. UNCHANGED <<configured, db, process, faults>>
    BY <1>10 DEF vars
  <2>2. Places' /\ StampIsTrue' /\ ReadyHasSchema'
    BY <2>1 DEF IInv, Places, StampIsTrue, ReadyHasSchema, Here, At
  <2>3. \A p \in Process : (Owner(p)' <=> Owner(p)) /\ Made(p)' = Made(p)
    BY <2>1 DEF Owner, Made, Revision
  <2>4. OneOwner' /\ Exact'
    BY <2>1, <2>3 DEF IInv, OneOwner, Exact
  <2>5. Underway'
    BY <2>1, <2>3 DEF IInv, Underway, RunsRevision, Revision, Here, At
  <2> QED
    BY <1>a, <2>2, <2>4, <2>5 DEF IInv
<1>11. ASSUME NEW p \in Process, CheckTable(p) \/ CreateTable(p) PROVE IInv'
  <2>1. /\ process[p].at \in Reading /\ process[p].at # "idle" /\ process[p].file \in File
        /\ ~ Owner(p) /\ UNCHANGED configured
    BY <1>b, <1>11 DEF CheckTable, CreateTable, At, Places, Working, Reading, Owner, Migrating
  <2>2. 0 \in 0 .. Latest /\ 0 <= Here(p).version
    BY <1>b, <2>1 DEF Here, Contents, Latest
  <2>3. CASE process' = Onward(p, 0) /\ UNCHANGED <<db, faults>>
    BY <1>a, <2>1, <2>2, <2>3, OnwardKeeps
  <2>4. CASE Goto(p, "table") /\ UNCHANGED <<db, faults>>
    BY <1>a, <2>1, <2>4, ReadsOn DEF Reading
  <2>5. CASE /\ db' = [db EXCEPT ![process[p].file].table = TRUE]
             /\ process' = Onward(p, 0) /\ UNCHANGED faults
    <3>1. \A f \in File : /\ db'[f].objects = db[f].objects /\ db'[f].version = db[f].version
                          /\ db'[f].rows = db[f].rows
      BY <1>b, <2>1, <2>5 DEF Contents
    <3> QED
      BY <1>a, <2>1, <2>2, <2>5, <3>1, OnwardKeeps
  <2>6. CASE Goto(p, Failed) /\ UNCHANGED <<db, faults>>
    BY <1>a, <1>b, <2>1, <2>6, EndKeeps DEF Failed
  <2> QED
    BY <1>a, <1>11, <2>1, <2>3, <2>4, <2>5, <2>6, FaultKeeps DEF CheckTable, CreateTable
<1> QED
  BY <1>1, <1>2, <1>3, <1>4, <1>5, <1>6, <1>7, <1>8, <1>9, <1>10, <1>11 DEF Next, Step

\* The invariant holds in every reachable state.
LEMMA Invariance == Spec => []IInv
  BY InitInv, StepInv, PTL DEF Spec

\* TypeOK of DatabaseSetup: whatever the starts, builds, kills and errors, every file and
\* every process keeps its type, and a statement that runs is one of its revision.
THEOREM TypesHold == Spec => []TypeOK
  BY Invariance, PTL DEF IInv

\* StampIsTrue: a stamped version is never ahead of the objects under it, for any number of
\* starts side by side without a lock (run_migrations).
THEOREM StampsAreTrue == Spec => []StampIsTrue
  BY Invariance, PTL DEF IInv

\* ReadyHasSchema: whoever gets past run_migrations stands on the latest schema, however many
\* were migrating the same file (lifespan, cmd_run).
THEOREM ReadyStandsOnSchema == Spec => []ReadyHasSchema
  BY Invariance, PTL DEF IInv

\* OnlyFaultsStrand: a file is left with half a revision only by a kill or a failed statement.
THEOREM StartsNeverStrand == Spec => []OnlyFaultsStrand
<1>1. IInv => OnlyFaultsStrand
  <2> SUFFICES ASSUME IInv, NEW f \in File, faults = 0
               PROVE  \/ db[f].objects = Schema(db[f].version)
                      \/ \E p \in Process : process[p].file = f /\ process[p].at \in Migrating
    BY DEF OnlyFaultsStrand, IInv, TypeOK
  <2> QED
    BY DEF IInv, Exact, Owner
<1> QED
  BY <1>1, Invariance, PTL

\* ProductionKept: no step loses the real rows, brings demo rows or removes an object of the
\* production database, whatever path a build is given (assert_not_production_database).
THEOREM ProductionIsKept == Spec => ProductionKept
<1>1. ASSUME IInv, [Next]_vars
      PROVE  [/\ db[Production].rows = "real" => db'[Production].rows = "real"
              /\ db'[Production].rows # "demo"
              /\ db[Production].objects \subseteq db'[Production].objects]_db
  <2> DEFINE Keeps == /\ db[Production].rows = "real" => db'[Production].rows = "real"
                      /\ db'[Production].rows # "demo"
                      /\ db[Production].objects \subseteq db'[Production].objects
  <2>1. db'[Production].rows # "demo"
    BY <1>1, StepInv DEF IInv, Places
  <2>2. db \in [File -> Contents] /\ Production \in File
    BY <1>1, SetupAssumption DEF IInv, TypeOK, Contents
  <2>3. ASSUME NEW p \in Process, Unlink(p) \/ Seed(p) PROVE process[p].file # Production
    BY <1>1, <2>3 DEF IInv, Places, Unlink, Seed, At, Process
  <2>4. ASSUME NEW p \in Process, Unlink(p) PROVE Keeps
    BY <2>1, <2>2, <2>3, <2>4 DEF Unlink, StatementFails
  <2>5. ASSUME NEW p \in Process, Seed(p) PROVE Keeps
    BY <2>1, <2>2, <2>3, <2>5 DEF Seed, StatementFails
  <2>6. ASSUME NEW p \in Process, Create(p) PROVE Keeps
    BY <2>1, <2>2, <2>6 DEF Create, StatementFails, Contents
  <2>7. ASSUME NEW p \in Process, Stamp(p) PROVE Keeps
    BY <2>1, <2>2, <2>7 DEF Stamp, StatementFails, Contents
  <2>8. ASSUME NEW p \in Process, ReadVersion(p) \/ CheckTable(p) \/ Kill(p) PROVE UNCHANGED db
    BY <2>8 DEF ReadVersion, CheckTable, Kill, StatementFails
  <2>12. ASSUME NEW p \in Process, CreateTable(p) PROVE Keeps
    BY <2>1, <2>2, <2>12 DEF CreateTable, StatementFails, Contents
  <2>9. ASSUME NEW p \in Starter, SaveRows(p) PROVE Keeps
    BY <2>1, <2>2, <2>9 DEF SaveRows, Contents
  <2>10. ASSUME NEW p \in Starter, Start(p) PROVE UNCHANGED db
    BY <2>10 DEF Start
  <2>11. ASSUME NEW path \in Output, Build(path) PROVE UNCHANGED db
    BY <2>11 DEF Build
  <2> QED
    BY <1>1, <2>4, <2>5, <2>6, <2>7, <2>8, <2>9, <2>10, <2>11, <2>12
       DEF Next, Step, vars
<1> QED
  BY <1>1, Invariance, PTL DEF Spec, ProductionKept
=============================================================================
