-------------------------------- MODULE PathRun --------------------------------
(***************************************************************************)
(* One ASM path of a library run, from the scope to the script: the roots  *)
(* WalkScopeResolver resolves, the walk of one of them by AsmWalker, the    *)
(* transcript, the alias records, the PDB GUIDs that PdbGuidMapCollector    *)
(* fetches from the databases, and the script MoveSqlEmitter writes or      *)
(* refuses.  WalkPipeline has the threads, connections and files around it. *)
(*                                                                         *)
(* The host does not change during the run; every command on it may fail.  *)
(* A name is a word and its spelling, upper case or not: asmcmd does not    *)
(* tell spellings apart, srvctl does.  A path is a sequence of names, the   *)
(* disk group first.  The order of the MOVEs in a script and its switches   *)
(* of container are in ScanData.                                            *)
(***************************************************************************)
EXTENDS Naturals, Sequences, SequencesExt, Loops

CONSTANTS
  Word,         \* what names spell
  NoDatabase,   \* those that no database has: of data files, of their directories, GUIDs
  Guid,         \* GUIDs of PDBs
  Pdb,          \* names of PDBs
  Asks,         \* what a caller may ask for, see IsAsk
  Hosts,        \* the hosts it may ask it of, see IsHost
  None          \* no path, scope, policy, depth limit or GUID

Name == [word : Word, upper : BOOLEAN]
Upper(name) == [name EXCEPT !.upper = TRUE]
Fold(path) == [i \in DOMAIN path |-> path[i].word]           \* str.casefold

GuidMap == UNION {[gs -> Pdb] : gs \in SUBSET Guid}

\* A row of a listing: a file, an alias of a file, a directory, an alias of a directory.  Of an
\* alias: the PDB that its path or its target is under, and the database its target is under, a
\* file that ASM named.
Row == [kind : {"file", "alias", "dir", "link"}, name : Name, guid : Guid \cup {None}, home : Name]

\* A folded pattern of exclude_paths: a path, or everything below it ("+FRA/*").
Pattern == [text : Seq(Word), below : BOOLEAN]

IsScope(s) ==
  /\ s.groups \in Seq(Name) /\ s.databases \in Seq(Name) /\ s.excludes \subseteq Word
  /\ s.patterns \subseteq Pattern /\ s.default \in Seq(Name) \cup {None} /\ s.depth \in Nat \cup {None}
\* An explicit path, the scope and the database filter of the session, its move policy, and
\* whether its port runs shell scripts.
IsAsk(a) ==
  /\ a.path \in Seq(Name) \cup {None} /\ a.filter \subseteq Name
  /\ a.scope = None \/ IsScope(a.scope)
  /\ a.policy = None \/ (a.policy.auto \in BOOLEAN /\ a.policy.manual \in GuidMap)
  /\ a.shell \in BOOLEAN
\* What `asmcmd ls +` prints, some of it no disk group; the directories of ASM, each with one
\* subdirectory of a name; the names srvctl knows; the PDBs of each database.
IsHost(h) ==
  /\ h.prints \in Seq([name : Name, token : BOOLEAN])
  /\ \A d \in DOMAIN h.tree :
       /\ d \in Seq(Word) /\ h.tree[d] \in Seq(Row)
       /\ \A i, j \in DOMAIN h.tree[d] :
            h.tree[d][i].kind = "dir" /\ h.tree[d][j].kind = "dir"
              /\ h.tree[d][i].name.word = h.tree[d][j].name.word => i = j
  /\ h.srvctl \subseteq Name /\ h.pdbs \in [Word -> GuidMap]

ASSUME PathAssumption ==
  /\ None \notin Guid /\ None \notin [path : Seq(Name), rows : Seq(Row)]
  /\ \A a \in Asks : IsAsk(a)
  /\ \A h \in Hosts : IsHost(h)

VARIABLES
  ask, host,    \* who asks what of which host
  at,           \* where the run is, or how it ended
  groups,       \* the disk groups that were discovered
  roots,        \* the paths the scope resolved to
  stack,        \* directories still to list, with their depth; the first is next
  listed,       \* the inventory: directories and their rows
  left,         \* the databases whose GUIDs are still to fetch
  again,        \* the first of them is asked for once more, by its upper case name
  fetched,      \* the GUIDs that were fetched
  map,          \* the policy's GUID map at the emit
  script        \* alias records, each with its container

vars == <<ask, host, at, groups, roots, stack, listed, left, again, fetched, map, script>>
given == <<ask, host>>
resolved == <<ask, host, groups, roots>>
walk == <<stack, listed>>
fetch == <<left, again, fetched>>

Ends == {"refused", "raised", "nothing", "blocked", "written"}

Init ==
  /\ ask \in Asks /\ host \in Hosts
  /\ at = "start"
  /\ groups = <<>> /\ roots = <<>> /\ stack = <<>> /\ listed = <<>>
  /\ left = <<>> /\ again = FALSE /\ fetched = <<>> /\ map = <<>> /\ script = <<>>
-----------------------------------------------------------------------------
(* WalkScopeResolver and domain/paths.py. *)

\* normalize_asm_path: upper case but for the last of several segments.
NormalizePath(path) ==
  [i \in DOMAIN path |-> IF i = 1 \/ i < Len(path) THEN Upper(path[i]) ELSE path[i]]

\* asm_path, else scope.default_asm_path.
GivenPath ==
  IF ask.path # None THEN ask.path ELSE IF ask.scope # None THEN ask.scope.default ELSE None

\* Neither a path nor a disk group is given.
NeedsGroups == GivenPath = None /\ ask.scope # None /\ ask.scope.groups = <<>>

\* discover_disk_groups: what the command prints, without what is no disk group.
Tokens == Filtered(host.prints, LAMBDA entry : entry.token)
Found == FirstOfEach([i \in DOMAIN Tokens |-> Upper(Tokens[i].name)], LAMBDA name : name.word)

\* Without a path or disk groups in the scope they are discovered first.
Discover ==
  /\ at = "start" /\ NeedsGroups
  /\ \/ /\ at' = "groups"
        /\ groups' = Found
     \/ at' = "raised" /\ UNCHANGED groups
  /\ UNCHANGED <<given, roots, walk, fetch, map, script>>

\* Mutant: the filter is applied to all databases of the scope.
FilterOnly(scope, filter) ==
  Filtered(scope.databases, LAMBDA db : IF filter = {} THEN db.word \notin scope.excludes ELSE db \in filter)

\* databases(): without the excluded ones, in any case, and those the filter does not spell.
Databases(scope, filter) ==
  Filtered(scope.databases, LAMBDA db : db.word \notin scope.excludes /\ (filter = {} \/ db \in filter))
KnowsFilter(scope, filter) == filter \subseteq Range(scope.databases)

\* expand_asm_walk_paths
Expand(dgs, dbs) ==
  LET paths == FlattenSeq([i \in DOMAIN dgs |-> [j \in DOMAIN dbs |-> NormalizePath(<<dgs[i], dbs[j]>>)]])
  IN  FirstOfEach(paths, Fold)

\* fnmatchcase on folded text
Matches(path, pattern) ==
  IF pattern.below THEN IsStrictPrefix(pattern.text, Fold(path)) ELSE Fold(path) = pattern.text

\* resolve_paths
Resolved ==
  LET dgs == IF ask.scope.groups # <<>> THEN [i \in DOMAIN ask.scope.groups |-> Upper(ask.scope.groups[i])]
             ELSE groups
      paths == IF GivenPath # None THEN <<NormalizePath(GivenPath)>>
               ELSE IF KnowsFilter(ask.scope, ask.filter) THEN Expand(dgs, Databases(ask.scope, ask.filter))
               ELSE <<>>
  IN  Filtered(paths, LAMBDA p : \A pattern \in ask.scope.patterns : ~Matches(p, pattern))

\* run(): without a scope a path has to be given; with one, ValueError when none is left.  Each
\* root is then processed for itself, and the run goes on with one of them.
Resolve ==
  /\ at = IF NeedsGroups THEN "groups" ELSE "start"
  /\ LET paths == IF ask.scope # None THEN Resolved
                  ELSE IF ask.path = None THEN <<>> ELSE <<NormalizePath(ask.path)>>
     IN  /\ roots' = paths
         /\ IF paths = <<>> THEN at' = "refused" /\ UNCHANGED stack
            ELSE at' = "walk" /\ \E root \in Range(paths) : stack' = <<[path |-> root, depth |-> 0]>>
  /\ UNCHANGED <<given, groups, listed, fetch, map, script>>
-----------------------------------------------------------------------------
(* AsmWalker, and the inventory as a transcript. *)

MaxDepth == IF ask.scope = None THEN None ELSE ask.scope.depth

\* Mutant: one level more.
DescendsFurther(depth) == MaxDepth = None \/ depth <= MaxDepth

Descends(depth) == MaxDepth = None \/ depth < MaxDepth

\* A row that ends in a slash and has no arrow.
IsSubdirectory(row) == row.kind = "dir"

Children(directory, rows) ==
  LET dirs == Filtered(rows, IsSubdirectory)
  IN  [i \in DOMAIN dirs |-> [path |-> Append(directory.path, dirs[i].name), depth |-> directory.depth + 1]]

\* _walk_one: list a directory, then the ones below it, then the next.  A command that fails
\* (the directory need not exist) raises.
List ==
  /\ at = "walk" /\ stack # <<>>
  /\ LET here == Head(stack)
         rows == host.tree[Fold(here.path)]
     IN  \/ /\ Fold(here.path) \in DOMAIN host.tree
            /\ listed' = Append(listed, [path |-> here.path, rows |-> rows])
            /\ stack' = (IF Descends(here.depth) THEN Children(here, rows) ELSE <<>>) \o Tail(stack)
            /\ UNCHANGED at
         \/ at' = "raised" /\ UNCHANGED walk
  /\ UNCHANGED <<resolved, fetch, map, script>>

\* inventory_to_transcript
Line(does, of) == [does |-> does, of |-> of]
Rows(listing) == [i \in DOMAIN listing.rows |-> Line("row", listing.rows[i])]
ToTranscript(inventory) ==
  <<Line("header", None)>> \o FlattenSeq([i \in DOMAIN inventory |->
     <<Line("dir", inventory[i].path), Line("rule", None)>> \o Rows(inventory[i])])

\* flush()
Flushed(done, open) == IF open = None THEN done ELSE Append(done, open)

\* One line of transcript_to_inventory: the directories read, and the one that is open.
Read(state, line) ==
  CASE line.does = "dir" -> [done |-> Flushed(state.done, state.open), open |-> [path |-> line.of, rows |-> <<>>]]
    [] line.does = "row" /\ state.open # None -> [state EXCEPT !.open.rows = Append(@, line.of)]
    [] OTHER -> state

\* The directories read after so many lines, and the one that is open.
Readings(lines) ==
  LET read[n \in 0 .. Len(lines)] ==
        IF n = 0 THEN [done |-> <<>>, open |-> None] ELSE Read(read[n - 1], lines[n])
  IN  read

\* Mutant: the last directory is not flushed.
LosesLast(state) == state.done

\* What transcript_to_inventory returns at the end of the text.
AtEnd(state) == Flushed(state.done, state.open)

\* database_name_from_path: the segment after the disk group, an alias at the root of a disk
\* group included, unless no database has such a name.
NamesDatabase(path) == Len(path) > 1 /\ path[2].word \notin NoDatabase

\* DirectoryListing.extract_aliases: the database is that of the alias, or else of its target.
Records(listing) ==
  LET rows == Filtered(listing.rows, LAMBDA row : row.kind = "alias")
      source(row) == Append(listing.path, row.name)
  IN  [i \in DOMAIN rows |-> [source |-> source(rows[i]), guid |-> rows[i].guid,
         db |-> IF NamesDatabase(source(rows[i])) THEN source(rows[i])[2] ELSE rows[i].home]]

\* AsmInventory.extract_aliases.  An alias has one target, so that its path is the key.
Aliases ==
  FirstOfEach(FlattenSeq([i \in DOMAIN listed |-> Records(listed[i])]), LAMBDA record : Fold(record.source))
-----------------------------------------------------------------------------
(* resolve_move_policy_for_emit and PdbGuidMapCollector. *)

Needed == {record.guid : record \in Range(Aliases)} \ {None}

\* _databases_for_pdb_map: those of the scope, when the filter is known, then those of the
\* aliases.
DatabasesForMap ==
  LET inScope == IF ask.scope # None /\ KnowsFilter(ask.scope, ask.filter)
                 THEN Databases(ask.scope, ask.filter) ELSE <<>>
  IN  FirstOfEach(inScope \o [i \in DOMAIN Aliases |-> Aliases[i].db], LAMBDA db : db.word)

\* The walk is over: no SQL without aliases, an exception without a policy.  GUIDs are fetched
\* when the policy asks for it, the port can and some alias has one.
ResolvePolicy ==
  /\ at = "walk" /\ stack = <<>>
  /\ IF Aliases = <<>> THEN at' = "nothing" /\ UNCHANGED <<left, map>>
     ELSE IF ask.policy = None THEN at' = "raised" /\ UNCHANGED <<left, map>>
     ELSE IF ask.policy.auto /\ ask.shell /\ Needed # {}
          THEN at' = "fetch" /\ left' = DatabasesForMap /\ UNCHANGED map
          ELSE at' = "emit" /\ map' = ask.policy.manual /\ UNCHANGED left
  /\ UNCHANGED <<resolved, walk, again, fetched, script>>

\* Mutant: the retry does not remember that it is one.
RetriesForEver(db) == ~db.upper

\* Only another spelling is worth a retry.
Retries(db) == ~again /\ ~db.upper

\* Mutant: the next database is asked for by its upper case name, too.
StaysUpper == again' = again

\* collect() begins with the name as it is spelled.
StartsOver == again' = FALSE

\* Mutant: every failed fetch blocks the script.
NeverCovers == FALSE

\* The manual map is enough without what could not be fetched.
ManualCovers == Needed \subseteq DOMAIN ask.policy.manual

\* {**other, **guids}
Over(guids, other) ==
  [g \in DOMAIN guids \cup DOMAIN other |-> IF g \in DOMAIN guids THEN guids[g] ELSE other[g]]

\* collect() for the next database: srvctl, then sqlplus.  One that fails, a name srvctl does
\* not know or a database without PDBs fails the whole fetch, after one retry.
Collect ==
  /\ at = "fetch" /\ left # <<>>
  /\ LET db == Head(left)
         name == IF again THEN Upper(db) ELSE db
     IN  \/ /\ name \in host.srvctl /\ host.pdbs[db.word] # <<>>
            /\ fetched' = Over(host.pdbs[db.word], fetched)
            /\ left' = Tail(left) /\ StartsOver
            /\ UNCHANGED <<at, map>>
         \/ /\ Retries(db) /\ again' = TRUE
            /\ UNCHANGED <<at, left, fetched, map>>
         \/ /\ ~Retries(db)
            /\ IF ManualCovers THEN at' = "emit" /\ map' = ask.policy.manual
               ELSE at' = "blocked" /\ UNCHANGED map
            /\ UNCHANGED fetch
  /\ UNCHANGED <<resolved, walk, script>>

\* Mutant: what was fetched wins.
MergedAuto == Over(fetched, ask.policy.manual)

\* merge_pdb_guid_maps: the manual map wins.
Merged == Over(ask.policy.manual, fetched)

Merge ==
  /\ at = "fetch" /\ left = <<>>
  /\ at' = "emit" /\ map' = Merged
  /\ UNCHANGED <<resolved, walk, fetch, script>>

\* MoveSqlEmitter.emit: refused when a GUID is not in the map.
Emit ==
  /\ at = "emit"
  /\ IF Needed \subseteq DOMAIN map
     THEN /\ at' = "written"
          /\ script' = [i \in DOMAIN Aliases |->
               [move |-> Aliases[i],
                pdb |-> IF Aliases[i].guid = None THEN None ELSE map[Aliases[i].guid]]]
     ELSE at' = "blocked" /\ UNCHANGED script
  /\ UNCHANGED <<resolved, walk, fetch, map>>

Next == Discover \/ Resolve \/ List \/ ResolvePolicy \/ Collect \/ Merge \/ Emit

Spec == Init /\ [][Next]_vars

\* The run is one thread, and its commands return or raise.
FairSpec == Spec /\ WF_vars(Next)
-----------------------------------------------------------------------------
(* Properties. *)

Place == [path : Seq(Name), depth : Nat]
Listing == [path : Seq(Name), rows : Seq(Row)]
Alias == [source : Seq(Name), guid : Guid \cup {None}, db : Name]

\* Every variable stays within its type.
TypeOK ==
  /\ ask \in Asks /\ host \in Hosts
  /\ at \in {"start", "groups", "walk", "fetch", "emit"} \cup Ends
  /\ groups \in Seq(Name) /\ roots \in Seq(Seq(Name))
  /\ stack \in Seq(Place) /\ listed \in Seq(Listing)
  /\ left \in Seq(Name) /\ again \in BOOLEAN
  /\ fetched \in GuidMap /\ map \in GuidMap
  /\ script \in Seq([move : Alias, pdb : Pdb \cup {None}])
  /\ stack # <<>> => at \in {"walk", "raised"}
  /\ again => left # <<>>

\* Whatever the spellings and the order of the scope and of the host's answer: the roots of an
\* expansion are its disk groups with its databases that are in the filter and not excluded,
\* without the excluded paths; no two of them are one ASM directory, and a run that has a
\* filter it knows is refused only when there is none.
RootsAreTheScope ==
  ask.scope # None /\ GivenPath = None /\ at \notin {"start", "groups"} /\ KnowsFilter(ask.scope, ask.filter) =>
    LET scope == ask.scope
        dgs == IF scope.groups # <<>> THEN {dg.word : dg \in Range(scope.groups)}
               ELSE {entry.name.word : entry \in {e \in Range(host.prints) : e.token}}
        dbs == {db.word : db \in IF ask.filter = {} THEN Range(scope.databases) ELSE ask.filter}
        excluded(p) == \E pattern \in scope.patterns :
                         IF pattern.below THEN IsPrefix(pattern.text, p) /\ p # pattern.text ELSE p = pattern.text
    IN  /\ groups # <<>> \/ scope.groups # <<>> =>
             {Fold(root) : root \in Range(roots)} = {p \in dgs \X (dbs \ scope.excludes) : ~excluded(p)}
        /\ \A i, j \in DOMAIN roots : Fold(roots[i]) = Fold(roots[j]) => i = j
        /\ at = "refused" <=> roots = <<>> /\ at # "raised"

\* A walk that did not raise has listed its last directory.
WalkIsOver == at = "walk" /\ stack = <<>>

\* A directory has a subdirectory of that name.
Leads(p, word) ==
  p \in DOMAIN host.tree /\ \E row \in Range(host.tree[p]) : row.kind = "dir" /\ row.name.word = word

\* Directory rows lead from the root to that path, within the limit.
Under(root, p) ==
  /\ IsPrefix(root, p) /\ (MaxDepth # None => Len(p) - Len(root) <= MaxDepth)
  /\ \A n \in Len(root) .. Len(p) - 1 : Leads(SubSeq(p, 1, n), p[n + 1])
Reachable(root) == {p \in DOMAIN host.tree : Under(root, p)}

\* A walk lists every directory within the limit below its root once, each after the one it is
\* in, and no directory by another way: aliases of directories are left alone.
WalkIsExact ==
  WalkIsOver =>
    /\ {Fold(listing.path) : listing \in Range(listed)} = Reachable(Fold(listed[1].path))
    /\ \A i, j \in DOMAIN listed :
         IsPrefix(Fold(listed[i].path), Fold(listed[j].path)) => i <= j

\* A transcript reads back as the inventory it was written from, so that a run from it finds
\* the same aliases; one that was cut short reads as a beginning of the inventory.
TranscriptReadsBack ==
  WalkIsOver =>
    LET lines == ToTranscript(listed)
        readings == Readings(lines)
    IN  /\ AtEnd(readings[Len(lines)]) = listed
        /\ \A n \in 0 .. Len(lines) :
             LET part == AtEnd(readings[n])
             IN  \A i \in DOMAIN part :
                   /\ part[i].path = listed[i].path /\ IsPrefix(part[i].rows, listed[i].rows)
                   /\ i < Len(part) => part[i].rows = listed[i].rows

\* The databases the fetch asks.
AskedDatabases ==
  {record.db.word : record \in Range(Aliases)} \cup
  (IF ask.scope # None THEN {db.word : db \in Range(ask.scope.databases)} ELSE {})

\* A script has each alias of the walk once, in the container the manual map names for its
\* GUID, or else in the PDB that a database with that GUID gives; whatever was not mapped, no
\* script was written.
ScriptIsMapped ==
  at = "written" =>
    /\ {Fold(line.move.source) : line \in Range(script)} =
         UNION {{Append(Fold(listing.path), row.name.word) : row \in {r \in Range(listing.rows) : r.kind = "alias"}} :
                  listing \in Range(listed)}
    /\ \A i, j \in DOMAIN script : Fold(script[i].move.source) = Fold(script[j].move.source) => i = j
    /\ \A line \in Range(script) :
         LET guid == line.move.guid
         IN  IF guid = None THEN line.pdb = None
             ELSE IF guid \in DOMAIN ask.policy.manual THEN line.pdb = ask.policy.manual[guid]
             ELSE \E db \in AskedDatabases : guid \in DOMAIN host.pdbs[db] /\ line.pdb = host.pdbs[db][guid]

\* A script is blocked only for a GUID the manual map lacks, and when the fetch was not to be
\* made, or failed for a name as spelled and in upper case, or no database of its aliases has it.
BlockedForCause ==
  at = "blocked" =>
    \E guid \in Needed \ DOMAIN ask.policy.manual :
      \/ ~ask.policy.auto \/ ~ask.shell
      \/ left # <<>> /\ (again \/ Head(left).upper)
      \/ left = <<>> /\ \A record \in Range(Aliases) :
                         record.guid = guid => guid \notin DOMAIN host.pdbs[record.db.word]

\* The run of a path ends: the walk comes back from every directory, the fetch from its retries.
PathEnds == <>(at \in Ends)
===============================================================================
