------------------------------- MODULE Brain --------------------------------
(***************************************************************************)
(* The project brain (src/services/brain/brainService.ts, brainParser.ts): *)
(* a durable index of files, symbols and the edges between them.  A run    *)
(* scans the workspace and takes its snapshots in one go, waits for the    *)
(* parser, and commits cache and graph in one transaction.  An incremental *)
(* run rewrites only the files that changed and those affected by them.    *)
(*                                                                         *)
(* A text is what the parser finds in it.  A stamp stands for size, mtime  *)
(* and ctime: it differs after every edit.                                 *)
(***************************************************************************)
EXTENDS Naturals, FiniteSets, Sequences

CONSTANTS Path, Name, Package, Specifier, None,
          Text,        \* [defines, uses, imports, packages, declares]
          Lookup,      \* Lookup[s]: the paths an import of s may mean, best first
          MaxEdits     \* of sources, of rows, and restarts

TextAssumption ==
    \A t \in Text : /\ t.defines \subseteq Name /\ t.uses \subseteq Name
                    /\ t.imports \subseteq Specifier
                    /\ t.packages \subseteq Package /\ t.declares \subseteq Package
LookupAssumption == Lookup \in [Specifier -> Seq(Path)]
BrainAssumption ==
    /\ IsFiniteSet(Path) /\ MaxEdits \in Nat /\ None \notin Path
    /\ None \notin [text : Text, stamp : Nat] \cup [text : Text, stamp : Nat, id : Nat]

VARIABLES
    disk,        \* the sources
    cache,       \* brain_file_cache: the text that was parsed, its stamp, the file's identity
    nodes,       \* brain_nodes of symbols and dependencies, with the identity of their file
    edges,       \* brain_edges
    corrupt,     \* paths with a damaged row
    run,         \* the run under way: what it has prepared and what it still parses
    paused,      \* brain_index_state.paused
    forceFull,   \* in memory
    lastId,      \* identities given out so far
    changes      \* counts towards MaxEdits

brainVars == <<disk, cache, nodes, edges, corrupt, run, paused, forceFull, lastId, changes>>

Files(rows) == {p \in Path : rows[p] # None}
Source == [text : Text, stamp : 0 .. MaxEdits]

BrainTypeOK ==
    /\ \A p \in Files(disk) : disk[p] \in Source
    /\ \A p \in Files(cache) :
        /\ [text |-> cache[p].text, stamp |-> cache[p].stamp] \in Source
        /\ cache[p].id \in 1 .. lastId
    /\ \A n \in nodes : n.path \in Path /\ n.id \in 1 .. lastId /\ n.name \in Name \cup Package
    /\ \A e \in edges : e.from \in Path /\ e.to \in {None} \cup (1 .. lastId)
    /\ corrupt \subseteq Path
    /\ run # None => run.parsing \subseteq Path /\ run.full \in BOOLEAN /\ run.shown \in BOOLEAN
    /\ paused \in BOOLEAN /\ forceFull \in BOOLEAN /\ changes \in 0 .. MaxEdits

BrainInit ==
    /\ disk \in [Path -> {None} \cup [text : Text, stamp : {0}]]
    /\ cache = [p \in Path |-> None]
    /\ nodes = {} /\ edges = {} /\ corrupt = {}
    /\ run = None /\ paused = FALSE /\ forceFull = TRUE
    /\ lastId = 0 /\ changes = 0

-----------------------------------------------------------------------------
(* The graph of a set of files *)

\* The first file that is there.
Resolve(s, rows) ==
    LET there == {k \in DOMAIN Lookup[s] : rows[Lookup[s][k]] # None}
    IN IF there = {} THEN None
       ELSE Lookup[s][CHOOSE k \in there : \A j \in there : k <= j]

NodesOf(rows, at) ==
    UNION {{[path |-> p, id |-> rows[p].id, name |-> n] :
                n \in rows[p].text.defines \cup rows[p].text.declares} : p \in at \cap Files(rows)}

ImportEdges(rows, at) ==
    UNION {{LET target == Resolve(s, rows) IN
            [from |-> p, kind |-> "imports", key |-> s,
             to |-> IF target = None THEN None ELSE rows[target].id, target |-> target] :
                s \in rows[p].text.imports} : p \in at \cap Files(rows)}

\* A name means something if exactly one symbol has it.
ReferenceEdges(rows, at) ==
    LET Defining(n) == {q \in Files(rows) : n \in rows[q].text.defines}
        Meant(n) == IF Cardinality(Defining(n)) = 1 THEN CHOOSE q \in Defining(n) : TRUE ELSE None
    IN UNION {{[from |-> p, kind |-> "references", key |-> n,
                to |-> IF Meant(n) = None THEN None ELSE rows[Meant(n)].id, target |-> Meant(n)] :
                    n \in rows[p].text.uses} : p \in at \cap Files(rows)}

\* An edge to a package names the declaration it found and no path.
PackageEdges(rows, at) ==
    LET Declaring(k) == {q \in Files(rows) : k \in rows[q].text.declares}
    IN UNION {{[from |-> p, kind |-> "package", key |-> k,
                to |-> IF Declaring(k) = {} THEN None
                       ELSE rows[CHOOSE q \in Declaring(k) : TRUE].id, target |-> None] :
                    k \in rows[p].text.packages} : p \in at \cap Files(rows)}

EdgesOf(rows, at) == ImportEdges(rows, at) \cup ReferenceEdges(rows, at) \cup PackageEdges(rows, at)

\* Broken: names that only the old text of a changed file defined are forgotten.
AffectedByNew(changed, rows) ==
    LET names == UNION {rows[p].text.defines : p \in changed \cap Files(rows)} IN
    changed
    \cup {e.from : e \in {x \in edges : x.target \in changed}}
    \cup {p \in Files(rows) : \/ rows[p].text.uses \cap names # {}
                              \/ \E s \in rows[p].text.imports : Resolve(s, rows) \in changed}

\* Who has to be written again: what changed, what pointed there, what uses a
\* name that a changed file defined or defines, what now resolves there.
Affected(changed, rows) ==
    LET names == {n.name : n \in {x \in nodes : x.path \in changed}}
                 \cup UNION {rows[p].text.defines : p \in changed \cap Files(rows)}
    IN changed
       \cup {e.from : e \in {x \in edges : x.target \in changed}}
       \cup {p \in Files(rows) : \/ rows[p].text.uses \cap names # {}
                                 \/ \E s \in rows[p].text.imports : Resolve(s, rows) \in changed}

-----------------------------------------------------------------------------
(* A run *)

Row(p, id) == [text |-> disk[p].text, stamp |-> disk[p].stamp, id |-> id]
Unchanged(p) == cache[p] # None /\ disk[p] # None /\ cache[p].stamp = disk[p].stamp

Removed == Files(cache) \ Files(disk)

\* Broken: a file that could not be read is noted as seen.
KeptAsSeen(p) == [cache[p] EXCEPT !.stamp = disk[p].stamp]

\* A file that could not be read keeps the row it had, stamp and all.
Kept(p) == cache[p]

\* Broken: a copy takes the identity of a file that moved as well.
MovedToAny(p, new) == {q \in Removed : cache[q].text = disk[p].text}

\* A new file whose content one removed file had is that file, moved; of two
\* new ones the first in path order takes the identity, whichever that is.
MovedTo(p, new) ==
    LET first == CHOOSE q \in {x \in new : disk[x].text = disk[p].text} : TRUE
        from == {q \in Removed : cache[q].text = disk[p].text}
    IN IF Cardinality(from) = 1 /\ p = first THEN from ELSE {}

\* Given the files that could not be read: the rows to be, the new identities
\* numbered from lastId.
Prepared(skipped) ==
    LET read == {p \in Files(disk) \ skipped : ~ Unchanged(p)}
        new == {p \in read : cache[p] = None}
        moved == {p \in new : MovedTo(p, new) # {}}
        fresh == new \ moved
        number == CHOOSE f \in [fresh -> 1 .. Cardinality(fresh)] :
                      \A p, q \in fresh : p # q => f[p] # f[q]
    IN [p \in Path |->
          CASE p \in moved -> Row(p, cache[CHOOSE q \in MovedTo(p, new) : TRUE].id)
            [] p \in fresh -> Row(p, lastId + number[p])
            [] p \in read \ new -> Row(p, cache[p].id)
            [] p \in skipped /\ cache[p] # None -> Kept(p)
            [] p \notin skipped /\ Unchanged(p) -> cache[p]
            [] OTHER -> None]

\* The parser is asked for a text no row holds; a full run reads every file
\* and trusts moves only.
ToParse(rows, full, skipped) ==
    {p \in Files(rows) \ skipped :
        IF full
        THEN \A q \in Removed : cache[q].id # rows[p].id
        ELSE rows[p] # cache[p] /\ \A q \in Files(cache) : cache[q].text # rows[p].text}

\* start, by hand or by the timer.  Files change while they are read, too.
Start(full, skipped) ==
    /\ run = None /\ ~ paused
    /\ skipped \subseteq {p \in Files(disk) : full \/ forceFull \/ ~ Unchanged(p)}
    /\ skipped # {} => changes < MaxEdits
    /\ LET rows == Prepared(skipped) IN
        run' = [full |-> full \/ forceFull, rows |-> rows,
                changed |-> Removed \cup skipped \cup {p \in Files(rows) : rows[p] # cache[p]},
                parsing |-> ToParse(rows, full \/ forceFull, skipped), shown |-> TRUE]
    /\ changes' = IF skipped = {} THEN changes ELSE changes + 1
    /\ UNCHANGED <<disk, cache, nodes, edges, corrupt, paused, forceFull, lastId>>

Parsed(p) ==
    /\ run # None /\ p \in run.parsing
    /\ run' = [run EXCEPT !.parsing = @ \ {p}]
    /\ UNCHANGED <<disk, cache, nodes, edges, corrupt, paused, forceFull, lastId, changes>>

\* One transaction, in the same turn as the last answer of the parser.
Commit ==
    /\ run # None /\ run.parsing = {}
    /\ LET at == Affected(run.changed, run.rows) \cup IF run.full THEN Files(run.rows) ELSE {} IN
        /\ cache' = run.rows
        /\ nodes' = {n \in nodes : n.path \notin at} \cup NodesOf(run.rows, at)
        /\ edges' = {e \in edges : e.from \notin at} \cup EdgesOf(run.rows, at)
        /\ corrupt' = corrupt \ at
        /\ lastId' = lastId + Cardinality({p \in Files(run.rows) : run.rows[p].id > lastId})
    /\ forceFull' = FALSE
    /\ run' = None
    /\ UNCHANGED <<disk, paused, changes>>

\* Cancelled, timed out, the parser lost: nothing is committed.
Abandon ==
    /\ run # None /\ changes < MaxEdits
    /\ run' = None /\ changes' = changes + 1
    /\ UNCHANGED <<disk, cache, nodes, edges, corrupt, paused, forceFull, lastId>>

\* A pause waits for the run it cancels.
Pause ==
    /\ ~ paused /\ changes < MaxEdits
    /\ run' = None /\ paused' = TRUE /\ changes' = changes + 1
    /\ UNCHANGED <<disk, cache, nodes, edges, corrupt, forceFull, lastId>>

Resume ==
    /\ paused /\ paused' = FALSE
    /\ UNCHANGED <<disk, cache, nodes, edges, corrupt, run, forceFull, lastId, changes>>

\* A query that meets a damaged row fails and has everything rebuilt; the
\* index is shown as failed, even if a run is under way.
Query ==
    /\ corrupt # {}
    /\ forceFull' = TRUE
    /\ run' = IF run = None THEN None ELSE [run EXCEPT !.shown = FALSE]
    /\ UNCHANGED <<disk, cache, nodes, edges, corrupt, paused, lastId, changes>>

\* A run shown as running when the daemon died is made up for; one that a
\* close cancelled is not.
Restart(crash) ==
    /\ changes < MaxEdits
    /\ forceFull' = (crash /\ run # None /\ run.shown)
    /\ run' = None /\ changes' = changes + 1
    /\ UNCHANGED <<disk, cache, nodes, edges, corrupt, paused, lastId>>

-----------------------------------------------------------------------------
(* The workspace, and damage *)

Edit(p, s) ==
    /\ changes < MaxEdits
    /\ disk' = [disk EXCEPT ![p] = s]
    /\ changes' = changes + 1
    /\ UNCHANGED <<cache, nodes, edges, corrupt, run, paused, forceFull, lastId>>

Move(p, q) ==
    /\ changes < MaxEdits /\ p # q /\ disk[p] # None /\ disk[q] = None
    /\ disk' = [disk EXCEPT ![p] = None, ![q] = [disk[p] EXCEPT !.stamp = changes + 1]]
    /\ changes' = changes + 1
    /\ UNCHANGED <<cache, nodes, edges, corrupt, run, paused, forceFull, lastId>>

Damage(p) ==
    /\ changes < MaxEdits /\ p \in {n.path : n \in nodes} \ corrupt
    /\ corrupt' = corrupt \cup {p}
    /\ changes' = changes + 1
    /\ UNCHANGED <<disk, cache, nodes, edges, run, paused, forceFull, lastId>>

BrainNext ==
    \/ \E full \in BOOLEAN, skipped \in SUBSET Path : Start(full, skipped)
    \/ \E p \in Path : Parsed(p) \/ Damage(p)
    \/ Commit \/ Abandon \/ Pause \/ Resume \/ Query
    \/ \E crash \in BOOLEAN : Restart(crash)
    \/ \E p \in Path : Edit(p, None) \/ \E t \in Text : Edit(p, [text |-> t, stamp |-> changes + 1])
    \/ \E p, q \in Path : Move(p, q)

\* The timer starts a run every five seconds; the parser answers, or its
\* timeout does (Abandon, counted).
BrainFairness ==
    /\ WF_brainVars(Start(FALSE, {}))
    /\ WF_brainVars(Commit)
    /\ \A p \in Path : WF_brainVars(Parsed(p))

BrainSpec == BrainInit /\ [][BrainNext]_brainVars /\ BrainFairness

-----------------------------------------------------------------------------
(* Properties *)

\* However the runs were incremental, cancelled or interrupted, the graph of
\* files and symbols is what a full rebuild of the cached files would give.
GraphAsRebuilt ==
    /\ nodes = NodesOf(cache, Path)
    /\ {e \in edges : e.kind # "package"} =
          ImportEdges(cache, Path) \cup ReferenceEdges(cache, Path)

\* A moved file keeps its identity, a copy never shares it.
IdentitiesUnique ==
    \A p, q \in Files(cache) : p # q => cache[p].id # cache[q].id

GraphSound == GraphAsRebuilt /\ IdentitiesUnique

IndexCurrent ==
    /\ Files(cache) = Files(disk)
    /\ \A p \in Files(disk) : cache[p].text = disk[p].text

\* Unless it is paused, the index catches up with the workspace once that is
\* left alone, whatever was skipped, cancelled or interrupted before.
IndexConverges == []<>(IndexCurrent \/ paused \/ changes < MaxEdits)

\* docs/BRAIN.md, line 38: the sources affected by imports are found.  An
\* import of a package leads to its declaration, if there is one.
PackagesAsRebuilt ==
    {e \in edges : e.kind = "package"} = PackageEdges(cache, Path)

\* docs/BRAIN.md, lines 75-76: a row that cannot be read has a full rebuild
\* queued, and only a run that wrote the row again takes that back.
RebuildStaysQueued ==
    [][forceFull /\ ~ forceFull' /\ changes' = changes => corrupt' = {}]_brainVars
=============================================================================
