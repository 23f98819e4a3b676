------------------------------ MODULE Registry ------------------------------
(* The owner's registered projects (projects/registry.ts, ownerAdmin.ts) over *)
(* directories that are moved, removed and replaced outside of the program,  *)
(* and the two ways a call reaches another project: federated reading        *)
(* (projects/federation.ts) and routing to its runtime (tools/context.ts,    *)
(* server/installationRuntime.ts).  A workspace is known by its path; a      *)
(* directory by its inode and its birth, for inodes are used again.          *)
EXTENDS Naturals, FiniteSets

CONSTANTS
    Location,    \* paths projects can be at
    Inode,
    Project,     \* ids, one for every registration
    Title,       \* display names, compared without case
    None,
    MaxBirths    \* directories made

Level == {"read", "full"}
Directory == Inode \X (1 .. MaxBirths)
Row == [root: Location, directory: Directory, title: Title, level: Level, active: BOOLEAN]

RegistryAssumption == MaxBirths \in Nat /\ IsFiniteSet(Project) /\ None \notin Row

VARIABLES
    at,          \* the directory at each path, or None
    births,      \* directories made so far; their times of birth
    row,         \* the registry
    chosen,      \* the level the owner last chose for each directory
    contexts,    \* federation's read contexts: the path and directory each was made for
    runtimes,    \* the path each open runtime was opened at
    served,      \* the last federated read: where it read, and the directory registered
    routed       \* the last routed call, likewise

registryVars == <<at, births, row, chosen, contexts, runtimes, served, routed>>
ownerVars == <<contexts, runtimes, served, routed>>

Active == {p \in Project : row[p] # None /\ row[p].active}
Found(d) == d \in {at[l] : l \in Location}

\* The stored path is there and is the directory that was registered.
Ready(p) == p \in Active /\ at[row[p].root] = row[p].directory

RegistryInit ==
    /\ at = [l \in Location |-> None]
    /\ births = 0
    /\ row = [p \in Project |-> None]
    /\ chosen = [d \in Directory |-> "none"]
    /\ contexts = [p \in Project |-> None] /\ runtimes = [p \in Project |-> None]
    /\ served = None /\ routed = None

-----------------------------------------------------------------------------
(* Directories. *)

Make(l, i) ==
    /\ at[l] = None /\ births < MaxBirths
    /\ ~ \E k \in Location, b \in 1 .. MaxBirths : at[k] = <<i, b>>
    /\ births' = births + 1
    /\ at' = [at EXCEPT ![l] = <<i, births + 1>>]
    /\ UNCHANGED <<row, chosen, ownerVars>>

Delete(l) ==
    /\ at[l] # None
    /\ at' = [at EXCEPT ![l] = None]
    /\ UNCHANGED <<births, row, chosen, ownerVars>>

Rename(l, k) ==
    /\ at[l] # None /\ at[k] = None
    /\ at' = [at EXCEPT ![l] = None, ![k] = at[l]]
    /\ UNCHANGED <<births, row, chosen, ownerVars>>

-----------------------------------------------------------------------------
(* The owner. *)

NameFree(n, except) == \A p \in Active \ except : row[p].title # n

\* What the owner gives of a title or a level, or what there was.
Given(x, otherwise) == IF x = None THEN otherwise ELSE x

Chooses(d, v) == chosen' = [chosen EXCEPT ![d] = Given(v, IF @ = "none" THEN "full" ELSE @)]

\* Broken: a path that is registered is taken for the directory it was.
AddKnownPath(p, l, n, v) ==
    /\ p \in Active /\ row[p].root = l
    /\ n # None => NameFree(n, {p})
    /\ row' = [row EXCEPT ![p].title = Given(n, @), ![p].level = Given(v, @), ![p].directory = at[l]]
    /\ Chooses(at[l], v)

\* The path is registered: same directory, and the title or the level may change.
AddKnown(p, l, n, v) ==
    /\ p \in Active /\ row[p].root = l /\ row[p].directory = at[l]
    /\ n # None => NameFree(n, {p})
    /\ row' = [row EXCEPT ![p].title = Given(n, @), ![p].level = Given(v, @)]
    /\ Chooses(at[l], v)

\* Broken: a project moves to the path of another one.
AddMovedOver(p, l, n, v) ==
    /\ p \in Active /\ row[p].directory = at[l] /\ row[p].root # l
    /\ at[row[p].root] = None
    /\ n # None => NameFree(n, {p})
    /\ row' = [row EXCEPT ![p] = [@ EXCEPT !.root = l, !.title = Given(n, @), !.level = Given(v, @)]]
    /\ Chooses(at[l], v)

\* The directory is registered at a path where nothing is any more: the project moves.
AddMoved(p, l, n, v) ==
    /\ p \in Active /\ row[p].directory = at[l] /\ row[p].root # l
    /\ \A q \in Active : row[q].root # l
    /\ at[row[p].root] = None
    /\ n # None => NameFree(n, {p})
    /\ row' = [row EXCEPT ![p] = [root |-> l, directory |-> at[l], title |-> Given(n, row[p].title),
                                  level |-> Given(v, row[p].level), active |-> TRUE]]
    /\ Chooses(at[l], v)

\* Neither the path nor the inode is registered.  A level that was not said is `full`.
AddNew(p, l, n, v) ==
    /\ row[p] = None
    /\ \A q \in Active : row[q].root # l /\ row[q].directory[1] # at[l][1]
    /\ n # None /\ NameFree(n, {})
    /\ row' = [row EXCEPT ![p] = [root |-> l, directory |-> at[l], title |-> n,
                                  level |-> Given(v, "full"), active |-> TRUE]]
    /\ chosen' = [chosen EXCEPT ![at[l]] = Given(v, "full")]

\* One transaction; a path that is another directory now, or a directory that
\* is registered elsewhere, is refused.
Add(l, n, v) ==
    /\ at[l] # None
    /\ \E p \in Project : AddKnown(p, l, n, v) \/ AddMoved(p, l, n, v) \/ AddNew(p, l, n, v)
    /\ UNCHANGED <<at, births, ownerVars>>

SetLevel(p, v) ==
    /\ p \in Active
    /\ row' = [row EXCEPT ![p].level = v]
    /\ chosen' = [chosen EXCEPT ![row[p].directory] = v]
    /\ UNCHANGED <<at, births, ownerVars>>

\* Not while the project has unfinished jobs or agents, which are not here.
Remove(p) ==
    /\ p \in Active
    /\ row' = [row EXCEPT ![p].active = FALSE]
    /\ UNCHANGED <<at, births, chosen, ownerVars>>

-----------------------------------------------------------------------------
(* Calls. *)

ContextKey(p) == [root |-> row[p].root, directory |-> row[p].directory]
\* Broken: the context of a directory is good wherever the directory is.
KeyOfDirectory(p) ==
    [root |-> IF contexts[p] # None /\ contexts[p].directory = row[p].directory THEN contexts[p].root ELSE row[p].root,
     directory |-> row[p].directory]

\* The row is read and looked at anew; a context made for another path or
\* another directory is not used.
Context(p) == ContextKey(p)

Read(p) ==
    /\ Ready(p)
    /\ contexts' = [contexts EXCEPT ![p] = Context(p)]
    /\ served' = [from |-> at[Context(p).root], registered |-> row[p].directory]
    /\ UNCHANGED <<at, births, row, chosen, runtimes, routed>>

\* Sixteen contexts are kept, the last used ones.
Forget(p) ==
    /\ contexts[p] # None
    /\ contexts' = [contexts EXCEPT ![p] = None]
    /\ UNCHANGED <<at, births, row, chosen, runtimes, served, routed>>

\* A title is resolved to one project, and the call runs in its runtime, which
\* is opened when there is none: under the id, at the path of that time.
Route(n) ==
    \E p \in Project :
       /\ {q \in Active : row[q].title = n} = {p}
       /\ Ready(p)
       /\ runtimes' = [runtimes EXCEPT ![p] = IF @ = None THEN row[p].root ELSE @]
       /\ routed' = [from |-> at[runtimes'[p]], registered |-> row[p].directory]
       /\ UNCHANGED <<at, births, row, chosen, contexts, served>>

CloseRuntime(p) ==
    /\ runtimes[p] # None
    /\ runtimes' = [runtimes EXCEPT ![p] = None]
    /\ UNCHANGED <<at, births, row, chosen, contexts, served, routed>>

RegistryNext ==
    \/ \E l \in Location : \/ Delete(l)
                           \/ \E i \in Inode : Make(l, i)
                           \/ \E k \in Location : Rename(l, k)
                           \/ \E n \in Title \cup {None}, v \in Level \cup {None} : Add(l, n, v)
    \/ \E p \in Project : \/ Remove(p) \/ Read(p) \/ Forget(p) \/ CloseRuntime(p)
                          \/ \E v \in Level : SetLevel(p, v)
    \/ \E n \in Title : Route(n)

RegistrySpec == RegistryInit /\ [][RegistryNext]_registryVars

-----------------------------------------------------------------------------
RegistryTypeOK ==
    /\ at \in [Location -> Directory \cup {None}]
    /\ births \in 0 .. MaxBirths
    /\ chosen \in [Directory -> Level \cup {"none"}]
    /\ row \in [Project -> Row \cup {None}]
    /\ runtimes \in [Project -> Location \cup {None}]

\* Whatever is moved, replaced, renamed or registered again: a path, a
\* directory and a title each stand for one project at most, and a title can
\* be used to address it.
AddressedOnce ==
    \A p, q \in Active :
        p # q => /\ row[p].root # row[q].root
                 /\ row[p].directory[1] # row[q].directory[1]
                 /\ row[p].title # row[q].title

\* The level that holds in a project that can be used is the one the owner
\* chose for the directory that is really there.
OwnersLevel == \A p \in Project : Ready(p) => row[p].level = chosen[at[row[p].root]]

\* A federated read is of the directory that is registered, though the project
\* moved since the context it is read in was made.
ReadsAsRegistered == served # None => served.from = served.registered

RegistryTrue == AddressedOnce /\ OwnersLevel /\ ReadsAsRegistered

\* A call that names a project runs in the directory registered for it.  It
\* does not hold: a runtime stays under the id of a project that has moved.
RoutedAsRegistered == routed # None => routed.from = routed.registered
=============================================================================
