-------------------------------- MODULE Context --------------------------------
(* The context engine (services/context/contextEngine.ts), for one goal of one  *)
(* client: calls of context_query that share a cache entry, look for the goal's *)
(* terms in files and rows that others change meanwhile, and go on from page to *)
(* page with a cursor.  What the graph of the brain and the git log add to a    *)
(* list, which no manifest tells of, is left out, as are ranking and limits.    *)
EXTENDS Naturals

CONSTANTS
    None,
    Asker,          \* calls that may run at once
    File, Entry,      \* what is searched: files, and rows of memory and runtime evidence
    Terms,          \* how many terms the goal has
    MaxVersion,     \* how often a source is changed
    Has             \* which terms each version of a source has

Item == File \cup Entry
Term == 1 .. Terms
Version == 0 .. MaxVersion

ContextAssumption ==
    /\ File \cap Entry = {}
    /\ Terms \in Nat \ {0} /\ MaxVersion \in Nat
    /\ Has \in [Item -> [Version -> SUBSET Term]]

\* The rounds of a search: one for each term in the files, then one in the rows.
Round == 1 .. Terms + 1
Sought(r) == IF r \in Term THEN File ELSE Entry
Finds(i, r, v) == i \in Sought(r) /\ IF r \in Term THEN r \in Has[i][v] ELSE Has[i][v] # {}

\* What a round finds: the text of an item, and the hash read with it or after it.
Candidate == [item : Item, term : Round, claim : Version, hash : Version]
\* The list of a search: `base` is what the manifest read before it tells of.
Listing == [base : [Item -> Version], found : SUBSET Candidate, partial : BOOLEAN]
\* `indexVersion`: the manifest, and the distinct hashes of the candidates.
Index(list) == <<list.base, {<<c.item, c.hash>> : c \in list.found}>>

\* What the sources of a manifest have of the goal.
Present(c, versions) ==
    c.claim = versions[c.item] /\ c.hash = c.claim /\ Finds(c.item, c.term, c.claim)
AllOf(versions) == {c \in Candidate : Present(c, versions)}

VARIABLES
    sources,        \* the version of each item that is there; it is the manifest as well
    stored,         \* context_cache, level L6
    token,          \* a cursor a client holds, with the list its first page is of
    at, cursor,     \* of each call: where it is, the cursor it came with,
    base,           \* the manifest it read first,
    list,           \* the list it rechecks, makes or has answered from,
    valid,          \* whether that is from the cache and holds so far,
    left,           \* the items it has still to read,
    round, hits     \* and the round of its search, with what matched

pageVars == <<stored, token>>
workVars == <<left, round, hits>>
callVars == <<at, cursor, base, list, valid, workVars>>
contextVars == <<sources, pageVars, callVars>>

Nothing == [base |-> [i \in Item |-> 0], found |-> {}, partial |-> FALSE]

ContextTypeOK ==
    /\ sources \in [Item -> Version]
    /\ stored \in Listing \cup {None} /\ token \in Listing \cup {None}
    /\ at \in [Asker -> {"idle", "checking", "searching", "answered"}]
    /\ cursor \in [Asker -> Listing \cup {None}]
    /\ base \in [Asker -> [Item -> Version]]
    /\ list \in [Asker -> Listing]
    /\ valid \in [Asker -> BOOLEAN]
    /\ left \in [Asker -> SUBSET Item]
    /\ round \in [Asker -> Round]
    /\ hits \in [Asker -> SUBSET Candidate]

ContextInit ==
    /\ sources = Nothing.base
    /\ stored = None /\ token = None
    /\ at = [q \in Asker |-> "idle"]
    /\ cursor = [q \in Asker |-> None]
    /\ base = [q \in Asker |-> Nothing.base]
    /\ list = [q \in Asker |-> Nothing]
    /\ valid = [q \in Asker |-> FALSE]
    /\ left = [q \in Asker |-> {}]
    /\ round = [q \in Asker |-> 1]
    /\ hits = [q \in Asker |-> {}]

\* Others write: a file, or a row of memory or runtime evidence.
Edit(i) ==
    /\ sources[i] < MaxVersion
    /\ sources' = [sources EXCEPT ![i] = @ + 1]
    /\ UNCHANGED <<pageVars, callVars>>

-----------------------------------------------------------------------------
(* One call.                                                                   *)

\* lexicalCandidates begins with the first term: there is one, if only the name of the root.
Search(q, manifest) ==
    /\ at' = [at EXCEPT ![q] = "searching"]
    /\ list' = [list EXCEPT ![q] = [Nothing EXCEPT !.base = manifest]]
    /\ left' = [left EXCEPT ![q] = File]
    /\ valid' = [valid EXCEPT ![q] = FALSE]

\* query() up to its first await: the manifest is read, and the cache.
Ask(q) ==
    /\ at[q] = "idle"
    /\ \E c \in {None, token} : cursor' = [cursor EXCEPT ![q] = c]
    /\ base' = [base EXCEPT ![q] = sources]
    /\ \/ /\ stored = None
          /\ Search(q, sources)
       \/ /\ stored # None
          /\ at' = [at EXCEPT ![q] = "checking"]
          /\ list' = [list EXCEPT ![q] = stored]
          /\ left' = [left EXCEPT ![q] = {c.item : c \in stored.found}]
          /\ valid' = [valid EXCEPT ![q] = (stored.base = sources)]
    /\ UNCHANGED <<sources, pageVars, round, hits>>

\* validateDependencies: an item is rechecked; the rest are, even when it differs.
Recheck(q, i) ==
    /\ at[q] = "checking" /\ i \in left[q]
    /\ left' = [left EXCEPT ![q] = @ \ {i}]
    /\ valid' = [valid EXCEPT ![q] =
           valid[q] /\ \A c \in list[q].found : c.item = i => c.hash = sources[i]]
    /\ UNCHANGED <<sources, pageVars, at, cursor, base, list, round, hits>>

End(q) ==
    /\ at' = [at EXCEPT ![q] = "idle"]
    /\ cursor' = [cursor EXCEPT ![q] = None]
    /\ base' = [base EXCEPT ![q] = Nothing.base]
    /\ list' = [list EXCEPT ![q] = Nothing]
    /\ valid' = [valid EXCEPT ![q] = FALSE]

\* The cursor is of a list with another index.
Refused(q, found) == cursor[q] # None /\ Index(cursor[q]) # Index(found)

\* The answer: a page, and a cursor for the next one, which is of the list that the
\* first page was of.
Answer(q, found) ==
    \/ /\ Refused(q, found)
       /\ End(q)
       /\ UNCHANGED token
    \/ /\ ~Refused(q, found)
       /\ at' = [at EXCEPT ![q] = "answered"]
       /\ list' = [list EXCEPT ![q] = found]
       /\ token' \in {token, IF cursor[q] = None THEN found ELSE cursor[q]}
       /\ UNCHANGED <<cursor, base, valid>>

\* The cached list holds.
Hit(q) ==
    /\ at[q] = "checking" /\ left[q] = {} /\ valid[q]
    /\ Answer(q, list[q])
    /\ UNCHANGED <<sources, stored, workVars>>

\* It does not, and the entry is deleted, whichever it is by now.
Miss(q) ==
    /\ at[q] = "checking" /\ left[q] = {} /\ ~valid[q]
    /\ Search(q, base[q])
    /\ stored' = None
    /\ UNCHANGED <<sources, token, cursor, base, round, hits>>

\* A round reads an item: a file in a process or on a thread of its own, a row with
\* an await for each (memory) or none (runtime).
Look(q, i) ==
    /\ at[q] = "searching" /\ i \in left[q]
    /\ left' = [left EXCEPT ![q] = @ \ {i}]
    /\ hits' = [hits EXCEPT ![q] = IF Finds(i, round[q], sources[i])
           THEN @ \cup {[item |-> i, term |-> round[q], claim |-> sources[i],
                         hash |-> sources[i]]}
           ELSE @]
    /\ UNCHANGED <<sources, pageVars, at, cursor, base, list, valid, round>>

\* What a round adds to the list.  If it failed or was cut short, or if files that
\* matched cannot be read, the list is a partial one.
Adds(l, new, cut) == [base |-> l.base, found |-> l.found \cup new, partial |-> l.partial \/ cut]

\* The search of a term is over, and the files with matches are hashed.
Hash(q) ==
    /\ at[q] = "searching" /\ round[q] \in Term /\ left[q] = {}
    /\ \E kept \in SUBSET hits[q], cut \in BOOLEAN :
          /\ cut \/ kept = hits[q]
          /\ list' = [list EXCEPT ![q] =
                 Adds(list[q], {[c EXCEPT !.hash = sources[c.item]] : c \in kept}, cut)]
    /\ round' = [round EXCEPT ![q] = @ + 1]
    /\ left' = [left EXCEPT ![q] = Sought(round[q] + 1)]
    /\ hits' = [hits EXCEPT ![q] = {}]
    /\ UNCHANGED <<sources, pageVars, at, cursor, base, valid>>

\* memoryCandidates and runtimeCandidates are over, and the list is stored with the
\* manifest that was read at the start.
Store(q) ==
    /\ at[q] = "searching" /\ round[q] \notin Term /\ left[q] = {}
    /\ \E kept \in SUBSET hits[q], cut \in BOOLEAN :
          /\ cut \/ kept = hits[q]
          /\ stored' = Adds(list[q], kept, cut)
          /\ Answer(q, Adds(list[q], kept, cut))
    /\ round' = [round EXCEPT ![q] = 1]
    /\ hits' = [hits EXCEPT ![q] = {}]
    /\ UNCHANGED <<sources, left>>

Done(q) ==
    /\ at[q] = "answered"
    /\ End(q)
    /\ UNCHANGED <<sources, pageVars, workVars>>

\* The entry is ten minutes old, or one too many.
Evict ==
    /\ stored # None
    /\ stored' = None
    /\ UNCHANGED <<sources, token, callVars>>

\* The daemon is started anew: the cache and the clients' cursors outlive it.
Reopen ==
    /\ \E q \in Asker : at[q] # "idle"
    /\ at' = [q \in Asker |-> "idle"]
    /\ cursor' = [q \in Asker |-> None]
    /\ base' = [q \in Asker |-> Nothing.base]
    /\ list' = [q \in Asker |-> Nothing]
    /\ valid' = [q \in Asker |-> FALSE]
    /\ left' = [q \in Asker |-> {}]
    /\ round' = [q \in Asker |-> 1]
    /\ hits' = [q \in Asker |-> {}]
    /\ UNCHANGED <<sources, pageVars>>

ContextNext ==
    \/ \E i \in Item : Edit(i)
    \/ \E q \in Asker :
          \/ Ask(q) \/ Hit(q) \/ Miss(q) \/ Hash(q) \/ Store(q) \/ Done(q)
          \/ \E i \in Item : Recheck(q, i) \/ Look(q, i)
    \/ Evict \/ Reopen

ContextSpec == ContextInit /\ [][ContextNext]_contextVars

-----------------------------------------------------------------------------
Exact(found, versions) ==
    /\ found.found \subseteq AllOf(versions)
    /\ ~found.partial => AllOf(versions) \subseteq found.found

\* An answer from the cache says what the sources have when it is checked, and
\* what a page for a cursor shows was in the list that the first page is of.
HitsExact ==
    \A q \in Asker : at[q] = "answered" /\ valid[q] => Exact(list[q], base[q])
PagesContinue ==
    \A q \in Asker : at[q] = "answered" /\ cursor[q] # None /\ ~cursor[q].partial =>
        list[q].found \subseteq cursor[q].found
ContextSound == HitsExact /\ PagesContinue
=============================================================================
