------------------------------- MODULE Recovery -------------------------------
(***************************************************************************)
(* The source backups of services/recovery: recoveryService.ts takes them, *)
(* storage.ts keeps their bytes by hash, history.ts the sessions and the   *)
(* restore plans, maintenance.ts what the owner deletes, drift.ts the      *)
(* record of the expected source.                                          *)
(*                                                                         *)
(* All projects of an installation share one directory and one database.   *)
(* A capture awaits between its steps, so captures of different projects,  *)
(* an observation beside the queued capture of the same project, the       *)
(* owner's maintenance, crashes and restarts interleave with it; what runs *)
(* between two awaits is one step.  A backup is numbered within its        *)
(* project by the moment its capture began (created_at); a session holds   *)
(* one backup.  Nothing is said of the bytes of an object or of the        *)
(* manifest's text, and sizes and quotas only appear as refusals.          *)
(***************************************************************************)
EXTENDS Naturals, FiniteSets

CONSTANTS
    Proj,
    Hash,          \* contents of source files
    None,
    Retained,      \* policy.retainedPoints
    Observed,      \* projects whose jobs start observations
    MaxPoints,     \* bound: backups begun, of all projects together
    MaxHolds,      \* bound: marks and restore plans at one time
    MaxTroubles    \* bound: crashes, owner resets, Git restores,
                   \* days that pass

ASSUME RecoveryAssumption ==
    /\ Observed \subseteq Proj
    /\ Retained \in Nat \ {0} /\ MaxPoints \in Nat /\ MaxTroubles \in Nat
    /\ MaxHolds \in Nat
    /\ None \notin Hash /\ None \notin Proj \X (1 .. MaxPoints)
    /\ Hash \cap (Proj \X (1 .. MaxPoints)) = {}

Snap == Proj \X (1 .. MaxPoints)
\* The capture of the project's mutation queue and that of an observation,
\* which a finished job starts outside the queue.
Capture == (Proj \X {"queue"}) \cup (Observed \X {"observe"})

VARIABLES
    \* the database
    status,       \* recovery_snapshots.state, "none" before and after the row
    full,         \* snapshots of scope 'source'
    refs,         \* recovery_refs
    rows,         \* recovery_objects
    reserved,     \* recovery_reservations
    session,      \* recovery_sessions.state of the session of a snapshot
    marked,       \* pinned, named, deployed or bound to a database
    planned,      \* snapshots of live restore plans
    unfinished,   \* before-images of journals and jobs that have not ended
    expected,     \* recovery_drift.baseline_id
    retired,      \* recovery_cleanup_files
    \* the directory
    files,        \* objects
    manifests,
    \* what is older than the grace period and the retention
    oldPoints, oldRows, oldFiles,
    \* a runtime's memory
    up, begun, baseline, latest, cap, writing,
    troubles

store == <<status, full, refs, rows, reserved, session, marked, planned,
           unfinished, expected, retired, files, manifests>>
age == <<oldPoints, oldRows, oldFiles>>
memory == <<up, begun, baseline, latest, cap, writing>>
vars == <<store, age, memory, troubles>>

Idle == [pc |-> "idle", id |-> None, why |-> "activation", all |-> TRUE,
         need |-> {}, have |-> {}, cur |-> None]

\* A capture begins.
Started(id, why, all, need) ==
    [pc |-> "scan", id |-> id, why |-> why, all |-> all, need |-> need, have |-> {}, cur |-> None]

\* The capture c goes on, and has stored and linked so much.
Advance(c, pc, have, cur) ==
    [cap EXCEPT ![c] = [pc |-> pc, id |-> @.id, why |-> @.why, all |-> @.all,
                        need |-> @.need, have |-> have, cur |-> cur]]

CaptureRow ==
    [pc : {"idle", "scan", "store", "link", "publish", "git"}, id : Snap \cup {None},
     why : {"activation", "write", "owner", "observed", "accept"}, all : BOOLEAN,
     need : SUBSET Hash, have : SUBSET Hash, cur : Hash \cup {None}]

TypeOK ==
    /\ status \in [Snap -> {"none", "PREPARING", "READY", "INCOMPLETE"}]
    /\ full \subseteq Snap /\ refs \in [Snap -> SUBSET Hash]
    /\ rows \subseteq Hash /\ files \subseteq Hash
    /\ reserved \subseteq Snap /\ manifests \subseteq Snap
    /\ session \in [Snap -> {"none", "open", "closed", "interrupted"}]
    /\ marked \subseteq Snap /\ planned \subseteq Snap
    /\ unfinished \subseteq Snap
    /\ expected \in [Proj -> Snap \cup {None}]
    /\ retired \subseteq Proj \X (Snap \cup Hash)
    /\ oldPoints \subseteq Snap /\ oldRows \subseteq Hash /\ oldFiles \subseteq Hash
    /\ up \in [Proj -> BOOLEAN] /\ begun \in [Proj -> 0 .. MaxPoints]
    /\ baseline \in [Proj -> Snap \cup {None}]
    /\ latest \in [Proj -> Snap \cup {None}]
    /\ writing \in [Proj -> Snap \cup {None}]
    /\ cap \in [Capture -> CaptureRow]
    /\ troubles \in 0 .. MaxTroubles

Init ==
    /\ status = [s \in Snap |-> "none"] /\ full = {}
    /\ refs = [s \in Snap |-> {}] /\ rows = {} /\ files = {}
    /\ reserved = {} /\ manifests = {} /\ session = [s \in Snap |-> "none"]
    /\ marked = {} /\ planned = {} /\ unfinished = {}
    /\ expected = [p \in Proj |-> None] /\ retired = {}
    /\ oldPoints = {} /\ oldRows = {} /\ oldFiles = {}
    /\ up = [p \in Proj |-> TRUE] /\ begun = [p \in Proj |-> 0]
    /\ baseline = [p \in Proj |-> None] /\ latest = [p \in Proj |-> None]
    /\ writing = [p \in Proj |-> None]
    /\ cap = [c \in Capture |-> Idle] /\ troubles = 0

-----------------------------------------------------------------------------
(* What a retention pass deletes (storage.ts) *)

Of(p) == {s \in Snap : s[1] = p}
Ready(p) == {s \in Of(p) : status[s] = "READY"}
Newer(S, s) == {t \in S : t[2] > s[2]}
Newest(S) == {s \in S : Newer(S, s) = {}}
\* Beyond the number or the age that the policy keeps.
Outlived(S, s) == Cardinality(Newer(S, s)) >= Retained \/ s \in oldPoints

EndedSessions(p) ==
    LET closed == {s \in Of(p) : session[s] = "closed"}
    IN  {s \in closed : Outlived(closed, s)} \ (marked \cup planned \cup unfinished)

\* Broken: retention forgets the sessions.
KeptWithoutSessions(p) ==
    Newest(Ready(p)) \cup Newest(Ready(p) \cap full) \cup marked \cup planned
        \cup {expected[p]} \cup {s \in Ready(p) : ~Outlived(Ready(p), s)}

\* Broken: retention keeps the newest backup, whatever its scope.
KeptNewest(p) ==
    Newest(Ready(p)) \cup marked \cup planned \cup {expected[p]}
        \cup {s \in Ready(p) : session[s] # "none" /\ s \notin EndedSessions(p)}
        \cup {s \in Ready(p) : ~Outlived(Ready(p), s)}

Kept(p) ==
    Newest(Ready(p)) \cup Newest(Ready(p) \cap full) \cup marked \cup planned
        \cup {expected[p]}
        \cup {s \in Ready(p) : session[s] # "none" /\ s \notin EndedSessions(p)}
        \cup {s \in Ready(p) : ~Outlived(Ready(p), s)}

Pruned(p) == Ready(p) \ Kept(p)

StatusWithout(S) == [s \in Snap |-> IF s \in S THEN "none" ELSE status[s]]
RefsWithout(S) == [s \in Snap |-> IF s \in S THEN {} ELSE refs[s]]
SessionsWithout(S) == [s \in Snap |-> IF s \in S THEN "none" ELSE session[s]]
Referenced(r) == UNION {r[s] : s \in Snap}

\* Broken: the collection does not look for captures.
OrphansOfAll(r) == oldRows \ Referenced(r)

\* Rows past the grace period that nothing references go with their files,
\* and files past it that no row knows; nothing while anyone captures.
Orphans(r) == IF reserved # {} THEN {} ELSE oldRows \ Referenced(r)
Strays == IF reserved # {} THEN {} ELSE (files \cap oldFiles) \ rows

\* prune and collectOrphans, one after the other
SweepAll(p) ==
    LET gone == Pruned(p)  orphans == Orphans(RefsWithout(gone))
    IN  /\ refs' = RefsWithout(gone)
        /\ session' = SessionsWithout(EndedSessions(p))
        /\ manifests' = manifests \ gone
        /\ rows' = rows \ orphans
        /\ files' = files \ (orphans \cup Strays)
        /\ oldRows' = oldRows \ orphans
        /\ oldFiles' = oldFiles \ (orphans \cup Strays)

-----------------------------------------------------------------------------
(* A capture *)

Sound(s) == s # None /\ status[s] = "READY" /\ s \in manifests /\ refs[s] \subseteq files

\* A checkpoint first sees to a baseline it can verify.  Once there is an
\* expected source, observations record what differs from it; "accept" is the
\* owner's acknowledgement of one.
Begin(c) ==
    LET p == c[1]  id == <<p, begun[p] + 1>> IN
    /\ up[p] /\ cap[c].pc = "idle"
    /\ begun[p] < MaxPoints /\ Cardinality({s \in Snap : s[2] <= begun[s[1]]}) < MaxPoints
    /\ c[2] = "queue" => writing[p] = None
    /\ \E why \in {"activation", "write", "owner", "observed", "accept"},
          all \in BOOLEAN, need \in SUBSET Hash \ {{}} :
        /\ c[2] = "observe" => why = "observed"
        /\ why \in {"observed", "accept"} => expected[p] # None
        /\ why = "activation" => ~Sound(baseline[p])
        /\ why \in {"write", "owner"} => Sound(baseline[p])
        /\ why # "write" => all
        /\ cap' = [cap EXCEPT ![c] = Started(id, why, all, need)]
        /\ baseline' = [baseline EXCEPT ![p] = IF why = "activation" THEN None ELSE @]
    /\ begun' = [begun EXCEPT ![p] = @ + 1]
    /\ UNCHANGED <<store, age, up, latest, writing, troubles>>

\* The hashes are known: clean up, reserve the space, insert the row.
Reserve(c) ==
    LET p == c[1]  id == cap[c].id IN
    /\ cap[c].pc = "scan"
    /\ SweepAll(p)
    /\ status' = [StatusWithout(Pruned(p)) EXCEPT ![id] = "PREPARING"]
    /\ full' = IF cap[c].all THEN full \cup {id} ELSE full
    /\ reserved' = reserved \cup {id}
    /\ cap' = Advance(c, "store", {}, None)
    /\ UNCHANGED <<marked, planned, unfinished, expected, retired, oldPoints,
                   up, begun, baseline, latest, writing, troubles>>

\* An object the database knows is only read again; any other is staged and
\* linked, unless a file of that name is already there.
Store(c) ==
    /\ cap[c].pc = "store"
    /\ \E h \in cap[c].need \ cap[c].have :
        IF h \in rows
        THEN /\ cap' = Advance(c, "store", cap[c].have \cup {h}, None)
             /\ files' = files
        ELSE /\ cap' = Advance(c, "link", cap[c].have, h)
             /\ files' = files \cup {h}
    /\ UNCHANGED <<status, full, refs, rows, reserved, session, marked, planned,
                   unfinished, expected, retired, manifests, age, up, begun,
                   baseline, latest, writing, troubles>>

\* The linked object has been verified.
Register(c) ==
    /\ cap[c].pc = "link" /\ cap[c].cur \in files
    /\ rows' = rows \cup {cap[c].cur}
    /\ cap' = Advance(c, "store", cap[c].have \cup {cap[c].cur}, None)
    /\ UNCHANGED <<status, full, refs, reserved, session, marked, planned,
                   unfinished, expected, retired, files, manifests, age, up,
                   begun, baseline, latest, writing, troubles>>

\* The source is what it was, and every object is there.
Verify(c) ==
    /\ cap[c].pc = "store" /\ cap[c].have = cap[c].need
    /\ cap[c].need \subseteq files
    /\ cap' = Advance(c, "publish", cap[c].have, None)
    /\ UNCHANGED <<store, age, up, begun, baseline, latest, writing, troubles>>

\* The manifest is written, and the backup becomes READY with its references
\* if its row is still PREPARING; its session, the drift record and the memory
\* of the runtime follow.
Publish(c) ==
    LET p == c[1]  id == cap[c].id  why == cap[c].why IN
    /\ cap[c].pc = "publish" /\ status[id] = "PREPARING"
    /\ cap[c].need \subseteq rows
    /\ manifests' = manifests \cup {id}
    /\ status' = [status EXCEPT ![id] = "READY"]
    /\ refs' = [refs EXCEPT ![id] = cap[c].need]
    /\ reserved' = reserved \ {id}
    /\ session' = [session EXCEPT ![id] = CASE why = "write" -> "open"
                                            [] why = "owner" -> "closed"
                                            [] OTHER -> "none"]
    /\ expected' = [expected EXCEPT ![p] =
                      IF why = "activation" /\ @ = None THEN id ELSE @]
    /\ latest' = [latest EXCEPT ![p] = id]
    /\ baseline' = [baseline EXCEPT ![p] =
                      IF cap[c].all /\ why \notin {"observed", "accept"}
                      THEN id ELSE @]
    /\ cap' = Advance(c, "git", cap[c].have, None)
    /\ UNCHANGED <<full, rows, marked, planned, unfinished, retired, files, age,
                   up, begun, writing, troubles>>

\* The private Git copy is made; a last retention pass, and the operation that
\* asked for the backup goes on to change the source, or records it as the
\* expected one if the backup is still there (a foreign key).
Finish(c) ==
    LET p == c[1]  id == cap[c].id  gone == Pruned(p) IN
    /\ cap[c].pc = "git"
    /\ status' = StatusWithout(gone) /\ refs' = RefsWithout(gone)
    /\ session' = SessionsWithout(EndedSessions(p))
    /\ manifests' = manifests \ gone
    /\ cap' = [cap EXCEPT ![c] = Idle]
    /\ writing' = [writing EXCEPT ![p] = IF cap[c].why = "write" THEN id ELSE @]
    /\ unfinished' = IF cap[c].why = "write" THEN unfinished \cup {id} ELSE unfinished
    /\ expected' = [expected EXCEPT ![p] =
                      IF cap[c].why = "accept" /\ status'[id] = "READY" THEN id ELSE @]
    /\ UNCHANGED <<full, rows, reserved, marked, planned, retired, files, age,
                   up, begun, baseline, latest, troubles>>

\* Broken: a failed capture keeps its reservation.
FailReserved(c) ==
    /\ cap[c].pc # "idle"
    /\ status' = [status EXCEPT ![cap[c].id] = IF @ = "PREPARING" THEN "INCOMPLETE" ELSE @]
    /\ cap' = [cap EXCEPT ![c] = Idle]
    /\ UNCHANGED <<full, refs, rows, reserved, session, marked, planned, unfinished,
                   expected, retired, files, manifests, age, up, begun, baseline,
                   latest, writing, troubles>>

\* Any step may fail: the quota, a changed source, a lost object, the store,
\* the Git copy.  The session of the operation that asked ends with it.
Fail(c) ==
    LET id == cap[c].id IN
    /\ cap[c].pc # "idle"
    /\ status' = [status EXCEPT ![id] = IF @ = "PREPARING" THEN "INCOMPLETE" ELSE @]
    /\ reserved' = reserved \ {id}
    /\ session' = [session EXCEPT ![id] = IF @ = "open" THEN "closed" ELSE @]
    /\ manifests' \in {manifests} \cup
          (IF cap[c].pc = "publish" THEN {manifests \cup {id}} ELSE {})
    /\ cap' = [cap EXCEPT ![c] = Idle]
    /\ UNCHANGED <<full, refs, rows, marked, planned, unfinished, expected,
                   retired, files, age, up, begun, baseline, latest, writing, troubles>>

\* The write or the command that the backup protects has ended.
EndWrite(p) ==
    /\ writing[p] # None
    /\ session' = [session EXCEPT ![writing[p]] = "closed"]
    /\ unfinished' = unfinished \ {writing[p]}
    /\ writing' = [writing EXCEPT ![p] = None]
    /\ UNCHANGED <<status, full, refs, rows, reserved, marked, planned, expected,
                   retired, files, manifests, age, up, begun, baseline, latest,
                   cap, troubles>>

-----------------------------------------------------------------------------
(* The owner, callers and time *)

\* The operation runs in the project's mutation queue.
QueueIdle(p) == up[p] /\ cap[<<p, "queue">>].pc = "idle" /\ writing[p] = None

MayHold == Cardinality(marked) + Cardinality(planned) < MaxHolds

\* bind, pin, a name, a deployment; and taking the mark away again
Mark(s) ==
    /\ QueueIdle(s[1]) /\ Sound(s)
    /\ \/ s \in marked /\ marked' = marked \ {s}
       \/ s \notin marked /\ MayHold /\ marked' = marked \cup {s}
    /\ UNCHANGED <<status, full, refs, rows, reserved, session, planned,
                   unfinished, expected, retired, files, manifests, age, memory,
                   troubles>>

PlanRestore(s) ==
    /\ QueueIdle(s[1]) /\ Sound(s) /\ s \notin planned /\ MayHold
    /\ planned' = planned \cup {s}
    /\ UNCHANGED <<status, full, refs, rows, reserved, session, marked,
                   unfinished, expected, retired, files, manifests, age, memory,
                   troubles>>

\* resetBlockedState does not wait for the queue: it ends the captures of its
\* project in the database while they go on in memory.
ResetBlocked(p) ==
    /\ up[p] /\ troubles < MaxTroubles /\ troubles' = troubles + 1
    /\ status' = [s \in Snap |-> IF s \in Of(p) /\ status[s] = "PREPARING"
                                 THEN "INCOMPLETE" ELSE status[s]]
    /\ reserved' = reserved \ Of(p)
    /\ baseline' = [baseline EXCEPT ![p] = None]
    /\ UNCHANGED <<full, refs, rows, session, marked, planned, unfinished,
                   expected, retired, files, manifests, age, up, begun, latest,
                   cap, writing>>

\* What may not be deleted by the owner's selection
Protected(p, sel) ==
    {baseline[p], latest[p], expected[p]} \cup Newest(Ready(p))
        \cup Newest(Ready(p) \cap full) \cup marked \cup planned \cup unfinished
        \cup reserved \cup {s \in sel : session[s] = "open"}

\* A reviewed deletion applies as a whole; then the retired files go, as far as
\* no capture is active and removing them succeeds.  With nothing selected it
\* retries what is still to be removed.
Maintain(p, sel) ==
    LET r == RefsWithout(sel)
        tasks == retired \cup {<<p, s>> : s \in sel}
                         \cup {<<p, h>> : h \in UNION {refs[s] : s \in sel}}
        mine == {t \in tasks : t[1] = p}
    IN
    /\ QueueIdle(p)
    /\ \A s \in sel : status[s] # "none" /\ s \notin Protected(p, sel)
    /\ mine # {}
    /\ \E done \in SUBSET mine :
        LET dead == {h \in Hash : <<p, h>> \in done} \ Referenced(r) IN
        /\ reserved # {} => \A t \in done : t[2] \in Snap
        /\ retired' = tasks \ done
        /\ files' = files \ dead /\ rows' = rows \ dead
        /\ oldRows' = oldRows \ dead /\ oldFiles' = oldFiles \ dead
        /\ manifests' = manifests \ {s \in Snap : <<p, s>> \in done /\ (s \in sel \/ status[s] = "none")}
    /\ status' = StatusWithout(sel) /\ refs' = r
    /\ session' = SessionsWithout(sel)
    /\ UNCHANGED <<full, reserved, marked, planned, unfinished, expected,
                   oldPoints, memory, troubles>>

\* A restore from Git leaves no expected source and no baseline behind.
GitRestore(p) ==
    /\ QueueIdle(p) /\ expected[p] # None
    /\ troubles < MaxTroubles /\ troubles' = troubles + 1
    /\ expected' = [expected EXCEPT ![p] = None]
    /\ baseline' = [baseline EXCEPT ![p] = None]
    /\ UNCHANGED <<status, full, refs, rows, reserved, session, marked, planned,
                   unfinished, retired, files, manifests, age, up, begun, latest,
                   cap, writing>>

Crash(p) ==
    /\ up[p] /\ troubles < MaxTroubles /\ troubles' = troubles + 1
    /\ up' = [up EXCEPT ![p] = FALSE]
    /\ baseline' = [baseline EXCEPT ![p] = None]
    /\ latest' = [latest EXCEPT ![p] = None]
    /\ writing' = [writing EXCEPT ![p] = None]
    /\ cap' = [c \in Capture |-> IF c[1] = p THEN Idle ELSE cap[c]]
    /\ UNCHANGED <<store, age, begun>>

\* The next runtime of the project, under its lease: reconcile, then activate.
Open(p) ==
    /\ ~up[p]
    /\ up' = [up EXCEPT ![p] = TRUE]
    /\ status' = [s \in Snap |-> IF s \in Of(p) /\ status[s] = "PREPARING"
                                 THEN "INCOMPLETE" ELSE status[s]]
    /\ reserved' = reserved \ Of(p)
    /\ session' = [s \in Snap |-> IF s \in Of(p) /\ session[s] = "open"
                                  THEN "interrupted" ELSE session[s]]
    /\ planned' = planned \ Of(p)
    /\ UNCHANGED <<full, refs, rows, marked, unfinished, expected, retired, files,
                   manifests, age, begun, baseline, latest, cap, writing, troubles>>

\* A journal or job that a crash left is settled (reconciliation, the owner).
Settle(p) ==
    /\ up[p] /\ writing[p] = None
    /\ \E s \in unfinished \cap Of(p) : unfinished' = unfinished \ {s}
    /\ UNCHANGED <<status, full, refs, rows, reserved, session, marked, planned,
                   expected, retired, files, manifests, age, memory, troubles>>

\* Days pass: all there is is older than the grace period and the retention,
\* and restore plans have expired.
DaysPass ==
    /\ troubles < MaxTroubles /\ troubles' = troubles + 1
    /\ oldPoints' = {s \in Snap : s[2] <= begun[s[1]]}
    /\ oldRows' = rows /\ oldFiles' = files /\ planned' = {}
    /\ UNCHANGED <<status, full, refs, rows, reserved, session, marked,
                   unfinished, expected, retired, files, manifests, memory>>

Capturing(c) == \/ Begin(c) \/ Reserve(c) \/ Store(c) \/ Register(c)
                \/ Verify(c) \/ Publish(c) \/ Finish(c) \/ Fail(c)

Next ==
    \/ \E c \in Capture : Capturing(c)
    \/ \E p \in Proj : \/ EndWrite(p) \/ ResetBlocked(p) \/ Crash(p) \/ Open(p)
                       \/ Settle(p) \/ GitRestore(p)
                       \/ \E sel \in SUBSET Of(p) : Maintain(p, sel)
    \/ \E s \in Snap : Mark(s) \/ PlanRestore(s)
    \/ DaysPass

Spec == Init /\ [][Next]_vars

-----------------------------------------------------------------------------
(* What a user relies on *)

\* A backup that is offered can be restored: its manifest and every object it
\* references are there and registered, whatever was pruned, collected, reset
\* or cut short.  While a capture keeps its reservation, what it has stored
\* stays as well.
BackupsWhole ==
    /\ \A s \in Snap : status[s] = "READY" =>
            s \in manifests /\ refs[s] \subseteq rows \cap files
    /\ \A c \in Capture :
            cap[c].id \in reserved => cap[c].have \subseteq rows \cap files

\* Nothing deletes the before-image of a write under way or left unfinished, a
\* backup the owner marked, one a live restore plan was reviewed against, or
\* the one that records the expected source.
PromisesKept ==
    \A s \in Snap :
        (s \in unfinished \cup marked \cup planned \/ s \in {expected[s[1]], writing[s[1]]})
            => status[s] = "READY"

\* A project that has once had a full backup never is without one.
NeverBare ==
    [][\A p \in Proj : Ready(p) \cap full # {} => (Ready(p) \cap full)' # {}]_vars

\* A reservation stops the collection of garbage in the whole installation: it
\* is held by a capture that runs, or by a project that has yet to be reopened.
NoStuckReservation ==
    \A s \in reserved : \/ ~up[s[1]]
                        \/ \E c \in Capture : cap[c].id = s /\ cap[c].pc # "idle"

\* docs/RECOVERY.md:231-235: the current source checkpoint remains protected,
\* from retention as from an owner's cleanup.
BaselineKept ==
    \A p \in Proj : baseline[p] # None => status[baseline[p]] = "READY"

\* Backups are whole, kept as promised, and collected in the end.
BackupsKept == TypeOK /\ BackupsWhole /\ PromisesKept /\ NoStuckReservation
=============================================================================
