---------------------------- MODULE RecoveryProofs ----------------------------
(***************************************************************************)
(* What holds of the parts of MCRecovery for all values of their           *)
(* constants: for each an inductive invariant, and from it what an owner   *)
(* can rely on.                                                            *)
(***************************************************************************)
EXTENDS MCRecovery, FiniteSetTheorems, WellFoundedInduction, TLAPS
-----------------------------------------------------------------------------
(* Source backups.                                                         *)

\* The capture is at work, on a backup that has a number of its own.
Active(c) == cap[c].pc # "idle"

\* Backups are numbered as they begin, a number is used once, and the row of a
\* backup is there from its reservation on.
BackupsNumbered ==
    /\ \A s \in Snap : status[s] # "none" => s[2] <= begun[s[1]]
    /\ \A c \in Capture : Active(c) =>
          /\ up[c[1]] /\ cap[c].id \in Of(c[1]) /\ cap[c].id[2] <= begun[c[1]]
          /\ cap[c].pc = "scan" => status[cap[c].id] = "none" /\ cap[c].have = {}
          /\ cap[c].pc \in {"scan", "git"} => cap[c].id \notin reserved
    /\ \A c \in Capture : ~Active(c) => cap[c].id = None
    /\ \A c, d \in Capture : Active(c) /\ cap[c].id = cap[d].id => c = d

\* The backup of a write is guarded by its session from its publication until
\* the write has it, and by its unfinished journal from then on.
WritesGuarded ==
    /\ \A c \in Capture : cap[c].why = "write" =>
          /\ c[2] = "queue"
          /\ cap[c].pc = "git" => status[cap[c].id] = "READY" /\ session[cap[c].id] = "open"
    /\ \A p \in Proj : writing[p] # None =>
          writing[p] \in unfinished \cap Of(p)
    /\ \A c \in Capture : Active(c) /\ c[2] = "queue" => writing[c[1]] = None
    /\ \A s \in unfinished : session[s] # "none"

RecoveryInv == BackupsKept /\ rows \subseteq files /\ BackupsNumbered /\ WritesGuarded

LEMMA CaptureRows ==
    ASSUME NEW r \in CaptureRow
    PROVE  /\ r.pc \in {"idle", "scan", "store", "link", "publish", "git"}
           /\ r.id \in Snap \cup {None} /\ r.all \in BOOLEAN
           /\ r.why \in {"activation", "write", "owner", "observed", "accept"}
           /\ r.need \in SUBSET Hash /\ r.have \in SUBSET Hash /\ r.cur \in Hash \cup {None}
  BY DEF CaptureRow

LEMMA IdleIsRow == Idle \in CaptureRow
  BY DEF Idle, CaptureRow

LEMMA StartedIsRow ==
    ASSUME NEW id \in Snap, NEW why \in {"activation", "write", "owner", "observed", "accept"},
           NEW all \in BOOLEAN, NEW need \in SUBSET Hash
    PROVE  /\ Started(id, why, all, need) \in CaptureRow
           /\ Started(id, why, all, need).pc = "scan" /\ Started(id, why, all, need).id = id
           /\ Started(id, why, all, need).why = why /\ Started(id, why, all, need).have = {}
  BY DEF Started, CaptureRow

LEMMA Advances ==
    ASSUME TypeOK, NEW c \in Capture, NEW have \in SUBSET Hash, NEW cur \in Hash \cup {None},
           NEW pc \in {"idle", "scan", "store", "link", "publish", "git"}, cap' = Advance(c, pc, have, cur)
    PROVE  /\ cap' \in [Capture -> CaptureRow]
           /\ cap'[c].pc = pc /\ cap'[c].have = have /\ cap'[c].cur = cur
           /\ cap'[c].id = cap[c].id /\ cap'[c].why = cap[c].why /\ cap'[c].all = cap[c].all
           /\ cap'[c].need = cap[c].need
           /\ \A d \in Capture : d # c => cap'[d] = cap[d]
<1>. DEFINE row == [pc |-> pc, id |-> cap[c].id, why |-> cap[c].why, all |-> cap[c].all,
                    need |-> cap[c].need, have |-> have, cur |-> cur]
<1>1. row \in CaptureRow
  BY CaptureRows DEF TypeOK, CaptureRow
<1>2. cap' = [cap EXCEPT ![c] = row]
  BY DEF Advance
<1>3. /\ row.pc = pc /\ row.have = have /\ row.cur = cur /\ row.id = cap[c].id
      /\ row.why = cap[c].why /\ row.all = cap[c].all /\ row.need = cap[c].need
  OBVIOUS
<1>. HIDE DEF row
<1>. QED
  BY <1>1, <1>2, <1>3 DEF TypeOK

LEMMA Captures == \A c \in Capture : c[1] \in Proj /\ c = <<c[1], c[2]>> /\ \A p \in Proj : <<p, "queue">> \in Capture
  BY RecoveryAssumption DEF Capture

LEMMA BackupTypes ==
    ASSUME TypeOK, BackupsNumbered, [Next]_vars
    PROVE  TypeOK'
<1>1. ASSUME NEW c \in Capture, Begin(c) PROVE TypeOK'
  <2>. DEFINE p == c[1]
              id == <<p, begun[p] + 1>>
  <2>1. PICK why \in {"activation", "write", "owner", "observed", "accept"}, all \in BOOLEAN,
             need \in SUBSET Hash \ {{}} :
          /\ cap' = [cap EXCEPT ![c] = Started(id, why, all, need)]
          /\ baseline' = [baseline EXCEPT ![p] = IF why = "activation" THEN None ELSE @]
    BY <1>1, Zenon DEF Begin
  <2>9. need \in SUBSET Hash
    OBVIOUS
  <2>2. p \in Proj /\ begun[p] < MaxPoints
    BY <1>1, Captures DEF Begin
  <2>3. begun[p] + 1 \in 1 .. MaxPoints
    BY <2>2, RecoveryAssumption DEF TypeOK
  <2>4. id \in Snap
    BY <2>2, <2>3 DEF Snap
  <2>5. begun' = [begun EXCEPT ![p] = @ + 1] /\ UNCHANGED <<store, age, up, latest, writing, troubles>>
    BY <1>1 DEF Begin
  <2>. HIDE DEF p, id
  <2>6. cap' \in [Capture -> CaptureRow]
    BY <2>1, <2>4, <2>9, StartedIsRow DEF TypeOK
  <2>7. baseline' \in [Proj -> Snap \cup {None}]
    BY <2>1, <2>2 DEF TypeOK
  <2>8. begun' \in [Proj -> 0 .. MaxPoints]
    BY <2>2, <2>3, <2>5, RecoveryAssumption DEF TypeOK
  <2>. QED
    BY <2>5, <2>6, <2>7, <2>8 DEF store, age, TypeOK
<1>2. ASSUME NEW c \in Capture, Reserve(c) PROVE TypeOK'
  <2>1. /\ cap[c] \in CaptureRow /\ cap[c].id \in Snap /\ c[1] \in Proj
        /\ cap[c].need \in SUBSET Hash /\ cap[c].have \in SUBSET Hash /\ cap[c].cur \in Hash \cup {None}
    BY <1>2, CaptureRows, Captures, RecoveryAssumption
    DEF Reserve, TypeOK, BackupsNumbered, Active, Of
  <2>2. cap' = Advance(c, "store", {}, None)
    BY <1>2 DEF Reserve
  <2>3. {} \in SUBSET Hash
    BY <2>1
  <2>4. cap' \in [Capture -> CaptureRow]
    BY <2>1, <2>2, <2>3, Advances
  <2>. QED
    BY <1>2, <2>1, <2>2, <2>3, <2>4, RecoveryAssumption
    DEF Reserve, SweepAll, StatusWithout, RefsWithout, SessionsWithout, TypeOK
<1>3. ASSUME NEW c \in Capture, Store(c) PROVE TypeOK'
  <2>1. /\ cap[c] \in CaptureRow /\ cap[c].id \in Snap /\ c[1] \in Proj
        /\ cap[c].need \in SUBSET Hash /\ cap[c].have \in SUBSET Hash /\ cap[c].cur \in Hash \cup {None}
    BY <1>3, CaptureRows, Captures, RecoveryAssumption
    DEF Store, TypeOK, BackupsNumbered, Active, Of
  <2>2. PICK h \in cap[c].need \ cap[c].have :
            \/ cap' = Advance(c, "store", cap[c].have \cup {h}, None) /\ files' = files
            \/ cap' = Advance(c, "link", cap[c].have, h) /\ files' = files \cup {h}
    BY <1>3 DEF Store
  <2>3. h \in Hash /\ cap[c].have \cup {h} \in SUBSET Hash
    BY <2>1
  <2>4. cap' \in [Capture -> CaptureRow]
    BY <2>1, <2>2, <2>3, Advances
  <2>. QED
    BY <1>3, <2>1, <2>2, <2>3, <2>4, RecoveryAssumption DEF Store, age, TypeOK
<1>4. ASSUME NEW c \in Capture, Register(c) PROVE TypeOK'
  <2>1. /\ cap[c] \in CaptureRow /\ cap[c].id \in Snap /\ c[1] \in Proj
        /\ cap[c].need \in SUBSET Hash /\ cap[c].have \in SUBSET Hash /\ cap[c].cur \in Hash \cup {None}
    BY <1>4, CaptureRows, Captures, RecoveryAssumption
    DEF Register, TypeOK, BackupsNumbered, Active, Of
  <2>2. cap' = Advance(c, "store", cap[c].have \cup {cap[c].cur}, None)
    BY <1>4 DEF Register
  <2>3. cap[c].have \cup {cap[c].cur} \in SUBSET Hash
    BY <1>4, <2>1 DEF Register, TypeOK
  <2>4. cap' \in [Capture -> CaptureRow]
    BY <2>1, <2>2, <2>3, Advances
  <2>. QED
    BY <1>4, <2>1, <2>2, <2>3, <2>4, RecoveryAssumption DEF Register, age, TypeOK
<1>5. ASSUME NEW c \in Capture, Verify(c) PROVE TypeOK'
  <2>1. /\ cap[c] \in CaptureRow /\ cap[c].id \in Snap /\ c[1] \in Proj
        /\ cap[c].need \in SUBSET Hash /\ cap[c].have \in SUBSET Hash /\ cap[c].cur \in Hash \cup {None}
    BY <1>5, CaptureRows, Captures, RecoveryAssumption
    DEF Verify, TypeOK, BackupsNumbered, Active, Of
  <2>2. cap' = Advance(c, "publish", cap[c].have, None)
    BY <1>5 DEF Verify
  <2>3. cap[c].have \in SUBSET Hash
    BY <2>1
  <2>4. cap' \in [Capture -> CaptureRow]
    BY <2>1, <2>2, <2>3, Advances
  <2>. QED
    BY <1>5, <2>1, <2>2, <2>3, <2>4, RecoveryAssumption DEF Verify, store, age, TypeOK
<1>6. ASSUME NEW c \in Capture, Publish(c) PROVE TypeOK'
  <2>1. /\ cap[c] \in CaptureRow /\ cap[c].id \in Snap /\ c[1] \in Proj
        /\ cap[c].need \in SUBSET Hash /\ cap[c].have \in SUBSET Hash /\ cap[c].cur \in Hash \cup {None}
    BY <1>6, CaptureRows, Captures, RecoveryAssumption
    DEF Publish, TypeOK, BackupsNumbered, Active, Of
  <2>2. cap' = Advance(c, "git", cap[c].have, None)
    BY <1>6 DEF Publish
  <2>3. cap[c].have \in SUBSET Hash
    BY <2>1
  <2>4. cap' \in [Capture -> CaptureRow]
    BY <2>1, <2>2, <2>3, Advances
  <2>. QED
    BY <1>6, <2>1, <2>2, <2>3, <2>4, RecoveryAssumption DEF Publish, age, TypeOK
<1>7. ASSUME NEW c \in Capture, Finish(c) PROVE TypeOK'
  <2>1. /\ cap[c] \in CaptureRow /\ cap[c].id \in Snap /\ c[1] \in Proj
        /\ cap[c].need \in SUBSET Hash /\ cap[c].have \in SUBSET Hash /\ cap[c].cur \in Hash \cup {None}
    BY <1>7, CaptureRows, Captures, RecoveryAssumption
    DEF Finish, TypeOK, BackupsNumbered, Active, Of
  <2>4. cap' \in [Capture -> CaptureRow]
    BY <1>7, IdleIsRow DEF Finish, TypeOK
  <2>. QED
    BY <1>7, <2>1, <2>4, RecoveryAssumption
    DEF Finish, StatusWithout, RefsWithout, SessionsWithout, age, TypeOK
<1>8. ASSUME NEW c \in Capture, Fail(c) PROVE TypeOK'
  <2>1. /\ cap[c] \in CaptureRow /\ cap[c].id \in Snap /\ c[1] \in Proj
        /\ cap[c].need \in SUBSET Hash /\ cap[c].have \in SUBSET Hash /\ cap[c].cur \in Hash \cup {None}
    BY <1>8, CaptureRows, Captures, RecoveryAssumption
    DEF Fail, TypeOK, BackupsNumbered, Active, Of
  <2>4. cap' \in [Capture -> CaptureRow]
    BY <1>8, IdleIsRow DEF Fail, TypeOK
  <2>. QED
    BY <1>8, <2>1, <2>4, RecoveryAssumption DEF Fail, age, TypeOK
<1>9. ASSUME NEW p \in Proj, EndWrite(p) PROVE TypeOK'
  BY <1>9, RecoveryAssumption, CaptureRows, IdleIsRow, StartedIsRow, Advances,
     Captures
  DEF EndWrite, age, TypeOK, Snap, BackupsNumbered, Of
<1>10. ASSUME NEW p \in Proj, ResetBlocked(p) PROVE TypeOK'
  BY <1>10, RecoveryAssumption, CaptureRows, IdleIsRow, StartedIsRow, Advances,
     Captures
  DEF ResetBlocked, Of, age, Snap, TypeOK, BackupsNumbered
<1>11. ASSUME NEW p \in Proj, Crash(p) PROVE TypeOK'
  <2>1. cap' \in [Capture -> CaptureRow]
    BY <1>11, IdleIsRow DEF Crash, TypeOK
  <2>2. /\ up' \in [Proj -> BOOLEAN] /\ baseline' \in [Proj -> Snap \cup {None}]
        /\ latest' \in [Proj -> Snap \cup {None}] /\ writing' \in [Proj -> Snap \cup {None}]
    BY <1>11 DEF Crash, TypeOK
  <2>3. troubles' \in 0 .. MaxTroubles
    BY <1>11, RecoveryAssumption DEF Crash, TypeOK
  <2>4. UNCHANGED <<store, age, begun>>
    BY <1>11 DEF Crash
  <2>. QED
    BY <2>1, <2>2, <2>3, <2>4 DEF store, age, TypeOK
<1>12. ASSUME NEW p \in Proj, Open(p) PROVE TypeOK'
  BY <1>12, RecoveryAssumption, CaptureRows, IdleIsRow, StartedIsRow, Advances,
     Captures
  DEF Open, Of, age, Snap, TypeOK, BackupsNumbered
<1>13. ASSUME NEW p \in Proj, Settle(p) PROVE TypeOK'
  BY <1>13, RecoveryAssumption, CaptureRows, IdleIsRow, StartedIsRow, Advances,
     Captures
  DEF Settle, Of, age, memory, Snap, TypeOK, BackupsNumbered
<1>14. ASSUME NEW p \in Proj, GitRestore(p) PROVE TypeOK'
  BY <1>14, RecoveryAssumption, CaptureRows, IdleIsRow, StartedIsRow, Advances,
     Captures
  DEF GitRestore, QueueIdle, age, TypeOK, Snap, BackupsNumbered, Of
<1>15. ASSUME NEW p \in Proj, NEW sel \in SUBSET Of(p), Maintain(p, sel) PROVE TypeOK'
  BY <1>15, RecoveryAssumption, CaptureRows, IdleIsRow, StartedIsRow, Advances,
     Captures
  DEF Maintain, RefsWithout, QueueIdle, Snap, StatusWithout, SessionsWithout,
      memory, TypeOK, BackupsNumbered, Of
<1>16. ASSUME NEW s \in Snap, Mark(s) PROVE TypeOK'
  BY <1>16, RecoveryAssumption, CaptureRows, IdleIsRow, StartedIsRow, Advances,
     Captures
  DEF Mark, QueueIdle, Sound, age, memory, TypeOK, Snap, BackupsNumbered, Of
<1>17. ASSUME NEW s \in Snap, PlanRestore(s) PROVE TypeOK'
  BY <1>17, RecoveryAssumption, CaptureRows, IdleIsRow, StartedIsRow, Advances,
     Captures
  DEF PlanRestore, QueueIdle, Sound, age, memory, TypeOK, Snap, BackupsNumbered, Of
<1>18. ASSUME DaysPass PROVE TypeOK'
  BY <1>18, RecoveryAssumption, CaptureRows, IdleIsRow, StartedIsRow, Advances,
     Captures
  DEF DaysPass, Snap, memory, TypeOK, BackupsNumbered, Of
<1>u. ASSUME UNCHANGED vars PROVE TypeOK'
  BY <1>u DEF TypeOK, Snap, BackupsNumbered, Of, vars, store, age, memory
<1>. QED
  BY <1>1, <1>2, <1>3, <1>4, <1>5, <1>6, <1>7, <1>8, <1>9, <1>10, <1>11, <1>12,
     <1>13, <1>14, <1>15, <1>16, <1>17, <1>18, <1>u
  DEF Next, Capturing

\* What a retention pass takes is READY, neither marked, planned nor expected, the
\* newest of the full backups is not in it, and its session, if any, has ended.
LEMMA PrunedAre ==
    ASSUME NEW p \in Proj, NEW s \in Pruned(p)
    PROVE  /\ s \in Of(p) /\ status[s] = "READY" /\ s \notin marked \cup planned \cup {expected[p]}
           /\ s \notin Newest(Ready(p) \cap full)
           /\ session[s] = "none" \/ s \in EndedSessions(p)
  BY DEF Pruned, Kept, Ready, Of

LEMMA EndedAre ==
    ASSUME NEW p \in Proj, NEW s \in EndedSessions(p)
    PROVE  s \in Of(p) /\ session[s] = "closed" /\ s \notin marked \cup planned \cup unfinished
  BY DEF EndedSessions, Of

\* Nothing that is promised is pruned.
LEMMA PromisedSpared ==
    ASSUME TypeOK, WritesGuarded, NEW p \in Proj, NEW s \in Snap,
           s \in unfinished \cup marked \cup planned \/ s \in {expected[s[1]], writing[s[1]]}
    PROVE  s \notin Pruned(p)
<1>. SUFFICES ASSUME s \in Pruned(p) PROVE FALSE
  OBVIOUS
<1>1. /\ s \in Of(p) /\ s \notin marked \cup planned \cup {expected[p]}
      /\ session[s] = "none" \/ s \in EndedSessions(p)
  BY PrunedAre
<1>2. s[1] = p
  BY <1>1 DEF Of
<1>3. s \in unfinished
  BY <1>1, <1>2, RecoveryAssumption DEF WritesGuarded, Snap
<1>4. session[s] # "none"
  BY <1>3 DEF WritesGuarded
<1>. QED
  BY <1>1, <1>3, <1>4, EndedAre

\* A sweep of p leaves what the backups it keeps refer to, and everything while
\* a capture holds a reservation.
Sweeps(p) ==
    /\ rows' \subseteq files' /\ manifests' = manifests \ Pruned(p)
    /\ \A s \in Snap : s \notin Pruned(p) =>
          refs'[s] = refs[s] /\ (refs[s] \subseteq rows => refs[s] \subseteq rows')
    /\ reserved # {} => rows' = rows /\ files' = files

LEMMA SweepSpares ==
    ASSUME TypeOK, rows \subseteq files, NEW p \in Proj, SweepAll(p)
    PROVE  Sweeps(p)
<1>. DEFINE r == RefsWithout(Pruned(p))
            o == Orphans(r)
<1>1. /\ refs' = r /\ rows' = rows \ o /\ files' = files \ (o \cup Strays)
      /\ manifests' = manifests \ Pruned(p) /\ session' = SessionsWithout(EndedSessions(p))
  BY DEF SweepAll
<1>2. o \cap Referenced(r) = {} /\ Strays \cap rows = {}
  BY DEF Orphans, Strays
<1>3. \A s \in Snap : r[s] \subseteq Referenced(r)
  BY DEF Referenced
<1>4. \A s \in Snap : s \notin Pruned(p) => r[s] = refs[s]
  BY DEF RefsWithout
<1>5. reserved # {} => o = {} /\ Strays = {}
  BY DEF Orphans, Strays
<1>. HIDE DEF r, o
<1>. QED
  BY <1>1, <1>2, <1>3, <1>4, <1>5 DEF Sweeps

LEMMA IdleIs == Idle.pc = "idle" /\ Idle.id = None /\ Idle.why = "activation" /\ Idle.have = {}
  BY DEF Idle

\* A capture at work has a backup of its own, one of its project.
LEMMA AtWork ==
    ASSUME TypeOK, BackupsNumbered, NEW c \in Capture, Active(c)
    PROVE  /\ c[1] \in Proj /\ cap[c].id \in Snap /\ cap[c].id[1] = c[1] /\ cap[c].id # None
           /\ cap[c].id[2] <= begun[c[1]] /\ up[c[1]]
           /\ cap[c].need \in SUBSET Hash /\ cap[c].have \in SUBSET Hash /\ cap[c].cur \in Hash \cup {None}
           /\ \A d \in Capture : d # c => cap[d].id # cap[c].id
<1>1. cap[c] \in CaptureRow /\ cap[c].id \in Of(c[1]) /\ cap[c].id[2] <= begun[c[1]] /\ up[c[1]]
  BY DEF TypeOK, BackupsNumbered
<1>2. c[1] \in Proj /\ cap[c].id \in Snap /\ cap[c].id[1] = c[1]
  BY <1>1, Captures DEF Of
<1>3. cap[c].id # None
  BY <1>2, RecoveryAssumption DEF Snap
<1>4. \A d \in Capture : d # c => cap[d].id # cap[c].id
  BY DEF BackupsNumbered
<1>. QED
  BY <1>1, <1>2, <1>3, <1>4, CaptureRows

LEMMA AllAtWork ==
    ASSUME TypeOK, BackupsNumbered
    PROVE  \A c \in Capture : Active(c) =>
               /\ c[1] \in Proj /\ cap[c].id \in Snap /\ cap[c].id[1] = c[1] /\ cap[c].id # None
               /\ cap[c].id[2] <= begun[c[1]] /\ up[c[1]]
  BY AtWork

\* Neither an open session nor the backup of an unfinished write is swept.
LEMMA OpenSpared ==
    \A p \in Proj, s \in Snap :
        /\ session[s] = "open" => s \notin Pruned(p) /\ s \notin EndedSessions(p)
        /\ s \in unfinished => s \notin EndedSessions(p)
  BY PrunedAre, EndedAre

LEMMA UnfinishedReady ==
    ASSUME TypeOK, PromisesKept
      PROVE  \A s \in unfinished : s \in Snap /\ status[s] = "READY"
  BY DEF TypeOK, PromisesKept

LEMMA OneCapture == \A c, d \in Capture : c[1] = d[1] /\ c[2] = d[2] => c = d
  BY DEF Capture

LEMMA Projects == (\A s \in Snap : s[1] \in Proj) /\ None \notin Snap
  BY RecoveryAssumption DEF Snap

\* What the reviewed deletion of sel takes.
Maintains(p, sel) ==
    /\ writing[p] = None /\ ~Active(<<p, "queue">>)
    /\ \A s \in Snap : s \in sel =>
          /\ s[1] = p /\ status'[s] = "none"
          /\ s \notin unfinished \cup marked \cup planned \cup {expected[p]}
    /\ \A s \in Snap : s \notin sel =>
          status'[s] = status[s] /\ refs'[s] = refs[s] /\ session'[s] = session[s]
    /\ UNCHANGED <<reserved, marked, planned, unfinished, expected, cap, writing>>

LEMMA Maintained ==
    ASSUME TypeOK, NEW p \in Proj, NEW sel \in SUBSET Of(p), Maintain(p, sel)
    PROVE  Maintains(p, sel)
  BY
  DEF Maintains, Maintain, QueueIdle, Protected, StatusWithout, RefsWithout,
      SessionsWithout, memory, Of, Active

\* How the capture c goes on.
Goes(c, pc, have) ==
    /\ cap'[c].pc = pc /\ cap'[c].have = have /\ cap'[c].id = cap[c].id /\ cap'[c].why = cap[c].why
    /\ \A d \in Capture : d # c => cap'[d] = cap[d]

\* The capture c is over.
Ends(c) == cap'[c] = Idle /\ \A d \in Capture : d # c => cap'[d] = cap[d]

\* What Reserve does that matters here.
Reserves(c) ==
    /\ cap[c].pc = "scan" /\ Active(c) /\ Goes(c, "store", {})
    /\ SweepAll(c[1])
    /\ \A s \in Snap : session'[s] = IF s \in EndedSessions(c[1]) THEN "none" ELSE session[s]
    /\ \A s \in Snap : status'[s] = IF s = cap[c].id THEN "PREPARING"
                                    ELSE IF s \in Pruned(c[1]) THEN "none" ELSE status[s]
    /\ reserved' = reserved \cup {cap[c].id}
    /\ UNCHANGED <<marked, planned, unfinished, expected, up, begun, writing>>

LEMMA ReserveEffect ==
    ASSUME TypeOK, BackupsNumbered, NEW c \in Capture, Reserve(c)
    PROVE  Reserves(c)
<1>1. cap[c].pc = "scan" /\ cap' = Advance(c, "store", {}, None) /\ Active(c)
  BY DEF Reserve, Active
<1>2. {} \in SUBSET Hash /\ None \in Hash \cup {None}
  BY <1>1, AtWork
<1>3. Goes(c, "store", {})
  BY <1>1, <1>2, Advances DEF Goes
<1>4. cap[c].id \in Snap /\ c[1] \in Proj
  BY <1>1, AtWork
<1>. QED
  BY <1>1, <1>3, <1>4
  DEF Reserve, Reserves, StatusWithout, SweepAll, SessionsWithout, TypeOK

\* What Register does that matters here.
Registers(c) ==
    /\ cap[c].pc = "link" /\ Active(c) /\ Goes(c, "store", cap[c].have \cup {cap[c].cur})
    /\ cap[c].cur \in files /\ rows' = rows \cup {cap[c].cur}
    /\ UNCHANGED <<status, refs, files, reserved, session, marked, planned, unfinished,
                   expected, manifests, up, begun, writing>>

LEMMA RegisterEffect ==
    ASSUME TypeOK, BackupsNumbered, NEW c \in Capture, Register(c)
    PROVE  Registers(c)
<1>1. cap[c].pc = "link" /\ cap' = Advance(c, "store", cap[c].have \cup {cap[c].cur}, None) /\ Active(c)
  BY DEF Register, Active
<1>2. cap[c].have \cup {cap[c].cur} \in SUBSET Hash /\ None \in Hash \cup {None}
  BY <1>1, AtWork DEF Register, TypeOK
<1>3. Goes(c, "store", cap[c].have \cup {cap[c].cur})
  BY <1>1, <1>2, Advances, ZenonT(40) DEF Goes
<1>4. cap[c].id \in Snap /\ c[1] \in Proj
  BY <1>1, AtWork
<1>. QED
  BY <1>1, <1>3, <1>4 DEF Register, Registers, memory

\* What Verify does that matters here.
Verifies(c) ==
    /\ cap[c].pc = "store" /\ Active(c) /\ Goes(c, "publish", cap[c].have)
    /\ UNCHANGED <<store, up, begun, writing>>

LEMMA VerifyEffect ==
    ASSUME TypeOK, BackupsNumbered, NEW c \in Capture, Verify(c)
    PROVE  Verifies(c)
<1>1. cap[c].pc = "store" /\ cap' = Advance(c, "publish", cap[c].have, None) /\ Active(c)
  BY DEF Verify, Active
<1>2. cap[c].have \in SUBSET Hash /\ None \in Hash \cup {None}
  BY <1>1, AtWork
<1>3. Goes(c, "publish", cap[c].have)
  BY <1>1, <1>2, Advances DEF Goes
<1>4. cap[c].id \in Snap /\ c[1] \in Proj
  BY <1>1, AtWork
<1>. QED
  BY <1>1, <1>3, <1>4 DEF Verify, Verifies, store

\* What Publish does that matters here.
Publishes(c) ==
    /\ cap[c].pc = "publish" /\ Active(c) /\ Goes(c, "git", cap[c].have)
    /\ cap[c].need \subseteq rows /\ status[cap[c].id] = "PREPARING"
    /\ manifests' = manifests \cup {cap[c].id} /\ reserved' = reserved \ {cap[c].id}
    /\ \A s \in Snap : /\ status'[s] = IF s = cap[c].id THEN "READY" ELSE status[s]
                       /\ refs'[s] = IF s = cap[c].id THEN cap[c].need ELSE refs[s]
                       /\ s # cap[c].id => session'[s] = session[s]
    /\ cap[c].why = "write" => session'[cap[c].id] = "open"
    /\ \A p \in Proj : expected'[p] \in {expected[p], cap[c].id}
    /\ UNCHANGED <<rows, files, marked, planned, unfinished, up, begun, writing>>

LEMMA PublishEffect ==
    ASSUME TypeOK, BackupsNumbered, NEW c \in Capture, Publish(c)
    PROVE  Publishes(c)
<1>1. cap[c].pc = "publish" /\ cap' = Advance(c, "git", cap[c].have, None) /\ Active(c)
  BY DEF Publish, Active
<1>2. cap[c].have \in SUBSET Hash /\ None \in Hash \cup {None}
  BY <1>1, AtWork
<1>3. Goes(c, "git", cap[c].have)
  BY <1>1, <1>2, Advances DEF Goes
<1>4. cap[c].id \in Snap /\ c[1] \in Proj
  BY <1>1, AtWork
<1>. QED
  BY <1>1, <1>3, <1>4 DEF Publish, Publishes, TypeOK

\* What Store does that matters here.
Stores(c) ==
    \E h \in Hash :
      /\ cap[c].pc = "store" /\ Active(c)
      /\ \/ h \in rows /\ files' = files /\ Goes(c, "store", cap[c].have \cup {h})
         \/ files' = files \cup {h} /\ Goes(c, "link", cap[c].have)
      /\ UNCHANGED <<status, refs, rows, reserved, session, marked, planned, unfinished,
                     expected, manifests, up, begun, writing>>

LEMMA StoreEffect ==
    ASSUME TypeOK, BackupsNumbered, NEW c \in Capture, Store(c)
    PROVE  Stores(c)
<1>1. cap[c].pc = "store" /\ Active(c)
  BY DEF Store, Active
<1>2. cap[c].need \in SUBSET Hash /\ cap[c].have \in SUBSET Hash
  BY <1>1, AtWork
<1>3. PICK h \in cap[c].need \ cap[c].have :
         \/ h \in rows /\ cap' = Advance(c, "store", cap[c].have \cup {h}, None) /\ files' = files
         \/ cap' = Advance(c, "link", cap[c].have, h) /\ files' = files \cup {h}
  BY DEF Store
<1>4. h \in Hash /\ cap[c].have \cup {h} \in SUBSET Hash
  BY <1>2
<1>5. CASE h \in rows /\ cap' = Advance(c, "store", cap[c].have \cup {h}, None) /\ files' = files
  <2>1. Goes(c, "store", cap[c].have \cup {h})
    BY <1>4, <1>5, Advances DEF Goes
  <2>. QED
    BY <1>1, <1>4, <1>5, <2>1 DEF Store, Stores
<1>6. CASE cap' = Advance(c, "link", cap[c].have, h) /\ files' = files \cup {h}
  <2>1. Goes(c, "link", cap[c].have)
    BY <1>2, <1>4, <1>6, Advances DEF Goes
  <2>. QED
    BY <1>1, <1>4, <1>6, <2>1 DEF Store, Stores
<1>. QED
  BY <1>3, <1>5, <1>6 DEF Stores

\* What Finish does that matters here.
Finishes(c) ==
    /\ cap[c].pc = "git" /\ Active(c) /\ Ends(c)
    /\ \A s \in Snap : /\ status'[s] = IF s \in Pruned(c[1]) THEN "none" ELSE status[s]
                       /\ refs'[s] = IF s \in Pruned(c[1]) THEN {} ELSE refs[s]
                       /\ session'[s] = IF s \in EndedSessions(c[1]) THEN "none" ELSE session[s]
    /\ manifests' = manifests \ Pruned(c[1])
    /\ \A p \in Proj : \/ expected'[p] = expected[p]
                       \/ expected'[p] = cap[c].id /\ status'[cap[c].id] = "READY"
    /\ \A p \in Proj : writing'[p] = IF p = c[1] /\ cap[c].why = "write" THEN cap[c].id ELSE writing[p]
    /\ unfinished' = IF cap[c].why = "write" THEN unfinished \cup {cap[c].id} ELSE unfinished
    /\ UNCHANGED <<rows, files, reserved, marked, planned, up, begun>>

LEMMA FinishEffect ==
    ASSUME TypeOK, BackupsNumbered, NEW c \in Capture, Finish(c)
    PROVE  Finishes(c)
<1>1. cap[c].pc = "git" /\ Active(c) /\ cap' = [cap EXCEPT ![c] = Idle]
  BY DEF Finish, Active
<1>2. Ends(c)
  BY <1>1 DEF Ends, TypeOK
<1>3. cap[c].id \in Snap /\ c[1] \in Proj
  BY <1>1, AtWork
<1>. QED
  BY <1>1, <1>2, <1>3
  DEF Finish, Finishes, StatusWithout, RefsWithout, SessionsWithout, TypeOK

\* What Fail does that matters here.
Fails(c) ==
    /\ Active(c) /\ Ends(c)
    /\ \A s \in Snap : /\ \/ status'[s] = status[s]
                          \/ s = cap[c].id /\ status[s] = "PREPARING" /\ status'[s] = "INCOMPLETE"
                       /\ \/ session'[s] = session[s]
                          \/ s = cap[c].id /\ session[s] = "open" /\ session'[s] = "closed"
    /\ reserved' = reserved \ {cap[c].id} /\ manifests \subseteq manifests'
    /\ UNCHANGED <<refs, rows, files, marked, planned, unfinished, expected, up, begun, writing>>

LEMMA FailEffect ==
    ASSUME TypeOK, BackupsNumbered, NEW c \in Capture, Fail(c)
    PROVE  Fails(c)
<1>1. Active(c) /\ cap' = [cap EXCEPT ![c] = Idle]
  BY DEF Fail, Active
<1>2. Ends(c)
  BY <1>1 DEF Ends, TypeOK
<1>3. cap[c].id \in Snap
  BY <1>1, AtWork
<1>. QED
  BY <1>1, <1>2, <1>3 DEF Fail, Fails, TypeOK

\* What Begin does that matters here.
Begins(c) ==
    /\ ~Active(c) /\ up[c[1]] /\ (c[2] = "queue" => writing[c[1]] = None)
    /\ <<c[1], begun[c[1]] + 1>> \in Snap /\ cap'[c].id = <<c[1], begun[c[1]] + 1>>
    /\ cap'[c].pc = "scan" /\ cap'[c].have = {} /\ (cap'[c].why = "write" => c[2] # "observe")
    /\ \A d \in Capture : d # c => cap'[d] = cap[d]
    /\ \A p \in Proj : begun'[p] = IF p = c[1] THEN begun[p] + 1 ELSE begun[p]
    /\ UNCHANGED <<store, up, writing>>

LEMMA BeginEffect ==
    ASSUME TypeOK, BackupsNumbered, NEW c \in Capture, Begin(c)
    PROVE  Begins(c)
<1>1. c[1] \in Proj /\ begun[c[1]] \in 0 .. MaxPoints /\ begun[c[1]] < MaxPoints /\ MaxPoints \in Nat
  BY Captures, RecoveryAssumption DEF Begin, TypeOK
<1>2. <<c[1], begun[c[1]] + 1>> \in Snap
  BY <1>1 DEF Snap
<1>3. PICK why \in {"activation", "write", "owner", "observed", "accept"},
           all \in BOOLEAN, need \in SUBSET Hash \ {{}} :
         /\ c[2] = "observe" => why = "observed"
         /\ cap' = [cap EXCEPT ![c] = Started(<<c[1], begun[c[1]] + 1>>, why, all, need)]
  BY DEF Begin
<1>4. cap'[c] = Started(<<c[1], begun[c[1]] + 1>>, why, all, need) /\ \A d \in Capture : d # c => cap'[d] = cap[d]
  BY <1>3 DEF TypeOK
<1>5. /\ cap'[c].id = <<c[1], begun[c[1]] + 1>> /\ cap'[c].pc = "scan" /\ cap'[c].have = {}
      /\ cap'[c].why = why
  BY <1>2, <1>4, StartedIsRow
<1>6. /\ ~Active(c) /\ up[c[1]] /\ (c[2] = "queue" => writing[c[1]] = None)
      /\ begun' = [begun EXCEPT ![c[1]] = @ + 1] /\ UNCHANGED <<store, up, writing>>
  BY DEF Begin, Active
<1>7. \A p \in Proj : begun'[p] = IF p = c[1] THEN begun[p] + 1 ELSE begun[p]
  BY <1>6 DEF TypeOK
<1>. QED
  BY <1>2, <1>3, <1>4, <1>5, <1>6, <1>7 DEF Begins

\* What Crash does that matters here.
Crashes(p) ==
    /\ \A c \in Capture : cap'[c] = IF c[1] = p THEN Idle ELSE cap[c]
    /\ \A q \in Proj : /\ up'[q] = IF q = p THEN FALSE ELSE up[q]
                       /\ writing'[q] = IF q = p THEN None ELSE writing[q]
    /\ UNCHANGED <<store, begun>>

LEMMA CrashEffect ==
    ASSUME TypeOK, BackupsNumbered, NEW p \in Proj, Crash(p)
    PROVE  Crashes(p)
  BY DEF Crash, Crashes, TypeOK

\* Numbers stay unique.
LEMMA NumbersStep ==
    ASSUME TypeOK, rows \subseteq files, BackupsWhole, PromisesKept, NoStuckReservation, BackupsNumbered, WritesGuarded, [Next]_vars
    PROVE  BackupsNumbered'
<1>1. ASSUME NEW c \in Capture, Begin(c) PROVE BackupsNumbered'
  <2>. DEFINE id == <<c[1], begun[c[1]] + 1>>
  <2>1. /\ id \in Snap /\ id[1] = c[1] /\ id[2] = begun[c[1]] + 1 /\ c[1] \in Proj /\ begun[c[1]] \in Nat
        /\ cap'[c].id = id /\ cap'[c].pc = "scan" /\ cap'[c].have = {}
        /\ \A d \in Capture : d # c => cap'[d] = cap[d]
        /\ UNCHANGED <<store, up>> /\ up[c[1]]
    BY <1>1, BeginEffect, Captures, RecoveryAssumption DEF Begins, TypeOK
  <2>. HIDE DEF id
  <2>2. \A s \in Snap : begun[s[1]] \in Nat /\ begun'[s[1]] \in Nat /\ begun[s[1]] <= begun'[s[1]]
    <3>1. \A q \in Proj : begun[q] \in Nat /\ begun'[q] = IF q = c[1] THEN begun[q] + 1 ELSE begun[q]
      <4>1. \A q \in Proj : begun'[q] = IF q = c[1] THEN begun[q] + 1 ELSE begun[q]
        BY <1>1, BeginEffect DEF Begins
      <4>2. \A q \in Proj : begun[q] \in Nat
        BY RecoveryAssumption DEF TypeOK
      <4>. QED
        BY <4>1, <4>2
    <3>2. \A s \in Snap : s[1] \in Proj
      BY DEF Snap
    <3>. QED
      BY <3>1, <3>2
  <2>3. begun'[c[1]] = begun[c[1]] + 1
    BY <1>1, <2>1, BeginEffect DEF Begins
  <2>4. \A s \in Snap : s[2] \in Nat
    BY RecoveryAssumption DEF Snap
  <2>5. \A d \in Capture : Active(d) => cap[d].id \in Snap /\ cap[d].id \in Of(d[1]) /\ cap[d].id[1] = d[1] /\ cap[d].id[2] <= begun[d[1]]
    BY AtWork DEF BackupsNumbered
  <2>6. status[id] = "none"
    BY <2>1, <2>4 DEF BackupsNumbered
  <2>7. \A d \in Capture : cap[d].id # id
    BY <2>1, <2>4, <2>5, RecoveryAssumption DEF BackupsNumbered, Snap
  <2>8. id \notin reserved
    BY <2>1, <2>7 DEF NoStuckReservation
  <2>9. ~Active(c) /\ Active(c)' /\ (\A d \in Capture : d # c => Active(d)' = Active(d))
    BY <1>1, <2>1, BeginEffect DEF Begins, Active
  <2>10. id \in Of(c[1])
    BY <2>1 DEF Of
  <2>11. \A s \in Snap : status'[s] # "none" => s[2] <= begun'[s[1]]
    BY <2>1, <2>2, <2>4 DEF store, BackupsNumbered
  <2>12. \A d \in Capture : Active(d) => cap[d].id[2] <= begun'[d[1]]
    BY <2>2, <2>4, <2>5
  <2>13. \A d \in Capture : Active(d)' =>
           /\ up'[d[1]] /\ cap'[d].id \in Of(d[1]) /\ cap'[d].id[2] <= begun'[d[1]]
           /\ cap'[d].pc = "scan" => status'[cap'[d].id] = "none" /\ cap'[d].have = {}
           /\ cap'[d].pc \in {"scan", "git"} => cap'[d].id \notin reserved'
    BY <2>1, <2>3, <2>5, <2>6, <2>8, <2>9, <2>10, <2>12 DEF BackupsNumbered, store
  <2>14. \A d \in Capture : ~Active(d)' => cap'[d].id = None
    BY <2>1, <2>9 DEF BackupsNumbered
  <2>15. \A d, e \in Capture : Active(d)' /\ cap'[d].id = cap'[e].id => d = e
    BY <2>1, <2>7, <2>9 DEF BackupsNumbered
  <2>. QED
    BY <2>11, <2>13, <2>14, <2>15 DEF BackupsNumbered, Of
<1>2. ASSUME NEW c \in Capture, Reserve(c) PROVE BackupsNumbered'
  <2>1. Reserves(c)
    BY <1>2, ReserveEffect
  <2>2. Active(c) => \A d \in Capture : d # c => cap[d].id # cap[c].id
    BY AtWork
  <2>3. \A d \in Capture : Active(d) =>
           /\ d[1] \in Proj /\ cap[d].id \in Snap /\ cap[d].id[1] = d[1] /\ cap[d].id # None
           /\ cap[d].id[2] <= begun[d[1]] /\ up[d[1]]
    BY AllAtWork
  <2>5. (\A s \in Snap : status[s] # "none" => s[2] <= begun[s[1]])'
    BY <2>1, <2>2, <2>3, IdleIs DEF Reserves, BackupsNumbered, Active, Goes, Ends
  <2>6. \A d \in Capture : Active(d)' => up'[d[1]] /\ cap'[d].id \in Of(d[1]) /\ cap'[d].id[2] <= begun'[d[1]]
    BY <2>1, <2>2, <2>3, IdleIs DEF Reserves, BackupsNumbered, Active, Goes, Ends
  <2>7. \A d \in Capture : Active(d)' /\ cap'[d].pc = "scan" => status'[cap'[d].id] = "none" /\ cap'[d].have = {}
    BY <2>1, <2>2, <2>3, IdleIs
    DEF Reserves, BackupsNumbered, Active, Goes, Ends, Pruned, Of
  <2>8. \A d \in Capture : Active(d)' /\ cap'[d].pc \in {"scan", "git"} => cap'[d].id \notin reserved'
    BY <2>1, <2>2, <2>3, IdleIs DEF Reserves, BackupsNumbered, Active, Goes, Ends
  <2>9. (\A d \in Capture : ~Active(d) => cap[d].id = None)'
    BY <2>1, <2>2, <2>3, IdleIs DEF Reserves, BackupsNumbered, Active, Goes, Ends
  <2>10. (\A d, e \in Capture : Active(d) /\ cap[d].id = cap[e].id => d = e)'
    BY <2>1, <2>2, <2>3, IdleIs DEF Reserves, BackupsNumbered, Active, Goes, Ends
  <2>. QED
    BY <2>5, <2>6, <2>7, <2>8, <2>9, <2>10 DEF BackupsNumbered
<1>3. ASSUME NEW c \in Capture, Store(c) PROVE BackupsNumbered'
  <2>1. Stores(c)
    BY <1>3, StoreEffect
  <2>2. Active(c) => \A d \in Capture : d # c => cap[d].id # cap[c].id
    BY AtWork
  <2>3. \A d \in Capture : Active(d) =>
           /\ d[1] \in Proj /\ cap[d].id \in Snap /\ cap[d].id[1] = d[1] /\ cap[d].id # None
           /\ cap[d].id[2] <= begun[d[1]] /\ up[d[1]]
    BY AllAtWork
  <2>5. (\A s \in Snap : status[s] # "none" => s[2] <= begun[s[1]])'
    BY <2>1, <2>2, <2>3, IdleIs DEF Stores, BackupsNumbered, Active, Goes, Ends
  <2>6. \A d \in Capture : Active(d)' => up'[d[1]] /\ cap'[d].id \in Of(d[1]) /\ cap'[d].id[2] <= begun'[d[1]]
    BY <2>1, <2>2, <2>3, IdleIs DEF Stores, BackupsNumbered, Active, Goes, Ends
  <2>7. \A d \in Capture : Active(d)' /\ cap'[d].pc = "scan" => status'[cap'[d].id] = "none" /\ cap'[d].have = {}
    BY <2>1, <2>2, <2>3, IdleIs
    DEF Stores, BackupsNumbered, Active, Goes, Ends, Pruned, Of
  <2>8. \A d \in Capture : Active(d)' /\ cap'[d].pc \in {"scan", "git"} => cap'[d].id \notin reserved'
    BY <2>1, <2>2, <2>3, IdleIs DEF Stores, BackupsNumbered, Active, Goes, Ends
  <2>9. (\A d \in Capture : ~Active(d) => cap[d].id = None)'
    BY <2>1, <2>2, <2>3, IdleIs DEF Stores, BackupsNumbered, Active, Goes, Ends
  <2>10. (\A d, e \in Capture : Active(d) /\ cap[d].id = cap[e].id => d = e)'
    BY <2>1, <2>2, <2>3, IdleIs DEF Stores, BackupsNumbered, Active, Goes, Ends
  <2>. QED
    BY <2>5, <2>6, <2>7, <2>8, <2>9, <2>10 DEF BackupsNumbered
<1>4. ASSUME NEW c \in Capture, Register(c) PROVE BackupsNumbered'
  <2>1. Registers(c)
    BY <1>4, RegisterEffect
  <2>2. Active(c) => \A d \in Capture : d # c => cap[d].id # cap[c].id
    BY AtWork
  <2>3. \A d \in Capture : Active(d) =>
           /\ d[1] \in Proj /\ cap[d].id \in Snap /\ cap[d].id[1] = d[1] /\ cap[d].id # None
           /\ cap[d].id[2] <= begun[d[1]] /\ up[d[1]]
    BY AllAtWork
  <2>5. (\A s \in Snap : status[s] # "none" => s[2] <= begun[s[1]])'
    BY <2>1, <2>2, <2>3, IdleIs DEF Registers, BackupsNumbered, Active, Goes, Ends
  <2>6. \A d \in Capture : Active(d)' => up'[d[1]] /\ cap'[d].id \in Of(d[1]) /\ cap'[d].id[2] <= begun'[d[1]]
    BY <2>1, <2>2, <2>3, IdleIs DEF Registers, BackupsNumbered, Active, Goes, Ends
  <2>7. \A d \in Capture : Active(d)' /\ cap'[d].pc = "scan" => status'[cap'[d].id] = "none" /\ cap'[d].have = {}
    BY <2>1, <2>2, <2>3, IdleIs
    DEF Registers, BackupsNumbered, Active, Goes, Ends, Pruned, Of
  <2>8. \A d \in Capture : Active(d)' /\ cap'[d].pc \in {"scan", "git"} => cap'[d].id \notin reserved'
    BY <2>1, <2>2, <2>3, IdleIs DEF Registers, BackupsNumbered, Active, Goes, Ends
  <2>9. (\A d \in Capture : ~Active(d) => cap[d].id = None)'
    BY <2>1, <2>2, <2>3, IdleIs DEF Registers, BackupsNumbered, Active, Goes, Ends
  <2>10. (\A d, e \in Capture : Active(d) /\ cap[d].id = cap[e].id => d = e)'
    BY <2>1, <2>2, <2>3, IdleIs DEF Registers, BackupsNumbered, Active, Goes, Ends
  <2>. QED
    BY <2>5, <2>6, <2>7, <2>8, <2>9, <2>10 DEF BackupsNumbered
<1>5. ASSUME NEW c \in Capture, Verify(c) PROVE BackupsNumbered'
  <2>1. Verifies(c)
    BY <1>5, VerifyEffect
  <2>2. Active(c) => \A d \in Capture : d # c => cap[d].id # cap[c].id
    BY AtWork
  <2>3. \A d \in Capture : Active(d) =>
           /\ d[1] \in Proj /\ cap[d].id \in Snap /\ cap[d].id[1] = d[1] /\ cap[d].id # None
           /\ cap[d].id[2] <= begun[d[1]] /\ up[d[1]]
    BY AllAtWork
  <2>5. (\A s \in Snap : status[s] # "none" => s[2] <= begun[s[1]])'
    BY <2>1, <2>2, <2>3, IdleIs
    DEF Verifies, BackupsNumbered, Active, Goes, Ends, store
  <2>6. \A d \in Capture : Active(d)' => up'[d[1]] /\ cap'[d].id \in Of(d[1]) /\ cap'[d].id[2] <= begun'[d[1]]
    BY <2>1, <2>2, <2>3, IdleIs
    DEF Verifies, BackupsNumbered, Active, Goes, Ends, store
  <2>7. \A d \in Capture : Active(d)' /\ cap'[d].pc = "scan" => status'[cap'[d].id] = "none" /\ cap'[d].have = {}
    BY <2>1, <2>2, <2>3, IdleIs
    DEF Verifies, BackupsNumbered, Active, Goes, Ends, store, Pruned, Of
  <2>8. \A d \in Capture : Active(d)' /\ cap'[d].pc \in {"scan", "git"} => cap'[d].id \notin reserved'
    BY <2>1, <2>2, <2>3, IdleIs
    DEF Verifies, BackupsNumbered, Active, Goes, Ends, store
  <2>9. (\A d \in Capture : ~Active(d) => cap[d].id = None)'
    BY <2>1, <2>2, <2>3, IdleIs
    DEF Verifies, BackupsNumbered, Active, Goes, Ends, store
  <2>10. (\A d, e \in Capture : Active(d) /\ cap[d].id = cap[e].id => d = e)'
    BY <2>1, <2>2, <2>3, IdleIs
    DEF Verifies, BackupsNumbered, Active, Goes, Ends, store
  <2>. QED
    BY <2>5, <2>6, <2>7, <2>8, <2>9, <2>10 DEF BackupsNumbered
<1>6. ASSUME NEW c \in Capture, Publish(c) PROVE BackupsNumbered'
  <2>1. Publishes(c)
    BY <1>6, PublishEffect
  <2>2. Active(c) => \A d \in Capture : d # c => cap[d].id # cap[c].id
    BY AtWork
  <2>3. \A d \in Capture : Active(d) =>
           /\ d[1] \in Proj /\ cap[d].id \in Snap /\ cap[d].id[1] = d[1] /\ cap[d].id # None
           /\ cap[d].id[2] <= begun[d[1]] /\ up[d[1]]
    BY AllAtWork
  <2>5. (\A s \in Snap : status[s] # "none" => s[2] <= begun[s[1]])'
    BY <2>1, <2>2, <2>3, IdleIs DEF Publishes, BackupsNumbered, Active, Goes, Ends
  <2>6. \A d \in Capture : Active(d)' => up'[d[1]] /\ cap'[d].id \in Of(d[1]) /\ cap'[d].id[2] <= begun'[d[1]]
    BY <2>1, <2>2, <2>3, IdleIs DEF Publishes, BackupsNumbered, Active, Goes, Ends
  <2>7. \A d \in Capture : Active(d)' /\ cap'[d].pc = "scan" => status'[cap'[d].id] = "none" /\ cap'[d].have = {}
    BY <2>1, <2>2, <2>3, IdleIs
    DEF Publishes, BackupsNumbered, Active, Goes, Ends, Pruned, Of
  <2>8. \A d \in Capture : Active(d)' /\ cap'[d].pc \in {"scan", "git"} => cap'[d].id \notin reserved'
    BY <2>1, <2>2, <2>3, IdleIs DEF Publishes, BackupsNumbered, Active, Goes, Ends
  <2>9. (\A d \in Capture : ~Active(d) => cap[d].id = None)'
    BY <2>1, <2>2, <2>3, IdleIs DEF Publishes, BackupsNumbered, Active, Goes, Ends
  <2>10. (\A d, e \in Capture : Active(d) /\ cap[d].id = cap[e].id => d = e)'
    BY <2>1, <2>2, <2>3, IdleIs DEF Publishes, BackupsNumbered, Active, Goes, Ends
  <2>. QED
    BY <2>5, <2>6, <2>7, <2>8, <2>9, <2>10 DEF BackupsNumbered
<1>7. ASSUME NEW c \in Capture, Finish(c) PROVE BackupsNumbered'
  <2>1. Finishes(c)
    BY <1>7, FinishEffect
  <2>2. Active(c) => \A d \in Capture : d # c => cap[d].id # cap[c].id
    BY AtWork
  <2>3. \A d \in Capture : Active(d) =>
           /\ d[1] \in Proj /\ cap[d].id \in Snap /\ cap[d].id[1] = d[1] /\ cap[d].id # None
           /\ cap[d].id[2] <= begun[d[1]] /\ up[d[1]]
    BY AllAtWork
  <2>5. (\A s \in Snap : status[s] # "none" => s[2] <= begun[s[1]])'
    BY <2>1, <2>2, <2>3, IdleIs DEF Finishes, BackupsNumbered, Active, Goes, Ends
  <2>6. \A d \in Capture : Active(d)' => up'[d[1]] /\ cap'[d].id \in Of(d[1]) /\ cap'[d].id[2] <= begun'[d[1]]
    BY <2>1, <2>2, <2>3, IdleIs DEF Finishes, BackupsNumbered, Active, Goes, Ends
  <2>7. \A d \in Capture : Active(d)' /\ cap'[d].pc = "scan" => status'[cap'[d].id] = "none" /\ cap'[d].have = {}
    BY <2>1, <2>2, <2>3, IdleIs
    DEF Finishes, BackupsNumbered, Active, Goes, Ends, Pruned, Of
  <2>8. \A d \in Capture : Active(d)' /\ cap'[d].pc \in {"scan", "git"} => cap'[d].id \notin reserved'
    BY <2>1, <2>2, <2>3, IdleIs DEF Finishes, BackupsNumbered, Active, Goes, Ends
  <2>9. (\A d \in Capture : ~Active(d) => cap[d].id = None)'
    BY <2>1, <2>2, <2>3, IdleIs DEF Finishes, BackupsNumbered, Active, Goes, Ends
  <2>10. (\A d, e \in Capture : Active(d) /\ cap[d].id = cap[e].id => d = e)'
    BY <2>1, <2>2, <2>3, IdleIs DEF Finishes, BackupsNumbered, Active, Goes, Ends
  <2>. QED
    BY <2>5, <2>6, <2>7, <2>8, <2>9, <2>10 DEF BackupsNumbered
<1>8. ASSUME NEW c \in Capture, Fail(c) PROVE BackupsNumbered'
  <2>1. Fails(c)
    BY <1>8, FailEffect
  <2>2. Active(c) => \A d \in Capture : d # c => cap[d].id # cap[c].id
    BY AtWork
  <2>3. \A d \in Capture : Active(d) =>
           /\ d[1] \in Proj /\ cap[d].id \in Snap /\ cap[d].id[1] = d[1] /\ cap[d].id # None
           /\ cap[d].id[2] <= begun[d[1]] /\ up[d[1]]
    BY AllAtWork
  <2>5. (\A s \in Snap : status[s] # "none" => s[2] <= begun[s[1]])'
    BY <2>1, <2>2, <2>3, IdleIs DEF Fails, BackupsNumbered, Active, Goes, Ends
  <2>6. \A d \in Capture : Active(d)' => up'[d[1]] /\ cap'[d].id \in Of(d[1]) /\ cap'[d].id[2] <= begun'[d[1]]
    BY <2>1, <2>2, <2>3, IdleIs DEF Fails, BackupsNumbered, Active, Goes, Ends
  <2>7. \A d \in Capture : Active(d)' /\ cap'[d].pc = "scan" => status'[cap'[d].id] = "none" /\ cap'[d].have = {}
    BY <2>1, <2>2, <2>3, IdleIs
    DEF Fails, BackupsNumbered, Active, Goes, Ends, Pruned, Of
  <2>8. \A d \in Capture : Active(d)' /\ cap'[d].pc \in {"scan", "git"} => cap'[d].id \notin reserved'
    BY <2>1, <2>2, <2>3, IdleIs DEF Fails, BackupsNumbered, Active, Goes, Ends
  <2>9. (\A d \in Capture : ~Active(d) => cap[d].id = None)'
    BY <2>1, <2>2, <2>3, IdleIs DEF Fails, BackupsNumbered, Active, Goes, Ends
  <2>10. (\A d, e \in Capture : Active(d) /\ cap[d].id = cap[e].id => d = e)'
    BY <2>1, <2>2, <2>3, IdleIs DEF Fails, BackupsNumbered, Active, Goes, Ends
  <2>. QED
    BY <2>5, <2>6, <2>7, <2>8, <2>9, <2>10 DEF BackupsNumbered
<1>9. ASSUME NEW p \in Proj, EndWrite(p) PROVE BackupsNumbered'
  BY <1>9, RecoveryAssumption, IdleIs, Captures
  DEF EndWrite, age, BackupsNumbered, Snap, Active, Of, TypeOK, WritesGuarded,
      PromisesKept
<1>10. ASSUME NEW p \in Proj, ResetBlocked(p) PROVE BackupsNumbered'
  BY <1>10, RecoveryAssumption, IdleIs, Captures
  DEF ResetBlocked, Of, age, Snap, BackupsNumbered, Active, TypeOK, WritesGuarded,
      PromisesKept
<1>11. ASSUME NEW p \in Proj, Crash(p) PROVE BackupsNumbered'
  <2>0. Crashes(p)
    BY <1>11, CrashEffect
  <2>. DEFINE now(c) == IF c[1] = p THEN Idle ELSE cap[c]
  <2>9. \A c \in Capture : cap'[c] = now(c)
    BY <2>0 DEF Crashes
  <2>1. \A c \in Capture : Active(c)' => c[1] # p /\ cap'[c] = cap[c] /\ Active(c)
    BY <2>9, IdleIs DEF Active
  <2>2. \A c \in Capture : up'[c[1]] = up[c[1]] \/ c[1] = p
    <3>1. \A c \in Capture : c[1] \in Proj
      BY Captures
    <3>2. \A q \in Proj : up'[q] = IF q = p THEN FALSE ELSE up[q]
      BY <2>0 DEF Crashes
    <3>. QED
      BY <3>1, <3>2
  <2>3. \A c \in Capture : cap'[c].id = cap[c].id \/ (cap'[c].id = None /\ ~Active(c)')
    BY <2>9, IdleIs DEF Active
  <2>4. \A c \in Capture : Active(c) => cap[c].id # None
    BY AtWork
  <2>5. UNCHANGED <<status, reserved, begun>>
    BY <2>0 DEF Crashes, store
  <2>6. \A d \in Capture : Active(d)' =>
           /\ up'[d[1]] /\ cap'[d].id \in Of(d[1]) /\ cap'[d].id[2] <= begun'[d[1]]
           /\ cap'[d].pc = "scan" => status'[cap'[d].id] = "none" /\ cap'[d].have = {}
           /\ cap'[d].pc \in {"scan", "git"} => cap'[d].id \notin reserved'
    BY <2>1, <2>2, <2>5 DEF BackupsNumbered
  <2>7. \A d, e \in Capture : Active(d)' /\ cap'[d].id = cap'[e].id => d = e
    BY <2>1, <2>3, <2>4 DEF BackupsNumbered
  <2>8. \A d \in Capture : ~Active(d)' => cap'[d].id = None
    <3>1. \A d \in Capture : ~Active(d) => cap[d].id = None
      BY DEF BackupsNumbered
    <3>. QED
      BY <2>9, <3>1, IdleIs DEF Active
  <2>. QED
    BY <2>5, <2>6, <2>7, <2>8 DEF BackupsNumbered, Of
<1>12. ASSUME NEW p \in Proj, Open(p) PROVE BackupsNumbered'
  BY <1>12, RecoveryAssumption, IdleIs, Captures
  DEF Open, Of, age, Snap, BackupsNumbered, Active, TypeOK, WritesGuarded,
      PromisesKept
<1>13. ASSUME NEW p \in Proj, Settle(p) PROVE BackupsNumbered'
  BY <1>13, RecoveryAssumption, IdleIs, Captures
  DEF Settle, Of, age, memory, Snap, BackupsNumbered, Active, TypeOK, WritesGuarded,
      PromisesKept
<1>14. ASSUME NEW p \in Proj, GitRestore(p) PROVE BackupsNumbered'
  BY <1>14, RecoveryAssumption, IdleIs, Captures
  DEF GitRestore, QueueIdle, age, BackupsNumbered, Snap, Active, Of, TypeOK,
      WritesGuarded, PromisesKept
<1>15. ASSUME NEW p \in Proj, NEW sel \in SUBSET Of(p), Maintain(p, sel)
      PROVE  BackupsNumbered'
  BY <1>15, RecoveryAssumption, IdleIs, Captures
  DEF Maintain, RefsWithout, QueueIdle, Snap, StatusWithout, SessionsWithout,
      memory, BackupsNumbered, Active, Of, TypeOK, WritesGuarded, PromisesKept
<1>16. ASSUME NEW s \in Snap, Mark(s) PROVE BackupsNumbered'
  BY <1>16, RecoveryAssumption, IdleIs, Captures
  DEF Mark, QueueIdle, Sound, age, memory, BackupsNumbered, Snap, Active, Of,
      TypeOK, WritesGuarded, PromisesKept
<1>17. ASSUME NEW s \in Snap, PlanRestore(s) PROVE BackupsNumbered'
  BY <1>17, RecoveryAssumption, IdleIs, Captures
  DEF PlanRestore, QueueIdle, Sound, age, memory, BackupsNumbered, Snap, Active, Of,
      TypeOK, WritesGuarded, PromisesKept
<1>18. ASSUME DaysPass PROVE BackupsNumbered'
  BY <1>18, RecoveryAssumption, IdleIs, Captures
  DEF DaysPass, Snap, memory, BackupsNumbered, Active, Of, TypeOK, WritesGuarded,
      PromisesKept
<1>u. ASSUME UNCHANGED vars PROVE BackupsNumbered'
  BY <1>u
  DEF BackupsNumbered, Snap, Active, Of, TypeOK, WritesGuarded, PromisesKept, vars,
      store, age, memory
<1>. QED
  BY <1>1, <1>2, <1>3, <1>4, <1>5, <1>6, <1>7, <1>8, <1>9, <1>10, <1>11, <1>12,
     <1>13, <1>14, <1>15, <1>16, <1>17, <1>18, <1>u
  DEF Next, Capturing

\* Backups stay whole, and what a capture has stored stays.
LEMMA WholeStep ==
    ASSUME TypeOK, rows \subseteq files, BackupsWhole, PromisesKept, NoStuckReservation, BackupsNumbered, WritesGuarded, [Next]_vars
    PROVE  (rows \subseteq files)' /\ BackupsWhole'
<1>1. ASSUME NEW c \in Capture, Begin(c)
      PROVE  (rows \subseteq files)' /\ BackupsWhole'
  <2>1. Begins(c)
    BY <1>1, BeginEffect
  <2>2. Active(c) => \A d \in Capture : d # c => cap[d].id # cap[c].id
    BY AtWork
  <2>3. \A d \in Capture : Active(d) =>
           /\ d[1] \in Proj /\ cap[d].id \in Snap /\ cap[d].id[1] = d[1] /\ cap[d].id # None
           /\ cap[d].id[2] <= begun[d[1]] /\ up[d[1]]
    BY AllAtWork
  <2>. QED
    BY <2>1, <2>2, <2>3, IdleIs
    DEF Begins, BackupsWhole, BackupsNumbered, Active, Goes, Ends, store
<1>2. ASSUME NEW c \in Capture, Reserve(c)
      PROVE  (rows \subseteq files)' /\ BackupsWhole'
  <2>1. Reserves(c)
    BY <1>2, ReserveEffect
  <2>2. Active(c) /\ c[1] \in Proj /\ cap[c].id \in Snap /\ \A d \in Capture : d # c => cap[d].id # cap[c].id
    BY <2>1, AtWork DEF Reserves
  <2>3. Sweeps(c[1])
    BY <2>1, <2>2, SweepSpares DEF Reserves
  <2>4. \A s \in Snap : status'[s] = "READY" =>
           s # cap[c].id /\ s \notin Pruned(c[1]) /\ status[s] = "READY"
    BY <2>1 DEF Reserves
  <2>5. \A s \in Snap : status'[s] = "READY" => s \in manifests' /\ refs'[s] \subseteq rows' \cap files'
    BY <2>3, <2>4 DEF Sweeps, BackupsWhole
  <2>6. \A d \in Capture : cap'[d].id \in reserved' => cap'[d].have \subseteq rows' \cap files'
    <3>1. SUFFICES ASSUME NEW d \in Capture, cap'[d].id \in reserved', d # c
                   PROVE  cap'[d].have \subseteq rows' \cap files'
      BY <2>1 DEF Reserves, Goes
    <3>2. cap'[d] = cap[d] /\ cap[d].id \in reserved
      BY <2>1, <2>2, <3>1 DEF Reserves, Goes
    <3>. QED
      BY <2>3, <3>2 DEF Sweeps, BackupsWhole
  <2>. QED
    BY <2>3, <2>5, <2>6 DEF Sweeps, BackupsWhole
<1>3. ASSUME NEW c \in Capture, Store(c)
      PROVE  (rows \subseteq files)' /\ BackupsWhole'
  <2>1. Stores(c)
    BY <1>3, StoreEffect
  <2>2. Active(c) => \A d \in Capture : d # c => cap[d].id # cap[c].id
    BY AtWork
  <2>3. \A d \in Capture : Active(d) =>
           /\ d[1] \in Proj /\ cap[d].id \in Snap /\ cap[d].id[1] = d[1] /\ cap[d].id # None
           /\ cap[d].id[2] <= begun[d[1]] /\ up[d[1]]
    BY AllAtWork
  <2>. QED
    BY <2>1, <2>2, <2>3, IdleIs
    DEF Stores, BackupsWhole, BackupsNumbered, Active, Goes, Ends
<1>4. ASSUME NEW c \in Capture, Register(c)
      PROVE  (rows \subseteq files)' /\ BackupsWhole'
  <2>1. Registers(c)
    BY <1>4, RegisterEffect
  <2>2. Active(c) => \A d \in Capture : d # c => cap[d].id # cap[c].id
    BY AtWork
  <2>3. \A d \in Capture : Active(d) =>
           /\ d[1] \in Proj /\ cap[d].id \in Snap /\ cap[d].id[1] = d[1] /\ cap[d].id # None
           /\ cap[d].id[2] <= begun[d[1]] /\ up[d[1]]
    BY AllAtWork
  <2>. QED
    BY <2>1, <2>2, <2>3, IdleIs
    DEF Registers, BackupsWhole, BackupsNumbered, Active, Goes, Ends
<1>5. ASSUME NEW c \in Capture, Verify(c)
      PROVE  (rows \subseteq files)' /\ BackupsWhole'
  <2>1. Verifies(c)
    BY <1>5, VerifyEffect
  <2>2. Active(c) => \A d \in Capture : d # c => cap[d].id # cap[c].id
    BY AtWork
  <2>3. \A d \in Capture : Active(d) =>
           /\ d[1] \in Proj /\ cap[d].id \in Snap /\ cap[d].id[1] = d[1] /\ cap[d].id # None
           /\ cap[d].id[2] <= begun[d[1]] /\ up[d[1]]
    BY AllAtWork
  <2>. QED
    BY <2>1, <2>2, <2>3, IdleIs
    DEF Verifies, BackupsWhole, BackupsNumbered, Active, Goes, Ends, store
<1>6. ASSUME NEW c \in Capture, Publish(c)
      PROVE  (rows \subseteq files)' /\ BackupsWhole'
  <2>1. Publishes(c)
    BY <1>6, PublishEffect
  <2>2. Active(c) => \A d \in Capture : d # c => cap[d].id # cap[c].id
    BY AtWork
  <2>3. \A d \in Capture : Active(d) =>
           /\ d[1] \in Proj /\ cap[d].id \in Snap /\ cap[d].id[1] = d[1] /\ cap[d].id # None
           /\ cap[d].id[2] <= begun[d[1]] /\ up[d[1]]
    BY AllAtWork
  <2>. QED
    BY <2>1, <2>2, <2>3, IdleIs
    DEF Publishes, BackupsWhole, BackupsNumbered, Active, Goes, Ends
<1>7. ASSUME NEW c \in Capture, Finish(c)
      PROVE  (rows \subseteq files)' /\ BackupsWhole'
  <2>1. Finishes(c)
    BY <1>7, FinishEffect
  <2>2. Active(c) => \A d \in Capture : d # c => cap[d].id # cap[c].id
    BY AtWork
  <2>3. \A d \in Capture : Active(d) =>
           /\ d[1] \in Proj /\ cap[d].id \in Snap /\ cap[d].id[1] = d[1] /\ cap[d].id # None
           /\ cap[d].id[2] <= begun[d[1]] /\ up[d[1]]
    BY AllAtWork
  <2>. QED
    BY <2>1, <2>2, <2>3, IdleIs
    DEF Finishes, BackupsWhole, BackupsNumbered, Active, Goes, Ends
<1>8. ASSUME NEW c \in Capture, Fail(c) PROVE (rows \subseteq files)' /\ BackupsWhole'
  <2>1. Fails(c)
    BY <1>8, FailEffect
  <2>2. Active(c) => \A d \in Capture : d # c => cap[d].id # cap[c].id
    BY AtWork
  <2>3. \A d \in Capture : Active(d) =>
           /\ d[1] \in Proj /\ cap[d].id \in Snap /\ cap[d].id[1] = d[1] /\ cap[d].id # None
           /\ cap[d].id[2] <= begun[d[1]] /\ up[d[1]]
    BY AllAtWork
  <2>. QED
    BY <2>1, <2>2, <2>3, IdleIs
    DEF Fails, BackupsWhole, BackupsNumbered, Active, Goes, Ends
<1>9. ASSUME NEW p \in Proj, EndWrite(p)
      PROVE  (rows \subseteq files)' /\ BackupsWhole'
  BY <1>9, RecoveryAssumption, IdleIs, Captures
  DEF EndWrite, age, BackupsWhole, Snap, BackupsNumbered, Active, Of, TypeOK,
      WritesGuarded, PromisesKept
<1>10. ASSUME NEW p \in Proj, ResetBlocked(p)
      PROVE  (rows \subseteq files)' /\ BackupsWhole'
  BY <1>10, RecoveryAssumption, IdleIs, Captures
  DEF ResetBlocked, Of, age, Snap, BackupsWhole, BackupsNumbered, Active, TypeOK,
      WritesGuarded, PromisesKept
<1>11. ASSUME NEW p \in Proj, Crash(p) PROVE (rows \subseteq files)' /\ BackupsWhole'
  <2>1. \A c \in Capture : (cap'[c].id = cap[c].id /\ cap'[c].have = cap[c].have) \/ (cap'[c].id = None /\ cap'[c].have = {})
    BY <1>11, IdleIs, CrashEffect DEF Crashes
  <2>. QED
    BY <1>11, <2>1, CrashEffect DEF Crashes, store, BackupsWhole
<1>12. ASSUME NEW p \in Proj, Open(p) PROVE (rows \subseteq files)' /\ BackupsWhole'
  BY <1>12, RecoveryAssumption, IdleIs, Captures
  DEF Open, Of, age, Snap, BackupsWhole, BackupsNumbered, Active, TypeOK,
      WritesGuarded, PromisesKept
<1>13. ASSUME NEW p \in Proj, Settle(p) PROVE (rows \subseteq files)' /\ BackupsWhole'
  BY <1>13, RecoveryAssumption, IdleIs, Captures
  DEF Settle, Of, age, memory, Snap, BackupsWhole, BackupsNumbered, Active, TypeOK,
      WritesGuarded, PromisesKept
<1>14. ASSUME NEW p \in Proj, GitRestore(p)
      PROVE  (rows \subseteq files)' /\ BackupsWhole'
  BY <1>14, RecoveryAssumption, IdleIs, Captures
  DEF GitRestore, QueueIdle, age, BackupsWhole, Snap, BackupsNumbered, Active, Of,
      TypeOK, WritesGuarded, PromisesKept
<1>15. ASSUME NEW p \in Proj, NEW sel \in SUBSET Of(p), Maintain(p, sel)
      PROVE  (rows \subseteq files)' /\ BackupsWhole'
  <2>. DEFINE r == RefsWithout(sel)
  <2>1. PICK done \in SUBSET (Proj \X (Snap \cup Hash)), dead \in SUBSET Hash :
           /\ dead \cap Referenced(r) = {}
           /\ reserved # {} => dead = {}
           /\ files' = files \ dead /\ rows' = rows \ dead
           /\ manifests' = manifests \ {s \in Snap : <<p, s>> \in done /\ (s \in sel \/ status[s] = "none")}
    <3>. DEFINE tasks == retired \cup {<<p, s>> : s \in sel} \cup {<<p, h>> : h \in UNION {refs[s] : s \in sel}}
    <3>1. tasks \in SUBSET (Proj \X (Snap \cup Hash))
      <4>1. sel \in SUBSET Snap /\ UNION {refs[s] : s \in sel} \in SUBSET Hash
        BY DEF Of, TypeOK
      <4>2. retired \in SUBSET (Proj \X (Snap \cup Hash))
        BY DEF TypeOK
      <4>. QED
        BY <4>1, <4>2
    <3>2. PICK done \in SUBSET {t \in tasks : t[1] = p} :
             LET dead == {h \in Hash : <<p, h>> \in done} \ Referenced(r) IN
             /\ reserved # {} => \A t \in done : t[2] \in Snap
             /\ files' = files \ dead /\ rows' = rows \ dead
             /\ manifests' = manifests \ {s \in Snap : <<p, s>> \in done /\ (s \in sel \/ status[s] = "none")}
      BY <1>15 DEF Maintain
    <3>. DEFINE dead == {h \in Hash : <<p, h>> \in done} \ Referenced(r)
    <3>3. reserved # {} => dead = {}
      BY <3>2, RecoveryAssumption DEF Snap
    <3>4. dead \in SUBSET Hash /\ done \in SUBSET (Proj \X (Snap \cup Hash)) /\ dead \cap Referenced(r) = {}
      BY <3>1
    <3>5. files' = files \ dead /\ rows' = rows \ dead
          /\ manifests' = manifests \ {s \in Snap : <<p, s>> \in done /\ (s \in sel \/ status[s] = "none")}
      BY <3>2
    <3>. HIDE DEF dead, tasks
    <3>. QED
      BY <3>3, <3>4, <3>5
  <2>2. /\ \A s \in Snap : s \in sel => status'[s] = "none"
        /\ \A s \in Snap : s \notin sel => status'[s] = status[s] /\ refs'[s] = refs[s] /\ r[s] = refs[s]
        /\ refs' = r /\ UNCHANGED <<reserved, cap>>
    BY <1>15 DEF Maintain, StatusWithout, RefsWithout, memory
  <2>. HIDE DEF r
  <2>3. \A s \in Snap : r[s] \subseteq Referenced(r)
    BY DEF Referenced
  <2>. QED
    BY <2>1, <2>2, <2>3 DEF BackupsWhole
<1>16. ASSUME NEW s \in Snap, Mark(s) PROVE (rows \subseteq files)' /\ BackupsWhole'
  BY <1>16, RecoveryAssumption, IdleIs, Captures
  DEF Mark, QueueIdle, Sound, age, memory, BackupsWhole, Snap, BackupsNumbered,
      Active, Of, TypeOK, WritesGuarded, PromisesKept
<1>17. ASSUME NEW s \in Snap, PlanRestore(s)
      PROVE  (rows \subseteq files)' /\ BackupsWhole'
  BY <1>17, RecoveryAssumption, IdleIs, Captures
  DEF PlanRestore, QueueIdle, Sound, age, memory, BackupsWhole, Snap,
      BackupsNumbered, Active, Of, TypeOK, WritesGuarded, PromisesKept
<1>18. ASSUME DaysPass PROVE (rows \subseteq files)' /\ BackupsWhole'
  BY <1>18, RecoveryAssumption, IdleIs, Captures
  DEF DaysPass, Snap, memory, BackupsWhole, BackupsNumbered, Active, Of, TypeOK,
      WritesGuarded, PromisesKept
<1>u. ASSUME UNCHANGED vars PROVE (rows \subseteq files)' /\ BackupsWhole'
  BY <1>u
  DEF BackupsWhole, Snap, BackupsNumbered, Active, Of, TypeOK, WritesGuarded,
      PromisesKept, vars, store, age, memory
<1>. QED
  BY <1>1, <1>2, <1>3, <1>4, <1>5, <1>6, <1>7, <1>8, <1>9, <1>10, <1>11, <1>12,
     <1>13, <1>14, <1>15, <1>16, <1>17, <1>18, <1>u
  DEF Next, Capturing

\* Reservations stay with captures.
LEMMA ReservationStep ==
    ASSUME TypeOK, rows \subseteq files, BackupsWhole, PromisesKept, NoStuckReservation, BackupsNumbered, WritesGuarded, [Next]_vars
    PROVE  NoStuckReservation'
<1>1. ASSUME NEW c \in Capture, Begin(c) PROVE NoStuckReservation'
  <2>1. Begins(c)
    BY <1>1, BeginEffect
  <2>2. Active(c) => \A d \in Capture : d # c => cap[d].id # cap[c].id
    BY AtWork
  <2>3. \A d \in Capture : Active(d) =>
           /\ d[1] \in Proj /\ cap[d].id \in Snap /\ cap[d].id[1] = d[1] /\ cap[d].id # None
           /\ cap[d].id[2] <= begun[d[1]] /\ up[d[1]]
    BY AllAtWork
  <2>. QED
    BY <2>1, <2>2, <2>3, IdleIs
    DEF Begins, NoStuckReservation, BackupsNumbered, Active, Goes, Ends, store
<1>2. ASSUME NEW c \in Capture, Reserve(c) PROVE NoStuckReservation'
  <2>1. Reserves(c)
    BY <1>2, ReserveEffect
  <2>2. Active(c) => \A d \in Capture : d # c => cap[d].id # cap[c].id
    BY AtWork
  <2>3. \A d \in Capture : Active(d) =>
           /\ d[1] \in Proj /\ cap[d].id \in Snap /\ cap[d].id[1] = d[1] /\ cap[d].id # None
           /\ cap[d].id[2] <= begun[d[1]] /\ up[d[1]]
    BY AllAtWork
  <2>. QED
    BY <2>1, <2>2, <2>3, IdleIs
    DEF Reserves, NoStuckReservation, BackupsNumbered, Active, Goes, Ends
<1>3. ASSUME NEW c \in Capture, Store(c) PROVE NoStuckReservation'
  <2>1. Stores(c)
    BY <1>3, StoreEffect
  <2>2. Active(c) => \A d \in Capture : d # c => cap[d].id # cap[c].id
    BY AtWork
  <2>3. \A d \in Capture : Active(d) =>
           /\ d[1] \in Proj /\ cap[d].id \in Snap /\ cap[d].id[1] = d[1] /\ cap[d].id # None
           /\ cap[d].id[2] <= begun[d[1]] /\ up[d[1]]
    BY AllAtWork
  <2>. QED
    BY <2>1, <2>2, <2>3, IdleIs
    DEF Stores, NoStuckReservation, BackupsNumbered, Active, Goes, Ends
<1>4. ASSUME NEW c \in Capture, Register(c) PROVE NoStuckReservation'
  <2>1. Registers(c)
    BY <1>4, RegisterEffect
  <2>2. Active(c) => \A d \in Capture : d # c => cap[d].id # cap[c].id
    BY AtWork
  <2>3. \A d \in Capture : Active(d) =>
           /\ d[1] \in Proj /\ cap[d].id \in Snap /\ cap[d].id[1] = d[1] /\ cap[d].id # None
           /\ cap[d].id[2] <= begun[d[1]] /\ up[d[1]]
    BY AllAtWork
  <2>. QED
    BY <2>1, <2>2, <2>3, IdleIs
    DEF Registers, NoStuckReservation, BackupsNumbered, Active, Goes, Ends
<1>5. ASSUME NEW c \in Capture, Verify(c) PROVE NoStuckReservation'
  <2>1. Verifies(c)
    BY <1>5, VerifyEffect
  <2>2. Active(c) => \A d \in Capture : d # c => cap[d].id # cap[c].id
    BY AtWork
  <2>3. \A d \in Capture : Active(d) =>
           /\ d[1] \in Proj /\ cap[d].id \in Snap /\ cap[d].id[1] = d[1] /\ cap[d].id # None
           /\ cap[d].id[2] <= begun[d[1]] /\ up[d[1]]
    BY AllAtWork
  <2>. QED
    BY <2>1, <2>2, <2>3, IdleIs
    DEF Verifies, NoStuckReservation, BackupsNumbered, Active, Goes, Ends, store
<1>6. ASSUME NEW c \in Capture, Publish(c) PROVE NoStuckReservation'
  <2>1. Publishes(c)
    BY <1>6, PublishEffect
  <2>2. Active(c) => \A d \in Capture : d # c => cap[d].id # cap[c].id
    BY AtWork
  <2>3. \A d \in Capture : Active(d) =>
           /\ d[1] \in Proj /\ cap[d].id \in Snap /\ cap[d].id[1] = d[1] /\ cap[d].id # None
           /\ cap[d].id[2] <= begun[d[1]] /\ up[d[1]]
    BY AllAtWork
  <2>. QED
    BY <2>1, <2>2, <2>3, IdleIs
    DEF Publishes, NoStuckReservation, BackupsNumbered, Active, Goes, Ends
<1>7. ASSUME NEW c \in Capture, Finish(c) PROVE NoStuckReservation'
  <2>1. Finishes(c)
    BY <1>7, FinishEffect
  <2>2. Active(c) => \A d \in Capture : d # c => cap[d].id # cap[c].id
    BY AtWork
  <2>3. \A d \in Capture : Active(d) =>
           /\ d[1] \in Proj /\ cap[d].id \in Snap /\ cap[d].id[1] = d[1] /\ cap[d].id # None
           /\ cap[d].id[2] <= begun[d[1]] /\ up[d[1]]
    BY AllAtWork
  <2>. QED
    BY <2>1, <2>2, <2>3, IdleIs
    DEF Finishes, NoStuckReservation, BackupsNumbered, Active, Goes, Ends
<1>8. ASSUME NEW c \in Capture, Fail(c) PROVE NoStuckReservation'
  <2>1. Fails(c)
    BY <1>8, FailEffect
  <2>2. Active(c) => \A d \in Capture : d # c => cap[d].id # cap[c].id
    BY AtWork
  <2>3. \A d \in Capture : Active(d) =>
           /\ d[1] \in Proj /\ cap[d].id \in Snap /\ cap[d].id[1] = d[1] /\ cap[d].id # None
           /\ cap[d].id[2] <= begun[d[1]] /\ up[d[1]]
    BY AllAtWork
  <2>. QED
    BY <2>1, <2>2, <2>3, IdleIs
    DEF Fails, NoStuckReservation, BackupsNumbered, Active, Goes, Ends
<1>9. ASSUME NEW p \in Proj, EndWrite(p) PROVE NoStuckReservation'
  BY <1>9, RecoveryAssumption, IdleIs, Captures
  DEF EndWrite, age, NoStuckReservation, BackupsNumbered, Snap, Active, Of, TypeOK,
      WritesGuarded, PromisesKept
<1>10. ASSUME NEW p \in Proj, ResetBlocked(p) PROVE NoStuckReservation'
  BY <1>10, RecoveryAssumption, IdleIs, Captures
  DEF ResetBlocked, Of, age, Snap, NoStuckReservation, BackupsNumbered, Active,
      TypeOK, WritesGuarded, PromisesKept
<1>11. ASSUME NEW p \in Proj, Crash(p) PROVE NoStuckReservation'
  <2>1. \A c \in Capture : Active(c) => cap[c].id[1] = c[1]
    BY AtWork
  <2>2. \A s \in Snap : s[1] \in Proj
    BY DEF Snap
  <2>3. reserved \subseteq Snap
    BY DEF TypeOK
  <2>4. /\ \A c \in Capture : cap'[c] = IF c[1] = p THEN Idle ELSE cap[c]
        /\ \A q \in Proj : up'[q] = IF q = p THEN FALSE ELSE up[q]
        /\ reserved' = reserved
    <3>1. Crashes(p)
      BY <1>11, CrashEffect
    <3>. QED
      BY <3>1 DEF Crashes, store
  <2>5. \A s \in reserved : s[1] # p => ~up[s[1]] \/ (\E c \in Capture : cap[c].id = s /\ Active(c) /\ c[1] # p)
    BY <2>1 DEF NoStuckReservation, Active
  <2>6. SUFFICES ASSUME NEW s \in reserved
      PROVE  ~up'[s[1]] \/ (\E c \in Capture : cap'[c].id = s /\ cap'[c].pc # "idle")
    BY <2>4 DEF NoStuckReservation
  <2>7. CASE s[1] = p
    BY <2>2, <2>3, <2>4, <2>7
  <2>8. CASE s[1] # p /\ ~up[s[1]]
    BY <2>2, <2>3, <2>4, <2>8
  <2>9. CASE s[1] # p /\ up[s[1]]
    <3>1. PICK c \in Capture : cap[c].id = s /\ Active(c) /\ c[1] # p
      BY <2>5, <2>9
    <3>2. cap'[c] = cap[c]
      BY <2>4, <3>1
    <3>. QED
      BY <3>1, <3>2 DEF Active
  <2>. QED
    BY <2>7, <2>8, <2>9
<1>12. ASSUME NEW p \in Proj, Open(p) PROVE NoStuckReservation'
  BY <1>12, RecoveryAssumption, IdleIs, Captures
  DEF Open, Of, age, Snap, NoStuckReservation, BackupsNumbered, Active, TypeOK,
      WritesGuarded, PromisesKept
<1>13. ASSUME NEW p \in Proj, Settle(p) PROVE NoStuckReservation'
  BY <1>13, RecoveryAssumption, IdleIs, Captures
  DEF Settle, Of, age, memory, Snap, NoStuckReservation, BackupsNumbered, Active,
      TypeOK, WritesGuarded, PromisesKept
<1>14. ASSUME NEW p \in Proj, GitRestore(p) PROVE NoStuckReservation'
  BY <1>14, RecoveryAssumption, IdleIs, Captures
  DEF GitRestore, QueueIdle, age, NoStuckReservation, BackupsNumbered, Snap, Active,
      Of, TypeOK, WritesGuarded, PromisesKept
<1>15. ASSUME NEW p \in Proj, NEW sel \in SUBSET Of(p), Maintain(p, sel)
      PROVE  NoStuckReservation'
  BY <1>15, RecoveryAssumption, IdleIs, Captures
  DEF Maintain, RefsWithout, QueueIdle, Snap, StatusWithout, SessionsWithout,
      memory, NoStuckReservation, BackupsNumbered, Active, Of, TypeOK,
      WritesGuarded, PromisesKept
<1>16. ASSUME NEW s \in Snap, Mark(s) PROVE NoStuckReservation'
  BY <1>16, RecoveryAssumption, IdleIs, Captures
  DEF Mark, QueueIdle, Sound, age, memory, NoStuckReservation, BackupsNumbered,
      Snap, Active, Of, TypeOK, WritesGuarded, PromisesKept
<1>17. ASSUME NEW s \in Snap, PlanRestore(s) PROVE NoStuckReservation'
  BY <1>17, RecoveryAssumption, IdleIs, Captures
  DEF PlanRestore, QueueIdle, Sound, age, memory, NoStuckReservation,
      BackupsNumbered, Snap, Active, Of, TypeOK, WritesGuarded, PromisesKept
<1>18. ASSUME DaysPass PROVE NoStuckReservation'
  BY <1>18, RecoveryAssumption, IdleIs, Captures
  DEF DaysPass, Snap, memory, NoStuckReservation, BackupsNumbered, Active, Of,
      TypeOK, WritesGuarded, PromisesKept
<1>u. ASSUME UNCHANGED vars PROVE NoStuckReservation'
  BY <1>u
  DEF NoStuckReservation, BackupsNumbered, Snap, Active, Of, TypeOK, WritesGuarded,
      PromisesKept, vars, store, age, memory
<1>. QED
  BY <1>1, <1>2, <1>3, <1>4, <1>5, <1>6, <1>7, <1>8, <1>9, <1>10, <1>11, <1>12,
     <1>13, <1>14, <1>15, <1>16, <1>17, <1>18, <1>u
  DEF Next, Capturing

\* Promises stay kept.
LEMMA PromisesStep ==
    ASSUME TypeOK, rows \subseteq files, BackupsWhole, PromisesKept, NoStuckReservation, BackupsNumbered, WritesGuarded, [Next]_vars
    PROVE  PromisesKept'
<1>1. ASSUME NEW c \in Capture, Begin(c) PROVE PromisesKept'
  <2>1. Begins(c)
    BY <1>1, BeginEffect
  <2>2. Active(c) => \A d \in Capture : d # c => cap[d].id # cap[c].id
    BY AtWork
  <2>3. \A d \in Capture : Active(d) =>
           /\ d[1] \in Proj /\ cap[d].id \in Snap /\ cap[d].id[1] = d[1] /\ cap[d].id # None
           /\ cap[d].id[2] <= begun[d[1]] /\ up[d[1]]
    BY AllAtWork
  <2>4. \A s \in unfinished : s \in Snap /\ status[s] = "READY"
    BY UnfinishedReady
  <2>. QED
    BY <2>1, <2>2, <2>3, <2>4, OpenSpared, OneCapture, Captures, Projects, IdleIs
    DEF Begins, PromisesKept, Active, Goes, Ends, store
<1>2. ASSUME NEW c \in Capture, Reserve(c) PROVE PromisesKept'
  <2>1. Reserves(c)
    BY <1>2, ReserveEffect
  <2>2. Active(c) /\ c[1] \in Proj /\ cap[c].id \in Snap
    BY <2>1, AtWork DEF Reserves
  <2>3. SUFFICES ASSUME NEW s \in Snap,
                        s \in unfinished \cup marked \cup planned \/ s \in {expected[s[1]], writing[s[1]]}
                 PROVE  status'[s] = "READY"
    BY <2>1 DEF Reserves, PromisesKept
  <2>4. s \notin Pruned(c[1])
    BY <2>2, <2>3, PromisedSpared
  <2>5. status[s] = "READY"
    BY <2>3 DEF PromisesKept
  <2>6. status[cap[c].id] = "none"
    BY <2>1, <2>2 DEF Reserves, BackupsNumbered
  <2>. QED
    BY <2>1, <2>4, <2>5, <2>6 DEF Reserves
<1>3. ASSUME NEW c \in Capture, Store(c) PROVE PromisesKept'
  <2>1. Stores(c)
    BY <1>3, StoreEffect
  <2>2. Active(c) => \A d \in Capture : d # c => cap[d].id # cap[c].id
    BY AtWork
  <2>3. \A d \in Capture : Active(d) =>
           /\ d[1] \in Proj /\ cap[d].id \in Snap /\ cap[d].id[1] = d[1] /\ cap[d].id # None
           /\ cap[d].id[2] <= begun[d[1]] /\ up[d[1]]
    BY AllAtWork
  <2>4. \A s \in unfinished : s \in Snap /\ status[s] = "READY"
    BY UnfinishedReady
  <2>. QED
    BY <2>1, <2>2, <2>3, <2>4, OpenSpared, OneCapture, Captures, Projects, IdleIs
    DEF Stores, PromisesKept, Active, Goes, Ends
<1>4. ASSUME NEW c \in Capture, Register(c) PROVE PromisesKept'
  <2>1. Registers(c)
    BY <1>4, RegisterEffect
  <2>2. Active(c) => \A d \in Capture : d # c => cap[d].id # cap[c].id
    BY AtWork
  <2>3. \A d \in Capture : Active(d) =>
           /\ d[1] \in Proj /\ cap[d].id \in Snap /\ cap[d].id[1] = d[1] /\ cap[d].id # None
           /\ cap[d].id[2] <= begun[d[1]] /\ up[d[1]]
    BY AllAtWork
  <2>4. \A s \in unfinished : s \in Snap /\ status[s] = "READY"
    BY UnfinishedReady
  <2>. QED
    BY <2>1, <2>2, <2>3, <2>4, OpenSpared, OneCapture, Captures, Projects, IdleIs
    DEF Registers, PromisesKept, Active, Goes, Ends
<1>5. ASSUME NEW c \in Capture, Verify(c) PROVE PromisesKept'
  <2>1. Verifies(c)
    BY <1>5, VerifyEffect
  <2>2. Active(c) => \A d \in Capture : d # c => cap[d].id # cap[c].id
    BY AtWork
  <2>3. \A d \in Capture : Active(d) =>
           /\ d[1] \in Proj /\ cap[d].id \in Snap /\ cap[d].id[1] = d[1] /\ cap[d].id # None
           /\ cap[d].id[2] <= begun[d[1]] /\ up[d[1]]
    BY AllAtWork
  <2>4. \A s \in unfinished : s \in Snap /\ status[s] = "READY"
    BY UnfinishedReady
  <2>. QED
    BY <2>1, <2>2, <2>3, <2>4, OpenSpared, OneCapture, Captures, Projects, IdleIs
    DEF Verifies, PromisesKept, Active, Goes, Ends, store
<1>6. ASSUME NEW c \in Capture, Publish(c) PROVE PromisesKept'
  <2>1. Publishes(c)
    BY <1>6, PublishEffect
  <2>2. SUFFICES ASSUME NEW s \in Snap,
                        s \in unfinished \cup marked \cup planned \/ s \in {expected'[s[1]], writing[s[1]]}
                 PROVE  status'[s] = "READY"
    BY <2>1 DEF Publishes, PromisesKept
  <2>3. s = cap[c].id \/ (s \in unfinished \cup marked \cup planned \/ s \in {expected[s[1]], writing[s[1]]})
    BY <2>1, <2>2, Projects DEF Publishes
  <2>. QED
    BY <2>1, <2>3 DEF Publishes, PromisesKept
<1>7. ASSUME NEW c \in Capture, Finish(c) PROVE PromisesKept'
  <2>1. Finishes(c)
    BY <1>7, FinishEffect
  <2>2. Active(c) /\ c[1] \in Proj /\ cap[c].id \in Snap
    BY <2>1, AtWork DEF Finishes
  <2>3. SUFFICES ASSUME NEW s \in Snap,
                        s \in unfinished' \cup marked \cup planned \/ s \in {expected'[s[1]], writing'[s[1]]}
                 PROVE  status'[s] = "READY"
    BY <2>1 DEF Finishes, PromisesKept
  <2>4. CASE s \in unfinished \cup marked \cup planned \/ s \in {expected[s[1]], writing[s[1]]}
    <3>1. s \notin Pruned(c[1]) /\ status[s] = "READY"
      BY <2>2, <2>4, PromisedSpared DEF PromisesKept
    <3>. QED
      BY <2>1, <3>1 DEF Finishes
  <2>5. CASE s = cap[c].id /\ cap[c].why = "write"
    <3>1. status[s] = "READY" /\ session[s] = "open"
      BY <2>1, <2>5 DEF Finishes, WritesGuarded
    <3>2. s \notin Pruned(c[1])
      BY <2>2, <3>1, OpenSpared
    <3>. QED
      BY <2>1, <3>1, <3>2 DEF Finishes
  <2>6. CASE s = cap[c].id /\ status'[cap[c].id] = "READY"
    BY <2>6
  <2>7. s[1] \in Proj
    BY Projects
  <2>. QED
    BY <2>1, <2>3, <2>4, <2>5, <2>6, <2>7 DEF Finishes
<1>8. ASSUME NEW c \in Capture, Fail(c) PROVE PromisesKept'
  <2>1. Fails(c)
    BY <1>8, FailEffect
  <2>2. Active(c) => \A d \in Capture : d # c => cap[d].id # cap[c].id
    BY AtWork
  <2>3. \A d \in Capture : Active(d) =>
           /\ d[1] \in Proj /\ cap[d].id \in Snap /\ cap[d].id[1] = d[1] /\ cap[d].id # None
           /\ cap[d].id[2] <= begun[d[1]] /\ up[d[1]]
    BY AllAtWork
  <2>4. \A s \in unfinished : s \in Snap /\ status[s] = "READY"
    BY UnfinishedReady
  <2>. QED
    BY <2>1, <2>2, <2>3, <2>4, OpenSpared, OneCapture, Captures, Projects, IdleIs
    DEF Fails, PromisesKept, Active, Goes, Ends
<1>9. ASSUME NEW p \in Proj, EndWrite(p) PROVE PromisesKept'
  BY <1>9, RecoveryAssumption, IdleIs, Captures
  DEF EndWrite, age, PromisesKept, Snap, TypeOK, BackupsNumbered, Active, Of,
      WritesGuarded
<1>10. ASSUME NEW p \in Proj, ResetBlocked(p) PROVE PromisesKept'
  BY <1>10, RecoveryAssumption, IdleIs, Captures
  DEF ResetBlocked, Of, age, Snap, PromisesKept, TypeOK, BackupsNumbered, Active,
      WritesGuarded
<1>11. ASSUME NEW p \in Proj, Crash(p) PROVE PromisesKept'
  <2>1. Crashes(p)
    BY <1>11, CrashEffect
  <2>2. UNCHANGED <<status, unfinished, marked, planned, expected>>
    BY <2>1 DEF Crashes, store
  <2>3. ASSUME NEW s \in Snap PROVE writing'[s[1]] \in {None, writing[s[1]]}
    <3>1. s[1] \in Proj
      BY DEF Snap
    <3>. QED
      BY <2>1, <3>1 DEF Crashes
  <2>4. \A s \in Snap : s # None
    BY Projects
  <2>. QED
    BY <2>2, <2>3, <2>4 DEF PromisesKept
<1>12. ASSUME NEW p \in Proj, Open(p) PROVE PromisesKept'
  BY <1>12, RecoveryAssumption, IdleIs, Captures
  DEF Open, Of, age, Snap, PromisesKept, TypeOK, BackupsNumbered, Active,
      WritesGuarded
<1>13. ASSUME NEW p \in Proj, Settle(p) PROVE PromisesKept'
  BY <1>13, RecoveryAssumption, IdleIs, Captures
  DEF Settle, Of, age, memory, Snap, PromisesKept, TypeOK, BackupsNumbered, Active,
      WritesGuarded
<1>14. ASSUME NEW p \in Proj, GitRestore(p) PROVE PromisesKept'
  BY <1>14, RecoveryAssumption, IdleIs, Captures
  DEF GitRestore, QueueIdle, age, PromisesKept, Snap, TypeOK, BackupsNumbered,
      Active, Of, WritesGuarded
<1>15. ASSUME NEW p \in Proj, NEW sel \in SUBSET Of(p), Maintain(p, sel)
      PROVE  PromisesKept'
  <2>m. Maintains(p, sel)
    BY <1>15, Maintained
  <2>1. \A s \in Snap : s \in sel =>
           s[1] = p /\ s \notin unfinished \cup marked \cup planned \cup {expected[p]}
    BY <1>15, <2>m DEF Maintains
  <2>2. /\ \A s \in Snap : s \notin sel => status'[s] = status[s]
        /\ UNCHANGED <<marked, planned, unfinished, expected, writing>> /\ writing[p] = None
    BY <1>15, <2>m DEF Maintains
  <2>. QED
    BY <2>1, <2>2, Projects DEF PromisesKept
<1>16. ASSUME NEW s \in Snap, Mark(s) PROVE PromisesKept'
  BY <1>16, RecoveryAssumption, IdleIs, Captures
  DEF Mark, QueueIdle, Sound, age, memory, PromisesKept, Snap, TypeOK,
      BackupsNumbered, Active, Of, WritesGuarded
<1>17. ASSUME NEW s \in Snap, PlanRestore(s) PROVE PromisesKept'
  BY <1>17, RecoveryAssumption, IdleIs, Captures
  DEF PlanRestore, QueueIdle, Sound, age, memory, PromisesKept, Snap, TypeOK,
      BackupsNumbered, Active, Of, WritesGuarded
<1>18. ASSUME DaysPass PROVE PromisesKept'
  BY <1>18, RecoveryAssumption, IdleIs, Captures
  DEF DaysPass, Snap, memory, PromisesKept, TypeOK, BackupsNumbered, Active, Of,
      WritesGuarded
<1>u. ASSUME UNCHANGED vars PROVE PromisesKept'
  BY <1>u
  DEF PromisesKept, Snap, TypeOK, BackupsNumbered, Active, Of, WritesGuarded, vars,
      store, age, memory
<1>. QED
  BY <1>1, <1>2, <1>3, <1>4, <1>5, <1>6, <1>7, <1>8, <1>9, <1>10, <1>11, <1>12,
     <1>13, <1>14, <1>15, <1>16, <1>17, <1>18, <1>u
  DEF Next, Capturing

\* Writes stay guarded.
LEMMA WritesStep ==
    ASSUME TypeOK, rows \subseteq files, BackupsWhole, PromisesKept, NoStuckReservation, BackupsNumbered, WritesGuarded, [Next]_vars
    PROVE  WritesGuarded'
<1>1. ASSUME NEW c \in Capture, Begin(c) PROVE WritesGuarded'
  <2>1. Begins(c)
    BY <1>1, BeginEffect
  <2>2. Active(c) => \A d \in Capture : d # c => cap[d].id # cap[c].id
    BY AtWork
  <2>3. \A d \in Capture : Active(d) =>
           /\ d[1] \in Proj /\ cap[d].id \in Snap /\ cap[d].id[1] = d[1] /\ cap[d].id # None
           /\ cap[d].id[2] <= begun[d[1]] /\ up[d[1]]
    BY AllAtWork
  <2>4. \A s \in unfinished : s \in Snap /\ status[s] = "READY"
    BY UnfinishedReady
  <2>5. (\A d \in Capture : cap[d].why = "write" => d[2] = "queue")'
    BY <2>1, <2>2, <2>3, <2>4, OpenSpared, OneCapture, Captures, Projects, IdleIs
    DEF Begins, WritesGuarded, Active, Goes, Ends, store, Capture
  <2>6. \A d \in Capture : cap'[d].why = "write" /\ cap'[d].pc = "git" => status'[cap'[d].id] = "READY" /\ session'[cap'[d].id] = "open"
    BY <2>1, <2>2, <2>3, <2>4, OpenSpared, OneCapture, Captures, Projects, IdleIs
    DEF Begins, WritesGuarded, Active, Goes, Ends, store
  <2>7. (\A q \in Proj : writing[q] # None => writing[q] \in unfinished \cap Of(q))'
    BY <2>1, <2>2, <2>3, <2>4, OpenSpared, OneCapture, Captures, Projects, IdleIs
    DEF Begins, WritesGuarded, Active, Goes, Ends, store, Of
  <2>8. (\A d \in Capture : Active(d) /\ d[2] = "queue" => writing[d[1]] = None)'
    BY <2>1, <2>2, <2>3, <2>4, OpenSpared, OneCapture, Captures, Projects, IdleIs
    DEF Begins, WritesGuarded, Active, Goes, Ends, store
  <2>9. (\A s \in unfinished : session[s] # "none")'
    BY <2>1, <2>2, <2>3, <2>4, OpenSpared, OneCapture, Captures, Projects, IdleIs
    DEF Begins, WritesGuarded, Active, Goes, Ends, store
  <2>. QED
    BY <2>5, <2>6, <2>7, <2>8, <2>9 DEF WritesGuarded
<1>2. ASSUME NEW c \in Capture, Reserve(c) PROVE WritesGuarded'
  <2>1. Reserves(c)
    BY <1>2, ReserveEffect
  <2>2. Active(c) => \A d \in Capture : d # c => cap[d].id # cap[c].id
    BY AtWork
  <2>3. \A d \in Capture : Active(d) =>
           /\ d[1] \in Proj /\ cap[d].id \in Snap /\ cap[d].id[1] = d[1] /\ cap[d].id # None
           /\ cap[d].id[2] <= begun[d[1]] /\ up[d[1]]
    BY AllAtWork
  <2>4. \A s \in unfinished : s \in Snap /\ status[s] = "READY"
    BY UnfinishedReady
  <2>5. (\A d \in Capture : cap[d].why = "write" => d[2] = "queue")'
    BY <2>1, <2>2, <2>3, <2>4, OpenSpared, OneCapture, Captures, Projects, IdleIs
    DEF Reserves, WritesGuarded, Active, Goes, Ends, Capture
  <2>6. \A d \in Capture : cap'[d].why = "write" /\ cap'[d].pc = "git" => status'[cap'[d].id] = "READY" /\ session'[cap'[d].id] = "open"
    BY <2>1, <2>2, <2>3, <2>4, OpenSpared, OneCapture, Captures, Projects, IdleIs
    DEF Reserves, WritesGuarded, Active, Goes, Ends
  <2>7. (\A q \in Proj : writing[q] # None => writing[q] \in unfinished \cap Of(q))'
    BY <2>1, <2>2, <2>3, <2>4, OpenSpared, OneCapture, Captures, Projects, IdleIs
    DEF Reserves, WritesGuarded, Active, Goes, Ends, Of
  <2>8. (\A d \in Capture : Active(d) /\ d[2] = "queue" => writing[d[1]] = None)'
    BY <2>1, <2>2, <2>3, <2>4, OpenSpared, OneCapture, Captures, Projects, IdleIs
    DEF Reserves, WritesGuarded, Active, Goes, Ends
  <2>9. (\A s \in unfinished : session[s] # "none")'
    BY <2>1, <2>2, <2>3, <2>4, OpenSpared, OneCapture, Captures, Projects, IdleIs
    DEF Reserves, WritesGuarded, Active, Goes, Ends
  <2>. QED
    BY <2>5, <2>6, <2>7, <2>8, <2>9 DEF WritesGuarded
<1>3. ASSUME NEW c \in Capture, Store(c) PROVE WritesGuarded'
  <2>1. Stores(c)
    BY <1>3, StoreEffect
  <2>2. Active(c) => \A d \in Capture : d # c => cap[d].id # cap[c].id
    BY AtWork
  <2>3. \A d \in Capture : Active(d) =>
           /\ d[1] \in Proj /\ cap[d].id \in Snap /\ cap[d].id[1] = d[1] /\ cap[d].id # None
           /\ cap[d].id[2] <= begun[d[1]] /\ up[d[1]]
    BY AllAtWork
  <2>4. \A s \in unfinished : s \in Snap /\ status[s] = "READY"
    BY UnfinishedReady
  <2>5. (\A d \in Capture : cap[d].why = "write" => d[2] = "queue")'
    BY <2>1, <2>2, <2>3, <2>4, OpenSpared, OneCapture, Captures, Projects, IdleIs
    DEF Stores, WritesGuarded, Active, Goes, Ends, Capture
  <2>6. \A d \in Capture : cap'[d].why = "write" /\ cap'[d].pc = "git" => status'[cap'[d].id] = "READY" /\ session'[cap'[d].id] = "open"
    BY <2>1, <2>2, <2>3, <2>4, OpenSpared, OneCapture, Captures, Projects, IdleIs
    DEF Stores, WritesGuarded, Active, Goes, Ends
  <2>7. (\A q \in Proj : writing[q] # None => writing[q] \in unfinished \cap Of(q))'
    BY <2>1, <2>2, <2>3, <2>4, OpenSpared, OneCapture, Captures, Projects, IdleIs
    DEF Stores, WritesGuarded, Active, Goes, Ends, Of
  <2>8. (\A d \in Capture : Active(d) /\ d[2] = "queue" => writing[d[1]] = None)'
    BY <2>1, <2>2, <2>3, <2>4, OpenSpared, OneCapture, Captures, Projects, IdleIs
    DEF Stores, WritesGuarded, Active, Goes, Ends
  <2>9. (\A s \in unfinished : session[s] # "none")'
    BY <2>1, <2>2, <2>3, <2>4, OpenSpared, OneCapture, Captures, Projects, IdleIs
    DEF Stores, WritesGuarded, Active, Goes, Ends
  <2>. QED
    BY <2>5, <2>6, <2>7, <2>8, <2>9 DEF WritesGuarded
<1>4. ASSUME NEW c \in Capture, Register(c) PROVE WritesGuarded'
  <2>1. Registers(c)
    BY <1>4, RegisterEffect
  <2>2. Active(c) => \A d \in Capture : d # c => cap[d].id # cap[c].id
    BY AtWork
  <2>3. \A d \in Capture : Active(d) =>
           /\ d[1] \in Proj /\ cap[d].id \in Snap /\ cap[d].id[1] = d[1] /\ cap[d].id # None
           /\ cap[d].id[2] <= begun[d[1]] /\ up[d[1]]
    BY AllAtWork
  <2>4. \A s \in unfinished : s \in Snap /\ status[s] = "READY"
    BY UnfinishedReady
  <2>5. (\A d \in Capture : cap[d].why = "write" => d[2] = "queue")'
    BY <2>1, <2>2, <2>3, <2>4, OpenSpared, OneCapture, Captures, Projects, IdleIs
    DEF Registers, WritesGuarded, Active, Goes, Ends, Capture
  <2>6. \A d \in Capture : cap'[d].why = "write" /\ cap'[d].pc = "git" => status'[cap'[d].id] = "READY" /\ session'[cap'[d].id] = "open"
    BY <2>1, <2>2, <2>3, <2>4, OpenSpared, OneCapture, Captures, Projects, IdleIs
    DEF Registers, WritesGuarded, Active, Goes, Ends
  <2>7. (\A q \in Proj : writing[q] # None => writing[q] \in unfinished \cap Of(q))'
    BY <2>1, <2>2, <2>3, <2>4, OpenSpared, OneCapture, Captures, Projects, IdleIs
    DEF Registers, WritesGuarded, Active, Goes, Ends, Of
  <2>8. (\A d \in Capture : Active(d) /\ d[2] = "queue" => writing[d[1]] = None)'
    BY <2>1, <2>2, <2>3, <2>4, OpenSpared, OneCapture, Captures, Projects, IdleIs
    DEF Registers, WritesGuarded, Active, Goes, Ends
  <2>9. (\A s \in unfinished : session[s] # "none")'
    BY <2>1, <2>2, <2>3, <2>4, OpenSpared, OneCapture, Captures, Projects, IdleIs
    DEF Registers, WritesGuarded, Active, Goes, Ends
  <2>. QED
    BY <2>5, <2>6, <2>7, <2>8, <2>9 DEF WritesGuarded
<1>5. ASSUME NEW c \in Capture, Verify(c) PROVE WritesGuarded'
  <2>1. Verifies(c)
    BY <1>5, VerifyEffect
  <2>2. Active(c) => \A d \in Capture : d # c => cap[d].id # cap[c].id
    BY AtWork
  <2>3. \A d \in Capture : Active(d) =>
           /\ d[1] \in Proj /\ cap[d].id \in Snap /\ cap[d].id[1] = d[1] /\ cap[d].id # None
           /\ cap[d].id[2] <= begun[d[1]] /\ up[d[1]]
    BY AllAtWork
  <2>4. \A s \in unfinished : s \in Snap /\ status[s] = "READY"
    BY UnfinishedReady
  <2>5. (\A d \in Capture : cap[d].why = "write" => d[2] = "queue")'
    BY <2>1, <2>2, <2>3, <2>4, OpenSpared, OneCapture, Captures, Projects, IdleIs
    DEF Verifies, WritesGuarded, Active, Goes, Ends, store, Capture
  <2>6. \A d \in Capture : cap'[d].why = "write" /\ cap'[d].pc = "git" => status'[cap'[d].id] = "READY" /\ session'[cap'[d].id] = "open"
    BY <2>1, <2>2, <2>3, <2>4, OpenSpared, OneCapture, Captures, Projects, IdleIs
    DEF Verifies, WritesGuarded, Active, Goes, Ends, store
  <2>7. (\A q \in Proj : writing[q] # None => writing[q] \in unfinished \cap Of(q))'
    BY <2>1, <2>2, <2>3, <2>4, OpenSpared, OneCapture, Captures, Projects, IdleIs
    DEF Verifies, WritesGuarded, Active, Goes, Ends, store, Of
  <2>8. (\A d \in Capture : Active(d) /\ d[2] = "queue" => writing[d[1]] = None)'
    BY <2>1, <2>2, <2>3, <2>4, OpenSpared, OneCapture, Captures, Projects, IdleIs
    DEF Verifies, WritesGuarded, Active, Goes, Ends, store
  <2>9. (\A s \in unfinished : session[s] # "none")'
    BY <2>1, <2>2, <2>3, <2>4, OpenSpared, OneCapture, Captures, Projects, IdleIs
    DEF Verifies, WritesGuarded, Active, Goes, Ends, store
  <2>. QED
    BY <2>5, <2>6, <2>7, <2>8, <2>9 DEF WritesGuarded
<1>6. ASSUME NEW c \in Capture, Publish(c) PROVE WritesGuarded'
  <2>1. Publishes(c)
    BY <1>6, PublishEffect
  <2>2. Active(c) => \A d \in Capture : d # c => cap[d].id # cap[c].id
    BY AtWork
  <2>3. \A d \in Capture : Active(d) =>
           /\ d[1] \in Proj /\ cap[d].id \in Snap /\ cap[d].id[1] = d[1] /\ cap[d].id # None
           /\ cap[d].id[2] <= begun[d[1]] /\ up[d[1]]
    BY AllAtWork
  <2>4. \A s \in unfinished : s \in Snap /\ status[s] = "READY"
    BY UnfinishedReady
  <2>5. (\A d \in Capture : cap[d].why = "write" => d[2] = "queue")'
    BY <2>1, <2>2, <2>3, <2>4, OpenSpared, OneCapture, Captures, Projects, IdleIs
    DEF Publishes, WritesGuarded, Active, Goes, Ends, Capture
  <2>6. \A d \in Capture : cap'[d].why = "write" /\ cap'[d].pc = "git" => status'[cap'[d].id] = "READY" /\ session'[cap'[d].id] = "open"
    BY <2>1, <2>2, <2>3, <2>4, OpenSpared, OneCapture, Captures, Projects, IdleIs
    DEF Publishes, WritesGuarded, Active, Goes, Ends
  <2>7. (\A q \in Proj : writing[q] # None => writing[q] \in unfinished \cap Of(q))'
    BY <2>1, <2>2, <2>3, <2>4, OpenSpared, OneCapture, Captures, Projects, IdleIs
    DEF Publishes, WritesGuarded, Active, Goes, Ends, Of
  <2>8. (\A d \in Capture : Active(d) /\ d[2] = "queue" => writing[d[1]] = None)'
    BY <2>1, <2>2, <2>3, <2>4, OpenSpared, OneCapture, Captures, Projects, IdleIs
    DEF Publishes, WritesGuarded, Active, Goes, Ends
  <2>9. (\A s \in unfinished : session[s] # "none")'
    BY <2>1, <2>2, <2>3, <2>4, OpenSpared, OneCapture, Captures, Projects, IdleIs
    DEF Publishes, WritesGuarded, Active, Goes, Ends
  <2>. QED
    BY <2>5, <2>6, <2>7, <2>8, <2>9 DEF WritesGuarded
<1>7. ASSUME NEW c \in Capture, Finish(c) PROVE WritesGuarded'
  <2>1. Finishes(c)
    BY <1>7, FinishEffect
  <2>2. Active(c) => \A d \in Capture : d # c => cap[d].id # cap[c].id
    BY AtWork
  <2>3. \A d \in Capture : Active(d) =>
           /\ d[1] \in Proj /\ cap[d].id \in Snap /\ cap[d].id[1] = d[1] /\ cap[d].id # None
           /\ cap[d].id[2] <= begun[d[1]] /\ up[d[1]]
    BY AllAtWork
  <2>4. \A s \in unfinished : s \in Snap /\ status[s] = "READY"
    BY UnfinishedReady
  <2>5. (\A d \in Capture : cap[d].why = "write" => d[2] = "queue")'
    BY <2>1, <2>2, <2>3, <2>4, OpenSpared, OneCapture, Captures, Projects, IdleIs
    DEF Finishes, WritesGuarded, Active, Goes, Ends, Capture
  <2>6. \A d \in Capture : cap'[d].why = "write" /\ cap'[d].pc = "git" => status'[cap'[d].id] = "READY" /\ session'[cap'[d].id] = "open"
    BY <2>1, <2>2, <2>3, <2>4, OpenSpared, OneCapture, Captures, Projects, IdleIs
    DEF Finishes, WritesGuarded, Active, Goes, Ends
  <2>7. (\A q \in Proj : writing[q] # None => writing[q] \in unfinished \cap Of(q))'
    BY <2>1, <2>2, <2>3, <2>4, OpenSpared, OneCapture, Captures, Projects, IdleIs
    DEF Finishes, WritesGuarded, Active, Goes, Ends, Of
  <2>8. (\A d \in Capture : Active(d) /\ d[2] = "queue" => writing[d[1]] = None)'
    BY <2>1, <2>2, <2>3, <2>4, OpenSpared, OneCapture, Captures, Projects, IdleIs
    DEF Finishes, WritesGuarded, Active, Goes, Ends
  <2>9. (\A s \in unfinished : session[s] # "none")'
    BY <2>1, <2>2, <2>3, <2>4, OpenSpared, OneCapture, Captures, Projects, IdleIs
    DEF Finishes, WritesGuarded, Active, Goes, Ends
  <2>. QED
    BY <2>5, <2>6, <2>7, <2>8, <2>9 DEF WritesGuarded
<1>8. ASSUME NEW c \in Capture, Fail(c) PROVE WritesGuarded'
  <2>1. Fails(c)
    BY <1>8, FailEffect
  <2>2. Active(c) => \A d \in Capture : d # c => cap[d].id # cap[c].id
    BY AtWork
  <2>3. \A d \in Capture : Active(d) =>
           /\ d[1] \in Proj /\ cap[d].id \in Snap /\ cap[d].id[1] = d[1] /\ cap[d].id # None
           /\ cap[d].id[2] <= begun[d[1]] /\ up[d[1]]
    BY AllAtWork
  <2>4. \A s \in unfinished : s \in Snap /\ status[s] = "READY"
    BY UnfinishedReady
  <2>5. (\A d \in Capture : cap[d].why = "write" => d[2] = "queue")'
    BY <2>1, <2>2, <2>3, <2>4, OpenSpared, OneCapture, Captures, Projects, IdleIs
    DEF Fails, WritesGuarded, Active, Goes, Ends, Capture
  <2>6. \A d \in Capture : cap'[d].why = "write" /\ cap'[d].pc = "git" => status'[cap'[d].id] = "READY" /\ session'[cap'[d].id] = "open"
    BY <2>1, <2>2, <2>3, <2>4, OpenSpared, OneCapture, Captures, Projects, IdleIs
    DEF Fails, WritesGuarded, Active, Goes, Ends
  <2>7. (\A q \in Proj : writing[q] # None => writing[q] \in unfinished \cap Of(q))'
    BY <2>1, <2>2, <2>3, <2>4, OpenSpared, OneCapture, Captures, Projects, IdleIs
    DEF Fails, WritesGuarded, Active, Goes, Ends, Of
  <2>8. (\A d \in Capture : Active(d) /\ d[2] = "queue" => writing[d[1]] = None)'
    BY <2>1, <2>2, <2>3, <2>4, OpenSpared, OneCapture, Captures, Projects, IdleIs
    DEF Fails, WritesGuarded, Active, Goes, Ends
  <2>9. (\A s \in unfinished : session[s] # "none")'
    BY <2>1, <2>2, <2>3, <2>4, OpenSpared, OneCapture, Captures, Projects, IdleIs
    DEF Fails, WritesGuarded, Active, Goes, Ends
  <2>. QED
    BY <2>5, <2>6, <2>7, <2>8, <2>9 DEF WritesGuarded
<1>9. ASSUME NEW p \in Proj, EndWrite(p) PROVE WritesGuarded'
  BY <1>9, RecoveryAssumption, IdleIs, Captures
  DEF EndWrite, age, WritesGuarded, Of, Active, Snap, TypeOK, BackupsNumbered,
      PromisesKept
<1>10. ASSUME NEW p \in Proj, ResetBlocked(p) PROVE WritesGuarded'
  BY <1>10, RecoveryAssumption, IdleIs, Captures
  DEF ResetBlocked, Of, age, Snap, WritesGuarded, Active, TypeOK, BackupsNumbered,
      PromisesKept
<1>11. ASSUME NEW p \in Proj, Crash(p) PROVE WritesGuarded'
  <2>1. Crashes(p)
    BY <1>11, CrashEffect
  <2>5. (\A d \in Capture : cap[d].why = "write" => d[2] = "queue")'
    BY <2>1, IdleIs, Captures, Projects
    DEF Crashes, WritesGuarded, Active, Goes, Ends, store, Capture
  <2>6. \A d \in Capture : cap'[d].why = "write" /\ cap'[d].pc = "git" => status'[cap'[d].id] = "READY" /\ session'[cap'[d].id] = "open"
    BY <2>1, IdleIs, Captures, Projects
    DEF Crashes, WritesGuarded, Active, Goes, Ends, store
  <2>7. (\A q \in Proj : writing[q] # None => writing[q] \in unfinished \cap Of(q))'
    BY <2>1, IdleIs, Captures, Projects
    DEF Crashes, WritesGuarded, Active, Goes, Ends, store, Of
  <2>8. (\A d \in Capture : Active(d) /\ d[2] = "queue" => writing[d[1]] = None)'
    BY <2>1, IdleIs, Captures, Projects
    DEF Crashes, WritesGuarded, Active, Goes, Ends, store
  <2>9. (\A s \in unfinished : session[s] # "none")'
    BY <2>1, IdleIs, Captures, Projects
    DEF Crashes, WritesGuarded, Active, Goes, Ends, store
  <2>. QED
    BY <2>5, <2>6, <2>7, <2>8, <2>9 DEF WritesGuarded
<1>12. ASSUME NEW p \in Proj, Open(p) PROVE WritesGuarded'
  BY <1>12, RecoveryAssumption, IdleIs, Captures
  DEF Open, Of, age, Snap, WritesGuarded, Active, TypeOK, BackupsNumbered,
      PromisesKept
<1>13. ASSUME NEW p \in Proj, Settle(p) PROVE WritesGuarded'
  BY <1>13, RecoveryAssumption, IdleIs, Captures
  DEF Settle, Of, age, memory, Snap, WritesGuarded, Active, TypeOK, BackupsNumbered,
      PromisesKept
<1>14. ASSUME NEW p \in Proj, GitRestore(p) PROVE WritesGuarded'
  BY <1>14, RecoveryAssumption, IdleIs, Captures
  DEF GitRestore, QueueIdle, age, WritesGuarded, Of, Active, Snap, TypeOK,
      BackupsNumbered, PromisesKept
<1>15. ASSUME NEW p \in Proj, NEW sel \in SUBSET Of(p), Maintain(p, sel)
      PROVE  WritesGuarded'
  <2>m. Maintains(p, sel)
    BY <1>15, Maintained
  <2>1. \A s \in Snap : s \in sel => s[1] = p /\ s \notin unfinished
    BY <1>15, <2>m DEF Maintains
  <2>2. /\ \A s \in Snap : s \notin sel => status'[s] = status[s] /\ session'[s] = session[s]
        /\ UNCHANGED <<unfinished, cap, writing>>
    BY <1>15, <2>m DEF Maintains
  <2>3. \A d \in Capture : Active(d) /\ d[2] = "queue" => d[1] # p
    <3>1. ~Active(<<p, "queue">>)
      BY <1>15, <2>m DEF Maintains
    <3>. QED
      BY <3>1, Captures
  <2>4. \A d \in Capture : Active(d) => cap[d].id \in Snap /\ cap[d].id[1] = d[1]
    BY AllAtWork
  <2>5. \A d \in Capture : cap[d].why = "write" /\ cap[d].pc = "git" => cap[d].id \in Snap \ sel
    BY <2>1, <2>3, <2>4 DEF WritesGuarded, Active
  <2>6. unfinished \subseteq Snap
    BY DEF TypeOK
  <2>. QED
    BY <2>1, <2>2, <2>5, <2>6 DEF WritesGuarded, Active
<1>16. ASSUME NEW s \in Snap, Mark(s) PROVE WritesGuarded'
  BY <1>16, RecoveryAssumption, IdleIs, Captures
  DEF Mark, QueueIdle, Sound, age, memory, WritesGuarded, Of, Active, Snap, TypeOK,
      BackupsNumbered, PromisesKept
<1>17. ASSUME NEW s \in Snap, PlanRestore(s) PROVE WritesGuarded'
  BY <1>17, RecoveryAssumption, IdleIs, Captures
  DEF PlanRestore, QueueIdle, Sound, age, memory, WritesGuarded, Of, Active, Snap,
      TypeOK, BackupsNumbered, PromisesKept
<1>18. ASSUME DaysPass PROVE WritesGuarded'
  BY <1>18, RecoveryAssumption, IdleIs, Captures
  DEF DaysPass, Snap, memory, WritesGuarded, Of, Active, TypeOK, BackupsNumbered,
      PromisesKept
<1>u. ASSUME UNCHANGED vars PROVE WritesGuarded'
  BY <1>u
  DEF WritesGuarded, Of, Active, Snap, TypeOK, BackupsNumbered, PromisesKept, vars,
      store, age, memory
<1>. QED
  BY <1>1, <1>2, <1>3, <1>4, <1>5, <1>6, <1>7, <1>8, <1>9, <1>10, <1>11, <1>12,
     <1>13, <1>14, <1>15, <1>16, <1>17, <1>18, <1>u
  DEF Next, Capturing

\* Of backups of one project, unless there are none, one is the newest.
LEMMA NewestThere ==
    ASSUME NEW p \in Proj, NEW B \in SUBSET Of(p), B # {}
    PROVE  \E s \in B : s \in Newest(B)
<1>. DEFINE T == {MaxPoints - s[2] : s \in B}
<1>1. \A s \in B : s[2] \in 1 .. MaxPoints
  BY DEF Of, Snap
<1>2. T \subseteq Nat /\ T # {}
  BY <1>1, RecoveryAssumption
<1>3. PICK x \in T : \A y \in T : ~ (<<y, x>> \in OpToRel(<, Nat))
  <2>. HIDE DEF T
  <2>. QED
    BY <1>2, NatLessThanWellFounded, WFMin
<1>4. \A y \in T : ~ (y < x)
  BY <1>2, <1>3 DEF OpToRel
<1>5. PICK s \in B : x = MaxPoints - s[2]
  OBVIOUS
<1>6. \A t \in B : ~ (t[2] > s[2])
  <2>. SUFFICES ASSUME NEW t \in B, t[2] > s[2] PROVE FALSE
    OBVIOUS
  <2>1. MaxPoints - t[2] < MaxPoints - s[2]
    BY <1>1, RecoveryAssumption
  <2>. QED
    BY <1>4, <1>5, <2>1
<1>. QED
  BY <1>6 DEF Newest, Newer

\* The newest of the full backups stays.
NewestStays ==
    \A s \in Snap : status[s] = "READY" /\ s \in full /\ s \in Newest(Ready(s[1]) \cap full)
        => status'[s] = "READY" /\ s \in full'

LEMMA NewestSpared ==
    ASSUME NEW p \in Proj, NEW s \in Snap, s \in Newest(Ready(s[1]) \cap full)
    PROVE  s \notin Pruned(p)
<1>. SUFFICES ASSUME s \in Pruned(p) PROVE FALSE
  OBVIOUS
<1>1. s \in Of(p) /\ s \notin Newest(Ready(p) \cap full)
  BY PrunedAre
<1>. QED
  BY <1>1 DEF Of

LEMMA NewestStep ==
    ASSUME TypeOK, rows \subseteq files, BackupsWhole, PromisesKept, NoStuckReservation, BackupsNumbered, WritesGuarded, [Next]_vars
    PROVE  NewestStays
<1>1. ASSUME NEW c \in Capture, Begin(c) PROVE NewestStays
  BY <1>1 DEF Begin, NewestStays, store, age, memory
<1>2. ASSUME NEW c \in Capture, Reserve(c) PROVE NewestStays
  <2>1. Reserves(c) /\ full \subseteq full'
    BY <1>2, ReserveEffect, Projects DEF Reserve
  <2>2. cap[c].id \in Snap /\ c[1] \in Proj /\ (cap[c].pc = "scan" => status[cap[c].id] = "none")
    BY <2>1, AtWork DEF Reserves, BackupsNumbered
  <2>. QED
    BY <2>1, <2>2, NewestSpared DEF Reserves, NewestStays
<1>3. ASSUME NEW c \in Capture, Store(c) PROVE NewestStays
  BY <1>3 DEF Store, NewestStays, store, age, memory
<1>4. ASSUME NEW c \in Capture, Register(c) PROVE NewestStays
  BY <1>4 DEF Register, NewestStays, store, age, memory
<1>5. ASSUME NEW c \in Capture, Verify(c) PROVE NewestStays
  BY <1>5 DEF Verify, NewestStays, store, age, memory
<1>6. ASSUME NEW c \in Capture, Publish(c) PROVE NewestStays
  <2>1. Publishes(c) /\ full \subseteq full'
    BY <1>6, PublishEffect, Projects DEF Publish
  <2>2. cap[c].id \in Snap /\ c[1] \in Proj /\ (cap[c].pc = "scan" => status[cap[c].id] = "none")
    BY <2>1, AtWork DEF Publishes, BackupsNumbered
  <2>. QED
    BY <2>1, <2>2, NewestSpared DEF Publishes, NewestStays
<1>7. ASSUME NEW c \in Capture, Finish(c) PROVE NewestStays
  <2>1. Finishes(c) /\ full \subseteq full'
    BY <1>7, FinishEffect, Projects DEF Finish
  <2>2. cap[c].id \in Snap /\ c[1] \in Proj /\ (cap[c].pc = "scan" => status[cap[c].id] = "none")
    BY <2>1, AtWork DEF Finishes, BackupsNumbered
  <2>. QED
    BY <2>1, <2>2, NewestSpared DEF Finishes, NewestStays
<1>8. ASSUME NEW c \in Capture, Fail(c) PROVE NewestStays
  <2>1. Fails(c) /\ full \subseteq full'
    BY <1>8, FailEffect, Projects DEF Fail
  <2>2. cap[c].id \in Snap /\ c[1] \in Proj /\ (cap[c].pc = "scan" => status[cap[c].id] = "none")
    BY <2>1, AtWork DEF Fails, BackupsNumbered
  <2>. QED
    BY <2>1, <2>2, NewestSpared DEF Fails, NewestStays
<1>9. ASSUME NEW p \in Proj, EndWrite(p) PROVE NewestStays
  BY <1>9 DEF EndWrite, NewestStays, store, age, memory
<1>10. ASSUME NEW p \in Proj, ResetBlocked(p) PROVE NewestStays
  BY <1>10 DEF ResetBlocked, NewestStays, store, age, memory
<1>11. ASSUME NEW p \in Proj, Crash(p) PROVE NewestStays
  BY <1>11 DEF Crash, NewestStays, store, age, memory
<1>12. ASSUME NEW p \in Proj, Open(p) PROVE NewestStays
  BY <1>12 DEF Open, NewestStays, store, age, memory
<1>13. ASSUME NEW p \in Proj, Settle(p) PROVE NewestStays
  BY <1>13 DEF Settle, NewestStays, store, age, memory
<1>14. ASSUME NEW p \in Proj, GitRestore(p) PROVE NewestStays
  BY <1>14 DEF GitRestore, NewestStays, store, age, memory
<1>15. ASSUME NEW p \in Proj, NEW sel \in SUBSET Of(p), Maintain(p, sel)
      PROVE  NewestStays
  <2>m. Maintains(p, sel)
    BY <1>15, Maintained
  <2>1. full' = full /\ \A s \in sel : s \notin Newest(Ready(p) \cap full)
    BY <1>15 DEF Maintain, Protected
  <2>. QED
    BY <2>m, <2>1 DEF Maintains, NewestStays
<1>16. ASSUME NEW s \in Snap, Mark(s) PROVE NewestStays
  BY <1>16 DEF Mark, NewestStays, store, age, memory
<1>17. ASSUME NEW s \in Snap, PlanRestore(s) PROVE NewestStays
  BY <1>17 DEF PlanRestore, NewestStays, store, age, memory
<1>18. ASSUME DaysPass PROVE NewestStays
  BY <1>18 DEF DaysPass, NewestStays, store, age, memory
<1>u. ASSUME UNCHANGED vars PROVE NewestStays
  BY <1>u DEF NewestStays, vars, store, age, memory
<1>. QED
  BY <1>1, <1>2, <1>3, <1>4, <1>5, <1>6, <1>7, <1>8, <1>9, <1>10, <1>11, <1>12,
     <1>13, <1>14, <1>15, <1>16, <1>17, <1>18, <1>u
  DEF Next, Capturing

LEMMA BareStep ==
    ASSUME TypeOK, rows \subseteq files, BackupsWhole, PromisesKept, NoStuckReservation, BackupsNumbered, WritesGuarded, [Next]_vars
    PROVE  \A p \in Proj : Ready(p) \cap full # {} => (Ready(p) \cap full)' # {}
<1>. SUFFICES ASSUME NEW p \in Proj, Ready(p) \cap full # {}
              PROVE  (Ready(p) \cap full)' # {}
  OBVIOUS
<1>1. PICK s \in Ready(p) \cap full : s \in Newest(Ready(p) \cap full)
  BY NewestThere DEF Ready
<1>2. s \in Of(p) /\ s \in Snap /\ s[1] = p /\ status[s] = "READY" /\ s \in full
  BY DEF Ready, Of
<1>3. status'[s] = "READY" /\ s \in full'
  BY <1>1, <1>2, NewestStep DEF NewestStays
<1>. QED
  BY <1>2, <1>3 DEF Ready

LEMMA FirstBackups == Init => RecoveryInv
<1>. SUFFICES ASSUME Init PROVE RecoveryInv
  OBVIOUS
<1>1. TypeOK
  BY RecoveryAssumption, IdleIsRow DEF Init, TypeOK
<1>2. \A c \in Capture : ~Active(c) /\ cap[c].id = None /\ cap[c].why = "activation" /\ cap[c].have = {}
  BY IdleIs DEF Init, Active
<1>3. BackupsWhole /\ NoStuckReservation /\ rows \subseteq files
  BY <1>2, Projects DEF Init, BackupsWhole, NoStuckReservation
<1>4. PromisesKept
  BY Projects DEF Init, PromisesKept
<1>5. BackupsNumbered
  BY <1>2 DEF Init, BackupsNumbered
<1>6. WritesGuarded
  BY <1>2 DEF Init, WritesGuarded, Active
<1>. QED
  BY <1>1, <1>3, <1>4, <1>5, <1>6 DEF RecoveryInv, BackupsKept

LEMMA BackupsStep == RecoveryInv /\ [Next]_vars => RecoveryInv'
<1>. SUFFICES ASSUME TypeOK, rows \subseteq files, BackupsWhole, PromisesKept, NoStuckReservation, BackupsNumbered, WritesGuarded, [Next]_vars
      PROVE  RecoveryInv'
  BY DEF RecoveryInv, BackupsKept
<1>1. TypeOK'
  BY BackupTypes
<1>2. BackupsNumbered'
  BY NumbersStep
<1>3. (rows \subseteq files)' /\ BackupsWhole'
  BY WholeStep
<1>4. NoStuckReservation'
  BY ReservationStep
<1>5. PromisesKept'
  BY PromisesStep
<1>6. WritesGuarded'
  BY WritesStep
<1>. QED
  BY <1>1, <1>2, <1>3, <1>4, <1>5, <1>6 DEF RecoveryInv, BackupsKept

\* The backups change by their own steps only.
LEMMA BackupsAlone ==
    ASSUME [partsNext]_<<part, vars, imageVars, vaultVars, setupVars>>
    PROVE  [Next]_vars
  BY DEF partsNext

\* Whatever the number of projects, captures, files and retained backups: a
\* backup said to be READY has its manifest and every file it refers to, what was
\* promised to an owner or a write (marked, planned, expected or unfinished) is
\* READY, and no reservation outlives the capture and the run that made it
\* (storage.ts, recoveryService.ts).
THEOREM BackupsCorrect == RecoverySpec => []BackupsKept
<1>1. partsInit => RecoveryInv
  BY FirstBackups DEF partsInit
<1>2. RecoveryInv /\ [partsNext]_<<part, vars, imageVars, vaultVars, setupVars>> => RecoveryInv'
  BY BackupsAlone, BackupsStep
<1>3. RecoveryInv => BackupsKept
  BY DEF RecoveryInv
<1>. QED
  BY <1>1, <1>2, <1>3, PTL DEF RecoverySpec

\* Neither retention nor a reviewed deletion nor a failing capture takes the last
\* full backup of a project that has one.
THEOREM NeverBareAgain == RecoverySpec => NeverBare
<1>1. partsInit => RecoveryInv
  BY FirstBackups DEF partsInit
<1>2. RecoveryInv /\ [partsNext]_<<part, vars, imageVars, vaultVars, setupVars>> => RecoveryInv'
  BY BackupsAlone, BackupsStep
<1>3. RecoveryInv /\ [partsNext]_<<part, vars, imageVars, vaultVars, setupVars>>
        => [\A p \in Proj : Ready(p) \cap full # {} => (Ready(p) \cap full)' # {}]_vars
  BY BackupsAlone, BareStep DEF RecoveryInv, BackupsKept
<1>. QED
  BY <1>1, <1>2, <1>3, PTL DEF RecoverySpec, NeverBare

-----------------------------------------------------------------------------
(* The images of a deployed service.                                       *)

Containers == [image : Image, by : D!Deployment \cup {D!ByHand}]
Plans == [from : D!Deployment, seen : Containers \cup {None},
          revision : D!Deployment \cup {None}]
\* What the queue's operation has in hand.
Works ==
    [kind : {"idle"}]
      \cup [kind : {"build"}, d : D!Deployment, pc : {"send", "wait", "verify", "failed"}]
      \cup [kind : {"apply"}, d : D!Deployment, seen : Containers \cup {None},
            pc : {"checked", "send", "wait", "failed", "health", "commit"},
            prior : D!Deployment \cup {None}]
      \cup [kind : {"cleanup"}, left : SUBSET Image, i : Image \cup {None}]
ImagesTyped ==
    /\ state \in [D!Deployment -> D!State]
    /\ image \in [D!Deployment -> Image \cup {None}]
    /\ outcomeOf \in [D!Deployment -> Containers \cup {None}]
    /\ plan \in [D!Deployment -> {None} \cup Plans]
    /\ pointer \in [current : D!Deployment \cup {None}, previous : D!Deployment \cup {None}]
    /\ pinned \subseteq D!Deployment /\ retiredImages \subseteq D!Deployment
    /\ receipt \in [D!Deployment -> {"none", "UNKNOWN", "REMOVED"}]
    /\ resolved \subseteq D!Deployment
    /\ tag \in [D!Deployment -> Image \cup {None}] /\ running \in Containers \cup {None}
    /\ flight \subseteq D!Command /\ op \in Works
    /\ epoch \subseteq D!Deployment /\ unexpired \subseteq D!Deployment
    /\ mishaps \in 0 .. MaxMishaps
    /\ sent \in [D!Command -> Nat]

\* The operation under way and the state of its deployment; a deployment that is
\* applied has its image, from the answer to `compose up` on among the tags.
OperationRecorded ==
    /\ op.kind = "build" => /\ state[op.d] = "BUILDING"
                            /\ op.pc = "verify" => image[op.d] # None
    /\ op.kind = "apply" =>
        /\ state[op.d] = IF op.pc = "checked" THEN "BUILT"
                         ELSE IF op.pc \in {"health", "commit"} THEN "HEALTH_CHECKING"
                         ELSE "DEPLOYING"
        /\ image[op.d] # None /\ op.d \notin retiredImages
        /\ (op.pc = "wait" /\ <<"up", op.d>> \notin flight) => D!Present(image[op.d])
        /\ op.pc \in {"health", "commit"} => D!Present(image[op.d])
                                             /\ <<"up", op.d>> \notin flight
Pointed(d) == d = pointer.current \/ d = pointer.previous
\* What is removed is not what the pointers name.
RemovalReviewed ==
    op.kind = "cleanup" =>
        /\ op.i # None => op.i \in op.left
        /\ \A d \in D!Deployment : Pointed(d) => image[d] \notin op.left
\* Pointers are at deployments known to be good; those, and those built, have images.
PointersGood ==
    /\ \A d \in D!Deployment : Pointed(d) => state[d] = "KNOWN_GOOD"
    /\ \A d \in D!Deployment : state[d] \in {"BUILT", "KNOWN_GOOD"} => image[d] # None
\* What a deployment has not yet sent; and an image is tagged when its build is over.
SentOf(d) ==
    /\ (state[d] \in {"none", "PREPARED"}
          \/ (op.kind = "build" /\ op.d = d /\ op.pc = "send")) => sent[<<"build", d>>] = 0
    /\ (state[d] \in {"none", "PREPARED", "BUILDING", "BUILT"}
          \/ (op.kind = "apply" /\ op.d = d /\ op.pc = "send")) => sent[<<"up", d>>] = 0
    /\ <<"build", d>> \in flight => tag[d] = None
    /\ sent[<<"build", d>>] = 0 => tag[d] = None /\ <<"build", d>> \notin flight
    /\ sent[<<"up", d>>] = 0 => <<"up", d>> \notin flight
    /\ <<"up", d>> \in flight => state[d] \in {"DEPLOYING", "UNKNOWN"} /\ image[d] # None
NotYetSent == \A d \in D!Deployment : SentOf(d)
\* Between the last look at the service and the record of it: it is as it was
\* seen, or another hand or another's command has changed it.
SeenOrAccounted ==
    (op.kind = "apply" /\ op.pc = "commit" /\ running # None /\ running.by # D!ByHand) =>
        \/ running = op.seen
        \/ \E e \in D!Deployment \ {op.d} :
              /\ image[e] = running.image
              /\ state[e] \in {"DEPLOYING", "HEALTH_CHECKING", "FAILED", "UNKNOWN"}
\* Rollback stays ready, deployment by deployment.
RollbackKept ==
    \A d \in D!Deployment : Pointed(d) => D!Present(image[d]) /\ d \notin retiredImages
ImagesHold ==
    /\ ImagesTyped /\ OperationRecorded /\ RemovalReviewed /\ PointersGood /\ NotYetSent
    /\ SeenOrAccounted /\ RollbackKept /\ D!EffectsOnce /\ D!ServiceAccounted

LEMMA ImagesAssumed ==
    /\ MaxDeployments \in Nat /\ MaxMishaps \in Nat /\ None \notin Image /\ None \notin Nat
BY Assumed DEF D!DeploymentsAssumption

LEMMA DeploymentsOf == D!Deployment \subseteq Nat /\ None \notin D!Deployment /\ None \notin Image
BY ImagesAssumed DEF D!Deployment

LEMMA CommandsAre ==
    /\ \A d \in D!Deployment : <<"build", d>> \in D!Command /\ <<"up", d>> \in D!Command
    /\ \A d, e \in D!Deployment : /\ <<"build", d>> # <<"up", e>>
                                  /\ d # e => /\ <<"build", d>> # <<"build", e>>
                                              /\ <<"up", d>> # <<"up", e>>
    /\ \A c \in D!Command : /\ c[2] \in D!Deployment
                            /\ c = <<"build", c[2]>> \/ c = <<"up", c[2]>>
BY DEF D!Command

\* What the type says.
LEMMA ImagesKnow ==
    ASSUME ImagesTyped
    PROVE  /\ \A d \in D!Deployment :
                 /\ state[d] \in D!State /\ image[d] \in Image \cup {None}
                 /\ tag[d] \in Image \cup {None} /\ outcomeOf[d] \in Containers \cup {None}
           /\ pointer.current \in D!Deployment \cup {None}
           /\ pointer.previous \in D!Deployment \cup {None}
           /\ running # None => running \in Containers /\ running.image \in Image
           /\ \A c \in D!Command : sent[c] \in Nat
           /\ mishaps \in Nat /\ mishaps <= MaxMishaps
BY ImagesAssumed DEF ImagesTyped, Containers

LEMMA WorksAre ==
    ASSUME op \in Works
    PROVE  /\ op.kind \in {"idle", "build", "apply", "cleanup"}
           /\ op.kind \in {"build", "apply"} => op.d \in D!Deployment
           /\ op.kind = "build" => op.pc \in {"send", "wait", "verify", "failed"}
           /\ op.kind = "apply" =>
                 /\ op.pc \in {"checked", "send", "wait", "failed", "health", "commit"}
                 /\ op.seen \in Containers \cup {None} /\ op.prior \in D!Deployment \cup {None}
           /\ op.kind = "cleanup" => op.left \subseteq Image /\ op.i \in Image \cup {None}
BY DEF Works

LEMMA RestingIs == D!Idle \in Works /\ D!Idle.kind = "idle"
BY DEF D!Idle, Works

LEMMA BuildAt ==
    ASSUME op \in Works, op.kind = "build", NEW p \in {"send", "wait", "verify", "failed"}
    PROVE  LET n == [op EXCEPT !.pc = p] IN
           n \in Works /\ n.kind = "build" /\ n.d = op.d /\ n.pc = p
BY DEF Works

LEMMA ApplyAt ==
    ASSUME op \in Works, op.kind = "apply",
           NEW p \in {"checked", "send", "wait", "failed", "health", "commit"}
    PROVE  LET n == [op EXCEPT !.pc = p] IN
           /\ n \in Works /\ n.kind = "apply" /\ n.d = op.d /\ n.pc = p
           /\ n.seen = op.seen /\ n.prior = op.prior
BY DEF Works

\* What is under way is now at pc, and nothing else of it has changed.
WorkAt(p) ==
    /\ op' \in Works /\ op'.kind = op.kind /\ op'.d = op.d /\ op'.pc = p
    /\ op.kind = "apply" => op'.seen = op.seen /\ op'.prior = op.prior

LEMMA StateMoves ==
    ASSUME ImagesTyped, NEW d \in D!Deployment, NEW s \in D!State, D!Moved(d, s)
    PROVE  /\ state' \in [D!Deployment -> D!State] /\ state'[d] = s
           /\ \A e \in D!Deployment \ {d} : state'[e] = state[e]
BY DEF ImagesTyped, D!Moved

LEMMA Sends ==
    ASSUME ImagesTyped, NEW c \in D!Command, D!Send(c)
    PROVE  /\ flight' = flight \cup {c} /\ flight' \subseteq D!Command
           /\ sent' \in [D!Command -> Nat] /\ sent'[c] = sent[c] + 1
           /\ \A x \in D!Command \ {c} : sent'[x] = sent[x]
BY DEF ImagesTyped, D!Send

LandsBuild(d) ==
    /\ <<"build", d>> \in flight /\ tag'[d] \in Image /\ running' = running
    /\ \A e \in D!Deployment \ {d} : tag'[e] = tag[e]
    /\ flight' = flight \ {<<"build", d>>}
LandsUp(d) ==
    /\ <<"up", d>> \in flight /\ D!Present(image[d]) /\ tag' = tag
    /\ flight' = flight \ {<<"up", d>>}
    /\ running' = running \/ (running'.by = d /\ running'.image = image[d])

MovedTo(d, s) ==
    /\ state' \in [D!Deployment -> D!State] /\ state'[d] = s
    /\ \A e \in D!Deployment \ {d} : state'[e] = state[e]

\* Pointers stay good when a deployment they do not name changes its state.
LEMMA PointersStay ==
    ASSUME ImagesTyped, PointersGood, NEW d \in D!Deployment, NEW s \in D!State,
           state[d] # "KNOWN_GOOD", MovedTo(d, s), UNCHANGED pointer,
           \A e \in D!Deployment \ {d} : image'[e] = image[e],
           s \in {"BUILT", "KNOWN_GOOD"} => image'[d] # None
    PROVE  PointersGood'
BY DEF PointersGood, Pointed, MovedTo

\* The service stays accounted for when it is left alone and a deployment that
\* does not account for it, or goes on accounting for it, changes its state.
LEMMA AccountsStay ==
    ASSUME ImagesTyped, D!ServiceAccounted, NEW d \in D!Deployment, NEW s \in D!State,
           MovedTo(d, s), UNCHANGED <<running, pointer, outcomeOf>>,
           \A e \in D!Deployment \ {d} : image'[e] = image[e],
           \/ state[d] \notin {"DEPLOYING", "HEALTH_CHECKING", "FAILED", "UNKNOWN"}
           \/ s \in {"DEPLOYING", "HEALTH_CHECKING", "FAILED", "UNKNOWN"} /\ image'[d] = image[d]
    PROVE  D!ServiceAccounted'
BY DEF D!ServiceAccounted, MovedTo

LEMMA PresentStays ==
    ASSUME NEW i, D!Present(i), \A e \in D!Deployment : tag[e] = i => tag'[e] = i
    PROVE  \E e \in D!Deployment : tag'[e] = i
BY DEF D!Present

-----------------------------------------------------------------------------
(* Every step keeps the invariant: what it does, and what follows.          *)

LEMMA PrepareKeeps ==
    ASSUME ImagesHold, NEW d \in D!Deployment, D!Prepare(d)
    PROVE  ImagesHold'
<1>0. /\ ImagesTyped /\ OperationRecorded /\ RemovalReviewed /\ PointersGood /\ NotYetSent
      /\ SeenOrAccounted /\ RollbackKept /\ D!EffectsOnce /\ D!ServiceAccounted
  BY DEF ImagesHold
<1>1. op \in Works
  BY <1>0 DEF ImagesTyped
<1>7. UNCHANGED <<image, outcomeOf, plan, pointer, pinned, retiredImages, receipt, resolved, review, tag, running, flight, op, mishaps, sent>>
  BY DEF D!Prepare, D!records, D!upkeep, D!dbase, D!daemon, D!clock
<1>8. /\ op.kind = "idle"
      /\ state[d] = "none"
      /\ MovedTo(d, "PREPARED")
      /\ epoch' = epoch \cup {d}
      /\ unexpired' = unexpired \cup {d}
  BY <1>0, RestingIs, StateMoves
  DEF D!Prepare, D!NextPlan, D!State, D!Unfinished, MovedTo
<1>9. ImagesTyped'
  BY <1>0, <1>7, <1>8 DEF ImagesTyped, MovedTo, WorkAt
<1>10. OperationRecorded'
  BY <1>0, <1>1, <1>7, <1>8, <1>9, ImagesKnow, WorksAre, DeploymentsOf, CommandsAre
  DEF OperationRecorded, MovedTo, WorkAt, Pointed, SentOf, D!Present
<1>11. RemovalReviewed'
  BY <1>0, <1>1, <1>7, <1>8, <1>9, ImagesKnow, WorksAre, DeploymentsOf, CommandsAre
  DEF RemovalReviewed, MovedTo, WorkAt, Pointed, SentOf, D!Present
<1>12. PointersGood'
  BY <1>0, <1>1, <1>7, <1>8, <1>9, ImagesKnow, WorksAre, DeploymentsOf, CommandsAre
  DEF PointersGood, MovedTo, WorkAt, Pointed, SentOf, D!Present
<1>13. NotYetSent'
  BY <1>0, <1>1, <1>7, <1>8, <1>9, ImagesKnow, WorksAre, DeploymentsOf, CommandsAre
  DEF NotYetSent, MovedTo, WorkAt, Pointed, SentOf, D!Present
<1>14. SeenOrAccounted'
  BY <1>0, <1>1, <1>7, <1>8, <1>9, ImagesKnow, WorksAre, DeploymentsOf, CommandsAre
  DEF SeenOrAccounted, MovedTo, WorkAt, Pointed, SentOf, D!Present
<1>15. RollbackKept'
  BY <1>0, <1>1, <1>7, <1>8, <1>9, ImagesKnow, WorksAre, DeploymentsOf, CommandsAre
  DEF RollbackKept, MovedTo, WorkAt, Pointed, SentOf, D!Present
<1>16. D!EffectsOnce'
  BY <1>0, <1>1, <1>7, <1>8, <1>9, ImagesKnow, WorksAre, DeploymentsOf, CommandsAre
  DEF D!EffectsOnce, MovedTo, WorkAt, Pointed, SentOf, D!Present
<1>17. D!ServiceAccounted'
  BY <1>0, <1>1, <1>7, <1>8, <1>9, ImagesKnow, WorksAre, DeploymentsOf, CommandsAre
  DEF D!ServiceAccounted, MovedTo, WorkAt
<1>. QED
  BY <1>9, <1>10, <1>11, <1>12, <1>13, <1>14, <1>15, <1>16, <1>17 DEF ImagesHold

LEMMA PrepareRollbackKeeps ==
    ASSUME ImagesHold, NEW d \in D!Deployment, NEW good \in D!Deployment, D!PrepareRollback(d, good)
    PROVE  ImagesHold'
<1>0. /\ ImagesTyped /\ OperationRecorded /\ RemovalReviewed /\ PointersGood /\ NotYetSent
      /\ SeenOrAccounted /\ RollbackKept /\ D!EffectsOnce /\ D!ServiceAccounted
  BY DEF ImagesHold
<1>1. op \in Works
  BY <1>0 DEF ImagesTyped
<1>2. /\ image' \in [D!Deployment -> Image \cup {None}] /\ image'[d] = image[good]
      /\ \A e \in D!Deployment \ {d} : image'[e] = image[e]
  BY <1>0 DEF ImagesTyped, D!PrepareRollback
<1>3. plan' \in [D!Deployment -> {None} \cup Plans]
  <2>1. [from |-> good, seen |-> running, revision |-> pointer.current] \in Plans
    BY <1>0, ImagesKnow DEF Plans, ImagesTyped
  <2>. QED
    BY <1>0, <2>1 DEF ImagesTyped, D!PrepareRollback
<1>7. UNCHANGED <<outcomeOf, pointer, pinned, retiredImages, receipt, resolved, review, tag, running, flight, op, mishaps, sent>>
  BY DEF D!PrepareRollback, D!records, D!upkeep, D!dbase, D!daemon, D!clock
<1>8. /\ op.kind = "idle"
      /\ state[d] = "none"
      /\ image[good] # None
      /\ MovedTo(d, "BUILT")
      /\ image' \in [D!Deployment -> Image \cup {None}]
      /\ image'[d] = image[good]
      /\ \A e \in D!Deployment \ {d} : image'[e] = image[e]
      /\ plan' \in [D!Deployment -> {None} \cup Plans]
      /\ epoch' = epoch \cup {d}
      /\ unexpired' = unexpired \cup {d}
  BY <1>0, <1>2, <1>3, RestingIs, StateMoves, ImagesKnow
  DEF D!PrepareRollback, D!NextPlan, D!State, D!Unfinished, MovedTo
<1>9. ImagesTyped'
  BY <1>0, <1>7, <1>8 DEF ImagesTyped, MovedTo, WorkAt
<1>10. OperationRecorded'
  BY <1>0, <1>1, <1>7, <1>8, <1>9, ImagesKnow, WorksAre, DeploymentsOf, CommandsAre
  DEF OperationRecorded, MovedTo, WorkAt, Pointed, SentOf, D!Present
<1>11. RemovalReviewed'
  BY <1>0, <1>1, <1>7, <1>8, <1>9, ImagesKnow, WorksAre, DeploymentsOf, CommandsAre
  DEF RemovalReviewed, MovedTo, WorkAt, Pointed, SentOf, D!Present
<1>12. PointersGood'
  BY <1>0, <1>1, <1>7, <1>8, <1>9, ImagesKnow, WorksAre, DeploymentsOf, CommandsAre
  DEF PointersGood, MovedTo, WorkAt, Pointed, SentOf, D!Present
<1>13. NotYetSent'
  BY <1>0, <1>1, <1>7, <1>8, <1>9, ImagesKnow, WorksAre, DeploymentsOf, CommandsAre
  DEF NotYetSent, MovedTo, WorkAt, Pointed, SentOf, D!Present
<1>14. SeenOrAccounted'
  BY <1>0, <1>1, <1>7, <1>8, <1>9, ImagesKnow, WorksAre, DeploymentsOf, CommandsAre
  DEF SeenOrAccounted, MovedTo, WorkAt, Pointed, SentOf, D!Present
<1>15. RollbackKept'
  <2>1. ASSUME NEW e \in D!Deployment, Pointed(e)
      PROVE  D!Present(image[e])' /\ e \notin retiredImages'
    <3>1. e # d /\ D!Present(image[e]) /\ e \notin retiredImages
      BY <1>0, <1>8, <2>1 DEF PointersGood, RollbackKept
    <3>2. image'[e] = image[e] /\ tag' = tag /\ retiredImages' = retiredImages
      BY <1>7, <1>8, <3>1
    <3>. QED
      BY <3>1, <3>2 DEF D!Present
  <2>. QED
    BY <1>7, <2>1 DEF RollbackKept, Pointed
<1>16. D!EffectsOnce'
  BY <1>0, <1>1, <1>7, <1>8, <1>9, ImagesKnow, WorksAre, DeploymentsOf, CommandsAre
  DEF D!EffectsOnce, MovedTo, WorkAt, Pointed, SentOf, D!Present
<1>17. D!ServiceAccounted'
  BY <1>0, <1>1, <1>7, <1>8, <1>9, ImagesKnow, WorksAre, DeploymentsOf, CommandsAre
  DEF D!ServiceAccounted, MovedTo, WorkAt
<1>. QED
  BY <1>9, <1>10, <1>11, <1>12, <1>13, <1>14, <1>15, <1>16, <1>17 DEF ImagesHold

LEMMA LandKeeps ==
    ASSUME ImagesHold, NEW d \in D!Deployment, D!Land(d)
    PROVE  ImagesHold'
<1>0. /\ ImagesTyped /\ OperationRecorded /\ RemovalReviewed /\ PointersGood /\ NotYetSent
      /\ SeenOrAccounted /\ RollbackKept /\ D!EffectsOnce /\ D!ServiceAccounted
  BY DEF ImagesHold
<1>1. op \in Works
  BY <1>0 DEF ImagesTyped
<1>2. ASSUME <<"build", d>> \in flight, NEW i \in Image, tag' = [tag EXCEPT ![d] = i],
             flight' = flight \ {<<"build", d>>}, UNCHANGED running
      PROVE  /\ tag' \in [D!Deployment -> Image \cup {None}] /\ running' \in Containers \cup {None}
             /\ flight' \subseteq flight /\ LandsBuild(d)
  BY <1>0, <1>2 DEF ImagesTyped, LandsBuild
<1>3. ASSUME <<"up", d>> \in flight, flight' = flight \ {<<"up", d>>}, D!Present(image[d]),
             \/ running' = [image |-> image[d], by |-> d]
             \/ running # None /\ running.image = image[d] /\ UNCHANGED running,
             UNCHANGED tag
      PROVE  /\ tag' \in [D!Deployment -> Image \cup {None}] /\ running' \in Containers \cup {None}
             /\ flight' \subseteq flight /\ LandsUp(d)
  <2>1. image[d] \in Image
    BY <1>0, <1>3, ImagesKnow DEF NotYetSent, SentOf
  <2>2. [image |-> image[d], by |-> d] \in Containers
    BY <2>1 DEF Containers
  <2>. QED
    BY <1>0, <1>3, <2>2 DEF ImagesTyped, LandsUp
<1>4. LandsBuild(d) \/ LandsUp(d)
  BY <1>2, <1>3 DEF D!Land
<1>5. ASSUME NEW i \in Image, D!Present(i) PROVE D!Present(i)'
  <2>1. CASE LandsBuild(d)
    BY <1>0, <1>5, <2>1, DeploymentsOf DEF LandsBuild, D!Present, NotYetSent, SentOf
  <2>2. CASE LandsUp(d)
    BY <1>5, <2>2 DEF LandsUp, D!Present
  <2>. QED
    BY <1>4, <2>1, <2>2
<1>6. \/ running' = running
      \/ /\ running'.by = d /\ running'.image = image[d] /\ <<"up", d>> \in flight
         /\ state[d] \in {"DEPLOYING", "UNKNOWN"}
  BY <1>0, <1>4 DEF LandsBuild, LandsUp, NotYetSent, SentOf
<1>7. UNCHANGED <<state, image, outcomeOf, plan, pointer, pinned, retiredImages, receipt, resolved, review, op, epoch, unexpired, mishaps, sent>>
  BY DEF D!Land, D!records, D!upkeep, D!dbase, D!daemon, D!clock
<1>8. /\ tag' \in [D!Deployment -> Image \cup {None}]
      /\ running' \in Containers \cup {None}
      /\ flight' \subseteq flight
      /\ LandsBuild(d) \/ LandsUp(d)
  BY <1>2, <1>3 DEF D!Land
<1>9. ImagesTyped'
  BY <1>0, <1>7, <1>8 DEF ImagesTyped, MovedTo, WorkAt
<1>10. OperationRecorded'
  <2>1. CASE op.kind # "apply"
    BY <1>0, <1>7, <2>1 DEF OperationRecorded
  <2>2. CASE op.kind = "apply"
    <3>1. PICK r \in D!Deployment : r = op.d
      BY <1>1, <2>2, WorksAre
    <3>2. image[r] \in Image
      BY <1>0, <2>2, <3>1, ImagesKnow DEF OperationRecorded
    <3>3. (op.pc = "wait" /\ <<"up", r>> \notin flight') => D!Present(image[r])
      BY <1>0, <1>4, <2>2, <3>1, CommandsAre
      DEF OperationRecorded, LandsBuild, LandsUp
    <3>4. op.pc \in {"health", "commit"} => D!Present(image[r]) /\ <<"up", r>> \notin flight'
      BY <1>0, <1>8, <2>2, <3>1 DEF OperationRecorded
    <3>5. D!Present(image[r]) => D!Present(image[r])'
      BY <1>5, <1>7, <3>2 DEF D!Present
    <3>. QED
      BY <1>0, <1>7, <2>2, <3>1, <3>2, <3>3, <3>4, <3>5 DEF OperationRecorded
  <2>. QED
    BY <2>1, <2>2
<1>11. RemovalReviewed'
  BY <1>0, <1>1, <1>7, <1>8, <1>9, ImagesKnow, WorksAre, DeploymentsOf, CommandsAre
  DEF RemovalReviewed, MovedTo, WorkAt, Pointed, SentOf, D!Present, LandsBuild,
      LandsUp
<1>12. PointersGood'
  BY <1>0, <1>1, <1>7, <1>8, <1>9, ImagesKnow, WorksAre, DeploymentsOf, CommandsAre
  DEF PointersGood, MovedTo, WorkAt, Pointed, SentOf, D!Present, LandsBuild, LandsUp
<1>13. NotYetSent'
  BY <1>0, <1>1, <1>7, <1>8, <1>9, ImagesKnow, WorksAre, DeploymentsOf, CommandsAre
  DEF NotYetSent, MovedTo, WorkAt, Pointed, SentOf, D!Present, LandsBuild, LandsUp
<1>14. SeenOrAccounted'
  <2>1. (op.kind = "apply" /\ op.pc = "commit") => <<"up", op.d>> \notin flight
    BY <1>0 DEF OperationRecorded
  <2>. QED
    BY <1>0, <1>6, <1>7, <2>1 DEF SeenOrAccounted
<1>15. RollbackKept'
  <2>1. ASSUME NEW e \in D!Deployment, Pointed(e)
      PROVE  D!Present(image[e])' /\ e \notin retiredImages'
    <3>1. image[e] \in Image /\ D!Present(image[e]) /\ e \notin retiredImages
      BY <1>0, <2>1, ImagesKnow DEF PointersGood, RollbackKept
    <3>2. image'[e] = image[e]
      BY <1>7
    <3>. QED
      BY <1>5, <1>7, <3>1, <3>2 DEF D!Present
  <2>. QED
    BY <1>7, <2>1 DEF RollbackKept, Pointed
<1>16. D!EffectsOnce'
  BY <1>0, <1>1, <1>7, <1>8, <1>9, ImagesKnow, WorksAre, DeploymentsOf, CommandsAre
  DEF D!EffectsOnce, MovedTo, WorkAt, Pointed, SentOf, D!Present, LandsBuild,
      LandsUp
<1>17. D!ServiceAccounted'
  BY <1>0, <1>6, <1>7, <1>8 DEF D!ServiceAccounted
<1>. QED
  BY <1>9, <1>10, <1>11, <1>12, <1>13, <1>14, <1>15, <1>16, <1>17 DEF ImagesHold

LEMMA LostKeeps ==
    ASSUME ImagesHold, NEW c \in D!Command, D!Lost(c)
    PROVE  ImagesHold'
<1>0. /\ ImagesTyped /\ OperationRecorded /\ RemovalReviewed /\ PointersGood /\ NotYetSent
      /\ SeenOrAccounted /\ RollbackKept /\ D!EffectsOnce /\ D!ServiceAccounted
  BY DEF ImagesHold
<1>1. op \in Works
  BY <1>0 DEF ImagesTyped
<1>2. c \in flight /\ flight' = flight \ {c}
  BY DEF D!Lost
<1>3. /\ op' \in Works
      /\ \/ op' = op /\ (op.kind = "apply" /\ op.pc = "wait" => c # <<"up", op.d>>)
         \/ op.kind \in {"build", "apply"} /\ op.pc = "wait" /\ WorkAt("failed")
  <2>1. CASE op.kind \in {"build", "apply"} /\ op.d = c[2] /\ op.pc = "wait"
    <3>1. op' = [op EXCEPT !.pc = "failed"]
      BY <2>1 DEF D!Lost
    <3>. QED
      BY <1>1, <2>1, <3>1, BuildAt, ApplyAt DEF WorkAt
  <2>2. CASE ~ (op.kind \in {"build", "apply"} /\ op.d = c[2] /\ op.pc = "wait")
    <3>1. op' = op
      BY <2>2 DEF D!Lost
    <3>2. op.kind = "apply" /\ op.pc = "wait" => c # <<"up", op.d>>
      BY <2>2
    <3>. QED
      BY <1>1, <3>1, <3>2
  <2>. QED
    BY <2>1, <2>2
<1>7. UNCHANGED <<state, image, outcomeOf, plan, pointer, pinned, retiredImages, receipt, resolved, review, tag, running, epoch, unexpired, mishaps, sent>>
  BY DEF D!Lost, D!records, D!upkeep, D!dbase, D!daemon, D!clock
<1>8. /\ c \in flight
      /\ flight' = flight \ {c}
      /\ op' \in Works
      /\ \/ op' = op /\ (op.kind = "apply" /\ op.pc = "wait" => c # <<"up", op.d>>)
         \/ op.kind \in {"build", "apply"} /\ op.pc = "wait" /\ WorkAt("failed")
  BY <1>2, <1>3
<1>9. ImagesTyped'
  BY <1>0, <1>7, <1>8 DEF ImagesTyped, MovedTo, WorkAt
<1>10. OperationRecorded'
  BY <1>0, <1>1, <1>7, <1>8, <1>9, ImagesKnow, WorksAre, DeploymentsOf, CommandsAre
  DEF OperationRecorded, MovedTo, WorkAt, Pointed, SentOf, D!Present
<1>11. RemovalReviewed'
  BY <1>0, <1>1, <1>7, <1>8, <1>9, ImagesKnow, WorksAre, DeploymentsOf, CommandsAre
  DEF RemovalReviewed, MovedTo, WorkAt, Pointed, SentOf, D!Present
<1>12. PointersGood'
  BY <1>0, <1>1, <1>7, <1>8, <1>9, ImagesKnow, WorksAre, DeploymentsOf, CommandsAre
  DEF PointersGood, MovedTo, WorkAt, Pointed, SentOf, D!Present
<1>13. NotYetSent'
  BY <1>0, <1>1, <1>7, <1>8, <1>9, ImagesKnow, WorksAre, DeploymentsOf, CommandsAre
  DEF NotYetSent, MovedTo, WorkAt, Pointed, SentOf, D!Present
<1>14. SeenOrAccounted'
  BY <1>0, <1>1, <1>7, <1>8, <1>9, ImagesKnow, WorksAre, DeploymentsOf, CommandsAre
  DEF SeenOrAccounted, MovedTo, WorkAt, Pointed, SentOf, D!Present
<1>15. RollbackKept'
  BY <1>0, <1>1, <1>7, <1>8, <1>9, ImagesKnow, WorksAre, DeploymentsOf, CommandsAre
  DEF RollbackKept, MovedTo, WorkAt, Pointed, SentOf, D!Present
<1>16. D!EffectsOnce'
  BY <1>0, <1>1, <1>7, <1>8, <1>9, ImagesKnow, WorksAre, DeploymentsOf, CommandsAre
  DEF D!EffectsOnce, MovedTo, WorkAt, Pointed, SentOf, D!Present
<1>17. D!ServiceAccounted'
  BY <1>0, <1>1, <1>7, <1>8, <1>9, ImagesKnow, WorksAre, DeploymentsOf, CommandsAre
  DEF D!ServiceAccounted, MovedTo, WorkAt
<1>. QED
  BY <1>9, <1>10, <1>11, <1>12, <1>13, <1>14, <1>15, <1>16, <1>17 DEF ImagesHold

LEMMA UncertainKeeps ==
    ASSUME ImagesHold, D!Uncertain
    PROVE  ImagesHold'
<1>0. /\ ImagesTyped /\ OperationRecorded /\ RemovalReviewed /\ PointersGood /\ NotYetSent
      /\ SeenOrAccounted /\ RollbackKept /\ D!EffectsOnce /\ D!ServiceAccounted
  BY DEF ImagesHold
<1>1. op \in Works
  BY <1>0 DEF ImagesTyped
<1>5. PICK r \in D!Deployment : r = op.d
  BY <1>1, WorksAre DEF D!Uncertain
<1>6. state[r] \in {"BUILDING", "DEPLOYING", "HEALTH_CHECKING"}
  BY <1>0, <1>1, <1>5, WorksAre, DeploymentsOf, CommandsAre
  DEF OperationRecorded, NotYetSent, SentOf, D!Uncertain
<1>7. UNCHANGED <<image, outcomeOf, plan, pointer, pinned, retiredImages, receipt, resolved, review, tag, running, flight, epoch, unexpired, mishaps, sent>>
  BY DEF D!Uncertain, D!records, D!upkeep, D!dbase, D!daemon, D!clock
<1>8. /\ op.kind \in {"build", "apply"}
      /\ op.pc # "checked"
      /\ MovedTo(op.d, "UNKNOWN")
      /\ op' \in Works
      /\ op'.kind = "idle"
  BY <1>0, <1>1, RestingIs, WorksAre, StateMoves, ImagesKnow, ImagesAssumed
  DEF D!Uncertain, D!State, D!Unfinished, MovedTo, ImagesTyped
<1>9. ImagesTyped'
  BY <1>0, <1>7, <1>8 DEF ImagesTyped, MovedTo, WorkAt
<1>10. OperationRecorded'
  BY <1>0, <1>1, <1>7, <1>8, <1>9, ImagesKnow, WorksAre, DeploymentsOf, CommandsAre
  DEF OperationRecorded, MovedTo, WorkAt, Pointed, SentOf, D!Present
<1>11. RemovalReviewed'
  BY <1>0, <1>1, <1>7, <1>8, <1>9, ImagesKnow, WorksAre, DeploymentsOf, CommandsAre
  DEF RemovalReviewed, MovedTo, WorkAt, Pointed, SentOf, D!Present
<1>12. PointersGood'
  BY <1>0, <1>5, <1>6, <1>7, <1>8, <1>9, PointersStay
  DEF D!State, D!Unfinished, ImagesTyped
<1>13. NotYetSent'
  BY <1>0, <1>1, <1>7, <1>8, <1>9, ImagesKnow, WorksAre, DeploymentsOf, CommandsAre
  DEF NotYetSent, MovedTo, WorkAt, Pointed, SentOf, D!Present
<1>14. SeenOrAccounted'
  BY <1>0, <1>1, <1>7, <1>8, <1>9, ImagesKnow, WorksAre, DeploymentsOf, CommandsAre
  DEF SeenOrAccounted, MovedTo, WorkAt, Pointed, SentOf, D!Present
<1>15. RollbackKept'
  BY <1>0, <1>1, <1>7, <1>8, <1>9, ImagesKnow, WorksAre, DeploymentsOf, CommandsAre
  DEF RollbackKept, MovedTo, WorkAt, Pointed, SentOf, D!Present
<1>16. D!EffectsOnce'
  BY <1>0, <1>1, <1>7, <1>8, <1>9, ImagesKnow, WorksAre, DeploymentsOf, CommandsAre
  DEF D!EffectsOnce, MovedTo, WorkAt, Pointed, SentOf, D!Present
<1>17. D!ServiceAccounted'
  BY <1>0, <1>1, <1>7, <1>8, <1>9, ImagesKnow, WorksAre, DeploymentsOf, CommandsAre
  DEF D!ServiceAccounted, MovedTo, WorkAt
<1>. QED
  BY <1>9, <1>10, <1>11, <1>12, <1>13, <1>14, <1>15, <1>16, <1>17 DEF ImagesHold

LEMMA TimeoutKeeps ==
    ASSUME ImagesHold, D!Timeout
    PROVE  ImagesHold'
<1>0. /\ ImagesTyped /\ OperationRecorded /\ RemovalReviewed /\ PointersGood /\ NotYetSent
      /\ SeenOrAccounted /\ RollbackKept /\ D!EffectsOnce /\ D!ServiceAccounted
  BY DEF ImagesHold
<1>1. op \in Works
  BY <1>0 DEF ImagesTyped
<1>5. PICK r \in D!Deployment : r = op.d
  BY <1>1, WorksAre DEF D!Timeout
<1>6. state[r] \in {"BUILDING", "DEPLOYING", "HEALTH_CHECKING"}
  BY <1>0, <1>1, <1>5, WorksAre, DeploymentsOf, CommandsAre
  DEF OperationRecorded, NotYetSent, SentOf, D!Timeout
<1>7. UNCHANGED <<image, outcomeOf, plan, pointer, pinned, retiredImages, receipt, resolved, review, tag, running, flight, epoch, unexpired, sent>>
  BY DEF D!Timeout, D!records, D!upkeep, D!dbase, D!daemon, D!clock
<1>8. /\ op.kind \in {"build", "apply"}
      /\ op.pc = "wait"
      /\ MovedTo(op.d, "UNKNOWN")
      /\ op' \in Works
      /\ op'.kind = "idle"
      /\ mishaps' \in 0 .. MaxMishaps
  BY <1>0, <1>1, RestingIs, WorksAre, StateMoves, ImagesKnow, ImagesAssumed
  DEF D!Timeout, D!State, D!Unfinished, MovedTo, ImagesTyped
<1>9. ImagesTyped'
  BY <1>0, <1>7, <1>8 DEF ImagesTyped, MovedTo, WorkAt
<1>10. OperationRecorded'
  BY <1>0, <1>1, <1>7, <1>8, <1>9, ImagesKnow, WorksAre, DeploymentsOf, CommandsAre
  DEF OperationRecorded, MovedTo, WorkAt, Pointed, SentOf, D!Present
<1>11. RemovalReviewed'
  BY <1>0, <1>1, <1>7, <1>8, <1>9, ImagesKnow, WorksAre, DeploymentsOf, CommandsAre
  DEF RemovalReviewed, MovedTo, WorkAt, Pointed, SentOf, D!Present
<1>12. PointersGood'
  BY <1>0, <1>5, <1>6, <1>7, <1>8, <1>9, PointersStay
  DEF D!State, D!Unfinished, ImagesTyped
<1>13. NotYetSent'
  BY <1>0, <1>1, <1>7, <1>8, <1>9, ImagesKnow, WorksAre, DeploymentsOf, CommandsAre
  DEF NotYetSent, MovedTo, WorkAt, Pointed, SentOf, D!Present
<1>14. SeenOrAccounted'
  BY <1>0, <1>1, <1>7, <1>8, <1>9, ImagesKnow, WorksAre, DeploymentsOf, CommandsAre
  DEF SeenOrAccounted, MovedTo, WorkAt, Pointed, SentOf, D!Present
<1>15. RollbackKept'
  BY <1>0, <1>1, <1>7, <1>8, <1>9, ImagesKnow, WorksAre, DeploymentsOf, CommandsAre
  DEF RollbackKept, MovedTo, WorkAt, Pointed, SentOf, D!Present
<1>16. D!EffectsOnce'
  BY <1>0, <1>1, <1>7, <1>8, <1>9, ImagesKnow, WorksAre, DeploymentsOf, CommandsAre
  DEF D!EffectsOnce, MovedTo, WorkAt, Pointed, SentOf, D!Present
<1>17. D!ServiceAccounted'
  BY <1>0, <1>1, <1>7, <1>8, <1>9, ImagesKnow, WorksAre, DeploymentsOf, CommandsAre
  DEF D!ServiceAccounted, MovedTo, WorkAt
<1>. QED
  BY <1>9, <1>10, <1>11, <1>12, <1>13, <1>14, <1>15, <1>16, <1>17 DEF ImagesHold

LEMMA BuildKeeps ==
    ASSUME ImagesHold, NEW d \in D!Deployment, D!Build(d)
    PROVE  ImagesHold'
<1>0. /\ ImagesTyped /\ OperationRecorded /\ RemovalReviewed /\ PointersGood /\ NotYetSent
      /\ SeenOrAccounted /\ RollbackKept /\ D!EffectsOnce /\ D!ServiceAccounted
  BY DEF ImagesHold
<1>1. op \in Works
  BY <1>0 DEF ImagesTyped
<1>2. LET n == [kind |-> "build", d |-> d, pc |-> "send"] IN
      n \in Works /\ n.kind = "build" /\ n.d = d /\ n.pc = "send"
  BY DEF Works
<1>3. /\ op = D!Idle /\ state[d] = "PREPARED" /\ D!Moved(d, "BUILDING")
      /\ op' = [kind |-> "build", d |-> d, pc |-> "send"]
  BY DEF D!Build
<1>4. MovedTo(d, "BUILDING") /\ op.kind = "idle"
  BY <1>0, <1>3, RestingIs, StateMoves DEF D!State, D!Unfinished, MovedTo
<1>7. UNCHANGED <<image, outcomeOf, plan, pointer, pinned, retiredImages, receipt, resolved, review, tag, running, flight, epoch, unexpired, mishaps, sent>>
  BY DEF D!Build, D!records, D!upkeep, D!dbase, D!daemon, D!clock
<1>8. /\ op.kind = "idle"
      /\ state[d] = "PREPARED"
      /\ MovedTo(d, "BUILDING")
      /\ op' \in Works
      /\ op'.kind = "build"
      /\ op'.d = d
      /\ op'.pc = "send"
  BY <1>2, <1>3, <1>4
<1>9. ImagesTyped'
  BY <1>0, <1>7, <1>8 DEF ImagesTyped, MovedTo, WorkAt
<1>10. OperationRecorded'
  BY <1>0, <1>1, <1>7, <1>8, <1>9, ImagesKnow, WorksAre, DeploymentsOf, CommandsAre
  DEF OperationRecorded, MovedTo, WorkAt, Pointed, SentOf, D!Present
<1>11. RemovalReviewed'
  BY <1>0, <1>1, <1>7, <1>8, <1>9, ImagesKnow, WorksAre, DeploymentsOf, CommandsAre
  DEF RemovalReviewed, MovedTo, WorkAt, Pointed, SentOf, D!Present
<1>12. PointersGood'
  BY <1>0, <1>1, <1>7, <1>8, <1>9, ImagesKnow, WorksAre, DeploymentsOf, CommandsAre
  DEF PointersGood, MovedTo, WorkAt, Pointed, SentOf, D!Present
<1>13. NotYetSent'
  BY <1>0, <1>1, <1>7, <1>8, <1>9, ImagesKnow, WorksAre, DeploymentsOf, CommandsAre
  DEF NotYetSent, MovedTo, WorkAt, Pointed, SentOf, D!Present
<1>14. SeenOrAccounted'
  BY <1>0, <1>1, <1>7, <1>8, <1>9, ImagesKnow, WorksAre, DeploymentsOf, CommandsAre
  DEF SeenOrAccounted, MovedTo, WorkAt, Pointed, SentOf, D!Present
<1>15. RollbackKept'
  BY <1>0, <1>1, <1>7, <1>8, <1>9, ImagesKnow, WorksAre, DeploymentsOf, CommandsAre
  DEF RollbackKept, MovedTo, WorkAt, Pointed, SentOf, D!Present
<1>16. D!EffectsOnce'
  BY <1>0, <1>1, <1>7, <1>8, <1>9, ImagesKnow, WorksAre, DeploymentsOf, CommandsAre
  DEF D!EffectsOnce, MovedTo, WorkAt, Pointed, SentOf, D!Present
<1>17. D!ServiceAccounted'
  BY <1>0, <1>1, <1>7, <1>8, <1>9, ImagesKnow, WorksAre, DeploymentsOf, CommandsAre
  DEF D!ServiceAccounted, MovedTo, WorkAt
<1>. QED
  BY <1>9, <1>10, <1>11, <1>12, <1>13, <1>14, <1>15, <1>16, <1>17 DEF ImagesHold

LEMMA BuildSendKeeps ==
    ASSUME ImagesHold, D!BuildSend
    PROVE  ImagesHold'
<1>0. /\ ImagesTyped /\ OperationRecorded /\ RemovalReviewed /\ PointersGood /\ NotYetSent
      /\ SeenOrAccounted /\ RollbackKept /\ D!EffectsOnce /\ D!ServiceAccounted
  BY DEF ImagesHold
<1>1. op \in Works
  BY <1>0 DEF ImagesTyped
<1>5. PICK r \in D!Deployment : r = op.d
  BY <1>1, WorksAre DEF D!BuildSend
<1>6. sent[<<"build", op.d>>] = 0
  BY <1>0, <1>1, <1>5, WorksAre, DeploymentsOf, CommandsAre
  DEF OperationRecorded, NotYetSent, SentOf, D!BuildSend
<1>2. <<"build", op.d>> \in D!Command
  BY <1>1, CommandsAre, WorksAre DEF D!BuildSend
<1>7. UNCHANGED <<state, image, outcomeOf, plan, pointer, pinned, retiredImages, receipt, resolved, review, tag, running, epoch, unexpired, mishaps>>
  BY DEF D!BuildSend, D!records, D!upkeep, D!dbase, D!daemon, D!clock
<1>8. /\ op.kind = "build"
      /\ op.pc = "send"
      /\ WorkAt("wait")
      /\ flight' = flight \cup {<<"build", op.d>>}
      /\ flight' \subseteq D!Command
      /\ sent' \in [D!Command -> Nat]
      /\ sent'[<<"build", op.d>>] = sent[<<"build", op.d>>] + 1
      /\ \A x \in D!Command \ {<<"build", op.d>>} : sent'[x] = sent[x]
  BY <1>0, <1>1, <1>2, BuildAt, Sends, CommandsAre, WorksAre DEF D!BuildSend, WorkAt
<1>9. ImagesTyped'
  BY <1>0, <1>7, <1>8 DEF ImagesTyped, MovedTo, WorkAt
<1>10. OperationRecorded'
  BY <1>0, <1>1, <1>7, <1>8, <1>9, ImagesKnow, WorksAre, DeploymentsOf, CommandsAre
  DEF OperationRecorded, MovedTo, WorkAt, Pointed, SentOf, D!Present
<1>11. RemovalReviewed'
  BY <1>0, <1>1, <1>7, <1>8, <1>9, ImagesKnow, WorksAre, DeploymentsOf, CommandsAre
  DEF RemovalReviewed, MovedTo, WorkAt, Pointed, SentOf, D!Present
<1>12. PointersGood'
  BY <1>0, <1>1, <1>7, <1>8, <1>9, ImagesKnow, WorksAre, DeploymentsOf, CommandsAre
  DEF PointersGood, MovedTo, WorkAt, Pointed, SentOf, D!Present
<1>13. NotYetSent'
  <2>1. ASSUME NEW e \in D!Deployment, e = r PROVE SentOf(e)'
    BY <1>0, <1>1, <1>5, <1>6, <1>7, <1>8, <1>9, <2>1, ImagesKnow, WorksAre,
       DeploymentsOf, CommandsAre
    DEF NotYetSent, SentOf, OperationRecorded, MovedTo, WorkAt
  <2>2. ASSUME NEW e \in D!Deployment, e # r PROVE SentOf(e)'
    BY <1>0, <1>1, <1>5, <1>6, <1>7, <1>8, <1>9, <2>2, ImagesKnow, WorksAre,
       DeploymentsOf, CommandsAre
    DEF NotYetSent, SentOf, MovedTo, WorkAt
  <2>. QED
    BY <2>1, <2>2 DEF NotYetSent
<1>14. SeenOrAccounted'
  BY <1>0, <1>1, <1>7, <1>8, <1>9, ImagesKnow, WorksAre, DeploymentsOf, CommandsAre
  DEF SeenOrAccounted, MovedTo, WorkAt, Pointed, SentOf, D!Present
<1>15. RollbackKept'
  BY <1>0, <1>1, <1>7, <1>8, <1>9, ImagesKnow, WorksAre, DeploymentsOf, CommandsAre
  DEF RollbackKept, MovedTo, WorkAt, Pointed, SentOf, D!Present
<1>16. D!EffectsOnce'
  <2>1. ASSUME NEW c \in D!Command PROVE sent'[c] <= 1
    <3>1. CASE c = <<"build", op.d>>
      BY <1>6, <1>8, <3>1
    <3>2. CASE c # <<"build", op.d>>
      BY <1>0, <1>8, <3>2 DEF D!EffectsOnce
    <3>. QED
      BY <3>1, <3>2
  <2>. QED
    BY <2>1 DEF D!EffectsOnce
<1>17. D!ServiceAccounted'
  BY <1>0, <1>1, <1>7, <1>8, <1>9, ImagesKnow, WorksAre, DeploymentsOf, CommandsAre
  DEF D!ServiceAccounted, MovedTo, WorkAt
<1>. QED
  BY <1>9, <1>10, <1>11, <1>12, <1>13, <1>14, <1>15, <1>16, <1>17 DEF ImagesHold

LEMMA ApplySendKeeps ==
    ASSUME ImagesHold, D!ApplySend
    PROVE  ImagesHold'
<1>0. /\ ImagesTyped /\ OperationRecorded /\ RemovalReviewed /\ PointersGood /\ NotYetSent
      /\ SeenOrAccounted /\ RollbackKept /\ D!EffectsOnce /\ D!ServiceAccounted
  BY DEF ImagesHold
<1>1. op \in Works
  BY <1>0 DEF ImagesTyped
<1>5. PICK r \in D!Deployment : r = op.d
  BY <1>1, WorksAre DEF D!ApplySend
<1>6. sent[<<"up", op.d>>] = 0
  BY <1>0, <1>1, <1>5, WorksAre, DeploymentsOf, CommandsAre
  DEF OperationRecorded, NotYetSent, SentOf, D!ApplySend
<1>2. <<"up", op.d>> \in D!Command
  BY <1>1, CommandsAre, WorksAre DEF D!ApplySend
<1>7. UNCHANGED <<state, image, outcomeOf, plan, pointer, pinned, retiredImages, receipt, resolved, review, tag, running, epoch, unexpired, mishaps>>
  BY DEF D!ApplySend, D!records, D!upkeep, D!dbase, D!daemon, D!clock
<1>8. /\ op.kind = "apply"
      /\ op.pc = "send"
      /\ WorkAt("wait")
      /\ flight' = flight \cup {<<"up", op.d>>}
      /\ flight' \subseteq D!Command
      /\ sent' \in [D!Command -> Nat]
      /\ sent'[<<"up", op.d>>] = sent[<<"up", op.d>>] + 1
      /\ \A x \in D!Command \ {<<"up", op.d>>} : sent'[x] = sent[x]
  BY <1>0, <1>1, <1>2, ApplyAt, Sends, CommandsAre, WorksAre DEF D!ApplySend, WorkAt
<1>9. ImagesTyped'
  BY <1>0, <1>7, <1>8 DEF ImagesTyped, MovedTo, WorkAt
<1>10. OperationRecorded'
  BY <1>0, <1>1, <1>7, <1>8, <1>9, ImagesKnow, WorksAre, DeploymentsOf, CommandsAre
  DEF OperationRecorded, MovedTo, WorkAt, Pointed, SentOf, D!Present
<1>11. RemovalReviewed'
  BY <1>0, <1>1, <1>7, <1>8, <1>9, ImagesKnow, WorksAre, DeploymentsOf, CommandsAre
  DEF RemovalReviewed, MovedTo, WorkAt, Pointed, SentOf, D!Present
<1>12. PointersGood'
  BY <1>0, <1>1, <1>7, <1>8, <1>9, ImagesKnow, WorksAre, DeploymentsOf, CommandsAre
  DEF PointersGood, MovedTo, WorkAt, Pointed, SentOf, D!Present
<1>13. NotYetSent'
  <2>1. ASSUME NEW e \in D!Deployment, e = r PROVE SentOf(e)'
    BY <1>0, <1>1, <1>5, <1>6, <1>7, <1>8, <1>9, <2>1, ImagesKnow, WorksAre,
       DeploymentsOf, CommandsAre
    DEF NotYetSent, SentOf, OperationRecorded, MovedTo, WorkAt
  <2>2. ASSUME NEW e \in D!Deployment, e # r PROVE SentOf(e)'
    BY <1>0, <1>1, <1>5, <1>6, <1>7, <1>8, <1>9, <2>2, ImagesKnow, WorksAre,
       DeploymentsOf, CommandsAre
    DEF NotYetSent, SentOf, MovedTo, WorkAt
  <2>. QED
    BY <2>1, <2>2 DEF NotYetSent
<1>14. SeenOrAccounted'
  BY <1>0, <1>1, <1>7, <1>8, <1>9, ImagesKnow, WorksAre, DeploymentsOf, CommandsAre
  DEF SeenOrAccounted, MovedTo, WorkAt, Pointed, SentOf, D!Present
<1>15. RollbackKept'
  BY <1>0, <1>1, <1>7, <1>8, <1>9, ImagesKnow, WorksAre, DeploymentsOf, CommandsAre
  DEF RollbackKept, MovedTo, WorkAt, Pointed, SentOf, D!Present
<1>16. D!EffectsOnce'
  <2>1. ASSUME NEW c \in D!Command PROVE sent'[c] <= 1
    <3>1. CASE c = <<"up", op.d>>
      BY <1>6, <1>8, <3>1
    <3>2. CASE c # <<"up", op.d>>
      BY <1>0, <1>8, <3>2 DEF D!EffectsOnce
    <3>. QED
      BY <3>1, <3>2
  <2>. QED
    BY <2>1 DEF D!EffectsOnce
<1>17. D!ServiceAccounted'
  BY <1>0, <1>1, <1>7, <1>8, <1>9, ImagesKnow, WorksAre, DeploymentsOf, CommandsAre
  DEF D!ServiceAccounted, MovedTo, WorkAt
<1>. QED
  BY <1>9, <1>10, <1>11, <1>12, <1>13, <1>14, <1>15, <1>16, <1>17 DEF ImagesHold

LEMMA BuildReplyKeeps ==
    ASSUME ImagesHold, D!BuildReply
    PROVE  ImagesHold'
<1>0. /\ ImagesTyped /\ OperationRecorded /\ RemovalReviewed /\ PointersGood /\ NotYetSent
      /\ SeenOrAccounted /\ RollbackKept /\ D!EffectsOnce /\ D!ServiceAccounted
  BY DEF ImagesHold
<1>1. op \in Works
  BY <1>0 DEF ImagesTyped
<1>5. PICK r \in D!Deployment : r = op.d
  BY <1>1, WorksAre DEF D!BuildReply
<1>6. state[r] = "BUILDING"
  BY <1>0, <1>1, <1>5, WorksAre, DeploymentsOf, CommandsAre
  DEF OperationRecorded, NotYetSent, SentOf, D!BuildReply
<1>7. UNCHANGED <<state, outcomeOf, plan, pointer, pinned, retiredImages, receipt, resolved, review, tag, running, flight, epoch, unexpired, mishaps, sent>>
  BY DEF D!BuildReply, D!records, D!upkeep, D!dbase, D!daemon, D!clock
<1>8. /\ op.kind = "build"
      /\ op.pc = "wait"
      /\ tag[op.d] # None
      /\ op.d \in D!Deployment
      /\ WorkAt("verify")
      /\ image' \in [D!Deployment -> Image \cup {None}]
      /\ image'[op.d] = tag[op.d]
      /\ \A e \in D!Deployment \ {op.d} : image'[e] = image[e]
  BY <1>0, <1>1, BuildAt, WorksAre DEF D!BuildReply, WorkAt, ImagesTyped
<1>9. ImagesTyped'
  BY <1>0, <1>7, <1>8 DEF ImagesTyped, MovedTo, WorkAt
<1>10. OperationRecorded'
  BY <1>0, <1>1, <1>7, <1>8, <1>9, ImagesKnow, WorksAre, DeploymentsOf, CommandsAre
  DEF OperationRecorded, MovedTo, WorkAt, Pointed, SentOf, D!Present
<1>11. RemovalReviewed'
  BY <1>0, <1>1, <1>7, <1>8, <1>9, ImagesKnow, WorksAre, DeploymentsOf, CommandsAre
  DEF RemovalReviewed, MovedTo, WorkAt, Pointed, SentOf, D!Present
<1>12. PointersGood'
  BY <1>0, <1>1, <1>7, <1>8, <1>9, ImagesKnow, WorksAre, DeploymentsOf, CommandsAre
  DEF PointersGood, MovedTo, WorkAt, Pointed, SentOf, D!Present
<1>13. NotYetSent'
  BY <1>0, <1>1, <1>7, <1>8, <1>9, ImagesKnow, WorksAre, DeploymentsOf, CommandsAre
  DEF NotYetSent, MovedTo, WorkAt, Pointed, SentOf, D!Present
<1>14. SeenOrAccounted'
  BY <1>0, <1>1, <1>7, <1>8, <1>9, ImagesKnow, WorksAre, DeploymentsOf, CommandsAre
  DEF SeenOrAccounted, MovedTo, WorkAt, Pointed, SentOf, D!Present
<1>15. RollbackKept'
  BY <1>0, <1>1, <1>7, <1>8, <1>9, ImagesKnow, WorksAre, DeploymentsOf, CommandsAre
  DEF RollbackKept, MovedTo, WorkAt, Pointed, SentOf, D!Present
<1>16. D!EffectsOnce'
  BY <1>0, <1>1, <1>7, <1>8, <1>9, ImagesKnow, WorksAre, DeploymentsOf, CommandsAre
  DEF D!EffectsOnce, MovedTo, WorkAt, Pointed, SentOf, D!Present
<1>17. D!ServiceAccounted'
  BY <1>0, <1>5, <1>6, <1>7, <1>8 DEF D!ServiceAccounted
<1>. QED
  BY <1>9, <1>10, <1>11, <1>12, <1>13, <1>14, <1>15, <1>16, <1>17 DEF ImagesHold

LEMMA BuiltKeeps ==
    ASSUME ImagesHold, D!Built
    PROVE  ImagesHold'
<1>0. /\ ImagesTyped /\ OperationRecorded /\ RemovalReviewed /\ PointersGood /\ NotYetSent
      /\ SeenOrAccounted /\ RollbackKept /\ D!EffectsOnce /\ D!ServiceAccounted
  BY DEF ImagesHold
<1>1. op \in Works
  BY <1>0 DEF ImagesTyped
<1>5. PICK r \in D!Deployment : r = op.d
  BY <1>1, WorksAre DEF D!Built
<1>6. state[r] = "BUILDING" /\ image[r] # None
  BY <1>0, <1>1, <1>5, WorksAre, DeploymentsOf, CommandsAre
  DEF OperationRecorded, NotYetSent, SentOf, D!Built
<1>7. UNCHANGED <<image, outcomeOf, plan, pointer, pinned, retiredImages, receipt, resolved, review, tag, running, flight, epoch, unexpired, mishaps, sent>>
  BY DEF D!Built, D!records, D!upkeep, D!dbase, D!daemon, D!clock
<1>8. /\ op.kind = "build"
      /\ op.pc = "verify"
      /\ op.d \in D!Deployment
      /\ MovedTo(op.d, "BUILT")
      /\ op' \in Works
      /\ op'.kind = "idle"
  BY <1>0, <1>1, RestingIs, WorksAre, StateMoves, ImagesKnow, ImagesAssumed
  DEF D!Built, D!State, D!Unfinished, MovedTo, ImagesTyped
<1>9. ImagesTyped'
  BY <1>0, <1>7, <1>8 DEF ImagesTyped, MovedTo, WorkAt
<1>10. OperationRecorded'
  BY <1>0, <1>1, <1>7, <1>8, <1>9, ImagesKnow, WorksAre, DeploymentsOf, CommandsAre
  DEF OperationRecorded, MovedTo, WorkAt, Pointed, SentOf, D!Present
<1>11. RemovalReviewed'
  BY <1>0, <1>1, <1>7, <1>8, <1>9, ImagesKnow, WorksAre, DeploymentsOf, CommandsAre
  DEF RemovalReviewed, MovedTo, WorkAt, Pointed, SentOf, D!Present
<1>12. PointersGood'
  BY <1>0, <1>5, <1>6, <1>7, <1>8, <1>9, PointersStay
  DEF D!State, D!Unfinished, ImagesTyped
<1>13. NotYetSent'
  <2>1. ASSUME NEW e \in D!Deployment, e = r PROVE SentOf(e)'
    BY <1>0, <1>1, <1>5, <1>6, <1>7, <1>8, <1>9, <2>1, ImagesKnow, WorksAre,
       DeploymentsOf, CommandsAre
    DEF NotYetSent, SentOf, OperationRecorded, MovedTo, WorkAt
  <2>2. ASSUME NEW e \in D!Deployment, e # r PROVE SentOf(e)'
    BY <1>0, <1>1, <1>5, <1>6, <1>7, <1>8, <1>9, <2>2, ImagesKnow, WorksAre,
       DeploymentsOf, CommandsAre
    DEF NotYetSent, SentOf, MovedTo, WorkAt
  <2>. QED
    BY <2>1, <2>2 DEF NotYetSent
<1>14. SeenOrAccounted'
  BY <1>0, <1>1, <1>7, <1>8, <1>9, ImagesKnow, WorksAre, DeploymentsOf, CommandsAre
  DEF SeenOrAccounted, MovedTo, WorkAt, Pointed, SentOf, D!Present
<1>15. RollbackKept'
  BY <1>0, <1>1, <1>7, <1>8, <1>9, ImagesKnow, WorksAre, DeploymentsOf, CommandsAre
  DEF RollbackKept, MovedTo, WorkAt, Pointed, SentOf, D!Present
<1>16. D!EffectsOnce'
  BY <1>0, <1>1, <1>7, <1>8, <1>9, ImagesKnow, WorksAre, DeploymentsOf, CommandsAre
  DEF D!EffectsOnce, MovedTo, WorkAt, Pointed, SentOf, D!Present
<1>17. D!ServiceAccounted'
  BY <1>0, <1>5, <1>6, <1>7, <1>8, <1>9, AccountsStay
  DEF D!State, D!Unfinished, ImagesTyped
<1>. QED
  BY <1>9, <1>10, <1>11, <1>12, <1>13, <1>14, <1>15, <1>16, <1>17 DEF ImagesHold

LEMMA DeployApplyKeeps ==
    ASSUME ImagesHold, NEW d \in D!Deployment, D!Apply(d)
    PROVE  ImagesHold'
<1>0. /\ ImagesTyped /\ OperationRecorded /\ RemovalReviewed /\ PointersGood /\ NotYetSent
      /\ SeenOrAccounted /\ RollbackKept /\ D!EffectsOnce /\ D!ServiceAccounted
  BY DEF ImagesHold
<1>1. op \in Works
  BY <1>0 DEF ImagesTyped
<1>2. LET n == [kind |-> "apply", d |-> d, pc |-> "checked", seen |-> None, prior |-> pointer.current] IN
      n \in Works /\ n.kind = "apply" /\ n.d = d /\ n.pc = "checked" /\ n.prior = pointer.current
  BY <1>0, ImagesKnow DEF Works
<1>7. UNCHANGED <<state, image, outcomeOf, plan, pointer, pinned, retiredImages, receipt, resolved, review, tag, running, flight, epoch, unexpired, mishaps, sent>>
  BY DEF D!Apply, D!records, D!upkeep, D!dbase, D!daemon, D!clock
<1>8. /\ op.kind = "idle"
      /\ state[d] = "BUILT"
      /\ d \notin retiredImages
      /\ op' \in Works
      /\ op'.kind = "apply"
      /\ op'.d = d
      /\ op'.pc = "checked"
      /\ op'.prior = pointer.current
  BY <1>0, <1>2, RestingIs DEF D!Apply
<1>9. ImagesTyped'
  BY <1>0, <1>7, <1>8 DEF ImagesTyped, MovedTo, WorkAt
<1>10. OperationRecorded'
  <2>1. image[d] # None
    BY <1>0, <1>8 DEF PointersGood
  <2>. QED
    BY <1>7, <1>8, <2>1 DEF OperationRecorded
<1>11. RemovalReviewed'
  BY <1>0, <1>1, <1>7, <1>8, <1>9, ImagesKnow, WorksAre, DeploymentsOf, CommandsAre
  DEF RemovalReviewed, MovedTo, WorkAt, Pointed, SentOf, D!Present
<1>12. PointersGood'
  BY <1>0, <1>1, <1>7, <1>8, <1>9, ImagesKnow, WorksAre, DeploymentsOf, CommandsAre
  DEF PointersGood, MovedTo, WorkAt, Pointed, SentOf, D!Present
<1>13. NotYetSent'
  BY <1>0, <1>1, <1>7, <1>8, <1>9, ImagesKnow, WorksAre, DeploymentsOf, CommandsAre
  DEF NotYetSent, MovedTo, WorkAt, Pointed, SentOf, D!Present
<1>14. SeenOrAccounted'
  BY <1>0, <1>1, <1>7, <1>8, <1>9, ImagesKnow, WorksAre, DeploymentsOf, CommandsAre
  DEF SeenOrAccounted, MovedTo, WorkAt, Pointed, SentOf, D!Present
<1>15. RollbackKept'
  BY <1>0, <1>1, <1>7, <1>8, <1>9, ImagesKnow, WorksAre, DeploymentsOf, CommandsAre
  DEF RollbackKept, MovedTo, WorkAt, Pointed, SentOf, D!Present
<1>16. D!EffectsOnce'
  BY <1>0, <1>1, <1>7, <1>8, <1>9, ImagesKnow, WorksAre, DeploymentsOf, CommandsAre
  DEF D!EffectsOnce, MovedTo, WorkAt, Pointed, SentOf, D!Present
<1>17. D!ServiceAccounted'
  BY <1>0, <1>1, <1>7, <1>8, <1>9, ImagesKnow, WorksAre, DeploymentsOf, CommandsAre
  DEF D!ServiceAccounted, MovedTo, WorkAt
<1>. QED
  BY <1>9, <1>10, <1>11, <1>12, <1>13, <1>14, <1>15, <1>16, <1>17 DEF ImagesHold

LEMMA RecordKeeps ==
    ASSUME ImagesHold, D!Record
    PROVE  ImagesHold'
<1>0. /\ ImagesTyped /\ OperationRecorded /\ RemovalReviewed /\ PointersGood /\ NotYetSent
      /\ SeenOrAccounted /\ RollbackKept /\ D!EffectsOnce /\ D!ServiceAccounted
  BY DEF ImagesHold
<1>1. op \in Works
  BY <1>0 DEF ImagesTyped
<1>5. PICK r \in D!Deployment : r = op.d
  BY <1>1, WorksAre DEF D!Record
<1>6. state[r] = "BUILT" /\ image[r] # None /\ sent[<<"up", r>>] = 0
  BY <1>0, <1>1, <1>5, WorksAre, DeploymentsOf, CommandsAre
  DEF OperationRecorded, NotYetSent, SentOf, D!Record
<1>2. op.kind = "apply" /\ op.pc = "checked"
  BY DEF D!Record
<1>3. ASSUME D!Fresh(op.d) PROVE MovedTo(op.d, "DEPLOYING") /\ WorkAt("send")
  <2>1. D!Moved(op.d, "DEPLOYING") /\ op' = [op EXCEPT !.pc = "send"]
    BY <1>3 DEF D!Record
  <2>2. MovedTo(op.d, "DEPLOYING")
    BY <1>0, <1>5, <2>1, StateMoves DEF D!State, D!Unfinished, MovedTo
  <2>. QED
    BY <1>1, <1>2, <2>1, <2>2, ApplyAt DEF WorkAt
<1>4. ASSUME ~ D!Fresh(op.d)
      PROVE  op' \in Works /\ op'.kind = "idle" /\ state' = state
  BY <1>4, RestingIs DEF D!Record
<1>7. UNCHANGED <<image, outcomeOf, plan, pointer, pinned, retiredImages, receipt, resolved, review, tag, running, flight, epoch, unexpired, mishaps, sent>>
  BY DEF D!Record, D!records, D!upkeep, D!dbase, D!daemon, D!clock
<1>8. /\ op.kind = "apply"
      /\ op.pc = "checked"
      /\ op.d \in D!Deployment
      /\ \/ MovedTo(op.d, "DEPLOYING") /\ WorkAt("send")
         \/ op' \in Works /\ op'.kind = "idle" /\ state' = state
  BY <1>2, <1>3, <1>4, <1>5, WorksAre
<1>9. ImagesTyped'
  BY <1>0, <1>7, <1>8 DEF ImagesTyped, MovedTo, WorkAt
<1>10. OperationRecorded'
  BY <1>0, <1>1, <1>7, <1>8, <1>9, ImagesKnow, WorksAre, DeploymentsOf, CommandsAre
  DEF OperationRecorded, MovedTo, WorkAt, Pointed, SentOf, D!Present
<1>11. RemovalReviewed'
  BY <1>0, <1>1, <1>7, <1>8, <1>9, ImagesKnow, WorksAre, DeploymentsOf, CommandsAre
  DEF RemovalReviewed, MovedTo, WorkAt, Pointed, SentOf, D!Present
<1>12. PointersGood'
  BY <1>0, <1>5, <1>6, <1>7, <1>8, <1>9, PointersStay
  DEF D!State, D!Unfinished, ImagesTyped, PointersGood, Pointed
<1>13. NotYetSent'
  <2>1. ASSUME NEW e \in D!Deployment, e = r PROVE SentOf(e)'
    BY <1>0, <1>1, <1>5, <1>6, <1>7, <1>8, <1>9, <2>1, ImagesKnow, WorksAre,
       DeploymentsOf, CommandsAre
    DEF NotYetSent, SentOf, OperationRecorded, MovedTo, WorkAt
  <2>2. ASSUME NEW e \in D!Deployment, e # r PROVE SentOf(e)'
    BY <1>0, <1>1, <1>5, <1>6, <1>7, <1>8, <1>9, <2>2, ImagesKnow, WorksAre,
       DeploymentsOf, CommandsAre
    DEF NotYetSent, SentOf, MovedTo, WorkAt
  <2>. QED
    BY <2>1, <2>2 DEF NotYetSent
<1>14. SeenOrAccounted'
  BY <1>0, <1>1, <1>7, <1>8, <1>9, ImagesKnow, WorksAre, DeploymentsOf, CommandsAre
  DEF SeenOrAccounted, MovedTo, WorkAt, Pointed, SentOf, D!Present
<1>15. RollbackKept'
  BY <1>0, <1>1, <1>7, <1>8, <1>9, ImagesKnow, WorksAre, DeploymentsOf, CommandsAre
  DEF RollbackKept, MovedTo, WorkAt, Pointed, SentOf, D!Present
<1>16. D!EffectsOnce'
  BY <1>0, <1>1, <1>7, <1>8, <1>9, ImagesKnow, WorksAre, DeploymentsOf, CommandsAre
  DEF D!EffectsOnce, MovedTo, WorkAt, Pointed, SentOf, D!Present
<1>17. D!ServiceAccounted'
  BY <1>0, <1>1, <1>7, <1>8, <1>9, ImagesKnow, WorksAre, DeploymentsOf, CommandsAre
  DEF D!ServiceAccounted, MovedTo, WorkAt
<1>. QED
  BY <1>9, <1>10, <1>11, <1>12, <1>13, <1>14, <1>15, <1>16, <1>17 DEF ImagesHold

LEMMA ApplyReplyKeeps ==
    ASSUME ImagesHold, D!ApplyReply
    PROVE  ImagesHold'
<1>0. /\ ImagesTyped /\ OperationRecorded /\ RemovalReviewed /\ PointersGood /\ NotYetSent
      /\ SeenOrAccounted /\ RollbackKept /\ D!EffectsOnce /\ D!ServiceAccounted
  BY DEF ImagesHold
<1>1. op \in Works
  BY <1>0 DEF ImagesTyped
<1>5. PICK r \in D!Deployment : r = op.d
  BY <1>1, WorksAre DEF D!ApplyReply
<1>6. state[r] = "DEPLOYING"
  BY <1>0, <1>1, <1>5, WorksAre, DeploymentsOf, CommandsAre
  DEF OperationRecorded, NotYetSent, SentOf, D!ApplyReply
<1>2. LET n == [op EXCEPT !.pc = "health", !.seen = running] IN
      op.kind = "apply" => /\ n \in Works /\ n.kind = "apply" /\ n.d = op.d /\ n.pc = "health"
                           /\ n.prior = op.prior
  BY <1>0, <1>1, ImagesKnow DEF Works, ImagesTyped
<1>3. /\ op.kind = "apply" /\ op.pc = "wait" /\ <<"up", op.d>> \notin flight
      /\ D!Moved(op.d, "HEALTH_CHECKING") /\ op' = [op EXCEPT !.pc = "health", !.seen = running]
  BY DEF D!ApplyReply
<1>4. MovedTo(op.d, "HEALTH_CHECKING")
  BY <1>0, <1>3, <1>5, StateMoves DEF D!State, D!Unfinished, MovedTo
<1>7. UNCHANGED <<image, outcomeOf, plan, pointer, pinned, retiredImages, receipt, resolved, review, tag, running, flight, epoch, unexpired, mishaps, sent>>
  BY DEF D!ApplyReply, D!records, D!upkeep, D!dbase, D!daemon, D!clock
<1>8. /\ op.kind = "apply"
      /\ op.pc = "wait"
      /\ op.d \in D!Deployment
      /\ <<"up", op.d>> \notin flight
      /\ MovedTo(op.d, "HEALTH_CHECKING")
      /\ op' \in Works
      /\ op'.kind = "apply"
      /\ op'.d = op.d
      /\ op'.pc = "health"
      /\ op'.prior = op.prior
  BY <1>2, <1>3, <1>4, <1>5
<1>9. ImagesTyped'
  BY <1>0, <1>7, <1>8 DEF ImagesTyped, MovedTo, WorkAt
<1>10. OperationRecorded'
  BY <1>0, <1>1, <1>7, <1>8, <1>9, ImagesKnow, WorksAre, DeploymentsOf, CommandsAre
  DEF OperationRecorded, MovedTo, WorkAt, Pointed, SentOf, D!Present
<1>11. RemovalReviewed'
  BY <1>0, <1>1, <1>7, <1>8, <1>9, ImagesKnow, WorksAre, DeploymentsOf, CommandsAre
  DEF RemovalReviewed, MovedTo, WorkAt, Pointed, SentOf, D!Present
<1>12. PointersGood'
  BY <1>0, <1>5, <1>6, <1>7, <1>8, <1>9, PointersStay
  DEF D!State, D!Unfinished, ImagesTyped
<1>13. NotYetSent'
  BY <1>0, <1>1, <1>7, <1>8, <1>9, ImagesKnow, WorksAre, DeploymentsOf, CommandsAre
  DEF NotYetSent, MovedTo, WorkAt, Pointed, SentOf, D!Present
<1>14. SeenOrAccounted'
  BY <1>0, <1>1, <1>7, <1>8, <1>9, ImagesKnow, WorksAre, DeploymentsOf, CommandsAre
  DEF SeenOrAccounted, MovedTo, WorkAt, Pointed, SentOf, D!Present
<1>15. RollbackKept'
  BY <1>0, <1>1, <1>7, <1>8, <1>9, ImagesKnow, WorksAre, DeploymentsOf, CommandsAre
  DEF RollbackKept, MovedTo, WorkAt, Pointed, SentOf, D!Present
<1>16. D!EffectsOnce'
  BY <1>0, <1>1, <1>7, <1>8, <1>9, ImagesKnow, WorksAre, DeploymentsOf, CommandsAre
  DEF D!EffectsOnce, MovedTo, WorkAt, Pointed, SentOf, D!Present
<1>17. D!ServiceAccounted'
  BY <1>0, <1>1, <1>7, <1>8, <1>9, ImagesKnow, WorksAre, DeploymentsOf, CommandsAre
  DEF D!ServiceAccounted, MovedTo, WorkAt
<1>. QED
  BY <1>9, <1>10, <1>11, <1>12, <1>13, <1>14, <1>15, <1>16, <1>17 DEF ImagesHold

LEMMA UnhealthyKeeps ==
    ASSUME ImagesHold, D!Unhealthy
    PROVE  ImagesHold'
<1>0. /\ ImagesTyped /\ OperationRecorded /\ RemovalReviewed /\ PointersGood /\ NotYetSent
      /\ SeenOrAccounted /\ RollbackKept /\ D!EffectsOnce /\ D!ServiceAccounted
  BY DEF ImagesHold
<1>1. op \in Works
  BY <1>0 DEF ImagesTyped
<1>5. PICK r \in D!Deployment : r = op.d
  BY <1>1, WorksAre DEF D!Unhealthy
<1>6. state[r] = "HEALTH_CHECKING" /\ <<"up", r>> \notin flight
  BY <1>0, <1>1, <1>5, WorksAre, DeploymentsOf, CommandsAre
  DEF OperationRecorded, NotYetSent, SentOf, D!Unhealthy
<1>7. UNCHANGED <<image, outcomeOf, plan, pointer, pinned, retiredImages, receipt, resolved, review, tag, running, flight, epoch, unexpired, mishaps, sent>>
  BY DEF D!Unhealthy, D!records, D!upkeep, D!dbase, D!daemon, D!clock
<1>8. /\ op.kind = "apply"
      /\ op.pc = "health"
      /\ op.d \in D!Deployment
      /\ MovedTo(op.d, "FAILED")
      /\ op' \in Works
      /\ op'.kind = "idle"
  BY <1>0, <1>1, RestingIs, WorksAre, StateMoves, ImagesKnow, ImagesAssumed
  DEF D!Unhealthy, D!State, D!Unfinished, MovedTo, ImagesTyped
<1>9. ImagesTyped'
  BY <1>0, <1>7, <1>8 DEF ImagesTyped, MovedTo, WorkAt
<1>10. OperationRecorded'
  BY <1>0, <1>1, <1>7, <1>8, <1>9, ImagesKnow, WorksAre, DeploymentsOf, CommandsAre
  DEF OperationRecorded, MovedTo, WorkAt, Pointed, SentOf, D!Present
<1>11. RemovalReviewed'
  BY <1>0, <1>1, <1>7, <1>8, <1>9, ImagesKnow, WorksAre, DeploymentsOf, CommandsAre
  DEF RemovalReviewed, MovedTo, WorkAt, Pointed, SentOf, D!Present
<1>12. PointersGood'
  BY <1>0, <1>5, <1>6, <1>7, <1>8, <1>9, PointersStay
  DEF D!State, D!Unfinished, ImagesTyped
<1>13. NotYetSent'
  <2>1. ASSUME NEW e \in D!Deployment, e = r PROVE SentOf(e)'
    BY <1>0, <1>1, <1>5, <1>6, <1>7, <1>8, <1>9, <2>1, ImagesKnow, WorksAre,
       DeploymentsOf, CommandsAre
    DEF NotYetSent, SentOf, OperationRecorded, MovedTo, WorkAt
  <2>2. ASSUME NEW e \in D!Deployment, e # r PROVE SentOf(e)'
    BY <1>0, <1>1, <1>5, <1>6, <1>7, <1>8, <1>9, <2>2, ImagesKnow, WorksAre,
       DeploymentsOf, CommandsAre
    DEF NotYetSent, SentOf, MovedTo, WorkAt
  <2>. QED
    BY <2>1, <2>2 DEF NotYetSent
<1>14. SeenOrAccounted'
  BY <1>0, <1>1, <1>7, <1>8, <1>9, ImagesKnow, WorksAre, DeploymentsOf, CommandsAre
  DEF SeenOrAccounted, MovedTo, WorkAt, Pointed, SentOf, D!Present
<1>15. RollbackKept'
  BY <1>0, <1>1, <1>7, <1>8, <1>9, ImagesKnow, WorksAre, DeploymentsOf, CommandsAre
  DEF RollbackKept, MovedTo, WorkAt, Pointed, SentOf, D!Present
<1>16. D!EffectsOnce'
  BY <1>0, <1>1, <1>7, <1>8, <1>9, ImagesKnow, WorksAre, DeploymentsOf, CommandsAre
  DEF D!EffectsOnce, MovedTo, WorkAt, Pointed, SentOf, D!Present
<1>17. D!ServiceAccounted'
  BY <1>0, <1>1, <1>7, <1>8, <1>9, ImagesKnow, WorksAre, DeploymentsOf, CommandsAre
  DEF D!ServiceAccounted, MovedTo, WorkAt
<1>. QED
  BY <1>9, <1>10, <1>11, <1>12, <1>13, <1>14, <1>15, <1>16, <1>17 DEF ImagesHold

LEMMA HealthyKeeps ==
    ASSUME ImagesHold, D!Healthy
    PROVE  ImagesHold'
<1>0. /\ ImagesTyped /\ OperationRecorded /\ RemovalReviewed /\ PointersGood /\ NotYetSent
      /\ SeenOrAccounted /\ RollbackKept /\ D!EffectsOnce /\ D!ServiceAccounted
  BY DEF ImagesHold
<1>1. op \in Works
  BY <1>0 DEF ImagesTyped
<1>7. UNCHANGED <<state, image, outcomeOf, plan, pointer, pinned, retiredImages, receipt, resolved, review, tag, running, flight, epoch, unexpired, mishaps, sent>>
  BY DEF D!Healthy, D!records, D!upkeep, D!dbase, D!daemon, D!clock
<1>8. /\ op.kind = "apply"
      /\ op.pc = "health"
      /\ running = op.seen
      /\ op.d \in D!Deployment
      /\ WorkAt("commit")
  BY <1>1, ApplyAt, WorksAre DEF D!Healthy, WorkAt
<1>9. ImagesTyped'
  BY <1>0, <1>7, <1>8 DEF ImagesTyped, MovedTo, WorkAt
<1>10. OperationRecorded'
  BY <1>0, <1>1, <1>7, <1>8, <1>9, ImagesKnow, WorksAre, DeploymentsOf, CommandsAre
  DEF OperationRecorded, MovedTo, WorkAt, Pointed, SentOf, D!Present
<1>11. RemovalReviewed'
  BY <1>0, <1>1, <1>7, <1>8, <1>9, ImagesKnow, WorksAre, DeploymentsOf, CommandsAre
  DEF RemovalReviewed, MovedTo, WorkAt, Pointed, SentOf, D!Present
<1>12. PointersGood'
  BY <1>0, <1>1, <1>7, <1>8, <1>9, ImagesKnow, WorksAre, DeploymentsOf, CommandsAre
  DEF PointersGood, MovedTo, WorkAt, Pointed, SentOf, D!Present
<1>13. NotYetSent'
  BY <1>0, <1>1, <1>7, <1>8, <1>9, ImagesKnow, WorksAre, DeploymentsOf, CommandsAre
  DEF NotYetSent, MovedTo, WorkAt, Pointed, SentOf, D!Present
<1>14. SeenOrAccounted'
  BY <1>0, <1>1, <1>7, <1>8, <1>9, ImagesKnow, WorksAre, DeploymentsOf, CommandsAre
  DEF SeenOrAccounted, MovedTo, WorkAt, Pointed, SentOf, D!Present
<1>15. RollbackKept'
  BY <1>0, <1>1, <1>7, <1>8, <1>9, ImagesKnow, WorksAre, DeploymentsOf, CommandsAre
  DEF RollbackKept, MovedTo, WorkAt, Pointed, SentOf, D!Present
<1>16. D!EffectsOnce'
  BY <1>0, <1>1, <1>7, <1>8, <1>9, ImagesKnow, WorksAre, DeploymentsOf, CommandsAre
  DEF D!EffectsOnce, MovedTo, WorkAt, Pointed, SentOf, D!Present
<1>17. D!ServiceAccounted'
  BY <1>0, <1>1, <1>7, <1>8, <1>9, ImagesKnow, WorksAre, DeploymentsOf, CommandsAre
  DEF D!ServiceAccounted, MovedTo, WorkAt
<1>. QED
  BY <1>9, <1>10, <1>11, <1>12, <1>13, <1>14, <1>15, <1>16, <1>17 DEF ImagesHold

LEMMA KnownGoodKeeps ==
    ASSUME ImagesHold, D!KnownGood
    PROVE  ImagesHold'
<1>0. /\ ImagesTyped /\ OperationRecorded /\ RemovalReviewed /\ PointersGood /\ NotYetSent
      /\ SeenOrAccounted /\ RollbackKept /\ D!EffectsOnce /\ D!ServiceAccounted
  BY DEF ImagesHold
<1>1. op \in Works
  BY <1>0 DEF ImagesTyped
<1>5. PICK r \in D!Deployment : r = op.d
  BY <1>1, WorksAre DEF D!KnownGood
<1>6. /\ state[r] = "HEALTH_CHECKING" /\ image[r] # None /\ r \notin retiredImages
      /\ D!Present(image[r]) /\ <<"up", r>> \notin flight
  BY <1>0, <1>1, <1>5, WorksAre, DeploymentsOf, CommandsAre
  DEF OperationRecorded, NotYetSent, SentOf, D!KnownGood
<1>7. UNCHANGED <<image, plan, pinned, retiredImages, receipt, resolved, review, tag, running, flight, epoch, unexpired, mishaps, sent>>
  BY DEF D!KnownGood, D!records, D!upkeep, D!dbase, D!daemon, D!clock
<1>8. /\ op.kind = "apply"
      /\ op.pc = "commit"
      /\ op.d \in D!Deployment
      /\ pointer.current = op.prior
      /\ MovedTo(op.d, "KNOWN_GOOD")
      /\ op' \in Works
      /\ op'.kind = "idle"
      /\ outcomeOf' \in [D!Deployment -> Containers \cup {None}]
      /\ outcomeOf'[op.d] = op.seen
      /\ pointer' \in [current : D!Deployment \cup {None}, previous : D!Deployment \cup {None}]
      /\ pointer'.current = op.d
      /\ pointer'.previous = pointer.current
  BY <1>0, <1>1, RestingIs, WorksAre, StateMoves, ImagesKnow
  DEF D!KnownGood, D!State, D!Unfinished, MovedTo, ImagesTyped
<1>9. ImagesTyped'
  BY <1>0, <1>7, <1>8 DEF ImagesTyped, MovedTo, WorkAt
<1>10. OperationRecorded'
  BY <1>0, <1>1, <1>7, <1>8, <1>9, ImagesKnow, WorksAre, DeploymentsOf, CommandsAre
  DEF OperationRecorded, MovedTo, WorkAt, Pointed, SentOf, D!Present
<1>11. RemovalReviewed'
  BY <1>0, <1>1, <1>7, <1>8, <1>9, ImagesKnow, WorksAre, DeploymentsOf, CommandsAre
  DEF RemovalReviewed, MovedTo, WorkAt, Pointed, SentOf, D!Present
<1>12. PointersGood'
  <2>1. ASSUME NEW e \in D!Deployment, e = r
      PROVE  state'[e] = "KNOWN_GOOD" /\ image'[e] # None
    BY <1>5, <1>6, <1>7, <1>8, <2>1 DEF MovedTo
  <2>2. ASSUME NEW e \in D!Deployment, e # r
        PROVE  /\ state'[e] = state[e] /\ image'[e] = image[e] /\ (Pointed(e)' => Pointed(e))
    BY <1>5, <1>7, <1>8, <2>2 DEF MovedTo, Pointed
  <2>. QED
    BY <1>0, <2>1, <2>2 DEF PointersGood
<1>13. NotYetSent'
  <2>1. ASSUME NEW e \in D!Deployment, e = r PROVE SentOf(e)'
    BY <1>0, <1>1, <1>5, <1>6, <1>7, <1>8, <1>9, <2>1, ImagesKnow, WorksAre,
       DeploymentsOf, CommandsAre
    DEF NotYetSent, SentOf, OperationRecorded, MovedTo, WorkAt
  <2>2. ASSUME NEW e \in D!Deployment, e # r PROVE SentOf(e)'
    BY <1>0, <1>1, <1>5, <1>6, <1>7, <1>8, <1>9, <2>2, ImagesKnow, WorksAre,
       DeploymentsOf, CommandsAre
    DEF NotYetSent, SentOf, MovedTo, WorkAt
  <2>. QED
    BY <2>1, <2>2 DEF NotYetSent
<1>14. SeenOrAccounted'
  BY <1>0, <1>1, <1>7, <1>8, <1>9, ImagesKnow, WorksAre, DeploymentsOf, CommandsAre
  DEF SeenOrAccounted, MovedTo, WorkAt, Pointed, SentOf, D!Present
<1>15. RollbackKept'
  <2>1. ASSUME NEW e \in D!Deployment, Pointed(e)'
      PROVE  D!Present(image[e]) /\ e \notin retiredImages
    <3>1. CASE e = r
      BY <1>6, <3>1
    <3>2. CASE e # r
      BY <1>0, <1>5, <1>8, <2>1, <3>2 DEF Pointed, RollbackKept
    <3>. QED
      BY <3>1, <3>2
  <2>. QED
    BY <1>7, <2>1 DEF RollbackKept, D!Present
<1>16. D!EffectsOnce'
  BY <1>0, <1>1, <1>7, <1>8, <1>9, ImagesKnow, WorksAre, DeploymentsOf, CommandsAre
  DEF D!EffectsOnce, MovedTo, WorkAt, Pointed, SentOf, D!Present
<1>17. D!ServiceAccounted'
  <2>1. SUFFICES ASSUME running # None, running.by # D!ByHand
      PROVE  D!ServiceAccounted'
    BY <1>7 DEF D!ServiceAccounted
  <2>2. CASE running = op.seen
    BY <1>5, <1>7, <1>8, <2>2, DeploymentsOf DEF D!ServiceAccounted
  <2>3. CASE running # op.seen
    <3>1. PICK e \in D!Deployment \ {op.d} :
              /\ image[e] = running.image
              /\ state[e] \in {"DEPLOYING", "HEALTH_CHECKING", "FAILED", "UNKNOWN"}
      BY <1>0, <1>8, <2>1, <2>3 DEF SeenOrAccounted
    <3>2. state'[e] = state[e]
      BY <1>8, <3>1 DEF MovedTo
    <3>. QED
      BY <1>7, <3>1, <3>2 DEF D!ServiceAccounted
  <2>. QED
    BY <2>2, <2>3
<1>. QED
  BY <1>9, <1>10, <1>11, <1>12, <1>13, <1>14, <1>15, <1>16, <1>17 DEF ImagesHold

LEMMA ReviewKeeps ==
    ASSUME ImagesHold, D!Review
    PROVE  ImagesHold'
<1>0. /\ ImagesTyped /\ OperationRecorded /\ RemovalReviewed /\ PointersGood /\ NotYetSent
      /\ SeenOrAccounted /\ RollbackKept /\ D!EffectsOnce /\ D!ServiceAccounted
  BY DEF ImagesHold
<1>1. op \in Works
  BY <1>0 DEF ImagesTyped
<1>7. UNCHANGED <<state, image, outcomeOf, plan, pointer, pinned, retiredImages, receipt, resolved, tag, running, flight, op, epoch, unexpired, mishaps, sent>>
  BY DEF D!Review, D!records, D!upkeep, D!dbase, D!daemon, D!clock
<1>8. /\ op.kind = "idle"
      /\ TRUE
  BY RestingIs DEF D!Review
<1>9. ImagesTyped'
  BY <1>0, <1>7, <1>8 DEF ImagesTyped, MovedTo, WorkAt
<1>10. OperationRecorded'
  BY <1>0, <1>1, <1>7, <1>8, <1>9, ImagesKnow, WorksAre, DeploymentsOf, CommandsAre
  DEF OperationRecorded, MovedTo, WorkAt, Pointed, SentOf, D!Present
<1>11. RemovalReviewed'
  BY <1>0, <1>1, <1>7, <1>8, <1>9, ImagesKnow, WorksAre, DeploymentsOf, CommandsAre
  DEF RemovalReviewed, MovedTo, WorkAt, Pointed, SentOf, D!Present
<1>12. PointersGood'
  BY <1>0, <1>1, <1>7, <1>8, <1>9, ImagesKnow, WorksAre, DeploymentsOf, CommandsAre
  DEF PointersGood, MovedTo, WorkAt, Pointed, SentOf, D!Present
<1>13. NotYetSent'
  BY <1>0, <1>1, <1>7, <1>8, <1>9, ImagesKnow, WorksAre, DeploymentsOf, CommandsAre
  DEF NotYetSent, MovedTo, WorkAt, Pointed, SentOf, D!Present
<1>14. SeenOrAccounted'
  BY <1>0, <1>1, <1>7, <1>8, <1>9, ImagesKnow, WorksAre, DeploymentsOf, CommandsAre
  DEF SeenOrAccounted, MovedTo, WorkAt, Pointed, SentOf, D!Present
<1>15. RollbackKept'
  BY <1>0, <1>1, <1>7, <1>8, <1>9, ImagesKnow, WorksAre, DeploymentsOf, CommandsAre
  DEF RollbackKept, MovedTo, WorkAt, Pointed, SentOf, D!Present
<1>16. D!EffectsOnce'
  BY <1>0, <1>1, <1>7, <1>8, <1>9, ImagesKnow, WorksAre, DeploymentsOf, CommandsAre
  DEF D!EffectsOnce, MovedTo, WorkAt, Pointed, SentOf, D!Present
<1>17. D!ServiceAccounted'
  BY <1>0, <1>1, <1>7, <1>8, <1>9, ImagesKnow, WorksAre, DeploymentsOf, CommandsAre
  DEF D!ServiceAccounted, MovedTo, WorkAt
<1>. QED
  BY <1>9, <1>10, <1>11, <1>12, <1>13, <1>14, <1>15, <1>16, <1>17 DEF ImagesHold

LEMMA CleanupKeeps ==
    ASSUME ImagesHold, D!Cleanup
    PROVE  ImagesHold'
<1>0. /\ ImagesTyped /\ OperationRecorded /\ RemovalReviewed /\ PointersGood /\ NotYetSent
      /\ SeenOrAccounted /\ RollbackKept /\ D!EffectsOnce /\ D!ServiceAccounted
  BY DEF ImagesHold
<1>1. op \in Works
  BY <1>0 DEF ImagesTyped
<1>2. op' = [kind |-> "cleanup", left |-> D!Observation.eligible, i |-> None] /\ op = D!Idle
  BY DEF D!Cleanup
<1>3. D!Observation.eligible = {i \in Image : D!Group(i) # {} /\ D!Present(i) /\ ~ D!Protected(i)}
  BY DEF D!Observation
<1>4. /\ op' \in Works /\ op'.kind = "cleanup" /\ op'.i = None
      /\ \A i \in op'.left : \A d \in D!Group(i) : d \notin {pointer.current, pointer.previous}
  <2>1. op'.left = D!Observation.eligible /\ op'.kind = "cleanup" /\ op'.i = None
    BY <1>2
  <2>2. D!Observation.eligible \subseteq Image
    BY <1>3
  <2>3. op' \in Works
    BY <1>2, <2>2 DEF Works
  <2>4. ASSUME NEW i \in Image, ~ D!Protected(i), NEW d \in D!Group(i)
        PROVE  d \notin {pointer.current, pointer.previous}
    BY <2>4 DEF D!Protected
  <2>. QED
    BY <1>3, <2>1, <2>3, <2>4
<1>7. UNCHANGED <<state, image, outcomeOf, plan, pointer, pinned, retiredImages, receipt, resolved, tag, running, flight, epoch, unexpired, mishaps, sent>>
  BY DEF D!Cleanup, D!records, D!upkeep, D!dbase, D!daemon, D!clock
<1>8. /\ op.kind = "idle"
      /\ op' \in Works
      /\ op'.kind = "cleanup"
      /\ op'.i = None
      /\ \A i \in op'.left : \A d \in D!Group(i) : d \notin {pointer.current, pointer.previous}
  BY <1>2, <1>3, <1>4, RestingIs DEF D!Cleanup
<1>9. ImagesTyped'
  BY <1>0, <1>7, <1>8 DEF ImagesTyped, MovedTo, WorkAt
<1>10. OperationRecorded'
  BY <1>0, <1>1, <1>7, <1>8, <1>9, ImagesKnow, WorksAre, DeploymentsOf, CommandsAre
  DEF OperationRecorded, MovedTo, WorkAt, Pointed, SentOf, D!Present, D!Group
<1>11. RemovalReviewed'
  <2>1. ASSUME NEW e \in D!Deployment, Pointed(e), image[e] \in op'.left PROVE FALSE
    <3>1. e \in D!Group(image[e])
      BY <1>0, <2>1 DEF RollbackKept, D!Group
    <3>. QED
      BY <1>8, <2>1, <3>1 DEF Pointed
  <2>. QED
    BY <1>7, <1>8, <2>1 DEF RemovalReviewed, Pointed
<1>12. PointersGood'
  BY <1>0, <1>1, <1>7, <1>8, <1>9, ImagesKnow, WorksAre, DeploymentsOf, CommandsAre
  DEF PointersGood, MovedTo, WorkAt, Pointed, SentOf, D!Present, D!Group
<1>13. NotYetSent'
  BY <1>0, <1>1, <1>7, <1>8, <1>9, ImagesKnow, WorksAre, DeploymentsOf, CommandsAre
  DEF NotYetSent, MovedTo, WorkAt, Pointed, SentOf, D!Present, D!Group
<1>14. SeenOrAccounted'
  BY <1>0, <1>1, <1>7, <1>8, <1>9, ImagesKnow, WorksAre, DeploymentsOf, CommandsAre
  DEF SeenOrAccounted, MovedTo, WorkAt, Pointed, SentOf, D!Present, D!Group
<1>15. RollbackKept'
  BY <1>0, <1>1, <1>7, <1>8, <1>9, ImagesKnow, WorksAre, DeploymentsOf, CommandsAre
  DEF RollbackKept, MovedTo, WorkAt, Pointed, SentOf, D!Present, D!Group
<1>16. D!EffectsOnce'
  BY <1>0, <1>1, <1>7, <1>8, <1>9, ImagesKnow, WorksAre, DeploymentsOf, CommandsAre
  DEF D!EffectsOnce, MovedTo, WorkAt, Pointed, SentOf, D!Present, D!Group
<1>17. D!ServiceAccounted'
  BY <1>0, <1>1, <1>7, <1>8, <1>9, ImagesKnow, WorksAre, DeploymentsOf, CommandsAre
  DEF D!ServiceAccounted, MovedTo, WorkAt, D!Group
<1>. QED
  BY <1>9, <1>10, <1>11, <1>12, <1>13, <1>14, <1>15, <1>16, <1>17 DEF ImagesHold

LEMMA RemoveNextKeeps ==
    ASSUME ImagesHold, NEW i \in Image, D!RemoveNext(i)
    PROVE  ImagesHold'
<1>0. /\ ImagesTyped /\ OperationRecorded /\ RemovalReviewed /\ PointersGood /\ NotYetSent
      /\ SeenOrAccounted /\ RollbackKept /\ D!EffectsOnce /\ D!ServiceAccounted
  BY DEF ImagesHold
<1>1. op \in Works
  BY <1>0 DEF ImagesTyped
<1>2. LET n == [op EXCEPT !.i = i] IN
      op.kind = "cleanup" => n \in Works /\ n.kind = "cleanup" /\ n.i = i /\ n.left = op.left
  BY <1>1 DEF Works
<1>7. UNCHANGED <<state, image, outcomeOf, plan, pointer, pinned, retiredImages, resolved, review, tag, running, flight, epoch, unexpired, mishaps, sent>>
  BY DEF D!RemoveNext, D!records, D!upkeep, D!dbase, D!daemon, D!clock
<1>8. /\ op.kind = "cleanup"
      /\ i \in op.left
      /\ receipt' \in [D!Deployment -> {"none", "UNKNOWN", "REMOVED"}]
      /\ op' \in Works
      /\ op'.kind = "idle" \/ (op'.kind = "cleanup" /\ op'.i = i /\ op'.left = op.left)
  BY <1>0, <1>1, <1>2, RestingIs DEF D!RemoveNext, ImagesTyped
<1>9. ImagesTyped'
  BY <1>0, <1>7, <1>8 DEF ImagesTyped, MovedTo, WorkAt
<1>10. OperationRecorded'
  BY <1>0, <1>1, <1>7, <1>8, <1>9, ImagesKnow, WorksAre, DeploymentsOf, CommandsAre
  DEF OperationRecorded, MovedTo, WorkAt, Pointed, SentOf, D!Present
<1>11. RemovalReviewed'
  BY <1>0, <1>1, <1>7, <1>8, <1>9, ImagesKnow, WorksAre, DeploymentsOf, CommandsAre
  DEF RemovalReviewed, MovedTo, WorkAt, Pointed, SentOf, D!Present
<1>12. PointersGood'
  BY <1>0, <1>1, <1>7, <1>8, <1>9, ImagesKnow, WorksAre, DeploymentsOf, CommandsAre
  DEF PointersGood, MovedTo, WorkAt, Pointed, SentOf, D!Present
<1>13. NotYetSent'
  BY <1>0, <1>1, <1>7, <1>8, <1>9, ImagesKnow, WorksAre, DeploymentsOf, CommandsAre
  DEF NotYetSent, MovedTo, WorkAt, Pointed, SentOf, D!Present
<1>14. SeenOrAccounted'
  BY <1>0, <1>1, <1>7, <1>8, <1>9, ImagesKnow, WorksAre, DeploymentsOf, CommandsAre
  DEF SeenOrAccounted, MovedTo, WorkAt, Pointed, SentOf, D!Present
<1>15. RollbackKept'
  BY <1>0, <1>1, <1>7, <1>8, <1>9, ImagesKnow, WorksAre, DeploymentsOf, CommandsAre
  DEF RollbackKept, MovedTo, WorkAt, Pointed, SentOf, D!Present
<1>16. D!EffectsOnce'
  BY <1>0, <1>1, <1>7, <1>8, <1>9, ImagesKnow, WorksAre, DeploymentsOf, CommandsAre
  DEF D!EffectsOnce, MovedTo, WorkAt, Pointed, SentOf, D!Present
<1>17. D!ServiceAccounted'
  BY <1>0, <1>1, <1>7, <1>8, <1>9, ImagesKnow, WorksAre, DeploymentsOf, CommandsAre
  DEF D!ServiceAccounted, MovedTo, WorkAt
<1>. QED
  BY <1>9, <1>10, <1>11, <1>12, <1>13, <1>14, <1>15, <1>16, <1>17 DEF ImagesHold

LEMMA RemovalKeeps ==
    ASSUME ImagesHold, D!Removal
    PROVE  ImagesHold'
<1>0. /\ ImagesTyped /\ OperationRecorded /\ RemovalReviewed /\ PointersGood /\ NotYetSent
      /\ SeenOrAccounted /\ RollbackKept /\ D!EffectsOnce /\ D!ServiceAccounted
  BY DEF ImagesHold
<1>1. op \in Works
  BY <1>0 DEF ImagesTyped
<1>7. UNCHANGED <<state, image, outcomeOf, plan, pointer, pinned, retiredImages, receipt, resolved, review, running, flight, op, epoch, unexpired, mishaps, sent>>
  BY DEF D!Removal, D!records, D!upkeep, D!dbase, D!daemon, D!clock
<1>8. /\ op.kind = "cleanup"
      /\ op.i \in op.left
      /\ tag' \in [D!Deployment -> Image \cup {None}]
      /\ \A e \in D!Deployment : tag'[e] = IF tag[e] = op.i THEN None ELSE tag[e]
  BY <1>0, <1>1, DeploymentsOf DEF D!Removal, ImagesTyped, RemovalReviewed
<1>9. ImagesTyped'
  BY <1>0, <1>7, <1>8 DEF ImagesTyped, MovedTo, WorkAt
<1>10. OperationRecorded'
  BY <1>0, <1>1, <1>7, <1>8, <1>9, ImagesKnow, WorksAre, DeploymentsOf, CommandsAre
  DEF OperationRecorded, MovedTo, WorkAt, Pointed, SentOf, D!Present
<1>11. RemovalReviewed'
  BY <1>0, <1>1, <1>7, <1>8, <1>9, ImagesKnow, WorksAre, DeploymentsOf, CommandsAre
  DEF RemovalReviewed, MovedTo, WorkAt, Pointed, SentOf, D!Present
<1>12. PointersGood'
  BY <1>0, <1>1, <1>7, <1>8, <1>9, ImagesKnow, WorksAre, DeploymentsOf, CommandsAre
  DEF PointersGood, MovedTo, WorkAt, Pointed, SentOf, D!Present
<1>13. NotYetSent'
  BY <1>0, <1>1, <1>7, <1>8, <1>9, ImagesKnow, WorksAre, DeploymentsOf, CommandsAre
  DEF NotYetSent, MovedTo, WorkAt, Pointed, SentOf, D!Present
<1>14. SeenOrAccounted'
  BY <1>0, <1>1, <1>7, <1>8, <1>9, ImagesKnow, WorksAre, DeploymentsOf, CommandsAre
  DEF SeenOrAccounted, MovedTo, WorkAt, Pointed, SentOf, D!Present
<1>15. RollbackKept'
  <2>1. ASSUME NEW e \in D!Deployment, Pointed(e)
      PROVE  D!Present(image[e])' /\ e \notin retiredImages'
    <3>1. D!Present(image[e]) /\ e \notin retiredImages /\ image[e] # op.i
      BY <1>0, <1>8, <2>1 DEF RollbackKept, RemovalReviewed
    <3>2. image' = image /\ retiredImages' = retiredImages
      BY <1>7
    <3>. QED
      BY <1>8, <3>1, <3>2 DEF D!Present
  <2>. QED
    BY <1>7, <2>1 DEF RollbackKept, Pointed
<1>16. D!EffectsOnce'
  BY <1>0, <1>1, <1>7, <1>8, <1>9, ImagesKnow, WorksAre, DeploymentsOf, CommandsAre
  DEF D!EffectsOnce, MovedTo, WorkAt, Pointed, SentOf, D!Present
<1>17. D!ServiceAccounted'
  BY <1>0, <1>1, <1>7, <1>8, <1>9, ImagesKnow, WorksAre, DeploymentsOf, CommandsAre
  DEF D!ServiceAccounted, MovedTo, WorkAt
<1>. QED
  BY <1>9, <1>10, <1>11, <1>12, <1>13, <1>14, <1>15, <1>16, <1>17 DEF ImagesHold

LEMMA RetireKeeps ==
    ASSUME ImagesHold, D!Retire
    PROVE  ImagesHold'
<1>0. /\ ImagesTyped /\ OperationRecorded /\ RemovalReviewed /\ PointersGood /\ NotYetSent
      /\ SeenOrAccounted /\ RollbackKept /\ D!EffectsOnce /\ D!ServiceAccounted
  BY DEF ImagesHold
<1>1. op \in Works
  BY <1>0 DEF ImagesTyped
<1>2. LET n == [op EXCEPT !.i = None, !.left = op.left \ {op.i}] IN
      op.kind = "cleanup" => n \in Works /\ n.kind = "cleanup" /\ n.i = None /\ n.left \subseteq op.left
  BY <1>1 DEF Works
<1>3. D!Group(op.i) \subseteq D!Deployment /\ \A e \in D!Group(op.i) : image[e] = op.i
  BY DEF D!Group
<1>4. [d \in D!Deployment |-> IF d \in D!Group(op.i) THEN "REMOVED" ELSE receipt[d]]
        \in [D!Deployment -> {"none", "UNKNOWN", "REMOVED"}]
  BY <1>0 DEF ImagesTyped
<1>7. UNCHANGED <<state, image, outcomeOf, plan, pointer, pinned, resolved, review, tag, running, flight, epoch, unexpired, mishaps, sent>>
  BY DEF D!Retire, D!records, D!upkeep, D!dbase, D!daemon, D!clock
<1>8. /\ op.kind = "cleanup"
      /\ op.i \in op.left
      /\ op' \in Works
      /\ receipt' \in [D!Deployment -> {"none", "UNKNOWN", "REMOVED"}]
      /\ retiredImages' \subseteq D!Deployment
      /\ op'.kind = "idle" \/ (op'.kind = "cleanup" /\ op'.i = None /\ op'.left \subseteq op.left)
      /\ \A e \in retiredImages' : e \in retiredImages \/ image[e] = op.i
  BY <1>0, <1>1, <1>2, <1>3, <1>4, RestingIs, DeploymentsOf
  DEF D!Retire, ImagesTyped, RemovalReviewed
<1>9. ImagesTyped'
  BY <1>0, <1>7, <1>8 DEF ImagesTyped, MovedTo, WorkAt
<1>10. OperationRecorded'
  BY <1>0, <1>1, <1>7, <1>8, <1>9, ImagesKnow, WorksAre, DeploymentsOf, CommandsAre
  DEF OperationRecorded, MovedTo, WorkAt, Pointed, SentOf, D!Present
<1>11. RemovalReviewed'
  BY <1>0, <1>1, <1>7, <1>8, <1>9, ImagesKnow, WorksAre, DeploymentsOf, CommandsAre
  DEF RemovalReviewed, MovedTo, WorkAt, Pointed, SentOf, D!Present
<1>12. PointersGood'
  BY <1>0, <1>1, <1>7, <1>8, <1>9, ImagesKnow, WorksAre, DeploymentsOf, CommandsAre
  DEF PointersGood, MovedTo, WorkAt, Pointed, SentOf, D!Present
<1>13. NotYetSent'
  BY <1>0, <1>1, <1>7, <1>8, <1>9, ImagesKnow, WorksAre, DeploymentsOf, CommandsAre
  DEF NotYetSent, MovedTo, WorkAt, Pointed, SentOf, D!Present
<1>14. SeenOrAccounted'
  BY <1>0, <1>1, <1>7, <1>8, <1>9, ImagesKnow, WorksAre, DeploymentsOf, CommandsAre
  DEF SeenOrAccounted, MovedTo, WorkAt, Pointed, SentOf, D!Present
<1>15. RollbackKept'
  <2>1. ASSUME NEW e \in D!Deployment, Pointed(e)
      PROVE  D!Present(image[e])' /\ e \notin retiredImages'
    <3>1. D!Present(image[e]) /\ e \notin retiredImages /\ image[e] # op.i
      BY <1>0, <1>8, <2>1 DEF RollbackKept, RemovalReviewed
    <3>2. image' = image /\ tag' = tag /\ e \notin retiredImages'
      BY <1>7, <1>8, <3>1
    <3>. QED
      BY <3>1, <3>2 DEF D!Present
  <2>. QED
    BY <1>7, <2>1 DEF RollbackKept, Pointed
<1>16. D!EffectsOnce'
  BY <1>0, <1>1, <1>7, <1>8, <1>9, ImagesKnow, WorksAre, DeploymentsOf, CommandsAre
  DEF D!EffectsOnce, MovedTo, WorkAt, Pointed, SentOf, D!Present
<1>17. D!ServiceAccounted'
  BY <1>0, <1>1, <1>7, <1>8, <1>9, ImagesKnow, WorksAre, DeploymentsOf, CommandsAre
  DEF D!ServiceAccounted, MovedTo, WorkAt
<1>. QED
  BY <1>9, <1>10, <1>11, <1>12, <1>13, <1>14, <1>15, <1>16, <1>17 DEF ImagesHold

LEMMA InspectReceiptKeeps ==
    ASSUME ImagesHold, NEW d \in D!Deployment, D!InspectReceipt(d)
    PROVE  ImagesHold'
<1>0. /\ ImagesTyped /\ OperationRecorded /\ RemovalReviewed /\ PointersGood /\ NotYetSent
      /\ SeenOrAccounted /\ RollbackKept /\ D!EffectsOnce /\ D!ServiceAccounted
  BY DEF ImagesHold
<1>1. op \in Works
  BY <1>0 DEF ImagesTyped
<1>7. UNCHANGED <<state, image, outcomeOf, plan, pointer, pinned, resolved, review, tag, running, flight, op, epoch, unexpired, mishaps, sent>>
  BY DEF D!InspectReceipt, D!records, D!upkeep, D!dbase, D!daemon, D!clock
<1>8. /\ op.kind = "idle"
      /\ image[d] # None
      /\ receipt' \in [D!Deployment -> {"none", "UNKNOWN", "REMOVED"}]
      /\ retiredImages' = retiredImages \ {d} \/ (retiredImages' = retiredImages \cup {d} /\ ~ D!Present(image[d]))
  BY <1>0, RestingIs DEF D!InspectReceipt, ImagesTyped
<1>9. ImagesTyped'
  BY <1>0, <1>7, <1>8 DEF ImagesTyped, MovedTo, WorkAt
<1>10. OperationRecorded'
  BY <1>0, <1>1, <1>7, <1>8, <1>9, ImagesKnow, WorksAre, DeploymentsOf, CommandsAre
  DEF OperationRecorded, MovedTo, WorkAt, Pointed, SentOf, D!Present
<1>11. RemovalReviewed'
  BY <1>0, <1>1, <1>7, <1>8, <1>9, ImagesKnow, WorksAre, DeploymentsOf, CommandsAre
  DEF RemovalReviewed, MovedTo, WorkAt, Pointed, SentOf, D!Present
<1>12. PointersGood'
  BY <1>0, <1>1, <1>7, <1>8, <1>9, ImagesKnow, WorksAre, DeploymentsOf, CommandsAre
  DEF PointersGood, MovedTo, WorkAt, Pointed, SentOf, D!Present
<1>13. NotYetSent'
  BY <1>0, <1>1, <1>7, <1>8, <1>9, ImagesKnow, WorksAre, DeploymentsOf, CommandsAre
  DEF NotYetSent, MovedTo, WorkAt, Pointed, SentOf, D!Present
<1>14. SeenOrAccounted'
  BY <1>0, <1>1, <1>7, <1>8, <1>9, ImagesKnow, WorksAre, DeploymentsOf, CommandsAre
  DEF SeenOrAccounted, MovedTo, WorkAt, Pointed, SentOf, D!Present
<1>15. RollbackKept'
  BY <1>0, <1>1, <1>7, <1>8, <1>9, ImagesKnow, WorksAre, DeploymentsOf, CommandsAre
  DEF RollbackKept, MovedTo, WorkAt, Pointed, SentOf, D!Present
<1>16. D!EffectsOnce'
  BY <1>0, <1>1, <1>7, <1>8, <1>9, ImagesKnow, WorksAre, DeploymentsOf, CommandsAre
  DEF D!EffectsOnce, MovedTo, WorkAt, Pointed, SentOf, D!Present
<1>17. D!ServiceAccounted'
  BY <1>0, <1>1, <1>7, <1>8, <1>9, ImagesKnow, WorksAre, DeploymentsOf, CommandsAre
  DEF D!ServiceAccounted, MovedTo, WorkAt
<1>. QED
  BY <1>9, <1>10, <1>11, <1>12, <1>13, <1>14, <1>15, <1>16, <1>17 DEF ImagesHold

LEMMA ResolveKeeps ==
    ASSUME ImagesHold, NEW d \in D!Deployment, D!Resolve(d)
    PROVE  ImagesHold'
<1>0. /\ ImagesTyped /\ OperationRecorded /\ RemovalReviewed /\ PointersGood /\ NotYetSent
      /\ SeenOrAccounted /\ RollbackKept /\ D!EffectsOnce /\ D!ServiceAccounted
  BY DEF ImagesHold
<1>1. op \in Works
  BY <1>0 DEF ImagesTyped
<1>7. UNCHANGED <<state, image, outcomeOf, plan, pointer, pinned, retiredImages, receipt, review, tag, running, flight, op, epoch, unexpired, mishaps, sent>>
  BY DEF D!Resolve, D!records, D!upkeep, D!dbase, D!daemon, D!clock
<1>8. /\ op.kind = "idle"
      /\ resolved' \subseteq D!Deployment
  BY <1>0, RestingIs DEF D!Resolve, ImagesTyped
<1>9. ImagesTyped'
  BY <1>0, <1>7, <1>8 DEF ImagesTyped, MovedTo, WorkAt
<1>10. OperationRecorded'
  BY <1>0, <1>1, <1>7, <1>8, <1>9, ImagesKnow, WorksAre, DeploymentsOf, CommandsAre
  DEF OperationRecorded, MovedTo, WorkAt, Pointed, SentOf, D!Present
<1>11. RemovalReviewed'
  BY <1>0, <1>1, <1>7, <1>8, <1>9, ImagesKnow, WorksAre, DeploymentsOf, CommandsAre
  DEF RemovalReviewed, MovedTo, WorkAt, Pointed, SentOf, D!Present
<1>12. PointersGood'
  BY <1>0, <1>1, <1>7, <1>8, <1>9, ImagesKnow, WorksAre, DeploymentsOf, CommandsAre
  DEF PointersGood, MovedTo, WorkAt, Pointed, SentOf, D!Present
<1>13. NotYetSent'
  BY <1>0, <1>1, <1>7, <1>8, <1>9, ImagesKnow, WorksAre, DeploymentsOf, CommandsAre
  DEF NotYetSent, MovedTo, WorkAt, Pointed, SentOf, D!Present
<1>14. SeenOrAccounted'
  BY <1>0, <1>1, <1>7, <1>8, <1>9, ImagesKnow, WorksAre, DeploymentsOf, CommandsAre
  DEF SeenOrAccounted, MovedTo, WorkAt, Pointed, SentOf, D!Present
<1>15. RollbackKept'
  BY <1>0, <1>1, <1>7, <1>8, <1>9, ImagesKnow, WorksAre, DeploymentsOf, CommandsAre
  DEF RollbackKept, MovedTo, WorkAt, Pointed, SentOf, D!Present
<1>16. D!EffectsOnce'
  BY <1>0, <1>1, <1>7, <1>8, <1>9, ImagesKnow, WorksAre, DeploymentsOf, CommandsAre
  DEF D!EffectsOnce, MovedTo, WorkAt, Pointed, SentOf, D!Present
<1>17. D!ServiceAccounted'
  BY <1>0, <1>1, <1>7, <1>8, <1>9, ImagesKnow, WorksAre, DeploymentsOf, CommandsAre
  DEF D!ServiceAccounted, MovedTo, WorkAt
<1>. QED
  BY <1>9, <1>10, <1>11, <1>12, <1>13, <1>14, <1>15, <1>16, <1>17 DEF ImagesHold

LEMMA PinKeeps ==
    ASSUME ImagesHold, NEW d \in D!Deployment, D!Pin(d)
    PROVE  ImagesHold'
<1>0. /\ ImagesTyped /\ OperationRecorded /\ RemovalReviewed /\ PointersGood /\ NotYetSent
      /\ SeenOrAccounted /\ RollbackKept /\ D!EffectsOnce /\ D!ServiceAccounted
  BY DEF ImagesHold
<1>1. op \in Works
  BY <1>0 DEF ImagesTyped
<1>7. UNCHANGED <<state, image, outcomeOf, plan, pointer, retiredImages, receipt, resolved, review, tag, running, flight, op, epoch, unexpired, sent>>
  BY DEF D!Pin, D!records, D!upkeep, D!dbase, D!daemon, D!clock
<1>8. /\ op.kind = "idle"
      /\ pinned' \subseteq D!Deployment
      /\ mishaps' \in 0 .. MaxMishaps
  BY <1>0, RestingIs, ImagesKnow, ImagesAssumed DEF D!Pin, ImagesTyped
<1>9. ImagesTyped'
  BY <1>0, <1>7, <1>8 DEF ImagesTyped, MovedTo, WorkAt
<1>10. OperationRecorded'
  BY <1>0, <1>1, <1>7, <1>8, <1>9, ImagesKnow, WorksAre, DeploymentsOf, CommandsAre
  DEF OperationRecorded, MovedTo, WorkAt, Pointed, SentOf, D!Present
<1>11. RemovalReviewed'
  BY <1>0, <1>1, <1>7, <1>8, <1>9, ImagesKnow, WorksAre, DeploymentsOf, CommandsAre
  DEF RemovalReviewed, MovedTo, WorkAt, Pointed, SentOf, D!Present
<1>12. PointersGood'
  BY <1>0, <1>1, <1>7, <1>8, <1>9, ImagesKnow, WorksAre, DeploymentsOf, CommandsAre
  DEF PointersGood, MovedTo, WorkAt, Pointed, SentOf, D!Present
<1>13. NotYetSent'
  BY <1>0, <1>1, <1>7, <1>8, <1>9, ImagesKnow, WorksAre, DeploymentsOf, CommandsAre
  DEF NotYetSent, MovedTo, WorkAt, Pointed, SentOf, D!Present
<1>14. SeenOrAccounted'
  BY <1>0, <1>1, <1>7, <1>8, <1>9, ImagesKnow, WorksAre, DeploymentsOf, CommandsAre
  DEF SeenOrAccounted, MovedTo, WorkAt, Pointed, SentOf, D!Present
<1>15. RollbackKept'
  BY <1>0, <1>1, <1>7, <1>8, <1>9, ImagesKnow, WorksAre, DeploymentsOf, CommandsAre
  DEF RollbackKept, MovedTo, WorkAt, Pointed, SentOf, D!Present
<1>16. D!EffectsOnce'
  BY <1>0, <1>1, <1>7, <1>8, <1>9, ImagesKnow, WorksAre, DeploymentsOf, CommandsAre
  DEF D!EffectsOnce, MovedTo, WorkAt, Pointed, SentOf, D!Present
<1>17. D!ServiceAccounted'
  BY <1>0, <1>1, <1>7, <1>8, <1>9, ImagesKnow, WorksAre, DeploymentsOf, CommandsAre
  DEF D!ServiceAccounted, MovedTo, WorkAt
<1>. QED
  BY <1>9, <1>10, <1>11, <1>12, <1>13, <1>14, <1>15, <1>16, <1>17 DEF ImagesHold

LEMMA DeployRestartKeeps ==
    ASSUME ImagesHold, D!Restart
    PROVE  ImagesHold'
<1>0. /\ ImagesTyped /\ OperationRecorded /\ RemovalReviewed /\ PointersGood /\ NotYetSent
      /\ SeenOrAccounted /\ RollbackKept /\ D!EffectsOnce /\ D!ServiceAccounted
  BY DEF ImagesHold
<1>1. op \in Works
  BY <1>0 DEF ImagesTyped
<1>7. UNCHANGED <<image, outcomeOf, plan, pointer, pinned, retiredImages, receipt, resolved, tag, running, flight, unexpired, sent>>
  BY DEF D!Restart, D!records, D!upkeep, D!dbase, D!daemon, D!clock
<1>8. /\ mishaps' \in 0 .. MaxMishaps
      /\ op' \in Works
      /\ op'.kind = "idle"
      /\ epoch' = {}
      /\ state' \in [D!Deployment -> D!State]
      /\ \A e \in D!Deployment : state'[e] = IF state[e] \in {"BUILDING", "DEPLOYING", "HEALTH_CHECKING"} THEN "UNKNOWN" ELSE state[e]
  BY <1>0, RestingIs, ImagesKnow, ImagesAssumed
  DEF D!Restart, ImagesTyped, D!Reconciled, D!Unfinished, D!State
<1>9. ImagesTyped'
  BY <1>0, <1>7, <1>8 DEF ImagesTyped, MovedTo, WorkAt
<1>10. OperationRecorded'
  BY <1>0, <1>1, <1>7, <1>8, <1>9, ImagesKnow, WorksAre, DeploymentsOf, CommandsAre
  DEF OperationRecorded, MovedTo, WorkAt, Pointed, SentOf, D!Present
<1>11. RemovalReviewed'
  BY <1>0, <1>1, <1>7, <1>8, <1>9, ImagesKnow, WorksAre, DeploymentsOf, CommandsAre
  DEF RemovalReviewed, MovedTo, WorkAt, Pointed, SentOf, D!Present
<1>12. PointersGood'
  BY <1>0, <1>1, <1>7, <1>8, <1>9, ImagesKnow, WorksAre, DeploymentsOf, CommandsAre
  DEF PointersGood, MovedTo, WorkAt, Pointed, SentOf, D!Present
<1>13. NotYetSent'
  BY <1>0, <1>1, <1>7, <1>8, <1>9, ImagesKnow, WorksAre, DeploymentsOf, CommandsAre
  DEF NotYetSent, MovedTo, WorkAt, Pointed, SentOf, D!Present
<1>14. SeenOrAccounted'
  BY <1>0, <1>1, <1>7, <1>8, <1>9, ImagesKnow, WorksAre, DeploymentsOf, CommandsAre
  DEF SeenOrAccounted, MovedTo, WorkAt, Pointed, SentOf, D!Present
<1>15. RollbackKept'
  BY <1>0, <1>1, <1>7, <1>8, <1>9, ImagesKnow, WorksAre, DeploymentsOf, CommandsAre
  DEF RollbackKept, MovedTo, WorkAt, Pointed, SentOf, D!Present
<1>16. D!EffectsOnce'
  BY <1>0, <1>1, <1>7, <1>8, <1>9, ImagesKnow, WorksAre, DeploymentsOf, CommandsAre
  DEF D!EffectsOnce, MovedTo, WorkAt, Pointed, SentOf, D!Present
<1>17. D!ServiceAccounted'
  BY <1>0, <1>1, <1>7, <1>8, <1>9, ImagesKnow, WorksAre, DeploymentsOf, CommandsAre
  DEF D!ServiceAccounted, MovedTo, WorkAt
<1>. QED
  BY <1>9, <1>10, <1>11, <1>12, <1>13, <1>14, <1>15, <1>16, <1>17 DEF ImagesHold

LEMMA ExpireKeeps ==
    ASSUME ImagesHold, NEW d \in D!Deployment, D!Expire(d)
    PROVE  ImagesHold'
<1>0. /\ ImagesTyped /\ OperationRecorded /\ RemovalReviewed /\ PointersGood /\ NotYetSent
      /\ SeenOrAccounted /\ RollbackKept /\ D!EffectsOnce /\ D!ServiceAccounted
  BY DEF ImagesHold
<1>1. op \in Works
  BY <1>0 DEF ImagesTyped
<1>7. UNCHANGED <<state, image, outcomeOf, plan, pointer, pinned, retiredImages, receipt, resolved, review, tag, running, flight, op, epoch, sent>>
  BY DEF D!Expire, D!records, D!upkeep, D!dbase, D!daemon, D!clock
<1>8. /\ unexpired' \subseteq D!Deployment
      /\ mishaps' \in 0 .. MaxMishaps
  BY <1>0, ImagesKnow, ImagesAssumed DEF D!Expire, ImagesTyped
<1>9. ImagesTyped'
  BY <1>0, <1>7, <1>8 DEF ImagesTyped, MovedTo, WorkAt
<1>10. OperationRecorded'
  BY <1>0, <1>1, <1>7, <1>8, <1>9, ImagesKnow, WorksAre, DeploymentsOf, CommandsAre
  DEF OperationRecorded, MovedTo, WorkAt, Pointed, SentOf, D!Present
<1>11. RemovalReviewed'
  BY <1>0, <1>1, <1>7, <1>8, <1>9, ImagesKnow, WorksAre, DeploymentsOf, CommandsAre
  DEF RemovalReviewed, MovedTo, WorkAt, Pointed, SentOf, D!Present
<1>12. PointersGood'
  BY <1>0, <1>1, <1>7, <1>8, <1>9, ImagesKnow, WorksAre, DeploymentsOf, CommandsAre
  DEF PointersGood, MovedTo, WorkAt, Pointed, SentOf, D!Present
<1>13. NotYetSent'
  BY <1>0, <1>1, <1>7, <1>8, <1>9, ImagesKnow, WorksAre, DeploymentsOf, CommandsAre
  DEF NotYetSent, MovedTo, WorkAt, Pointed, SentOf, D!Present
<1>14. SeenOrAccounted'
  BY <1>0, <1>1, <1>7, <1>8, <1>9, ImagesKnow, WorksAre, DeploymentsOf, CommandsAre
  DEF SeenOrAccounted, MovedTo, WorkAt, Pointed, SentOf, D!Present
<1>15. RollbackKept'
  BY <1>0, <1>1, <1>7, <1>8, <1>9, ImagesKnow, WorksAre, DeploymentsOf, CommandsAre
  DEF RollbackKept, MovedTo, WorkAt, Pointed, SentOf, D!Present
<1>16. D!EffectsOnce'
  BY <1>0, <1>1, <1>7, <1>8, <1>9, ImagesKnow, WorksAre, DeploymentsOf, CommandsAre
  DEF D!EffectsOnce, MovedTo, WorkAt, Pointed, SentOf, D!Present
<1>17. D!ServiceAccounted'
  BY <1>0, <1>1, <1>7, <1>8, <1>9, ImagesKnow, WorksAre, DeploymentsOf, CommandsAre
  DEF D!ServiceAccounted, MovedTo, WorkAt
<1>. QED
  BY <1>9, <1>10, <1>11, <1>12, <1>13, <1>14, <1>15, <1>16, <1>17 DEF ImagesHold

LEMMA ByHandActKeeps ==
    ASSUME ImagesHold, D!ByHandAct
    PROVE  ImagesHold'
<1>0. /\ ImagesTyped /\ OperationRecorded /\ RemovalReviewed /\ PointersGood /\ NotYetSent
      /\ SeenOrAccounted /\ RollbackKept /\ D!EffectsOnce /\ D!ServiceAccounted
  BY DEF ImagesHold
<1>1. op \in Works
  BY <1>0 DEF ImagesTyped
<1>7. UNCHANGED <<state, image, outcomeOf, plan, pointer, pinned, retiredImages, receipt, resolved, review, tag, flight, op, epoch, unexpired, sent>>
  BY DEF D!ByHandAct, D!records, D!upkeep, D!dbase, D!daemon, D!clock
<1>8. /\ mishaps' \in 0 .. MaxMishaps
      /\ running' \in Containers \cup {None}
      /\ running' = None \/ running'.by = D!ByHand
  BY <1>0, ImagesKnow, ImagesAssumed DEF D!ByHandAct, ImagesTyped, Containers
<1>9. ImagesTyped'
  BY <1>0, <1>7, <1>8 DEF ImagesTyped, MovedTo, WorkAt
<1>10. OperationRecorded'
  BY <1>0, <1>1, <1>7, <1>8, <1>9, ImagesKnow, WorksAre, DeploymentsOf, CommandsAre
  DEF OperationRecorded, MovedTo, WorkAt, Pointed, SentOf, D!Present
<1>11. RemovalReviewed'
  BY <1>0, <1>1, <1>7, <1>8, <1>9, ImagesKnow, WorksAre, DeploymentsOf, CommandsAre
  DEF RemovalReviewed, MovedTo, WorkAt, Pointed, SentOf, D!Present
<1>12. PointersGood'
  BY <1>0, <1>1, <1>7, <1>8, <1>9, ImagesKnow, WorksAre, DeploymentsOf, CommandsAre
  DEF PointersGood, MovedTo, WorkAt, Pointed, SentOf, D!Present
<1>13. NotYetSent'
  BY <1>0, <1>1, <1>7, <1>8, <1>9, ImagesKnow, WorksAre, DeploymentsOf, CommandsAre
  DEF NotYetSent, MovedTo, WorkAt, Pointed, SentOf, D!Present
<1>14. SeenOrAccounted'
  BY <1>0, <1>1, <1>7, <1>8, <1>9, ImagesKnow, WorksAre, DeploymentsOf, CommandsAre
  DEF SeenOrAccounted, MovedTo, WorkAt, Pointed, SentOf, D!Present
<1>15. RollbackKept'
  BY <1>0, <1>1, <1>7, <1>8, <1>9, ImagesKnow, WorksAre, DeploymentsOf, CommandsAre
  DEF RollbackKept, MovedTo, WorkAt, Pointed, SentOf, D!Present
<1>16. D!EffectsOnce'
  BY <1>0, <1>1, <1>7, <1>8, <1>9, ImagesKnow, WorksAre, DeploymentsOf, CommandsAre
  DEF D!EffectsOnce, MovedTo, WorkAt, Pointed, SentOf, D!Present
<1>17. D!ServiceAccounted'
  BY <1>0, <1>1, <1>7, <1>8, <1>9, ImagesKnow, WorksAre, DeploymentsOf, CommandsAre
  DEF D!ServiceAccounted, MovedTo, WorkAt
<1>. QED
  BY <1>9, <1>10, <1>11, <1>12, <1>13, <1>14, <1>15, <1>16, <1>17 DEF ImagesHold

LEMMA ImagesInductive ==
    /\ D!DeploymentsInit => ImagesHold
    /\ ImagesHold /\ [D!DeploymentsNext]_(D!deployVars) => ImagesHold'
<1>1. ASSUME D!DeploymentsInit PROVE ImagesHold
  <2>1. ImagesTyped
    BY <1>1, RestingIs, ImagesAssumed DEF D!DeploymentsInit, ImagesTyped, D!State
  <2>2. op.kind = "idle"
    BY <1>1, RestingIs DEF D!DeploymentsInit
  <2>3. OperationRecorded /\ RemovalReviewed /\ SeenOrAccounted
    BY <2>2 DEF OperationRecorded, RemovalReviewed, SeenOrAccounted
  <2>4. PointersGood /\ RollbackKept
    BY <1>1, DeploymentsOf DEF D!DeploymentsInit, PointersGood, RollbackKept, Pointed
  <2>5. NotYetSent
    BY <1>1, CommandsAre DEF D!DeploymentsInit, NotYetSent, SentOf
  <2>6. D!EffectsOnce /\ D!ServiceAccounted
    BY <1>1 DEF D!DeploymentsInit, D!EffectsOnce, D!ServiceAccounted
  <2>. QED
    BY <2>1, <2>3, <2>4, <2>5, <2>6 DEF ImagesHold
<1>2. ASSUME ImagesHold, UNCHANGED D!deployVars PROVE ImagesHold'
  <2>1. UNCHANGED <<state, image, outcomeOf, plan, pointer, pinned, retiredImages, receipt, resolved, tag, running, flight, op, epoch, unexpired, mishaps, sent>>
    BY <1>2 DEF D!deployVars, D!records, D!upkeep, D!dbase, D!daemon, D!clock
  <2>. QED
    BY <1>2, <2>1
    DEF ImagesHold, ImagesTyped, OperationRecorded, RemovalReviewed, PointersGood,
       NotYetSent, SentOf, SeenOrAccounted, RollbackKept, Pointed, D!EffectsOnce, D!ServiceAccounted, D!Present
<1>. QED
  BY <1>1, <1>2, PrepareKeeps, PrepareRollbackKeeps, LandKeeps, LostKeeps,
     UncertainKeeps, TimeoutKeeps, BuildKeeps, BuildSendKeeps, ApplySendKeeps,
     BuildReplyKeeps, BuiltKeeps, DeployApplyKeeps, RecordKeeps, ApplyReplyKeeps,
     UnhealthyKeeps, HealthyKeeps, KnownGoodKeeps, ReviewKeeps, CleanupKeeps,
     RemoveNextKeeps, RemovalKeeps, RetireKeeps, InspectReceiptKeeps, ResolveKeeps,
     PinKeeps, DeployRestartKeeps, ExpireKeeps, ByHandActKeeps
  DEF D!DeploymentsNext

LEMMA ImagesSound ==
    ASSUME ImagesHold
    PROVE  D!DeploymentsTypeOK /\ D!RollbackReady /\ D!EffectsOnce /\ D!ServiceAccounted
<1>1. D!DeploymentsTypeOK
  BY DEF ImagesHold, ImagesTyped, D!DeploymentsTypeOK, D!Container, Containers, Plans
<1>2. D!RollbackReady
  BY DEF ImagesHold, ImagesTyped, RollbackKept, Pointed, D!RollbackReady
<1>. QED
  BY <1>1, <1>2 DEF ImagesHold

-----------------------------------------------------------------------------
(* The private file and its encrypted backups.                             *)

\* What the operation of the queue has in hand.
VaultTasks ==
    [kind : {"free"}]
      \cup [kind : {"backup"}, content : V!Content]
      \cup [kind : {"apply"}, r : V!Restore, content : V!Content, stat : Nat,
            before : V!Backup \cup {None}]
      \cup [kind : {"write", "rest"}, r : V!Restore, before : V!Backup]

\* A key that seals, or sealed what is kept, is kept.
KeysKept ==
    /\ target.key \in keys
    /\ \A b \in V!Backup : backups[b] # None => backups[b].key \in keys

\* What restores name is kept: what they read from, and what they wrote over.
NamedKept ==
    \A r \in V!Restore :
        /\ restores[r].state # "none" => restores[r].of # None
        /\ restores[r].of # None => backups[restores[r].of] # None
        /\ restores[r].before # None => backups[restores[r].before] # None

\* The restore under way: planned and sealed as the file is unless someone edits
\* it; then on record, and nothing but its own writes reaches the file.
ApplySound ==
    task.kind = "apply" =>
        /\ restores[task.r].state = "PREVIEW" /\ task.stat <= edits
        /\ task.stat = edits => file = task.content
        /\ task.before # None => backups[task.before] # None
                                 /\ backups[task.before].content = task.content
WriteSound ==
    task.kind \in {"write", "rest"} =>
        /\ restores[task.r].state = "UNKNOWN" /\ restores[task.r].before = task.before
        /\ task.kind = "write" => written[task.r] = None
                                  /\ backups[task.before].content = file
        /\ task.kind = "rest" => written[task.r] # None /\ file = Torn

\* What was written over is where the receipt says.
Overwritten ==
    \A r \in V!Restore : written[r] # None =>
        /\ restores[r].state \in {"UNKNOWN", "APPLIED"} /\ restores[r].before # None
        /\ backups[restores[r].before].content = written[r]

\* Torn bytes that are not those of the write under way were left by another.
SomeTorn ==
    \/ file = Torn /\ task.kind # "rest"
    \/ task.kind \in {"backup", "apply"} /\ task.content = Torn
    \/ \E b \in V!Backup : backups[b] # None /\ backups[b].content = Torn
TornLeft ==
    SomeTorn => \E r \in V!Restore : /\ restores[r].state = "UNKNOWN" /\ written[r] # None
                                     /\ task.kind = "rest" => task.r # r

RestoreRow == [state : {"none", "PREVIEW", "UNKNOWN", "APPLIED", "EXPIRED"},
               of : V!Backup \cup {None}, before : V!Backup \cup {None},
               expected : V!Content \cup {None}, current : BOOLEAN]
VaultTyped ==
    /\ file \in V!Content /\ backups \in [V!Backup -> {None} \cup V!Sealed]
    /\ restores \in [V!Restore -> RestoreRow] /\ target \in [key : V!Key, enabled : BOOLEAN]
    /\ keys \subseteq V!Key /\ edits \in 0 .. MaxEdits
    /\ written \in [V!Restore -> V!Content \cup {None}] /\ task \in VaultTasks

VaultHold ==
    /\ VaultTyped /\ KeysKept /\ NamedKept /\ ApplySound /\ WriteSound /\ Overwritten
    /\ TornLeft

LEMMA VaultAssumed ==
    /\ {MaxBackups, MaxRestores, MaxKeys, MaxEdits} \subseteq Nat /\ MaxKeys # 0 /\ Torn \notin Text
    /\ None \notin Text \cup Nat /\ None # Torn /\ None \notin V!Sealed
BY Assumed DEF V!ConfigVaultAssumption

LEMMA NumbersOf ==
    /\ V!Backup \subseteq Nat /\ V!Restore \subseteq Nat /\ None \notin V!Backup
    /\ None \notin V!Content /\ Torn \in V!Content /\ Text \subseteq V!Content
BY VaultAssumed DEF V!Backup, V!Restore, V!Content

\* What the type says of the rows.
LEMMA VaultKnows ==
    ASSUME VaultTyped
    PROVE  /\ file \in V!Content /\ target.key \in V!Key /\ target.enabled \in BOOLEAN
           /\ \A b \in V!Backup : backups[b] # None =>
                  /\ backups[b] \in V!Sealed /\ backups[b].content \in V!Content
                  /\ backups[b].key \in V!Key
           /\ \A r \in V!Restore :
                  /\ restores[r] \in RestoreRow /\ restores[r].of \in V!Backup \cup {None}
                  /\ restores[r].before \in V!Backup \cup {None}
                  /\ restores[r].state \in {"none", "PREVIEW", "UNKNOWN", "APPLIED", "EXPIRED"}
                  /\ written[r] \in V!Content \cup {None}
           /\ edits \in Nat
BY VaultAssumed DEF VaultTyped, RestoreRow, V!Sealed

LEMMA TasksAre ==
    ASSUME task \in VaultTasks
    PROVE  /\ task.kind \in {"free", "backup", "apply", "write", "rest"}
           /\ task.kind = "backup" => task.content \in V!Content
           /\ task.kind = "apply" =>
                /\ task.r \in V!Restore /\ task.content \in V!Content /\ task.stat \in Nat
                /\ task.before \in V!Backup \cup {None}
           /\ task.kind \in {"write", "rest"} => task.r \in V!Restore /\ task.before \in V!Backup
BY DEF VaultTasks

LEMMA FreeIs == V!Free \in VaultTasks /\ V!Free.kind = "free"
BY DEF V!Free, VaultTasks

LEMMA PruningSpares ==
    ASSUME NEW old \in [V!Backup -> {None} \cup V!Sealed]
    PROVE  /\ V!Pruned(old) \in [V!Backup -> {None} \cup V!Sealed]
           /\ \A b \in V!Backup : /\ V!Pruned(old)[b] \in {None, old[b]}
                                  /\ b \in V!Referenced => V!Pruned(old)[b] = old[b]
BY DEF V!Pruned

\* Restores keep what they name and how far they are.
RestoresStay ==
    \A r \in V!Restore : /\ restores'[r].state = restores[r].state
                         /\ restores'[r].of = restores[r].of
                         /\ restores'[r].before = restores[r].before

LEMMA OutdatedIs ==
    ASSUME VaultTyped, restores' = V!Outdated
    PROVE  restores' \in [V!Restore -> RestoreRow] /\ RestoresStay
<1>1. ASSUME NEW r \in V!Restore
      PROVE  LET n == [restores[r] EXCEPT !.current = FALSE] IN
             /\ n \in RestoreRow /\ n.state = restores[r].state /\ n.of = restores[r].of
             /\ n.before = restores[r].before
  BY VaultKnows DEF RestoreRow
<1>. QED
  BY <1>1 DEF V!Outdated, RestoresStay

\* A row of a restore that is changed, and the others.
RestoreIs(r, st, o, bf) ==
    /\ restores' \in [V!Restore -> RestoreRow]
    /\ restores'[r].state = st /\ restores'[r].of = o /\ restores'[r].before = bf
    /\ \A x \in V!Restore \ {r} : restores'[x] = restores[x]

LEMMA OneRestore ==
    ASSUME VaultTyped, NEW r \in V!Restore, NEW n \in RestoreRow, restores' = [restores EXCEPT ![r] = n]
    PROVE  RestoreIs(r, n.state, n.of, n.before)
BY DEF VaultTyped, RestoreIs

\* b, which nothing named, may now be a backup of that content; others may go
\* that nothing names.
NewBackup(b, c) ==
    /\ \A r \in V!Restore : b \notin {restores[r].of, restores[r].before}
    /\ backups'[b] # None => backups'[b].content = c /\ backups'[b].key = target.key
    /\ \A x \in V!Backup \ {b} : /\ backups'[x] \in {None, backups[x]}
                                 /\ x \in V!Referenced => backups'[x] = backups[x]
BackupsSpared ==
    \A x \in V!Backup : /\ backups'[x] \in {None, backups[x]}
                        /\ x \in V!Referenced => backups'[x] = backups[x]

LEMMA NamedReferenced ==
    \A r \in V!Restore : restores[r].of \in V!Referenced /\ restores[r].before \in V!Referenced
BY DEF V!Referenced

LEMMA SealedIs ==
    ASSUME NEW c \in V!Content, NEW k \in V!Key
    PROVE  LET n == [content |-> c, key |-> k] IN
           n \in V!Sealed /\ n # None /\ n.content = c /\ n.key = k
BY VaultAssumed DEF V!Sealed

-----------------------------------------------------------------------------
(* Every step keeps the invariant: what it does, and what follows.          *)

LEMMA ReadForBackupKeeps ==
    ASSUME VaultHold, V!ReadForBackup
    PROVE  VaultHold'
<1>0. /\ VaultTyped /\ KeysKept /\ NamedKept /\ ApplySound /\ WriteSound /\ Overwritten /\ TornLeft
  BY DEF VaultHold
<1>8. /\ task' \in VaultTasks /\ task'.kind = "backup" /\ task'.content = file /\ task.kind = "free"
      /\ UNCHANGED <<file, backups, restores, target, keys, edits, written>>
  BY <1>0, VaultKnows, FreeIs DEF V!ReadForBackup, VaultTasks
<1>9. VaultTyped'
  BY <1>0, <1>8 DEF VaultTyped
<1>10. KeysKept'
  BY <1>0, <1>8, <1>9, VaultKnows, TasksAre, NumbersOf, NamedReferenced
  DEF KeysKept, VaultTyped, RestoresStay, RestoreIs, NewBackup, BackupsSpared
<1>11. NamedKept'
  BY <1>0, <1>8, <1>9, VaultKnows, TasksAre, NumbersOf, NamedReferenced
  DEF NamedKept, VaultTyped, RestoresStay, RestoreIs, NewBackup, BackupsSpared
<1>12. ApplySound'
  BY <1>0, <1>8, <1>9, VaultKnows, TasksAre, NumbersOf, NamedReferenced
  DEF ApplySound, VaultTyped, RestoresStay, RestoreIs, NewBackup, BackupsSpared
<1>13. WriteSound'
  BY <1>0, <1>8, <1>9, VaultKnows, TasksAre, NumbersOf, NamedReferenced
  DEF WriteSound, VaultTyped, RestoresStay, RestoreIs, NewBackup, BackupsSpared
<1>14. Overwritten'
  BY <1>0, <1>8, <1>9, VaultKnows, TasksAre, NumbersOf, NamedReferenced
  DEF Overwritten, VaultTyped, RestoresStay, RestoreIs, NewBackup, BackupsSpared
<1>15. TornLeft'
  BY <1>0, <1>8, <1>9, VaultKnows, TasksAre, NumbersOf, NamedReferenced
  DEF TornLeft, VaultTyped, SomeTorn, RestoresStay, RestoreIs, NewBackup,
      BackupsSpared
<1>. QED
  BY <1>9, <1>10, <1>11, <1>12, <1>13, <1>14, <1>15 DEF VaultHold

LEMMA BackedUpKeeps ==
    ASSUME VaultHold, NEW b \in V!Backup, V!BackedUp(b)
    PROVE  VaultHold'
<1>0. /\ VaultTyped /\ KeysKept /\ NamedKept /\ ApplySound /\ WriteSound /\ Overwritten /\ TornLeft
  BY DEF VaultHold
<1>. DEFINE n == [content |-> task.content, key |-> target.key]
            old == [backups EXCEPT ![b] = n]
<1>1. /\ task.kind = "backup" /\ V!Unused(b) /\ backups' = V!Pruned(old) /\ task' = V!Free
      /\ UNCHANGED <<file, restores, target, keys, edits, written>>
  BY DEF V!BackedUp
<1>2. n \in V!Sealed /\ n # None /\ n.content = task.content /\ n.key = target.key
  BY <1>0, <1>1, SealedIs, VaultKnows, TasksAre DEF VaultTyped
<1>. HIDE DEF n
<1>3. old \in [V!Backup -> {None} \cup V!Sealed] /\ old[b] = n /\ \A x \in V!Backup \ {b} : old[x] = backups[x]
  BY <1>0, <1>2 DEF VaultTyped
<1>. HIDE DEF old
<1>4. /\ backups' \in [V!Backup -> {None} \cup V!Sealed]
      /\ \A x \in V!Backup : /\ backups'[x] \in {None, old[x]}
                             /\ x \in V!Referenced => backups'[x] = old[x]
  BY <1>1, <1>3, PruningSpares
<1>5. \A r \in V!Restore : b \notin {restores[r].of, restores[r].before}
  BY <1>1, NumbersOf DEF V!Unused
<1>8. /\ task.kind = "backup" /\ task' \in VaultTasks /\ task'.kind = "free"
      /\ backups' \in [V!Backup -> {None} \cup V!Sealed] /\ NewBackup(b, task.content)
      /\ UNCHANGED <<file, restores, target, keys, edits, written>>
  BY <1>1, <1>2, <1>3, <1>4, <1>5, FreeIs DEF NewBackup
<1>9. VaultTyped'
  BY <1>0, <1>8 DEF VaultTyped
<1>10. KeysKept'
  BY <1>0, <1>8, <1>9, VaultKnows, TasksAre, NumbersOf, NamedReferenced
  DEF KeysKept, VaultTyped, RestoresStay, RestoreIs, NewBackup, BackupsSpared
<1>11. NamedKept'
  BY <1>0, <1>8, <1>9, VaultKnows, TasksAre, NumbersOf, NamedReferenced
  DEF NamedKept, VaultTyped, RestoresStay, RestoreIs, NewBackup, BackupsSpared
<1>12. ApplySound'
  BY <1>0, <1>8, <1>9, VaultKnows, TasksAre, NumbersOf, NamedReferenced
  DEF ApplySound, VaultTyped, RestoresStay, RestoreIs, NewBackup, BackupsSpared
<1>13. WriteSound'
  BY <1>0, <1>8, <1>9, VaultKnows, TasksAre, NumbersOf, NamedReferenced
  DEF WriteSound, VaultTyped, RestoresStay, RestoreIs, NewBackup, BackupsSpared
<1>14. Overwritten'
  BY <1>0, <1>8, <1>9, VaultKnows, TasksAre, NumbersOf, NamedReferenced
  DEF Overwritten, VaultTyped, RestoresStay, RestoreIs, NewBackup, BackupsSpared
<1>15. TornLeft'
  BY <1>0, <1>8, <1>9, VaultKnows, TasksAre, NumbersOf, NamedReferenced
  DEF TornLeft, VaultTyped, SomeTorn, RestoresStay, RestoreIs, NewBackup,
      BackupsSpared
<1>. QED
  BY <1>9, <1>10, <1>11, <1>12, <1>13, <1>14, <1>15 DEF VaultHold

LEMMA SealKeeps ==
    ASSUME VaultHold, NEW b \in V!Backup, V!Seal(b)
    PROVE  VaultHold'
<1>0. /\ VaultTyped /\ KeysKept /\ NamedKept /\ ApplySound /\ WriteSound /\ Overwritten /\ TornLeft
  BY DEF VaultHold
<1>. DEFINE n == [content |-> task.content, key |-> target.key]
            t == [task EXCEPT !.before = b]
<1>1. /\ task.kind = "apply" /\ task.before = None /\ V!Unused(b)
      /\ backups' = [backups EXCEPT ![b] = n] /\ task' = t
      /\ UNCHANGED <<file, restores, target, keys, edits, written>>
  BY DEF V!Seal
<1>2. n \in V!Sealed /\ n # None /\ n.content = task.content /\ n.key = target.key
  BY <1>0, <1>1, SealedIs, VaultKnows, TasksAre DEF VaultTyped
<1>3. /\ t \in VaultTasks /\ t.kind = "apply" /\ t.r = task.r /\ t.content = task.content
      /\ t.stat = task.stat /\ t.before = b
  BY <1>0, <1>1 DEF VaultTyped, VaultTasks
<1>. HIDE DEF n, t
<1>5. \A r \in V!Restore : b \notin {restores[r].of, restores[r].before}
  BY <1>1, NumbersOf DEF V!Unused
<1>8. /\ task.kind = "apply" /\ task' \in VaultTasks /\ task'.kind = "apply" /\ task'.r = task.r
      /\ task'.content = task.content /\ task'.stat = task.stat /\ task'.before = b
      /\ backups' \in [V!Backup -> {None} \cup V!Sealed] /\ NewBackup(b, task.content)
      /\ backups'[b] # None
      /\ UNCHANGED <<file, restores, target, keys, edits, written>>
  BY <1>0, <1>1, <1>2, <1>3, <1>5 DEF NewBackup, VaultTyped
<1>9. VaultTyped'
  BY <1>0, <1>8 DEF VaultTyped
<1>10. KeysKept'
  BY <1>0, <1>8, <1>9, VaultKnows, TasksAre, NumbersOf, NamedReferenced
  DEF KeysKept, VaultTyped, RestoresStay, RestoreIs, NewBackup, BackupsSpared
<1>11. NamedKept'
  BY <1>0, <1>8, <1>9, VaultKnows, TasksAre, NumbersOf, NamedReferenced
  DEF NamedKept, VaultTyped, RestoresStay, RestoreIs, NewBackup, BackupsSpared
<1>12. ApplySound'
  BY <1>0, <1>8, <1>9, VaultKnows, TasksAre, NumbersOf, NamedReferenced
  DEF ApplySound, VaultTyped, RestoresStay, RestoreIs, NewBackup, BackupsSpared
<1>13. WriteSound'
  BY <1>0, <1>8, <1>9, VaultKnows, TasksAre, NumbersOf, NamedReferenced
  DEF WriteSound, VaultTyped, RestoresStay, RestoreIs, NewBackup, BackupsSpared
<1>14. Overwritten'
  BY <1>0, <1>8, <1>9, VaultKnows, TasksAre, NumbersOf, NamedReferenced
  DEF Overwritten, VaultTyped, RestoresStay, RestoreIs, NewBackup, BackupsSpared
<1>15. TornLeft'
  BY <1>0, <1>8, <1>9, VaultKnows, TasksAre, NumbersOf, NamedReferenced
  DEF TornLeft, VaultTyped, SomeTorn, RestoresStay, RestoreIs, NewBackup,
      BackupsSpared
<1>. QED
  BY <1>9, <1>10, <1>11, <1>12, <1>13, <1>14, <1>15 DEF VaultHold

LEMMA ConfigureKeeps ==
    ASSUME VaultHold, V!Configure
    PROVE  VaultHold'
<1>0. /\ VaultTyped /\ KeysKept /\ NamedKept /\ ApplySound /\ WriteSound /\ Overwritten /\ TornLeft
  BY DEF VaultHold
<1>1. /\ task = V!Free /\ backups' = V!Pruned(backups) /\ restores' = V!Outdated
      /\ target' = [target EXCEPT !.enabled = ~ target.enabled]
      /\ UNCHANGED <<file, keys, task, edits, written>>
  BY DEF V!Configure
<1>2. target' \in [key : V!Key, enabled : BOOLEAN] /\ target'.key = target.key
  BY <1>0, <1>1 DEF VaultTyped
<1>8. /\ task.kind = "free" /\ target' \in [key : V!Key, enabled : BOOLEAN] /\ target'.key = target.key
      /\ backups' \in [V!Backup -> {None} \cup V!Sealed] /\ BackupsSpared
      /\ restores' \in [V!Restore -> RestoreRow] /\ RestoresStay
      /\ UNCHANGED <<file, keys, task, edits, written>>
  BY <1>0, <1>1, <1>2, FreeIs, PruningSpares, OutdatedIs DEF VaultTyped, BackupsSpared
<1>9. VaultTyped'
  BY <1>0, <1>8 DEF VaultTyped
<1>10. KeysKept'
  BY <1>0, <1>8, <1>9, VaultKnows, TasksAre, NumbersOf, NamedReferenced
  DEF KeysKept, VaultTyped, RestoresStay, RestoreIs, NewBackup, BackupsSpared
<1>11. NamedKept'
  BY <1>0, <1>8, <1>9, VaultKnows, TasksAre, NumbersOf, NamedReferenced
  DEF NamedKept, VaultTyped, RestoresStay, RestoreIs, NewBackup, BackupsSpared
<1>12. ApplySound'
  BY <1>0, <1>8, <1>9, VaultKnows, TasksAre, NumbersOf, NamedReferenced
  DEF ApplySound, VaultTyped, RestoresStay, RestoreIs, NewBackup, BackupsSpared
<1>13. WriteSound'
  BY <1>0, <1>8, <1>9, VaultKnows, TasksAre, NumbersOf, NamedReferenced
  DEF WriteSound, VaultTyped, RestoresStay, RestoreIs, NewBackup, BackupsSpared
<1>14. Overwritten'
  BY <1>0, <1>8, <1>9, VaultKnows, TasksAre, NumbersOf, NamedReferenced
  DEF Overwritten, VaultTyped, RestoresStay, RestoreIs, NewBackup, BackupsSpared
<1>15. TornLeft'
  BY <1>0, <1>8, <1>9, VaultKnows, TasksAre, NumbersOf, NamedReferenced
  DEF TornLeft, VaultTyped, SomeTorn, RestoresStay, RestoreIs, NewBackup,
      BackupsSpared
<1>. QED
  BY <1>9, <1>10, <1>11, <1>12, <1>13, <1>14, <1>15 DEF VaultHold

LEMMA RotateKeeps ==
    ASSUME VaultHold, NEW k \in V!Key, V!Rotate(k)
    PROVE  VaultHold'
<1>0. /\ VaultTyped /\ KeysKept /\ NamedKept /\ ApplySound /\ WriteSound /\ Overwritten /\ TornLeft
  BY DEF VaultHold
<1>1. /\ task = V!Free /\ restores' = V!Outdated /\ keys' = keys \cup {k}
      /\ target' = [target EXCEPT !.key = k]
      /\ UNCHANGED <<file, backups, task, edits, written>>
  BY DEF V!Rotate
<1>2. target' \in [key : V!Key, enabled : BOOLEAN] /\ target'.key = k
  BY <1>0, <1>1 DEF VaultTyped
<1>8. /\ task.kind = "free" /\ target' \in [key : V!Key, enabled : BOOLEAN] /\ target'.key = k
      /\ keys' = keys \cup {k} /\ restores' \in [V!Restore -> RestoreRow] /\ RestoresStay
      /\ UNCHANGED <<file, backups, task, edits, written>>
  BY <1>0, <1>1, <1>2, FreeIs, OutdatedIs
<1>9. VaultTyped'
  BY <1>0, <1>8 DEF VaultTyped
<1>10. KeysKept'
  BY <1>0, <1>8, <1>9, VaultKnows, TasksAre, NumbersOf, NamedReferenced
  DEF KeysKept, VaultTyped, RestoresStay, RestoreIs, NewBackup, BackupsSpared
<1>11. NamedKept'
  BY <1>0, <1>8, <1>9, VaultKnows, TasksAre, NumbersOf, NamedReferenced
  DEF NamedKept, VaultTyped, RestoresStay, RestoreIs, NewBackup, BackupsSpared
<1>12. ApplySound'
  BY <1>0, <1>8, <1>9, VaultKnows, TasksAre, NumbersOf, NamedReferenced
  DEF ApplySound, VaultTyped, RestoresStay, RestoreIs, NewBackup, BackupsSpared
<1>13. WriteSound'
  BY <1>0, <1>8, <1>9, VaultKnows, TasksAre, NumbersOf, NamedReferenced
  DEF WriteSound, VaultTyped, RestoresStay, RestoreIs, NewBackup, BackupsSpared
<1>14. Overwritten'
  BY <1>0, <1>8, <1>9, VaultKnows, TasksAre, NumbersOf, NamedReferenced
  DEF Overwritten, VaultTyped, RestoresStay, RestoreIs, NewBackup, BackupsSpared
<1>15. TornLeft'
  BY <1>0, <1>8, <1>9, VaultKnows, TasksAre, NumbersOf, NamedReferenced
  DEF TornLeft, VaultTyped, SomeTorn, RestoresStay, RestoreIs, NewBackup,
      BackupsSpared
<1>. QED
  BY <1>9, <1>10, <1>11, <1>12, <1>13, <1>14, <1>15 DEF VaultHold

LEMMA ApplyKeeps ==
    ASSUME VaultHold, NEW r \in V!Restore, V!Apply(r)
    PROVE  VaultHold'
<1>0. /\ VaultTyped /\ KeysKept /\ NamedKept /\ ApplySound /\ WriteSound /\ Overwritten /\ TornLeft
  BY DEF VaultHold
<1>. DEFINE t == [kind |-> "apply", r |-> r, content |-> file, stat |-> edits, before |-> None]
<1>1. /\ task = V!Free /\ restores[r].state = "PREVIEW" /\ task' = t
      /\ UNCHANGED <<file, backups, restores, target, keys, edits, written>>
  BY DEF V!Apply
<1>2. /\ t \in VaultTasks /\ t.kind = "apply" /\ t.r = r /\ t.content = file
      /\ t.stat = edits /\ t.before = None
  BY <1>0, VaultKnows DEF VaultTasks
<1>. HIDE DEF t
<1>8. /\ task.kind = "free" /\ restores[r].state = "PREVIEW" /\ task' \in VaultTasks
      /\ task'.kind = "apply" /\ task'.r = r /\ task'.content = file /\ task'.stat = edits
      /\ task'.before = None
      /\ UNCHANGED <<file, backups, restores, target, keys, edits, written>>
  BY <1>1, <1>2, FreeIs
<1>9. VaultTyped'
  BY <1>0, <1>8 DEF VaultTyped
<1>10. KeysKept'
  BY <1>0, <1>8, <1>9, VaultKnows, TasksAre, NumbersOf, NamedReferenced
  DEF KeysKept, VaultTyped, RestoresStay, RestoreIs, NewBackup, BackupsSpared
<1>11. NamedKept'
  BY <1>0, <1>8, <1>9, VaultKnows, TasksAre, NumbersOf, NamedReferenced
  DEF NamedKept, VaultTyped, RestoresStay, RestoreIs, NewBackup, BackupsSpared
<1>12. ApplySound'
  BY <1>0, <1>8, <1>9, VaultKnows, TasksAre, NumbersOf, NamedReferenced
  DEF ApplySound, VaultTyped, RestoresStay, RestoreIs, NewBackup, BackupsSpared
<1>13. WriteSound'
  BY <1>0, <1>8, <1>9, VaultKnows, TasksAre, NumbersOf, NamedReferenced
  DEF WriteSound, VaultTyped, RestoresStay, RestoreIs, NewBackup, BackupsSpared
<1>14. Overwritten'
  BY <1>0, <1>8, <1>9, VaultKnows, TasksAre, NumbersOf, NamedReferenced
  DEF Overwritten, VaultTyped, RestoresStay, RestoreIs, NewBackup, BackupsSpared
<1>15. TornLeft'
  BY <1>0, <1>8, <1>9, VaultKnows, TasksAre, NumbersOf, NamedReferenced
  DEF TornLeft, VaultTyped, SomeTorn, RestoresStay, RestoreIs, NewBackup,
      BackupsSpared
<1>. QED
  BY <1>9, <1>10, <1>11, <1>12, <1>13, <1>14, <1>15 DEF VaultHold

LEMMA PreviewKeeps ==
    ASSUME VaultHold, NEW r \in V!Restore, NEW b \in V!Backup, V!Preview(r, b)
    PROVE  VaultHold'
<1>0. /\ VaultTyped /\ KeysKept /\ NamedKept /\ ApplySound /\ WriteSound /\ Overwritten /\ TornLeft
  BY DEF VaultHold
<1>. DEFINE n == [V!NoRestore EXCEPT !.state = "PREVIEW", !.of = b, !.expected = file, !.current = TRUE]
<1>1. /\ task = V!Free /\ restores[r].state = "none" /\ backups[b] # None
      /\ restores' = [restores EXCEPT ![r] = n]
      /\ UNCHANGED <<file, backups, target, keys, task, edits, written>>
  BY DEF V!Preview, V!Next1
<1>2. n \in RestoreRow /\ n.state = "PREVIEW" /\ n.of = b /\ n.before = None
  BY <1>0, VaultKnows DEF V!NoRestore, RestoreRow
<1>. HIDE DEF n
<1>3. RestoreIs(r, n.state, n.of, n.before)
  BY <1>0, <1>1, <1>2, OneRestore
<1>8. /\ task.kind = "free" /\ restores[r].state = "none" /\ backups[b] # None
      /\ RestoreIs(r, "PREVIEW", b, None)
      /\ UNCHANGED <<file, backups, target, keys, task, edits, written>>
  BY <1>1, <1>2, <1>3, FreeIs
<1>9. VaultTyped'
  BY <1>0, <1>8 DEF VaultTyped, RestoreIs
<1>10. KeysKept'
  BY <1>0, <1>8, <1>9, VaultKnows, TasksAre, NumbersOf, NamedReferenced
  DEF KeysKept, VaultTyped, RestoresStay, RestoreIs, NewBackup, BackupsSpared
<1>11. NamedKept'
  BY <1>0, <1>8, <1>9, VaultKnows, TasksAre, NumbersOf, NamedReferenced
  DEF NamedKept, VaultTyped, RestoresStay, RestoreIs, NewBackup, BackupsSpared
<1>12. ApplySound'
  BY <1>0, <1>8, <1>9, VaultKnows, TasksAre, NumbersOf, NamedReferenced
  DEF ApplySound, VaultTyped, RestoresStay, RestoreIs, NewBackup, BackupsSpared
<1>13. WriteSound'
  BY <1>0, <1>8, <1>9, VaultKnows, TasksAre, NumbersOf, NamedReferenced
  DEF WriteSound, VaultTyped, RestoresStay, RestoreIs, NewBackup, BackupsSpared
<1>14. Overwritten'
  BY <1>0, <1>8, <1>9, VaultKnows, TasksAre, NumbersOf, NamedReferenced
  DEF Overwritten, VaultTyped, RestoresStay, RestoreIs, NewBackup, BackupsSpared
<1>15. TornLeft'
  BY <1>0, <1>8, <1>9, VaultKnows, TasksAre, NumbersOf, NamedReferenced
  DEF TornLeft, VaultTyped, SomeTorn, RestoresStay, RestoreIs, NewBackup,
      BackupsSpared
<1>. QED
  BY <1>9, <1>10, <1>11, <1>12, <1>13, <1>14, <1>15 DEF VaultHold

LEMMA BeginKeeps ==
    ASSUME VaultHold, V!Begin
    PROVE  VaultHold'
<1>0. /\ VaultTyped /\ KeysKept /\ NamedKept /\ ApplySound /\ WriteSound /\ Overwritten /\ TornLeft
  BY DEF VaultHold
<1>r. PICK r \in V!Restore : r = task.r
  BY <1>0, TasksAre DEF VaultTyped, V!Begin
<1>. DEFINE n == [restores[r] EXCEPT !.before = task.before, !.state = "UNKNOWN"]
            t == [kind |-> "write", r |-> r, before |-> task.before]
<1>1. /\ task.kind = "apply" /\ task.before # None /\ task.stat = edits /\ task' = t
      /\ UNCHANGED <<file, backups, target, keys, edits, written>>
  BY <1>r DEF V!Begin
<1>2. r \in V!Restore /\ task.before \in V!Backup
  BY <1>0, <1>1, <1>r, TasksAre DEF VaultTyped
<1>3. restores' = [restores EXCEPT ![r] = n]
  BY <1>0, <1>2, <1>r DEF V!Begin, VaultTyped
<1>4. /\ n \in RestoreRow /\ n.state = "UNKNOWN" /\ n.of = restores[r].of /\ n.before = task.before
  BY <1>0, <1>2, VaultKnows DEF RestoreRow
<1>6. /\ t \in VaultTasks /\ t.kind = "write" /\ t.r = r /\ t.before = task.before
  BY <1>0, <1>2 DEF VaultTasks
<1>. HIDE DEF n, t
<1>5. RestoreIs(r, n.state, n.of, n.before)
  BY <1>0, <1>2, <1>3, <1>4, OneRestore
<1>8. /\ task.kind = "apply" /\ task.before # None /\ task.stat = edits /\ r = task.r /\ r \in V!Restore
      /\ task.before \in V!Backup
      /\ task' \in VaultTasks /\ task'.kind = "write" /\ task'.r = r /\ task'.before = task.before
      /\ RestoreIs(r, "UNKNOWN", restores[r].of, task.before)
      /\ UNCHANGED <<file, backups, target, keys, edits, written>>
  BY <1>1, <1>2, <1>4, <1>5, <1>6, <1>r
<1>7. /\ restores[r].state = "PREVIEW" /\ written[r] = None /\ backups[task.before] # None
      /\ backups[task.before].content = file
  BY <1>0, <1>8 DEF ApplySound, Overwritten
<1>9. VaultTyped'
  BY <1>0, <1>8 DEF VaultTyped, RestoreIs
<1>10. KeysKept'
  BY <1>0, <1>8, <1>9, VaultKnows, TasksAre, NumbersOf, NamedReferenced
  DEF KeysKept, VaultTyped, RestoresStay, RestoreIs, NewBackup, BackupsSpared
<1>11. NamedKept'
  <2>1. NamedKept
    BY <1>0
  <2>. QED
    BY <1>7, <1>8, <2>1 DEF NamedKept, RestoreIs
<1>12. ApplySound'
  BY <1>0, <1>8, <1>9, VaultKnows, TasksAre, NumbersOf, NamedReferenced
  DEF ApplySound, VaultTyped, RestoresStay, RestoreIs, NewBackup, BackupsSpared
<1>13. WriteSound'
  BY <1>7, <1>8 DEF WriteSound, RestoreIs
<1>14. Overwritten'
  <2>1. Overwritten
    BY <1>0
  <2>. QED
    BY <1>7, <1>8, <2>1 DEF Overwritten, RestoreIs
<1>15. TornLeft'
  BY <1>0, <1>8, <1>9, VaultKnows, TasksAre, NumbersOf, NamedReferenced
  DEF TornLeft, VaultTyped, SomeTorn, RestoresStay, RestoreIs, NewBackup,
      BackupsSpared
<1>. QED
  BY <1>9, <1>10, <1>11, <1>12, <1>13, <1>14, <1>15 DEF VaultHold

LEMMA WriteKeeps ==
    ASSUME VaultHold, V!Write
    PROVE  VaultHold'
<1>0. /\ VaultTyped /\ KeysKept /\ NamedKept /\ ApplySound /\ WriteSound /\ Overwritten /\ TornLeft
  BY DEF VaultHold
<1>r. PICK r \in V!Restore : r = task.r
  BY <1>0, TasksAre DEF VaultTyped, V!Write
<1>. DEFINE t == [task EXCEPT !.kind = "rest"]
<1>1. /\ task.kind = "write" /\ file' = Torn /\ task' = t
      /\ written' = [written EXCEPT ![r] = IF written[r] = None THEN file ELSE written[r]]
      /\ UNCHANGED <<backups, restores, target, keys, edits>>
  BY <1>r DEF V!Write, V!Overwrite
<1>2. r \in V!Restore /\ written[r] = None /\ file \in V!Content
  BY <1>0, <1>1, <1>r, TasksAre, VaultKnows , <1>r DEF VaultTyped, WriteSound
<1>3. /\ t \in VaultTasks /\ t.kind = "rest" /\ t.r = r /\ t.before = task.before
  BY <1>0, <1>1, <1>r DEF VaultTyped, VaultTasks
<1>4. /\ written' \in [V!Restore -> V!Content \cup {None}] /\ written'[r] = file
      /\ \A x \in V!Restore \ {r} : written'[x] = written[x]
  BY <1>0, <1>1, <1>2 DEF VaultTyped
<1>. HIDE DEF t
<1>8. /\ task.kind = "write" /\ file' = Torn /\ r = task.r /\ r \in V!Restore /\ written[r] = None
      /\ task' \in VaultTasks /\ task'.kind = "rest" /\ task'.r = r /\ task'.before = task.before
      /\ written' \in [V!Restore -> V!Content \cup {None}] /\ written'[r] = file
      /\ \A x \in V!Restore \ {r} : written'[x] = written[x]
      /\ UNCHANGED <<backups, restores, target, keys, edits>>
  BY <1>1, <1>2, <1>3, <1>4, <1>r
<1>7. /\ restores[r].state = "UNKNOWN" /\ restores[r].before = task.before /\ task.before \in V!Backup
      /\ task.before # None /\ backups[task.before].content = file
  BY <1>0, <1>8, TasksAre, NumbersOf DEF WriteSound, VaultTyped
<1>9. VaultTyped'
  BY <1>0, <1>8, NumbersOf DEF VaultTyped
<1>10. KeysKept'
  BY <1>0, <1>8, <1>9, VaultKnows, TasksAre, NumbersOf, NamedReferenced
  DEF KeysKept, VaultTyped, RestoresStay, RestoreIs, NewBackup, BackupsSpared
<1>11. NamedKept'
  BY <1>0, <1>8, <1>9, VaultKnows, TasksAre, NumbersOf, NamedReferenced
  DEF NamedKept, VaultTyped, RestoresStay, RestoreIs, NewBackup, BackupsSpared
<1>12. ApplySound'
  BY <1>0, <1>8, <1>9, VaultKnows, TasksAre, NumbersOf, NamedReferenced
  DEF ApplySound, VaultTyped, RestoresStay, RestoreIs, NewBackup, BackupsSpared
<1>13. WriteSound'
  BY <1>0, <1>8, <1>9, VaultKnows, TasksAre, NumbersOf, NamedReferenced
  DEF WriteSound, VaultTyped, RestoresStay, RestoreIs, NewBackup, BackupsSpared
<1>14. Overwritten'
  <2>1. Overwritten
    BY <1>0
  <2>. QED
    BY <1>7, <1>8, <2>1 DEF Overwritten
<1>15. TornLeft'
  BY <1>0, <1>8, <1>9, VaultKnows, TasksAre, NumbersOf, NamedReferenced
  DEF TornLeft, VaultTyped, SomeTorn, RestoresStay, RestoreIs, NewBackup,
      BackupsSpared
<1>. QED
  BY <1>9, <1>10, <1>11, <1>12, <1>13, <1>14, <1>15 DEF VaultHold

LEMMA WrittenKeeps ==
    ASSUME VaultHold, V!Written
    PROVE  VaultHold'
<1>0. /\ VaultTyped /\ KeysKept /\ NamedKept /\ ApplySound /\ WriteSound /\ Overwritten /\ TornLeft
  BY DEF VaultHold
<1>r. PICK r \in V!Restore : r = task.r
  BY <1>0, TasksAre DEF VaultTyped, V!Written
<1>. DEFINE n == [restores[r] EXCEPT !.state = "APPLIED", !.before = task.before]
<1>1. /\ task.kind = "rest" /\ file' = backups[restores[r].of].content /\ task' = V!Free
      /\ written' = [written EXCEPT ![r] = IF written[r] = None THEN file ELSE written[r]]
      /\ UNCHANGED <<backups, target, keys, edits>>
  BY <1>r DEF V!Written, V!Overwrite
<1>2. /\ r \in V!Restore /\ task.before \in V!Backup /\ written[r] # None
      /\ restores[r].state = "UNKNOWN" /\ restores[r].before = task.before
  BY <1>0, <1>1, <1>r, TasksAre, <1>r DEF VaultTyped, WriteSound
<1>3. restores' = [restores EXCEPT ![r] = n]
  BY <1>0, <1>2, <1>r DEF V!Written, VaultTyped
<1>4. /\ n \in RestoreRow /\ n.state = "APPLIED" /\ n.of = restores[r].of /\ n.before = task.before
  BY <1>0, <1>2, VaultKnows DEF RestoreRow
<1>. HIDE DEF n
<1>5. RestoreIs(r, n.state, n.of, n.before)
  BY <1>0, <1>2, <1>3, <1>4, OneRestore
<1>6. /\ restores[r].of \in V!Backup /\ backups[restores[r].of] # None /\ file' \in V!Content
  BY <1>0, <1>1, <1>2, VaultKnows DEF NamedKept
<1>7. written' = written
  BY <1>0, <1>1, <1>2 DEF VaultTyped
<1>8. /\ task.kind = "rest" /\ r = task.r /\ r \in V!Restore /\ restores[r].before = task.before
      /\ restores[r].of \in V!Backup /\ backups[restores[r].of] # None
      /\ file' = backups[restores[r].of].content /\ file' \in V!Content
      /\ task' \in VaultTasks /\ task'.kind = "free"
      /\ RestoreIs(r, "APPLIED", restores[r].of, task.before)
      /\ UNCHANGED <<backups, target, keys, edits, written>>
  BY <1>1, <1>2, <1>4, <1>5, <1>6, <1>7, FreeIs, <1>r
<1>9. VaultTyped'
  BY <1>0, <1>8 DEF VaultTyped, RestoreIs
<1>10. KeysKept'
  BY <1>0, <1>8, <1>9, VaultKnows, TasksAre, NumbersOf, NamedReferenced
  DEF KeysKept, VaultTyped, RestoresStay, RestoreIs, NewBackup, BackupsSpared
<1>11. NamedKept'
  BY <1>0, <1>8, <1>9, VaultKnows, TasksAre, NumbersOf, NamedReferenced
  DEF NamedKept, VaultTyped, RestoresStay, RestoreIs, NewBackup, BackupsSpared
<1>12. ApplySound'
  BY <1>0, <1>8, <1>9, VaultKnows, TasksAre, NumbersOf, NamedReferenced
  DEF ApplySound, VaultTyped, RestoresStay, RestoreIs, NewBackup, BackupsSpared
<1>13. WriteSound'
  BY <1>0, <1>8, <1>9, VaultKnows, TasksAre, NumbersOf, NamedReferenced
  DEF WriteSound, VaultTyped, RestoresStay, RestoreIs, NewBackup, BackupsSpared
<1>14. Overwritten'
  BY <1>0, <1>8, <1>9, VaultKnows, TasksAre, NumbersOf, NamedReferenced
  DEF Overwritten, VaultTyped, RestoresStay, RestoreIs, NewBackup, BackupsSpared
<1>15. TornLeft'
  <2>1. SomeTorn' => SomeTorn
    BY <1>8 DEF SomeTorn
  <2>2. SomeTorn => \E x \in V!Restore \ {r} : restores[x].state = "UNKNOWN" /\ written[x] # None
    BY <1>0, <1>8 DEF TornLeft
  <2>. QED
    BY <1>8, <2>1, <2>2 DEF TornLeft, RestoreIs
<1>. QED
  BY <1>9, <1>10, <1>11, <1>12, <1>13, <1>14, <1>15 DEF VaultHold

LEMMA FailedKeeps ==
    ASSUME VaultHold, V!Failed
    PROVE  VaultHold'
<1>0. /\ VaultTyped /\ KeysKept /\ NamedKept /\ ApplySound /\ WriteSound /\ Overwritten /\ TornLeft
  BY DEF VaultHold
<1>8. /\ task' \in VaultTasks /\ task'.kind = "free"
      /\ UNCHANGED <<file, backups, restores, target, keys, edits, written>>
  BY FreeIs DEF V!Failed
<1>9. VaultTyped'
  BY <1>0, <1>8 DEF VaultTyped
<1>10. KeysKept'
  BY <1>0, <1>8, <1>9, VaultKnows, TasksAre, NumbersOf, NamedReferenced
  DEF KeysKept, VaultTyped, RestoresStay, RestoreIs, NewBackup, BackupsSpared
<1>11. NamedKept'
  BY <1>0, <1>8, <1>9, VaultKnows, TasksAre, NumbersOf, NamedReferenced
  DEF NamedKept, VaultTyped, RestoresStay, RestoreIs, NewBackup, BackupsSpared
<1>12. ApplySound'
  BY <1>0, <1>8, <1>9, VaultKnows, TasksAre, NumbersOf, NamedReferenced
  DEF ApplySound, VaultTyped, RestoresStay, RestoreIs, NewBackup, BackupsSpared
<1>13. WriteSound'
  BY <1>0, <1>8, <1>9, VaultKnows, TasksAre, NumbersOf, NamedReferenced
  DEF WriteSound, VaultTyped, RestoresStay, RestoreIs, NewBackup, BackupsSpared
<1>14. Overwritten'
  BY <1>0, <1>8, <1>9, VaultKnows, TasksAre, NumbersOf, NamedReferenced
  DEF Overwritten, VaultTyped, RestoresStay, RestoreIs, NewBackup, BackupsSpared
<1>15. TornLeft'
  <2>1. CASE task.kind = "rest"
    <3>1. task.r \in V!Restore /\ restores[task.r].state = "UNKNOWN" /\ written[task.r] # None
      BY <1>0, <2>1, TasksAre DEF WriteSound, VaultTyped
    <3>. QED
      BY <1>8, <3>1 DEF TornLeft
  <2>2. CASE task.kind # "rest"
    <3>1. SomeTorn' => SomeTorn
      BY <1>8, <2>2 DEF SomeTorn
    <3>2. SomeTorn => \E x \in V!Restore : restores[x].state = "UNKNOWN" /\ written[x] # None
      BY <1>0 DEF TornLeft
    <3>. QED
      BY <1>8, <3>1, <3>2 DEF TornLeft
  <2>. QED
    BY <2>1, <2>2
<1>. QED
  BY <1>9, <1>10, <1>11, <1>12, <1>13, <1>14, <1>15 DEF VaultHold

LEMMA EditKeeps ==
    ASSUME VaultHold, V!Edit
    PROVE  VaultHold'
<1>0. /\ VaultTyped /\ KeysKept /\ NamedKept /\ ApplySound /\ WriteSound /\ Overwritten /\ TornLeft
  BY DEF VaultHold
<1>8. /\ task.kind \notin {"write", "rest"} /\ edits' = edits + 1 /\ edits' \in 0 .. MaxEdits
      /\ file' \in V!Content /\ file' # Torn
      /\ UNCHANGED <<backups, restores, target, keys, task, written>>
  BY <1>0, VaultKnows, VaultAssumed, NumbersOf DEF V!Edit
<1>9. VaultTyped'
  BY <1>0, <1>8 DEF VaultTyped
<1>10. KeysKept'
  BY <1>0, <1>8, <1>9, VaultKnows, TasksAre, NumbersOf, NamedReferenced
  DEF KeysKept, VaultTyped, RestoresStay, RestoreIs, NewBackup, BackupsSpared
<1>11. NamedKept'
  BY <1>0, <1>8, <1>9, VaultKnows, TasksAre, NumbersOf, NamedReferenced
  DEF NamedKept, VaultTyped, RestoresStay, RestoreIs, NewBackup, BackupsSpared
<1>12. ApplySound'
  BY <1>0, <1>8, <1>9, VaultKnows, TasksAre, NumbersOf, NamedReferenced
  DEF ApplySound, VaultTyped, RestoresStay, RestoreIs, NewBackup, BackupsSpared
<1>13. WriteSound'
  BY <1>0, <1>8, <1>9, VaultKnows, TasksAre, NumbersOf, NamedReferenced
  DEF WriteSound, VaultTyped, RestoresStay, RestoreIs, NewBackup, BackupsSpared
<1>14. Overwritten'
  BY <1>0, <1>8, <1>9, VaultKnows, TasksAre, NumbersOf, NamedReferenced
  DEF Overwritten, VaultTyped, RestoresStay, RestoreIs, NewBackup, BackupsSpared
<1>15. TornLeft'
  BY <1>0, <1>8, <1>9, VaultKnows, TasksAre, NumbersOf, NamedReferenced
  DEF TornLeft, VaultTyped, SomeTorn, RestoresStay, RestoreIs, NewBackup,
      BackupsSpared
<1>. QED
  BY <1>9, <1>10, <1>11, <1>12, <1>13, <1>14, <1>15 DEF VaultHold

LEMMA RestartKeeps ==
    ASSUME VaultHold, V!Restart
    PROVE  VaultHold'
<1>0. /\ VaultTyped /\ KeysKept /\ NamedKept /\ ApplySound /\ WriteSound /\ Overwritten /\ TornLeft
  BY DEF VaultHold
<1>1. /\ edits' = edits + 1 /\ edits' \in 0 .. MaxEdits /\ task' = V!Free
      /\ restores' = [r \in V!Restore |-> IF restores[r].state = "PREVIEW"
                        THEN [restores[r] EXCEPT !.state = "EXPIRED"] ELSE restores[r]]
      /\ UNCHANGED <<file, backups, target, keys, written>>
  BY <1>0, VaultKnows, VaultAssumed DEF V!Restart
<1>2. ASSUME NEW r \in V!Restore
      PROVE  LET n == [restores[r] EXCEPT !.state = "EXPIRED"] IN
             /\ n \in RestoreRow /\ n.state = "EXPIRED" /\ n.of = restores[r].of
             /\ n.before = restores[r].before
  BY <1>0, VaultKnows DEF RestoreRow
<1>8. /\ edits' = edits + 1 /\ edits' \in 0 .. MaxEdits /\ task' \in VaultTasks /\ task'.kind = "free"
      /\ restores' \in [V!Restore -> RestoreRow]
      /\ \A r \in V!Restore :
            /\ restores'[r].of = restores[r].of /\ restores'[r].before = restores[r].before
            /\ restores'[r].state = (IF restores[r].state = "PREVIEW" THEN "EXPIRED" ELSE restores[r].state)
      /\ UNCHANGED <<file, backups, target, keys, written>>
  BY <1>0, <1>1, <1>2, FreeIs, VaultKnows
<1>9. VaultTyped'
  BY <1>0, <1>8 DEF VaultTyped
<1>10. KeysKept'
  BY <1>0, <1>8, <1>9, VaultKnows, TasksAre, NumbersOf, NamedReferenced
  DEF KeysKept, VaultTyped, RestoresStay, RestoreIs, NewBackup, BackupsSpared
<1>11. NamedKept'
  BY <1>0, <1>8, <1>9, VaultKnows, TasksAre, NumbersOf, NamedReferenced
  DEF NamedKept, VaultTyped, RestoresStay, RestoreIs, NewBackup, BackupsSpared
<1>12. ApplySound'
  BY <1>0, <1>8, <1>9, VaultKnows, TasksAre, NumbersOf, NamedReferenced
  DEF ApplySound, VaultTyped, RestoresStay, RestoreIs, NewBackup, BackupsSpared
<1>13. WriteSound'
  BY <1>0, <1>8, <1>9, VaultKnows, TasksAre, NumbersOf, NamedReferenced
  DEF WriteSound, VaultTyped, RestoresStay, RestoreIs, NewBackup, BackupsSpared
<1>14. Overwritten'
  BY <1>0, <1>8, <1>9, VaultKnows, TasksAre, NumbersOf, NamedReferenced
  DEF Overwritten, VaultTyped, RestoresStay, RestoreIs, NewBackup, BackupsSpared
<1>15. TornLeft'
  <2>1. CASE task.kind = "rest"
    <3>1. task.r \in V!Restore /\ restores[task.r].state = "UNKNOWN" /\ written[task.r] # None
      BY <1>0, <2>1, TasksAre DEF WriteSound, VaultTyped
    <3>. QED
      BY <1>8, <3>1 DEF TornLeft
  <2>2. CASE task.kind # "rest"
    <3>1. SomeTorn' => SomeTorn
      BY <1>8, <2>2 DEF SomeTorn
    <3>2. SomeTorn => \E x \in V!Restore : restores[x].state = "UNKNOWN" /\ written[x] # None
      BY <1>0 DEF TornLeft
    <3>. QED
      BY <1>8, <3>1, <3>2 DEF TornLeft
  <2>. QED
    BY <2>1, <2>2
<1>. QED
  BY <1>9, <1>10, <1>11, <1>12, <1>13, <1>14, <1>15 DEF VaultHold

LEMMA VaultInductive ==
    /\ V!VaultInit => VaultHold
    /\ VaultHold /\ [V!VaultNext]_(V!vaultVars) => VaultHold'
<1>1. ASSUME V!VaultInit PROVE VaultHold
  <2>1. V!NoRestore \in RestoreRow /\ V!NoRestore.of = None /\ V!NoRestore.before = None /\ V!NoRestore.state = "none"
    BY DEF V!NoRestore, RestoreRow
  <2>2. /\ file \in Text /\ backups = [b \in V!Backup |-> None]
        /\ restores = [r \in V!Restore |-> V!NoRestore]
        /\ target = [key |-> 1, enabled |-> TRUE] /\ keys = {1} /\ task = V!Free /\ edits = 0
        /\ written = [r \in V!Restore |-> None]
    BY <1>1 DEF V!VaultInit
  <2>3. 1 \in V!Key
    BY VaultAssumed DEF V!Key
  <2>4. target \in [key : V!Key, enabled : BOOLEAN] /\ target.key = 1
    BY <2>2, <2>3
  <2>5. VaultTyped
    BY <2>1, <2>2, <2>3, <2>4, NumbersOf, FreeIs, VaultAssumed DEF VaultTyped
  <2>6. KeysKept /\ NamedKept /\ Overwritten /\ ApplySound /\ WriteSound
    BY <2>1, <2>2, <2>4, FreeIs
    DEF KeysKept, NamedKept, Overwritten, ApplySound, WriteSound
  <2>7. TornLeft
    BY <2>2, FreeIs, VaultAssumed DEF TornLeft, SomeTorn
  <2>. QED
    BY <2>5, <2>6, <2>7 DEF VaultHold
<1>2. ASSUME VaultHold, UNCHANGED V!vaultVars PROVE VaultHold'
  BY <1>2
  DEF VaultHold, VaultTyped, KeysKept, NamedKept, Overwritten, ApplySound,
      WriteSound,
     TornLeft, SomeTorn, V!vaultVars
<1>. QED
  BY <1>1, <1>2, ReadForBackupKeeps, BackedUpKeeps, SealKeeps, ConfigureKeeps,
     RotateKeeps, ApplyKeeps, PreviewKeeps, BeginKeeps, WriteKeeps, WrittenKeeps,
     FailedKeeps, EditKeeps, RestartKeeps
  DEF V!VaultNext

LEMMA VaultSound ==
    ASSUME VaultHold
    PROVE  V!VaultTypeOK /\ V!VaultRecoverable
<1>1. V!VaultTypeOK
  BY DEF VaultHold, VaultTyped, V!VaultTypeOK, RestoreRow
<1>2. V!BeforeImageKept
  BY VaultKnows DEF V!BeforeImageKept, VaultHold, NamedKept, KeysKept, Overwritten
<1>3. V!TornExplained
  BY TasksAre
  DEF V!TornExplained, VaultHold, VaultTyped, TornLeft, SomeTorn, WriteSound
<1>. QED
  BY <1>1, <1>2, <1>3 DEF V!VaultRecoverable

-----------------------------------------------------------------------------
(* Setups: what they import and install.                                   *)

Manifests == [paths : SUBSET Archive, edition : Nat]
\* What a setup has of the component it installs.
Doings == [item : S!Component \cup {None},
           has : {"nothing", "bytes", "tool", "read", "checked"}, read : Manifests]
SetupTyped ==
    /\ source \in [text : 0 .. MaxSaves, busy : BOOLEAN]
    /\ imported \in [state : {"none", "empty", "used", "imported"}, text : 0 .. MaxSaves,
                     sha : 0 .. MaxSaves]
    /\ importLock \in S!Installer \cup {None} /\ setupLock \in S!Installer \cup {None}
    /\ ousted \subseteq S!Installer /\ disk \in [S!Component -> {"none", "whole", "bad"}]
    /\ manifest \in Manifests /\ late \subseteq S!Installer /\ slipped \in BOOLEAN
    /\ step \in [S!Installer -> {"start", "planned", "locked", "agreed", "staged", "inspecting",
                                 "unlocked", "installing", "reporting", "ended", "refused",
                                 "dead"}]
    /\ importPlan \in [S!Installer -> {None} \cup 0 .. MaxSaves]
    /\ inspected \in [S!Installer -> {None} \cup 0 .. MaxSaves]
    /\ missing \in [S!Installer -> SUBSET S!Component]
    /\ doing \in [S!Installer -> Doings]
    /\ failures \in [S!Installer -> SUBSET S!Component]
    /\ entered \in [S!Installer -> SUBSET Archive]
    /\ report \in [S!Installer -> [S!Component -> {None, "ready", "missing", "failed"}]]

\* The three parts of LocksHeld, of one setup.
LocksFit(s) ==
    /\ (S!Installing(s) /\ s \notin ousted) => setupLock = s
    /\ S!Importing(s) => importLock = s
    /\ step[s] \in {"ended", "refused"} => importLock # s /\ setupLock # s
LocksHeldBy == \A s \in S!Installer : LocksFit(s)
\* A lock is at a setup that uses it, or at one that has died.
LocksOf ==
    /\ importLock # None => S!Importing(importLock) \/ step[importLock] = "dead"
    /\ setupLock # None => S!Installing(setupLock) \/ step[setupLock] = "dead"
\* An import knows what it planned, agreed to, and read.
ImportKnows(s) ==
    /\ (step[s] = "planned" \/ S!Importing(s)) => importPlan[s] # None
    /\ step[s] = "staged" => inspected[s] # None
    /\ (step[s] = "agreed" /\ s \notin late) => source.text = importPlan[s]
    /\ (step[s] = "staged" /\ s \notin late) => inspected[s] = importPlan[s]
ImportsKnow == \A s \in S!Installer : ImportKnows(s)
ImportTrue == (imported.state = "imported" /\ late = {}) => imported.text = imported.sha
\* What is read or checked of the manifest is a tool's; and unless two were past
\* their look at it, only one is, and nothing has been written since it looked.
ManifestRead ==
    /\ \A s \in S!Installer : doing[s].has \in {"tool", "read", "checked"} => doing[s].item \in Archive
    /\ ~slipped => \A s \in S!Installer :
                      doing[s].has = "checked" =>
                          /\ doing[s].read = manifest
                          /\ \A t \in S!Installer \ {s} : doing[t].has # "checked"
SetupHold ==
    /\ SetupTyped /\ LocksHeldBy /\ LocksOf /\ ImportsKnow /\ ImportTrue /\ S!ReportsTrue
    /\ ManifestRead /\ S!ManifestKept

LEMMA SetupAssumed ==
    /\ MaxRuns \in Nat /\ MaxSaves \in Nat /\ None \notin Nat /\ None \notin S!Installer /\ None \notin S!Component
    /\ S!Installer \subseteq Nat
    /\ Archive \subseteq S!Component /\ Pinned \subseteq S!Component /\ Packaged \subseteq S!Component
    /\ Archive \cap Pinned = {} /\ Archive \cap Packaged = {} /\ Pinned \cap Packaged = {}
BY Assumed DEF S!SetupAssumption, S!Installer, S!Component

\* What the type says of a setup.
LEMMA SetupKnows ==
    ASSUME SetupTyped
    PROVE  /\ \A s \in S!Installer :
                 /\ doing[s].item \in S!Component \cup {None} /\ doing[s].read \in Manifests
                 /\ doing[s].has \in {"nothing", "bytes", "tool", "read", "checked"}
                 /\ importPlan[s] \in {None} \cup 0 .. MaxSaves
                 /\ inspected[s] \in {None} \cup 0 .. MaxSaves
                 /\ entered[s] \subseteq Archive
           /\ manifest.paths \subseteq Archive /\ manifest.edition \in Nat
           /\ source.text \in 0 .. MaxSaves
BY DEF SetupTyped, Doings, Manifests

LEMMA NothingIs ==
    /\ S!Nothing \in Doings /\ S!Nothing.has = "nothing"
    /\ S!NoPaths \in Manifests
BY DEF S!Nothing, S!NoPaths, Doings, Manifests

LEMMA HasNow ==
    ASSUME NEW d \in Doings, NEW h \in {"bytes", "tool", "checked"}
    PROVE  LET n == [d EXCEPT !.has = h] IN
           n \in Doings /\ n.has = h /\ n.item = d.item /\ n.read = d.read
BY DEF Doings

LEMMA ReadNow ==
    ASSUME NEW d \in Doings, NEW m \in Manifests
    PROVE  LET n == [d EXCEPT !.has = "read", !.read = m] IN
           n \in Doings /\ n.has = "read" /\ n.item = d.item
BY DEF Doings

LEMMA MadeIs ==
    \A st \in {"none", "empty", "used", "imported"} :
        /\ S!Made(st) \in [state : {"none", "empty", "used", "imported"}, text : 0 .. MaxSaves,
                           sha : 0 .. MaxSaves]
        /\ S!Made(st).state = st
BY SetupAssumed DEF S!Made

-----------------------------------------------------------------------------
(* Every step keeps the invariant: what it does, and what follows.          *)

LEMMA SetupPlanKeeps ==
    ASSUME SetupHold, NEW s \in S!Installer, S!Plan(s)
    PROVE  SetupHold'
<1>0. /\ SetupTyped /\ LocksHeldBy /\ LocksOf /\ ImportsKnow /\ ImportTrue /\ S!ReportsTrue
      /\ ManifestRead /\ S!ManifestKept
  BY DEF SetupHold
<1>2. source.text # None
  BY <1>0, SetupKnows, SetupAssumed
<1>7. UNCHANGED <<source, imported, importLock, setupLock, ousted, disk, manifest, late, slipped, inspected, missing, doing, failures, entered, report>>
  BY DEF S!Plan, S!placeVars, S!ownVars, S!Forget, S!Turn
<1>8. /\ step[s] = "start"
      /\ step' \in [S!Installer -> {"start", "planned", "locked", "agreed", "staged", "inspecting", "unlocked", "installing", "reporting", "ended", "refused", "dead"}]
      /\ \A t \in S!Installer \ {s} : step'[t] = step[t]
      /\ importPlan' \in [S!Installer -> {None} \cup 0 .. MaxSaves]
      /\ \A t \in S!Installer \ {s} : importPlan'[t] = importPlan[t]
      /\ step'[s] \in {"inspecting", "refused", "planned"}
      /\ step'[s] = "planned" => importPlan'[s] # None
  BY <1>0, <1>2, SetupKnows, SetupAssumed DEF S!Plan, S!Goes, SetupTyped
<1>9. SetupTyped'
  BY <1>0, <1>7, <1>8, SetupKnows DEF SetupTyped
<1>10. LocksHeldBy'
  <2>1. LocksFit(s)'
    BY <1>0, <1>7, <1>8, SetupKnows, SetupAssumed
    DEF LocksHeldBy, LocksFit, LocksOf, S!Importing, S!Installing
  <2>2. ASSUME NEW t \in S!Installer \ {s} PROVE LocksFit(t)'
    BY <1>0, <1>7, <1>8, <2>2, SetupKnows, SetupAssumed
    DEF LocksHeldBy, LocksFit, LocksOf, LocksHeldBy, LocksFit, S!Importing,
        S!Installing
  <2>. QED
    BY <2>1, <2>2 DEF LocksHeldBy
<1>11. LocksOf'
  BY <1>0, <1>7, <1>8, <1>9, SetupKnows, NothingIs, SetupAssumed
  DEF LocksOf, LocksFit, ImportKnows, ImportsKnow, SetupTyped, S!Importing,
      S!Installing
<1>12. ImportsKnow'
  <2>1. ImportKnows(s)'
    BY <1>0, <1>7, <1>8, SetupKnows, SetupAssumed
    DEF ImportsKnow, ImportKnows, LocksOf, S!Importing, S!Installing
  <2>2. ASSUME NEW t \in S!Installer \ {s} PROVE ImportKnows(t)'
    BY <1>0, <1>7, <1>8, <2>2, SetupKnows, SetupAssumed
    DEF ImportsKnow, ImportKnows, LocksOf, LocksHeldBy, LocksFit, S!Importing,
        S!Installing
  <2>. QED
    BY <2>1, <2>2 DEF ImportsKnow
<1>13. ImportTrue'
  BY <1>0, <1>7, <1>8, <1>9, SetupKnows, NothingIs, SetupAssumed
  DEF ImportTrue, LocksFit, ImportKnows, ImportsKnow, SetupTyped, S!Importing,
      S!Installing
<1>14. S!ReportsTrue'
  BY <1>0, <1>7, <1>8, <1>9, SetupKnows, NothingIs, SetupAssumed
  DEF S!ReportsTrue, LocksFit, ImportKnows, ImportsKnow, SetupTyped, S!Importing,
      S!Installing, S!Works, S!Entered
<1>15. ManifestRead'
  BY <1>0, <1>7, <1>8, <1>9, SetupKnows, NothingIs, SetupAssumed
  DEF ManifestRead, LocksFit, ImportKnows, ImportsKnow, SetupTyped, S!Importing,
      S!Installing
<1>16. S!ManifestKept'
  BY <1>0, <1>7, <1>8, <1>9, SetupKnows, NothingIs, SetupAssumed
  DEF S!ManifestKept, LocksFit, ImportKnows, ImportsKnow, SetupTyped, S!Importing,
      S!Installing
<1>. QED
  BY <1>9, <1>10, <1>11, <1>12, <1>13, <1>14, <1>15, <1>16 DEF SetupHold

LEMMA LockImportKeeps ==
    ASSUME SetupHold, NEW s \in S!Installer, S!LockImport(s)
    PROVE  SetupHold'
<1>0. /\ SetupTyped /\ LocksHeldBy /\ LocksOf /\ ImportsKnow /\ ImportTrue /\ S!ReportsTrue
      /\ ManifestRead /\ S!ManifestKept
  BY DEF SetupHold
<1>7. UNCHANGED <<source, imported, setupLock, ousted, disk, manifest, late, slipped, importPlan, inspected, missing, doing, failures, entered, report>>
  BY DEF S!LockImport, S!placeVars, S!ownVars, S!Forget, S!Turn
<1>8. /\ step[s] = "planned"
      /\ step' \in [S!Installer -> {"start", "planned", "locked", "agreed", "staged", "inspecting", "unlocked", "installing", "reporting", "ended", "refused", "dead"}]
      /\ \A t \in S!Installer \ {s} : step'[t] = step[t]
      /\ (importLock = None /\ importLock' = s /\ step'[s] = "locked") \/ (importLock' = importLock /\ step'[s] = "refused")
  BY <1>0, SetupKnows, SetupAssumed DEF S!LockImport, S!Goes, SetupTyped
<1>9. SetupTyped'
  BY <1>0, <1>7, <1>8, SetupKnows DEF SetupTyped
<1>10. LocksHeldBy'
  <2>1. LocksFit(s)'
    BY <1>0, <1>7, <1>8, SetupKnows, SetupAssumed
    DEF LocksHeldBy, LocksFit, LocksOf, S!Importing, S!Installing
  <2>2. ASSUME NEW t \in S!Installer \ {s} PROVE LocksFit(t)'
    BY <1>0, <1>7, <1>8, <2>2, SetupKnows, SetupAssumed
    DEF LocksHeldBy, LocksFit, LocksOf, LocksHeldBy, LocksFit, S!Importing,
        S!Installing
  <2>. QED
    BY <2>1, <2>2 DEF LocksHeldBy
<1>11. LocksOf'
  BY <1>0, <1>7, <1>8, <1>9, SetupKnows, NothingIs, SetupAssumed
  DEF LocksOf, LocksFit, ImportKnows, ImportsKnow, SetupTyped, S!Importing,
      S!Installing
<1>12. ImportsKnow'
  <2>1. ImportKnows(s)'
    BY <1>0, <1>7, <1>8, SetupKnows, SetupAssumed
    DEF ImportsKnow, ImportKnows, LocksOf, S!Importing, S!Installing
  <2>2. ASSUME NEW t \in S!Installer \ {s} PROVE ImportKnows(t)'
    BY <1>0, <1>7, <1>8, <2>2, SetupKnows, SetupAssumed
    DEF ImportsKnow, ImportKnows, LocksOf, LocksHeldBy, LocksFit, S!Importing,
        S!Installing
  <2>. QED
    BY <2>1, <2>2 DEF ImportsKnow
<1>13. ImportTrue'
  BY <1>0, <1>7, <1>8, <1>9, SetupKnows, NothingIs, SetupAssumed
  DEF ImportTrue, LocksFit, ImportKnows, ImportsKnow, SetupTyped, S!Importing,
      S!Installing
<1>14. S!ReportsTrue'
  BY <1>0, <1>7, <1>8, <1>9, SetupKnows, NothingIs, SetupAssumed
  DEF S!ReportsTrue, LocksFit, ImportKnows, ImportsKnow, SetupTyped, S!Importing,
      S!Installing, S!Works, S!Entered
<1>15. ManifestRead'
  BY <1>0, <1>7, <1>8, <1>9, SetupKnows, NothingIs, SetupAssumed
  DEF ManifestRead, LocksFit, ImportKnows, ImportsKnow, SetupTyped, S!Importing,
      S!Installing
<1>16. S!ManifestKept'
  BY <1>0, <1>7, <1>8, <1>9, SetupKnows, NothingIs, SetupAssumed
  DEF S!ManifestKept, LocksFit, ImportKnows, ImportsKnow, SetupTyped, S!Importing,
      S!Installing
<1>. QED
  BY <1>9, <1>10, <1>11, <1>12, <1>13, <1>14, <1>15, <1>16 DEF SetupHold

LEMMA AgreeKeeps ==
    ASSUME SetupHold, NEW s \in S!Installer, S!Agree(s)
    PROVE  SetupHold'
<1>0. /\ SetupTyped /\ LocksHeldBy /\ LocksOf /\ ImportsKnow /\ ImportTrue /\ S!ReportsTrue
      /\ ManifestRead /\ S!ManifestKept
  BY DEF SetupHold
<1>7. UNCHANGED <<source, imported, setupLock, ousted, disk, manifest, late, slipped, importPlan, inspected, missing, doing, failures, entered, report>>
  BY DEF S!Agree, S!placeVars, S!ownVars, S!Forget, S!Turn
<1>8. /\ step[s] = "locked"
      /\ step' \in [S!Installer -> {"start", "planned", "locked", "agreed", "staged", "inspecting", "unlocked", "installing", "reporting", "ended", "refused", "dead"}]
      /\ \A t \in S!Installer \ {s} : step'[t] = step[t]
      /\ (importLock' = importLock /\ step'[s] = "agreed" /\ source.text = importPlan[s]) \/ (importLock' = None /\ step'[s] = "refused")
  BY <1>0, SetupKnows, SetupAssumed DEF S!Agree, S!Goes, SetupTyped
<1>9. SetupTyped'
  BY <1>0, <1>7, <1>8, SetupKnows DEF SetupTyped
<1>10. LocksHeldBy'
  <2>1. LocksFit(s)'
    BY <1>0, <1>7, <1>8, SetupKnows, SetupAssumed
    DEF LocksHeldBy, LocksFit, LocksOf, S!Importing, S!Installing
  <2>2. ASSUME NEW t \in S!Installer \ {s} PROVE LocksFit(t)'
    BY <1>0, <1>7, <1>8, <2>2, SetupKnows, SetupAssumed
    DEF LocksHeldBy, LocksFit, LocksOf, LocksHeldBy, LocksFit, S!Importing,
        S!Installing
  <2>. QED
    BY <2>1, <2>2 DEF LocksHeldBy
<1>11. LocksOf'
  BY <1>0, <1>7, <1>8, <1>9, SetupKnows, NothingIs, SetupAssumed
  DEF LocksOf, LocksFit, ImportKnows, ImportsKnow, SetupTyped, S!Importing,
      S!Installing
<1>12. ImportsKnow'
  <2>1. ImportKnows(s)'
    BY <1>0, <1>7, <1>8, SetupKnows, SetupAssumed
    DEF ImportsKnow, ImportKnows, LocksOf, S!Importing, S!Installing
  <2>2. ASSUME NEW t \in S!Installer \ {s} PROVE ImportKnows(t)'
    BY <1>0, <1>7, <1>8, <2>2, SetupKnows, SetupAssumed
    DEF ImportsKnow, ImportKnows, LocksOf, LocksHeldBy, LocksFit, S!Importing,
        S!Installing
  <2>. QED
    BY <2>1, <2>2 DEF ImportsKnow
<1>13. ImportTrue'
  BY <1>0, <1>7, <1>8, <1>9, SetupKnows, NothingIs, SetupAssumed
  DEF ImportTrue, LocksFit, ImportKnows, ImportsKnow, SetupTyped, S!Importing,
      S!Installing
<1>14. S!ReportsTrue'
  BY <1>0, <1>7, <1>8, <1>9, SetupKnows, NothingIs, SetupAssumed
  DEF S!ReportsTrue, LocksFit, ImportKnows, ImportsKnow, SetupTyped, S!Importing,
      S!Installing, S!Works, S!Entered
<1>15. ManifestRead'
  BY <1>0, <1>7, <1>8, <1>9, SetupKnows, NothingIs, SetupAssumed
  DEF ManifestRead, LocksFit, ImportKnows, ImportsKnow, SetupTyped, S!Importing,
      S!Installing
<1>16. S!ManifestKept'
  BY <1>0, <1>7, <1>8, <1>9, SetupKnows, NothingIs, SetupAssumed
  DEF S!ManifestKept, LocksFit, ImportKnows, ImportsKnow, SetupTyped, S!Importing,
      S!Installing
<1>. QED
  BY <1>9, <1>10, <1>11, <1>12, <1>13, <1>14, <1>15, <1>16 DEF SetupHold

LEMMA StageKeeps ==
    ASSUME SetupHold, NEW s \in S!Installer, S!Stage(s)
    PROVE  SetupHold'
<1>0. /\ SetupTyped /\ LocksHeldBy /\ LocksOf /\ ImportsKnow /\ ImportTrue /\ S!ReportsTrue
      /\ ManifestRead /\ S!ManifestKept
  BY DEF SetupHold
<1>7. UNCHANGED <<source, imported, importLock, setupLock, ousted, disk, manifest, late, slipped, importPlan, missing, doing, failures, entered, report>>
  BY DEF S!Stage, S!placeVars, S!ownVars, S!Forget, S!Turn
<1>8. /\ step[s] = "agreed"
      /\ step' \in [S!Installer -> {"start", "planned", "locked", "agreed", "staged", "inspecting", "unlocked", "installing", "reporting", "ended", "refused", "dead"}]
      /\ \A t \in S!Installer \ {s} : step'[t] = step[t]
      /\ inspected' \in [S!Installer -> {None} \cup 0 .. MaxSaves]
      /\ \A t \in S!Installer \ {s} : inspected'[t] = inspected[t]
      /\ step'[s] = "staged"
      /\ inspected'[s] = source.text
  BY <1>0, SetupKnows, SetupAssumed DEF S!Stage, S!Goes, SetupTyped
<1>9. SetupTyped'
  BY <1>0, <1>7, <1>8, SetupKnows DEF SetupTyped
<1>10. LocksHeldBy'
  <2>1. LocksFit(s)'
    BY <1>0, <1>7, <1>8, SetupKnows, SetupAssumed
    DEF LocksHeldBy, LocksFit, LocksOf, S!Importing, S!Installing
  <2>2. ASSUME NEW t \in S!Installer \ {s} PROVE LocksFit(t)'
    BY <1>0, <1>7, <1>8, <2>2, SetupKnows, SetupAssumed
    DEF LocksHeldBy, LocksFit, LocksOf, LocksHeldBy, LocksFit, S!Importing,
        S!Installing
  <2>. QED
    BY <2>1, <2>2 DEF LocksHeldBy
<1>11. LocksOf'
  BY <1>0, <1>7, <1>8, <1>9, SetupKnows, NothingIs, SetupAssumed
  DEF LocksOf, LocksFit, ImportKnows, ImportsKnow, SetupTyped, S!Importing,
      S!Installing
<1>12. ImportsKnow'
  <2>1. ImportKnows(s)'
    BY <1>0, <1>7, <1>8, SetupKnows, SetupAssumed
    DEF ImportsKnow, ImportKnows, LocksOf, S!Importing, S!Installing
  <2>2. ASSUME NEW t \in S!Installer \ {s} PROVE ImportKnows(t)'
    BY <1>0, <1>7, <1>8, <2>2, SetupKnows, SetupAssumed
    DEF ImportsKnow, ImportKnows, LocksOf, LocksHeldBy, LocksFit, S!Importing,
        S!Installing
  <2>. QED
    BY <2>1, <2>2 DEF ImportsKnow
<1>13. ImportTrue'
  BY <1>0, <1>7, <1>8, <1>9, SetupKnows, NothingIs, SetupAssumed
  DEF ImportTrue, LocksFit, ImportKnows, ImportsKnow, SetupTyped, S!Importing,
      S!Installing
<1>14. S!ReportsTrue'
  BY <1>0, <1>7, <1>8, <1>9, SetupKnows, NothingIs, SetupAssumed
  DEF S!ReportsTrue, LocksFit, ImportKnows, ImportsKnow, SetupTyped, S!Importing,
      S!Installing, S!Works, S!Entered
<1>15. ManifestRead'
  BY <1>0, <1>7, <1>8, <1>9, SetupKnows, NothingIs, SetupAssumed
  DEF ManifestRead, LocksFit, ImportKnows, ImportsKnow, SetupTyped, S!Importing,
      S!Installing
<1>16. S!ManifestKept'
  BY <1>0, <1>7, <1>8, <1>9, SetupKnows, NothingIs, SetupAssumed
  DEF S!ManifestKept, LocksFit, ImportKnows, ImportsKnow, SetupTyped, S!Importing,
      S!Installing
<1>. QED
  BY <1>9, <1>10, <1>11, <1>12, <1>13, <1>14, <1>15, <1>16 DEF SetupHold

LEMMA RenameKeeps ==
    ASSUME SetupHold, NEW s \in S!Installer, S!Rename(s)
    PROVE  SetupHold'
<1>0. /\ SetupTyped /\ LocksHeldBy /\ LocksOf /\ ImportsKnow /\ ImportTrue /\ S!ReportsTrue
      /\ ManifestRead /\ S!ManifestKept
  BY DEF SetupHold
<1>2. step[s] = "staged" => importPlan[s] \in 0 .. MaxSaves /\ inspected[s] \in 0 .. MaxSaves
  BY <1>0, SetupKnows DEF ImportsKnow, ImportKnows, S!Importing
<1>7. UNCHANGED <<source, setupLock, ousted, disk, manifest, late, slipped, missing, doing, failures, entered, report>>
  BY DEF S!Rename, S!placeVars, S!ownVars, S!Forget, S!Turn
<1>8. /\ step[s] = "staged"
      /\ step' \in [S!Installer -> {"start", "planned", "locked", "agreed", "staged", "inspecting", "unlocked", "installing", "reporting", "ended", "refused", "dead"}]
      /\ \A t \in S!Installer \ {s} : step'[t] = step[t]
      /\ importPlan' \in [S!Installer -> {None} \cup 0 .. MaxSaves]
      /\ \A t \in S!Installer \ {s} : importPlan'[t] = importPlan[t]
      /\ inspected' \in [S!Installer -> {None} \cup 0 .. MaxSaves]
      /\ \A t \in S!Installer \ {s} : inspected'[t] = inspected[t]
      /\ importLock' = IF importLock = s THEN None ELSE importLock
      /\ step'[s] \in {"inspecting", "refused"}
      /\ imported' \in [state : {"none", "empty", "used", "imported"}, text : 0 .. MaxSaves, sha : 0 .. MaxSaves]
      /\ imported' = imported \/ (imported'.text = inspected[s] /\ imported'.sha = importPlan[s])
  <2>1. step[s] = "staged"
    BY <1>0, <1>2, SetupKnows, SetupAssumed DEF S!Rename, S!Goes, S!Forget, SetupTyped
  <2>2. step' \in [S!Installer -> {"start", "planned", "locked", "agreed", "staged", "inspecting", "unlocked", "installing", "reporting", "ended", "refused", "dead"}]
    BY <1>0, <1>2, SetupKnows, SetupAssumed DEF S!Rename, S!Goes, S!Forget, SetupTyped
  <2>3. \A t \in S!Installer \ {s} : step'[t] = step[t]
    BY <1>0, <1>2, SetupKnows, SetupAssumed DEF S!Rename, S!Goes, S!Forget, SetupTyped
  <2>4. importPlan' \in [S!Installer -> {None} \cup 0 .. MaxSaves]
    BY <1>0, <1>2, SetupKnows, SetupAssumed DEF S!Rename, S!Goes, S!Forget, SetupTyped
  <2>5. \A t \in S!Installer \ {s} : importPlan'[t] = importPlan[t]
    BY <1>0, <1>2, SetupKnows, SetupAssumed DEF S!Rename, S!Goes, S!Forget, SetupTyped
  <2>6. inspected' \in [S!Installer -> {None} \cup 0 .. MaxSaves]
    BY <1>0, <1>2, SetupKnows, SetupAssumed DEF S!Rename, S!Goes, S!Forget, SetupTyped
  <2>7. \A t \in S!Installer \ {s} : inspected'[t] = inspected[t]
    BY <1>0, <1>2, SetupKnows, SetupAssumed DEF S!Rename, S!Goes, S!Forget, SetupTyped
  <2>8. importLock' = IF importLock = s THEN None ELSE importLock
    BY <1>0, <1>2, SetupKnows, SetupAssumed DEF S!Rename, S!Goes, S!Forget, SetupTyped
  <2>9. step'[s] \in {"inspecting", "refused"}
    BY <1>0, <1>2, SetupKnows, SetupAssumed DEF S!Rename, S!Goes, S!Forget, SetupTyped
  <2>10. imported' \in [state : {"none", "empty", "used", "imported"}, text : 0 .. MaxSaves, sha : 0 .. MaxSaves]
    BY <1>0, <1>2, SetupKnows, SetupAssumed DEF S!Rename, S!Goes, S!Forget, SetupTyped
  <2>11. imported' = imported \/ (imported'.text = inspected[s] /\ imported'.sha = importPlan[s])
    BY <1>0, <1>2, SetupKnows, SetupAssumed DEF S!Rename, S!Goes, S!Forget, SetupTyped
  <2>. QED
    BY <2>1, <2>2, <2>3, <2>4, <2>5, <2>6, <2>7, <2>8, <2>9, <2>10, <2>11
<1>9. SetupTyped'
  BY <1>0, <1>7, <1>8, SetupKnows DEF SetupTyped
<1>10. LocksHeldBy'
  <2>1. LocksFit(s)'
    BY <1>0, <1>7, <1>8, SetupKnows, SetupAssumed
    DEF LocksHeldBy, LocksFit, LocksOf, S!Importing, S!Installing
  <2>2. ASSUME NEW t \in S!Installer \ {s} PROVE LocksFit(t)'
    BY <1>0, <1>7, <1>8, <2>2, SetupKnows, SetupAssumed
    DEF LocksHeldBy, LocksFit, LocksOf, LocksHeldBy, LocksFit, S!Importing,
        S!Installing
  <2>. QED
    BY <2>1, <2>2 DEF LocksHeldBy
<1>11. LocksOf'
  BY <1>0, <1>7, <1>8, <1>9, SetupKnows, NothingIs, SetupAssumed
  DEF LocksOf, LocksFit, ImportKnows, ImportsKnow, SetupTyped, S!Importing,
      S!Installing
<1>12. ImportsKnow'
  <2>1. ImportKnows(s)'
    BY <1>0, <1>7, <1>8, SetupKnows, SetupAssumed
    DEF ImportsKnow, ImportKnows, LocksOf, S!Importing, S!Installing
  <2>2. ASSUME NEW t \in S!Installer \ {s} PROVE ImportKnows(t)'
    BY <1>0, <1>7, <1>8, <2>2, SetupKnows, SetupAssumed
    DEF ImportsKnow, ImportKnows, LocksOf, LocksHeldBy, LocksFit, S!Importing,
        S!Installing
  <2>. QED
    BY <2>1, <2>2 DEF ImportsKnow
<1>13. ImportTrue'
  BY <1>0, <1>7, <1>8, <1>9, SetupKnows, NothingIs, SetupAssumed
  DEF ImportTrue, LocksFit, ImportKnows, ImportsKnow, SetupTyped, S!Importing,
      S!Installing
<1>14. S!ReportsTrue'
  BY <1>0, <1>7, <1>8, <1>9, SetupKnows, NothingIs, SetupAssumed
  DEF S!ReportsTrue, LocksFit, ImportKnows, ImportsKnow, SetupTyped, S!Importing,
      S!Installing, S!Works, S!Entered
<1>15. ManifestRead'
  BY <1>0, <1>7, <1>8, <1>9, SetupKnows, NothingIs, SetupAssumed
  DEF ManifestRead, LocksFit, ImportKnows, ImportsKnow, SetupTyped, S!Importing,
      S!Installing
<1>16. S!ManifestKept'
  BY <1>0, <1>7, <1>8, <1>9, SetupKnows, NothingIs, SetupAssumed
  DEF S!ManifestKept, LocksFit, ImportKnows, ImportsKnow, SetupTyped, S!Importing,
      S!Installing
<1>. QED
  BY <1>9, <1>10, <1>11, <1>12, <1>13, <1>14, <1>15, <1>16 DEF SetupHold

LEMMA SetupInspectKeeps ==
    ASSUME SetupHold, NEW s \in S!Installer, S!Inspect(s)
    PROVE  SetupHold'
<1>0. /\ SetupTyped /\ LocksHeldBy /\ LocksOf /\ ImportsKnow /\ ImportTrue /\ S!ReportsTrue
      /\ ManifestRead /\ S!ManifestKept
  BY DEF SetupHold
<1>2. step[s] = "inspecting"
  BY DEF S!Inspect
<1>3. \/ /\ step' = [step EXCEPT ![s] = "unlocked"] /\ (imported' = imported \/ imported' = S!Made("used"))
         /\ missing' = [missing EXCEPT ![s] = {c \in S!Component : ~ S!Present(c)}]
      \/ step' = [step EXCEPT ![s] = "refused"] /\ imported' = imported /\ missing' = missing
  BY DEF S!Inspect, S!Goes
<1>4. PICK there \in {"unlocked", "refused"} : step' = [step EXCEPT ![s] = there]
  BY <1>3
<1>5. PICK those \in SUBSET S!Component : missing' = [missing EXCEPT ![s] = those]
  <2>1. missing = [missing EXCEPT ![s] = missing[s]] /\ missing[s] \in SUBSET S!Component
    BY <1>0 DEF SetupTyped
  <2>2. {c \in S!Component : ~ S!Present(c)} \in SUBSET S!Component
    OBVIOUS
  <2>. QED
    BY <1>3, <2>1, <2>2
<1>7. UNCHANGED <<source, importLock, setupLock, ousted, disk, manifest, late, slipped, importPlan, inspected, doing, failures, entered, report>>
  BY DEF S!Inspect, S!placeVars, S!ownVars, S!Forget, S!Turn
<1>8. /\ step[s] = "inspecting"
      /\ step' \in [S!Installer -> {"start", "planned", "locked", "agreed", "staged", "inspecting", "unlocked", "installing", "reporting", "ended", "refused", "dead"}]
      /\ \A t \in S!Installer \ {s} : step'[t] = step[t]
      /\ missing' \in [S!Installer -> SUBSET S!Component]
      /\ \A t \in S!Installer \ {s} : missing'[t] = missing[t]
      /\ step'[s] \in {"unlocked", "refused"}
      /\ imported' = imported \/ imported' = S!Made("used")
  <2>1. step[s] = "inspecting"
    BY <1>0, <1>2, <1>3, <1>4, <1>5 DEF SetupTyped
  <2>2. step' \in [S!Installer -> {"start", "planned", "locked", "agreed", "staged", "inspecting", "unlocked", "installing", "reporting", "ended", "refused", "dead"}]
    BY <1>0, <1>2, <1>3, <1>4, <1>5 DEF SetupTyped
  <2>3. \A t \in S!Installer \ {s} : step'[t] = step[t]
    BY <1>0, <1>2, <1>3, <1>4, <1>5 DEF SetupTyped
  <2>4. missing' \in [S!Installer -> SUBSET S!Component]
    BY <1>0, <1>2, <1>3, <1>4, <1>5 DEF SetupTyped
  <2>5. \A t \in S!Installer \ {s} : missing'[t] = missing[t]
    BY <1>0, <1>2, <1>3, <1>4, <1>5 DEF SetupTyped
  <2>6. step'[s] \in {"unlocked", "refused"}
    BY <1>0, <1>2, <1>3, <1>4, <1>5 DEF SetupTyped
  <2>7. imported' = imported \/ imported' = S!Made("used")
    BY <1>0, <1>2, <1>3, <1>4, <1>5 DEF SetupTyped
  <2>. QED
    BY <2>1, <2>2, <2>3, <2>4, <2>5, <2>6, <2>7
<1>9. SetupTyped'
  BY <1>0, <1>7, <1>8, MadeIs DEF SetupTyped
<1>10. LocksHeldBy'
  <2>1. LocksFit(s)'
    BY <1>0, <1>7, <1>8, SetupKnows, SetupAssumed
    DEF LocksHeldBy, LocksFit, LocksOf, S!Importing, S!Installing
  <2>2. ASSUME NEW t \in S!Installer \ {s} PROVE LocksFit(t)'
    BY <1>0, <1>7, <1>8, <2>2, SetupKnows, SetupAssumed
    DEF LocksHeldBy, LocksFit, LocksOf, LocksHeldBy, LocksFit, S!Importing,
        S!Installing
  <2>. QED
    BY <2>1, <2>2 DEF LocksHeldBy
<1>11. LocksOf'
  BY <1>0, <1>7, <1>8, <1>9, SetupKnows, NothingIs, SetupAssumed
  DEF LocksOf, LocksFit, ImportKnows, ImportsKnow, SetupTyped, S!Importing,
      S!Installing
<1>12. ImportsKnow'
  <2>1. ImportKnows(s)'
    BY <1>0, <1>7, <1>8, SetupKnows, SetupAssumed
    DEF ImportsKnow, ImportKnows, LocksOf, S!Importing, S!Installing
  <2>2. ASSUME NEW t \in S!Installer \ {s} PROVE ImportKnows(t)'
    BY <1>0, <1>7, <1>8, <2>2, SetupKnows, SetupAssumed
    DEF ImportsKnow, ImportKnows, LocksOf, LocksHeldBy, LocksFit, S!Importing,
        S!Installing
  <2>. QED
    BY <2>1, <2>2 DEF ImportsKnow
<1>13. ImportTrue'
  BY <1>0, <1>7, <1>8, MadeIs DEF ImportTrue
<1>14. S!ReportsTrue'
  BY <1>0, <1>7, <1>8, <1>9, SetupKnows, NothingIs, SetupAssumed
  DEF S!ReportsTrue, LocksFit, ImportKnows, ImportsKnow, SetupTyped, S!Importing,
      S!Installing, S!Works, S!Entered
<1>15. ManifestRead'
  BY <1>0, <1>7, <1>8, <1>9, SetupKnows, NothingIs, SetupAssumed
  DEF ManifestRead, LocksFit, ImportKnows, ImportsKnow, SetupTyped, S!Importing,
      S!Installing
<1>16. S!ManifestKept'
  BY <1>0, <1>7, <1>8, <1>9, SetupKnows, NothingIs, SetupAssumed
  DEF S!ManifestKept, LocksFit, ImportKnows, ImportsKnow, SetupTyped, S!Importing,
      S!Installing
<1>. QED
  BY <1>9, <1>10, <1>11, <1>12, <1>13, <1>14, <1>15, <1>16 DEF SetupHold

LEMMA LockSetupKeeps ==
    ASSUME SetupHold, NEW s \in S!Installer, S!LockSetup(s)
    PROVE  SetupHold'
<1>0. /\ SetupTyped /\ LocksHeldBy /\ LocksOf /\ ImportsKnow /\ ImportTrue /\ S!ReportsTrue
      /\ ManifestRead /\ S!ManifestKept
  BY DEF SetupHold
<1>7. UNCHANGED <<source, imported, importLock, ousted, disk, manifest, late, slipped, importPlan, inspected, missing, doing, failures, entered, report>>
  BY DEF S!LockSetup, S!placeVars, S!ownVars, S!Forget, S!Turn
<1>8. /\ step[s] = "unlocked"
      /\ step' \in [S!Installer -> {"start", "planned", "locked", "agreed", "staged", "inspecting", "unlocked", "installing", "reporting", "ended", "refused", "dead"}]
      /\ \A t \in S!Installer \ {s} : step'[t] = step[t]
      /\ (setupLock = None /\ setupLock' = s /\ step'[s] = "installing") \/ (setupLock' = setupLock /\ step'[s] = "refused")
  BY <1>0, SetupKnows, SetupAssumed DEF S!LockSetup, S!Goes, SetupTyped
<1>9. SetupTyped'
  BY <1>0, <1>7, <1>8, SetupKnows DEF SetupTyped
<1>10. LocksHeldBy'
  <2>1. LocksFit(s)'
    BY <1>0, <1>7, <1>8, SetupKnows, SetupAssumed
    DEF LocksHeldBy, LocksFit, LocksOf, S!Importing, S!Installing
  <2>2. ASSUME NEW t \in S!Installer \ {s} PROVE LocksFit(t)'
    BY <1>0, <1>7, <1>8, <2>2, SetupKnows, SetupAssumed
    DEF LocksHeldBy, LocksFit, LocksOf, LocksHeldBy, LocksFit, S!Importing,
        S!Installing
  <2>. QED
    BY <2>1, <2>2 DEF LocksHeldBy
<1>11. LocksOf'
  BY <1>0, <1>7, <1>8, <1>9, SetupKnows, NothingIs, SetupAssumed
  DEF LocksOf, LocksFit, ImportKnows, ImportsKnow, SetupTyped, S!Importing,
      S!Installing
<1>12. ImportsKnow'
  <2>1. ImportKnows(s)'
    BY <1>0, <1>7, <1>8, SetupKnows, SetupAssumed
    DEF ImportsKnow, ImportKnows, LocksOf, S!Importing, S!Installing
  <2>2. ASSUME NEW t \in S!Installer \ {s} PROVE ImportKnows(t)'
    BY <1>0, <1>7, <1>8, <2>2, SetupKnows, SetupAssumed
    DEF ImportsKnow, ImportKnows, LocksOf, LocksHeldBy, LocksFit, S!Importing,
        S!Installing
  <2>. QED
    BY <2>1, <2>2 DEF ImportsKnow
<1>13. ImportTrue'
  BY <1>0, <1>7, <1>8, <1>9, SetupKnows, NothingIs, SetupAssumed
  DEF ImportTrue, LocksFit, ImportKnows, ImportsKnow, SetupTyped, S!Importing,
      S!Installing
<1>14. S!ReportsTrue'
  BY <1>0, <1>7, <1>8, <1>9, SetupKnows, NothingIs, SetupAssumed
  DEF S!ReportsTrue, LocksFit, ImportKnows, ImportsKnow, SetupTyped, S!Importing,
      S!Installing, S!Works, S!Entered
<1>15. ManifestRead'
  BY <1>0, <1>7, <1>8, <1>9, SetupKnows, NothingIs, SetupAssumed
  DEF ManifestRead, LocksFit, ImportKnows, ImportsKnow, SetupTyped, S!Importing,
      S!Installing
<1>16. S!ManifestKept'
  BY <1>0, <1>7, <1>8, <1>9, SetupKnows, NothingIs, SetupAssumed
  DEF S!ManifestKept, LocksFit, ImportKnows, ImportsKnow, SetupTyped, S!Importing,
      S!Installing
<1>. QED
  BY <1>9, <1>10, <1>11, <1>12, <1>13, <1>14, <1>15, <1>16 DEF SetupHold

LEMMA SetupPackageKeeps ==
    ASSUME SetupHold, NEW s \in S!Installer, NEW c \in S!Component, S!Package(s, c)
    PROVE  SetupHold'
<1>0. /\ SetupTyped /\ LocksHeldBy /\ LocksOf /\ ImportsKnow /\ ImportTrue /\ S!ReportsTrue
      /\ ManifestRead /\ S!ManifestKept
  BY DEF SetupHold
<1>5. ASSUME step[s] = "installing", ousted = {}, NEW t \in S!Installer
      PROVE  step[t] # "reporting"
  BY <1>0, <1>5 DEF LocksHeldBy, LocksFit, S!Installing
<1>2. step[s] = "installing"
  BY DEF S!Package, S!Turn
<1>3. /\ missing' = [missing EXCEPT ![s] = missing[s] \ {c}]
      /\ \/ failures' = failures /\ (disk' = [disk EXCEPT ![c] = "whole"] \/ disk' = [disk EXCEPT ![c] = "bad"])
         \/ failures' = [failures EXCEPT ![s] = failures[s] \cup {c}] /\ disk' = disk
  BY DEF S!Package
<1>7. UNCHANGED <<source, imported, importLock, setupLock, ousted, manifest, late, slipped, step, importPlan, inspected, doing, entered, report>>
  BY DEF S!Package, S!placeVars, S!ownVars, S!Forget, S!Turn
<1>8. /\ step[s] = "installing"
      /\ missing' \in [S!Installer -> SUBSET S!Component]
      /\ \A t \in S!Installer \ {s} : missing'[t] = missing[t]
      /\ disk' \in [S!Component -> {"none", "whole", "bad"}]
      /\ failures' \in [S!Installer -> SUBSET S!Component]
      /\ \A t \in S!Installer \ {s} : failures'[t] = failures[t]
  <2>1. step[s] = "installing"
    BY <1>0, <1>2, <1>3 DEF SetupTyped
  <2>2. missing' \in [S!Installer -> SUBSET S!Component]
    BY <1>0, <1>2, <1>3 DEF SetupTyped
  <2>3. \A t \in S!Installer \ {s} : missing'[t] = missing[t]
    BY <1>0, <1>2, <1>3 DEF SetupTyped
  <2>4. disk' \in [S!Component -> {"none", "whole", "bad"}]
    BY <1>0, <1>2, <1>3 DEF SetupTyped
  <2>5. failures' \in [S!Installer -> SUBSET S!Component]
    BY <1>0, <1>2, <1>3 DEF SetupTyped
  <2>6. \A t \in S!Installer \ {s} : failures'[t] = failures[t]
    BY <1>0, <1>2, <1>3 DEF SetupTyped
  <2>. QED
    BY <2>1, <2>2, <2>3, <2>4, <2>5, <2>6
<1>9. SetupTyped'
  BY <1>0, <1>7, <1>8, SetupKnows DEF SetupTyped
<1>10. LocksHeldBy'
  <2>1. LocksFit(s)'
    BY <1>0, <1>7, <1>8, SetupKnows, SetupAssumed
    DEF LocksHeldBy, LocksFit, LocksOf, S!Importing, S!Installing
  <2>2. ASSUME NEW t \in S!Installer \ {s} PROVE LocksFit(t)'
    BY <1>0, <1>7, <1>8, <2>2, SetupKnows, SetupAssumed
    DEF LocksHeldBy, LocksFit, LocksOf, LocksHeldBy, LocksFit, S!Importing,
        S!Installing
  <2>. QED
    BY <2>1, <2>2 DEF LocksHeldBy
<1>11. LocksOf'
  BY <1>0, <1>7, <1>8, <1>9, SetupKnows, NothingIs, SetupAssumed
  DEF LocksOf, LocksFit, ImportKnows, ImportsKnow, SetupTyped, S!Importing,
      S!Installing
<1>12. ImportsKnow'
  <2>1. ImportKnows(s)'
    BY <1>0, <1>7, <1>8, SetupKnows, SetupAssumed
    DEF ImportsKnow, ImportKnows, LocksOf, S!Importing, S!Installing
  <2>2. ASSUME NEW t \in S!Installer \ {s} PROVE ImportKnows(t)'
    BY <1>0, <1>7, <1>8, <2>2, SetupKnows, SetupAssumed
    DEF ImportsKnow, ImportKnows, LocksOf, LocksHeldBy, LocksFit, S!Importing,
        S!Installing
  <2>. QED
    BY <2>1, <2>2 DEF ImportsKnow
<1>13. ImportTrue'
  BY <1>0, <1>7, <1>8, <1>9, SetupKnows, NothingIs, SetupAssumed
  DEF ImportTrue, LocksFit, ImportKnows, ImportsKnow, SetupTyped, S!Importing,
      S!Installing
<1>14. S!ReportsTrue'
  BY <1>5, <1>7, <1>8 DEF S!ReportsTrue
<1>15. ManifestRead'
  BY <1>0, <1>7, <1>8, <1>9, SetupKnows, NothingIs, SetupAssumed
  DEF ManifestRead, LocksFit, ImportKnows, ImportsKnow, SetupTyped, S!Importing,
      S!Installing
<1>16. S!ManifestKept'
  BY <1>0, <1>7, <1>8, <1>9, SetupKnows, NothingIs, SetupAssumed
  DEF S!ManifestKept, LocksFit, ImportKnows, ImportsKnow, SetupTyped, S!Importing,
      S!Installing
<1>. QED
  BY <1>9, <1>10, <1>11, <1>12, <1>13, <1>14, <1>15, <1>16 DEF SetupHold

LEMMA DownloadKeeps ==
    ASSUME SetupHold, NEW s \in S!Installer, NEW c \in S!Component, S!Download(s, c)
    PROVE  SetupHold'
<1>0. /\ SetupTyped /\ LocksHeldBy /\ LocksOf /\ ImportsKnow /\ ImportTrue /\ S!ReportsTrue
      /\ ManifestRead /\ S!ManifestKept
  BY DEF SetupHold
<1>2. /\ [S!Nothing EXCEPT !.item = c, !.has = "bytes"] \in Doings
      /\ [S!Nothing EXCEPT !.item = c, !.has = "bytes"].has = "bytes"
  BY DEF S!Nothing, S!NoPaths, Doings, Manifests
<1>3. step[s] = "installing"
  BY DEF S!Download, S!Turn
<1>4. /\ missing' = [missing EXCEPT ![s] = missing[s] \ {c}]
      /\ failures' = failures \/ failures' = [failures EXCEPT ![s] = failures[s] \cup {c}]
      /\ doing' = doing \/ doing' = [doing EXCEPT ![s] = [S!Nothing EXCEPT !.item = c, !.has = "bytes"]]
  BY DEF S!Download
<1>6. PICK those \in SUBSET S!Component : failures' = [failures EXCEPT ![s] = those]
  <2>1. failures = [failures EXCEPT ![s] = failures[s]] /\ failures[s] \in SUBSET S!Component
    BY <1>0 DEF SetupTyped
  <2>. QED
    BY <1>4, <2>1
<1>7. UNCHANGED <<source, imported, importLock, setupLock, ousted, disk, manifest, late, slipped, step, importPlan, inspected, entered, report>>
  BY DEF S!Download, S!placeVars, S!ownVars, S!Forget, S!Turn
<1>8. /\ step[s] = "installing"
      /\ missing' \in [S!Installer -> SUBSET S!Component]
      /\ \A t \in S!Installer \ {s} : missing'[t] = missing[t]
      /\ doing' \in [S!Installer -> Doings]
      /\ \A t \in S!Installer \ {s} : doing'[t] = doing[t]
      /\ failures' \in [S!Installer -> SUBSET S!Component]
      /\ \A t \in S!Installer \ {s} : failures'[t] = failures[t]
      /\ doing' = doing \/ doing'[s].has = "bytes"
  <2>1. step[s] = "installing"
    BY <1>0, <1>2, <1>3, <1>4, <1>6 DEF SetupTyped
  <2>2. missing' \in [S!Installer -> SUBSET S!Component]
    BY <1>0, <1>2, <1>3, <1>4, <1>6 DEF SetupTyped
  <2>3. \A t \in S!Installer \ {s} : missing'[t] = missing[t]
    BY <1>0, <1>2, <1>3, <1>4, <1>6 DEF SetupTyped
  <2>4. doing' \in [S!Installer -> Doings]
    BY <1>0, <1>2, <1>3, <1>4, <1>6 DEF SetupTyped
  <2>5. \A t \in S!Installer \ {s} : doing'[t] = doing[t]
    BY <1>0, <1>2, <1>3, <1>4, <1>6 DEF SetupTyped
  <2>6. failures' \in [S!Installer -> SUBSET S!Component]
    BY <1>0, <1>2, <1>3, <1>4, <1>6 DEF SetupTyped
  <2>7. \A t \in S!Installer \ {s} : failures'[t] = failures[t]
    BY <1>0, <1>2, <1>3, <1>4, <1>6 DEF SetupTyped
  <2>8. doing' = doing \/ doing'[s].has = "bytes"
    BY <1>0, <1>2, <1>3, <1>4, <1>6 DEF SetupTyped
  <2>. QED
    BY <2>1, <2>2, <2>3, <2>4, <2>5, <2>6, <2>7, <2>8
<1>9. SetupTyped'
  BY <1>0, <1>7, <1>8, SetupKnows DEF SetupTyped
<1>10. LocksHeldBy'
  <2>1. LocksFit(s)'
    BY <1>0, <1>7, <1>8, SetupKnows, SetupAssumed
    DEF LocksHeldBy, LocksFit, LocksOf, S!Importing, S!Installing
  <2>2. ASSUME NEW t \in S!Installer \ {s} PROVE LocksFit(t)'
    BY <1>0, <1>7, <1>8, <2>2, SetupKnows, SetupAssumed
    DEF LocksHeldBy, LocksFit, LocksOf, LocksHeldBy, LocksFit, S!Importing,
        S!Installing
  <2>. QED
    BY <2>1, <2>2 DEF LocksHeldBy
<1>11. LocksOf'
  BY <1>0, <1>7, <1>8, <1>9, SetupKnows, NothingIs, SetupAssumed
  DEF LocksOf, LocksFit, ImportKnows, ImportsKnow, SetupTyped, S!Importing,
      S!Installing
<1>12. ImportsKnow'
  <2>1. ImportKnows(s)'
    BY <1>0, <1>7, <1>8, SetupKnows, SetupAssumed
    DEF ImportsKnow, ImportKnows, LocksOf, S!Importing, S!Installing
  <2>2. ASSUME NEW t \in S!Installer \ {s} PROVE ImportKnows(t)'
    BY <1>0, <1>7, <1>8, <2>2, SetupKnows, SetupAssumed
    DEF ImportsKnow, ImportKnows, LocksOf, LocksHeldBy, LocksFit, S!Importing,
        S!Installing
  <2>. QED
    BY <2>1, <2>2 DEF ImportsKnow
<1>13. ImportTrue'
  BY <1>0, <1>7, <1>8, <1>9, SetupKnows, NothingIs, SetupAssumed
  DEF ImportTrue, LocksFit, ImportKnows, ImportsKnow, SetupTyped, S!Importing,
      S!Installing
<1>14. S!ReportsTrue'
  BY <1>0, <1>7, <1>8, <1>9, SetupKnows, NothingIs, SetupAssumed
  DEF S!ReportsTrue, LocksFit, ImportKnows, ImportsKnow, SetupTyped, S!Importing,
      S!Installing, S!Works, S!Entered
<1>15. ManifestRead'
  BY <1>0, <1>7, <1>8, <1>9, SetupKnows, NothingIs, SetupAssumed
  DEF ManifestRead, LocksFit, ImportKnows, ImportsKnow, SetupTyped, S!Importing,
      S!Installing
<1>16. S!ManifestKept'
  BY <1>0, <1>7, <1>8, <1>9, SetupKnows, NothingIs, SetupAssumed
  DEF S!ManifestKept, LocksFit, ImportKnows, ImportsKnow, SetupTyped, S!Importing,
      S!Installing
<1>. QED
  BY <1>9, <1>10, <1>11, <1>12, <1>13, <1>14, <1>15, <1>16 DEF SetupHold

LEMMA LinkKeeps ==
    ASSUME SetupHold, NEW s \in S!Installer, S!Link(s)
    PROVE  SetupHold'
<1>0. /\ SetupTyped /\ LocksHeldBy /\ LocksOf /\ ImportsKnow /\ ImportTrue /\ S!ReportsTrue
      /\ ManifestRead /\ S!ManifestKept
  BY DEF SetupHold
<1>5. ASSUME step[s] = "installing", ousted = {}, NEW t \in S!Installer
      PROVE  step[t] # "reporting"
  BY <1>0, <1>5 DEF LocksHeldBy, LocksFit, S!Installing
<1>7. UNCHANGED <<source, imported, importLock, setupLock, ousted, manifest, late, slipped, step, importPlan, inspected, missing, entered, report>>
  BY DEF S!Link, S!placeVars, S!ownVars, S!Forget, S!Turn
<1>8. /\ step[s] = "installing"
      /\ disk' \in [S!Component -> {"none", "whole", "bad"}]
      /\ doing' \in [S!Installer -> Doings]
      /\ \A t \in S!Installer \ {s} : doing'[t] = doing[t]
      /\ failures' \in [S!Installer -> SUBSET S!Component]
      /\ \A t \in S!Installer \ {s} : failures'[t] = failures[t]
      /\ doing'[s] = S!Nothing
  BY <1>0, NothingIs, SetupKnows, SetupAssumed DEF S!Link, SetupTyped
<1>9. SetupTyped'
  BY <1>0, <1>7, <1>8, SetupKnows DEF SetupTyped
<1>10. LocksHeldBy'
  <2>1. LocksFit(s)'
    BY <1>0, <1>7, <1>8, SetupKnows, SetupAssumed
    DEF LocksHeldBy, LocksFit, LocksOf, S!Importing, S!Installing
  <2>2. ASSUME NEW t \in S!Installer \ {s} PROVE LocksFit(t)'
    BY <1>0, <1>7, <1>8, <2>2, SetupKnows, SetupAssumed
    DEF LocksHeldBy, LocksFit, LocksOf, LocksHeldBy, LocksFit, S!Importing,
        S!Installing
  <2>. QED
    BY <2>1, <2>2 DEF LocksHeldBy
<1>11. LocksOf'
  BY <1>0, <1>7, <1>8, <1>9, SetupKnows, NothingIs, SetupAssumed
  DEF LocksOf, LocksFit, ImportKnows, ImportsKnow, SetupTyped, S!Importing,
      S!Installing
<1>12. ImportsKnow'
  <2>1. ImportKnows(s)'
    BY <1>0, <1>7, <1>8, SetupKnows, SetupAssumed
    DEF ImportsKnow, ImportKnows, LocksOf, S!Importing, S!Installing
  <2>2. ASSUME NEW t \in S!Installer \ {s} PROVE ImportKnows(t)'
    BY <1>0, <1>7, <1>8, <2>2, SetupKnows, SetupAssumed
    DEF ImportsKnow, ImportKnows, LocksOf, LocksHeldBy, LocksFit, S!Importing,
        S!Installing
  <2>. QED
    BY <2>1, <2>2 DEF ImportsKnow
<1>13. ImportTrue'
  BY <1>0, <1>7, <1>8, <1>9, SetupKnows, NothingIs, SetupAssumed
  DEF ImportTrue, LocksFit, ImportKnows, ImportsKnow, SetupTyped, S!Importing,
      S!Installing
<1>14. S!ReportsTrue'
  BY <1>5, <1>7, <1>8 DEF S!ReportsTrue
<1>15. ManifestRead'
  <2>1. doing'[s].has # "checked"
    BY <1>8, NothingIs
  <2>2. \A t \in S!Installer : doing'[t].has = "checked" => doing'[t] = doing[t] /\ t # s
    BY <1>8, <2>1
  <2>3. ASSUME NEW t \in S!Installer, doing'[t].has \in {"tool", "read", "checked"}
      PROVE  doing'[t].item \in Archive
    BY <1>0, <1>8, <2>3, NothingIs DEF ManifestRead
  <2>. QED
    BY <1>0, <1>7, <2>1, <2>2, <2>3 DEF ManifestRead
<1>16. S!ManifestKept'
  BY <1>0, <1>7, <1>8, <1>9, SetupKnows, NothingIs, SetupAssumed
  DEF S!ManifestKept, LocksFit, ImportKnows, ImportsKnow, SetupTyped, S!Importing,
      S!Installing
<1>. QED
  BY <1>9, <1>10, <1>11, <1>12, <1>13, <1>14, <1>15, <1>16 DEF SetupHold

LEMMA UnpackKeeps ==
    ASSUME SetupHold, NEW s \in S!Installer, S!Unpack(s)
    PROVE  SetupHold'
<1>0. /\ SetupTyped /\ LocksHeldBy /\ LocksOf /\ ImportsKnow /\ ImportTrue /\ S!ReportsTrue
      /\ ManifestRead /\ S!ManifestKept
  BY DEF SetupHold
<1>5. ASSUME step[s] = "installing", ousted = {}, NEW t \in S!Installer
      PROVE  step[t] # "reporting"
  BY <1>0, <1>5 DEF LocksHeldBy, LocksFit, S!Installing
<1>2. LET n == [doing[s] EXCEPT !.has = "tool"] IN
      n \in Doings /\ n.has = "tool" /\ n.item = doing[s].item /\ n.read = doing[s].read
  BY <1>0, HasNow DEF SetupTyped
<1>3. [doing EXCEPT ![s].has = "tool"] = [doing EXCEPT ![s] = [doing[s] EXCEPT !.has = "tool"]]
  BY <1>0 DEF SetupTyped
<1>1. /\ step[s] = "installing" /\ doing[s].item \in Archive
      /\ disk' = disk \/ disk' = [disk EXCEPT ![doing[s].item] = "whole"]
      /\ failures' = failures \/ failures' = [failures EXCEPT ![s] = failures[s] \cup {doing[s].item}]
  BY DEF S!Unpack
<1>4. PICK n \in Doings : /\ doing' = [doing EXCEPT ![s] = n]
                          /\ n = S!Nothing \/ (n.has = "tool" /\ n.item = doing[s].item)
  BY <1>2, <1>3, NothingIs DEF S!Unpack
<1>6. PICK those \in SUBSET S!Component : failures' = [failures EXCEPT ![s] = those]
  <2>1. failures = [failures EXCEPT ![s] = failures[s]] /\ failures[s] \in SUBSET S!Component
    BY <1>0 DEF SetupTyped
  <2>. QED
    BY <1>1, <2>1, SetupAssumed
<1>7. UNCHANGED <<source, imported, importLock, setupLock, ousted, manifest, late, slipped, step, importPlan, inspected, missing, entered, report>>
  BY DEF S!Unpack, S!placeVars, S!ownVars, S!Forget, S!Turn
<1>8. /\ step[s] = "installing"
      /\ doing[s].item \in Archive
      /\ disk' \in [S!Component -> {"none", "whole", "bad"}]
      /\ doing' \in [S!Installer -> Doings]
      /\ \A t \in S!Installer \ {s} : doing'[t] = doing[t]
      /\ failures' \in [S!Installer -> SUBSET S!Component]
      /\ \A t \in S!Installer \ {s} : failures'[t] = failures[t]
      /\ doing'[s] = S!Nothing \/ (doing'[s].has = "tool" /\ doing'[s].item = doing[s].item)
  <2>1. step[s] = "installing"
    BY <1>0, <1>1, <1>4, <1>6, NothingIs DEF SetupTyped
  <2>2. doing[s].item \in Archive
    BY <1>0, <1>1, <1>4, <1>6, NothingIs DEF SetupTyped
  <2>3. disk' \in [S!Component -> {"none", "whole", "bad"}]
    BY <1>0, <1>1, <1>4, <1>6, NothingIs DEF SetupTyped
  <2>4. doing' \in [S!Installer -> Doings]
    BY <1>0, <1>1, <1>4, <1>6, NothingIs DEF SetupTyped
  <2>5. \A t \in S!Installer \ {s} : doing'[t] = doing[t]
    BY <1>0, <1>1, <1>4, <1>6, NothingIs DEF SetupTyped
  <2>6. failures' \in [S!Installer -> SUBSET S!Component]
    BY <1>0, <1>1, <1>4, <1>6, NothingIs DEF SetupTyped
  <2>7. \A t \in S!Installer \ {s} : failures'[t] = failures[t]
    BY <1>0, <1>1, <1>4, <1>6, NothingIs DEF SetupTyped
  <2>8. doing'[s] = S!Nothing \/ (doing'[s].has = "tool" /\ doing'[s].item = doing[s].item)
    BY <1>0, <1>1, <1>4, <1>6, NothingIs DEF SetupTyped
  <2>. QED
    BY <2>1, <2>2, <2>3, <2>4, <2>5, <2>6, <2>7, <2>8
<1>9. SetupTyped'
  BY <1>0, <1>7, <1>8, SetupKnows DEF SetupTyped
<1>10. LocksHeldBy'
  <2>1. LocksFit(s)'
    BY <1>0, <1>7, <1>8, SetupKnows, SetupAssumed
    DEF LocksHeldBy, LocksFit, LocksOf, S!Importing, S!Installing
  <2>2. ASSUME NEW t \in S!Installer \ {s} PROVE LocksFit(t)'
    BY <1>0, <1>7, <1>8, <2>2, SetupKnows, SetupAssumed
    DEF LocksHeldBy, LocksFit, LocksOf, LocksHeldBy, LocksFit, S!Importing,
        S!Installing
  <2>. QED
    BY <2>1, <2>2 DEF LocksHeldBy
<1>11. LocksOf'
  BY <1>0, <1>7, <1>8, <1>9, SetupKnows, NothingIs, SetupAssumed
  DEF LocksOf, LocksFit, ImportKnows, ImportsKnow, SetupTyped, S!Importing,
      S!Installing
<1>12. ImportsKnow'
  <2>1. ImportKnows(s)'
    BY <1>0, <1>7, <1>8, SetupKnows, SetupAssumed
    DEF ImportsKnow, ImportKnows, LocksOf, S!Importing, S!Installing
  <2>2. ASSUME NEW t \in S!Installer \ {s} PROVE ImportKnows(t)'
    BY <1>0, <1>7, <1>8, <2>2, SetupKnows, SetupAssumed
    DEF ImportsKnow, ImportKnows, LocksOf, LocksHeldBy, LocksFit, S!Importing,
        S!Installing
  <2>. QED
    BY <2>1, <2>2 DEF ImportsKnow
<1>13. ImportTrue'
  BY <1>0, <1>7, <1>8, <1>9, SetupKnows, NothingIs, SetupAssumed
  DEF ImportTrue, LocksFit, ImportKnows, ImportsKnow, SetupTyped, S!Importing,
      S!Installing
<1>14. S!ReportsTrue'
  BY <1>5, <1>7, <1>8 DEF S!ReportsTrue
<1>15. ManifestRead'
  <2>1. doing'[s].has # "checked"
    BY <1>8, NothingIs
  <2>2. \A t \in S!Installer : doing'[t].has = "checked" => doing'[t] = doing[t] /\ t # s
    BY <1>8, <2>1
  <2>3. ASSUME NEW t \in S!Installer, doing'[t].has \in {"tool", "read", "checked"}
      PROVE  doing'[t].item \in Archive
    BY <1>0, <1>8, <2>3, NothingIs DEF ManifestRead
  <2>. QED
    BY <1>0, <1>7, <2>1, <2>2, <2>3 DEF ManifestRead
<1>16. S!ManifestKept'
  BY <1>0, <1>7, <1>8, <1>9, SetupKnows, NothingIs, SetupAssumed
  DEF S!ManifestKept, LocksFit, ImportKnows, ImportsKnow, SetupTyped, S!Importing,
      S!Installing
<1>. QED
  BY <1>9, <1>10, <1>11, <1>12, <1>13, <1>14, <1>15, <1>16 DEF SetupHold

LEMMA ReadManifestKeeps ==
    ASSUME SetupHold, NEW s \in S!Installer, S!ReadManifest(s)
    PROVE  SetupHold'
<1>0. /\ SetupTyped /\ LocksHeldBy /\ LocksOf /\ ImportsKnow /\ ImportTrue /\ S!ReportsTrue
      /\ ManifestRead /\ S!ManifestKept
  BY DEF SetupHold
<1>2. LET n == [doing[s] EXCEPT !.has = "read", !.read = manifest] IN
      n \in Doings /\ n.has = "read" /\ n.item = doing[s].item
  BY <1>0, ReadNow DEF SetupTyped
<1>3. doing' = [doing EXCEPT ![s] = [doing[s] EXCEPT !.has = "read", !.read = manifest]]
  BY <1>0 DEF SetupTyped, S!ReadManifest
<1>7. UNCHANGED <<source, imported, importLock, setupLock, ousted, disk, manifest, late, slipped, step, importPlan, inspected, missing, failures, entered, report>>
  BY DEF S!ReadManifest, S!placeVars, S!ownVars, S!Forget, S!Turn
<1>8. /\ step[s] = "installing"
      /\ doing[s].has = "tool"
      /\ doing' \in [S!Installer -> Doings]
      /\ \A t \in S!Installer \ {s} : doing'[t] = doing[t]
      /\ doing'[s].has = "read"
      /\ doing'[s].item = doing[s].item
  BY <1>0, <1>2, <1>3 DEF S!ReadManifest, SetupTyped
<1>9. SetupTyped'
  BY <1>0, <1>7, <1>8, SetupKnows DEF SetupTyped
<1>10. LocksHeldBy'
  <2>1. LocksFit(s)'
    BY <1>0, <1>7, <1>8, SetupKnows, SetupAssumed
    DEF LocksHeldBy, LocksFit, LocksOf, S!Importing, S!Installing
  <2>2. ASSUME NEW t \in S!Installer \ {s} PROVE LocksFit(t)'
    BY <1>0, <1>7, <1>8, <2>2, SetupKnows, SetupAssumed
    DEF LocksHeldBy, LocksFit, LocksOf, LocksHeldBy, LocksFit, S!Importing,
        S!Installing
  <2>. QED
    BY <2>1, <2>2 DEF LocksHeldBy
<1>11. LocksOf'
  BY <1>0, <1>7, <1>8, <1>9, SetupKnows, NothingIs, SetupAssumed
  DEF LocksOf, LocksFit, ImportKnows, ImportsKnow, SetupTyped, S!Importing,
      S!Installing
<1>12. ImportsKnow'
  <2>1. ImportKnows(s)'
    BY <1>0, <1>7, <1>8, SetupKnows, SetupAssumed
    DEF ImportsKnow, ImportKnows, LocksOf, S!Importing, S!Installing
  <2>2. ASSUME NEW t \in S!Installer \ {s} PROVE ImportKnows(t)'
    BY <1>0, <1>7, <1>8, <2>2, SetupKnows, SetupAssumed
    DEF ImportsKnow, ImportKnows, LocksOf, LocksHeldBy, LocksFit, S!Importing,
        S!Installing
  <2>. QED
    BY <2>1, <2>2 DEF ImportsKnow
<1>13. ImportTrue'
  BY <1>0, <1>7, <1>8, <1>9, SetupKnows, NothingIs, SetupAssumed
  DEF ImportTrue, LocksFit, ImportKnows, ImportsKnow, SetupTyped, S!Importing,
      S!Installing
<1>14. S!ReportsTrue'
  BY <1>0, <1>7, <1>8, <1>9, SetupKnows, NothingIs, SetupAssumed
  DEF S!ReportsTrue, LocksFit, ImportKnows, ImportsKnow, SetupTyped, S!Importing,
      S!Installing, S!Works, S!Entered
<1>15. ManifestRead'
  BY <1>0, <1>7, <1>8, <1>9, SetupKnows, NothingIs, SetupAssumed
  DEF ManifestRead, LocksFit, ImportKnows, ImportsKnow, SetupTyped, S!Importing,
      S!Installing
<1>16. S!ManifestKept'
  BY <1>0, <1>7, <1>8, <1>9, SetupKnows, NothingIs, SetupAssumed
  DEF S!ManifestKept, LocksFit, ImportKnows, ImportsKnow, SetupTyped, S!Importing,
      S!Installing
<1>. QED
  BY <1>9, <1>10, <1>11, <1>12, <1>13, <1>14, <1>15, <1>16 DEF SetupHold

LEMMA CheckManifestKeeps ==
    ASSUME SetupHold, NEW s \in S!Installer, S!CheckManifest(s)
    PROVE  SetupHold'
<1>0. /\ SetupTyped /\ LocksHeldBy /\ LocksOf /\ ImportsKnow /\ ImportTrue /\ S!ReportsTrue
      /\ ManifestRead /\ S!ManifestKept
  BY DEF SetupHold
<1>2. LET n == [doing[s] EXCEPT !.has = "checked"] IN
      n \in Doings /\ n.has = "checked" /\ n.item = doing[s].item /\ n.read = doing[s].read
  BY <1>0, HasNow DEF SetupTyped
<1>3. [doing EXCEPT ![s].has = "checked"] = [doing EXCEPT ![s] = [doing[s] EXCEPT !.has = "checked"]]
  BY <1>0 DEF SetupTyped
<1>4. doing[s].item \in S!Component
  BY <1>0, SetupAssumed DEF ManifestRead, S!CheckManifest
<1>7. UNCHANGED <<source, imported, importLock, setupLock, ousted, disk, manifest, late, step, importPlan, inspected, missing, entered, report>>
  BY DEF S!CheckManifest, S!placeVars, S!ownVars, S!Forget, S!Turn
<1>8. /\ step[s] = "installing"
      /\ doing[s].has = "read"
      /\ doing' \in [S!Installer -> Doings]
      /\ \A t \in S!Installer \ {s} : doing'[t] = doing[t]
      /\ failures' \in [S!Installer -> SUBSET S!Component]
      /\ \A t \in S!Installer \ {s} : failures'[t] = failures[t]
      /\ slipped' \in BOOLEAN
      /\ (doing'[s] = S!Nothing /\ slipped' = slipped) \/ (doing'[s].has = "checked" /\ doing'[s].item = doing[s].item /\ doing'[s].read = manifest /\ slipped' = (slipped \/ \E t \in S!Installer \ {s} : doing[t].has = "checked"))
  <2>1. step[s] = "installing"
    BY <1>0, <1>2, <1>3, <1>4, NothingIs, SetupKnows DEF S!CheckManifest, SetupTyped
  <2>2. doing[s].has = "read"
    BY <1>0, <1>2, <1>3, <1>4, NothingIs, SetupKnows DEF S!CheckManifest, SetupTyped
  <2>9. PICK n \in Doings : doing' = [doing EXCEPT ![s] = n]
    <3>. DEFINE checked == [doing[s] EXCEPT !.has = "checked"]
    <3>1. checked \in Doings
      BY <1>2
    <3>2. doing' = [doing EXCEPT ![s] = checked] \/ doing' = [doing EXCEPT ![s] = S!Nothing]
      BY <1>3 DEF S!CheckManifest
    <3>. HIDE DEF checked
    <3>. QED
      BY <3>1, <3>2, NothingIs
  <2>10. doing \in [S!Installer -> Doings]
    BY <1>0 DEF SetupTyped
  <2>3. doing' \in [S!Installer -> Doings]
    BY <2>9, <2>10
  <2>4. \A t \in S!Installer \ {s} : doing'[t] = doing[t]
    BY <2>9, <2>10
  <2>11. failures' = failures \/ failures' = [failures EXCEPT ![s] = @ \cup {doing[s].item}]
    BY DEF S!CheckManifest
  <2>12. failures \in [S!Installer -> SUBSET S!Component]
    BY <1>0 DEF SetupTyped
  <2>5. failures' \in [S!Installer -> SUBSET S!Component]
    BY <1>4, <2>11, <2>12
  <2>6. \A t \in S!Installer \ {s} : failures'[t] = failures[t]
    BY <2>11, <2>12
  <2>7. slipped' \in BOOLEAN
    BY <1>0, <1>2, <1>3, <1>4, NothingIs, SetupKnows DEF S!CheckManifest, SetupTyped
  <2>8. (doing'[s] = S!Nothing /\ slipped' = slipped) \/ (doing'[s].has = "checked" /\ doing'[s].item = doing[s].item /\ doing'[s].read = manifest /\ slipped' = (slipped \/ \E t \in S!Installer \ {s} : doing[t].has = "checked"))
    BY <1>0, <1>2, <1>3, <1>4, NothingIs, SetupKnows DEF S!CheckManifest, SetupTyped
  <2>. QED
    BY <2>1, <2>2, <2>3, <2>4, <2>5, <2>6, <2>7, <2>8
<1>9. SetupTyped'
  BY <1>0, <1>7, <1>8, SetupKnows DEF SetupTyped
<1>10. LocksHeldBy'
  <2>1. LocksFit(s)'
    BY <1>0, <1>7, <1>8, SetupKnows, SetupAssumed
    DEF LocksHeldBy, LocksFit, LocksOf, S!Importing, S!Installing
  <2>2. ASSUME NEW t \in S!Installer \ {s} PROVE LocksFit(t)'
    BY <1>0, <1>7, <1>8, <2>2, SetupKnows, SetupAssumed
    DEF LocksHeldBy, LocksFit, LocksOf, LocksHeldBy, LocksFit, S!Importing,
        S!Installing
  <2>. QED
    BY <2>1, <2>2 DEF LocksHeldBy
<1>11. LocksOf'
  BY <1>0, <1>7, <1>8, <1>9, SetupKnows, NothingIs, SetupAssumed
  DEF LocksOf, LocksFit, ImportKnows, ImportsKnow, SetupTyped, S!Importing,
      S!Installing
<1>12. ImportsKnow'
  <2>1. ImportKnows(s)'
    BY <1>0, <1>7, <1>8, SetupKnows, SetupAssumed
    DEF ImportsKnow, ImportKnows, LocksOf, S!Importing, S!Installing
  <2>2. ASSUME NEW t \in S!Installer \ {s} PROVE ImportKnows(t)'
    BY <1>0, <1>7, <1>8, <2>2, SetupKnows, SetupAssumed
    DEF ImportsKnow, ImportKnows, LocksOf, LocksHeldBy, LocksFit, S!Importing,
        S!Installing
  <2>. QED
    BY <2>1, <2>2 DEF ImportsKnow
<1>13. ImportTrue'
  BY <1>0, <1>7, <1>8, <1>9, SetupKnows, NothingIs, SetupAssumed
  DEF ImportTrue, LocksFit, ImportKnows, ImportsKnow, SetupTyped, S!Importing,
      S!Installing
<1>14. S!ReportsTrue'
  BY <1>0, <1>7, <1>8, <1>9, SetupKnows, NothingIs, SetupAssumed
  DEF S!ReportsTrue, LocksFit, ImportKnows, ImportsKnow, SetupTyped, S!Importing,
      S!Installing, S!Works, S!Entered
<1>15. ManifestRead'
  BY <1>0, <1>7, <1>8, <1>9, SetupKnows, NothingIs, SetupAssumed
  DEF ManifestRead, LocksFit, ImportKnows, ImportsKnow, SetupTyped, S!Importing,
      S!Installing
<1>16. S!ManifestKept'
  BY <1>0, <1>7, <1>8, <1>9, SetupKnows, NothingIs, SetupAssumed
  DEF S!ManifestKept, LocksFit, ImportKnows, ImportsKnow, SetupTyped, S!Importing,
      S!Installing
<1>. QED
  BY <1>9, <1>10, <1>11, <1>12, <1>13, <1>14, <1>15, <1>16 DEF SetupHold

LEMMA WriteManifestKeeps ==
    ASSUME SetupHold, NEW s \in S!Installer, S!WriteManifest(s)
    PROVE  SetupHold'
<1>0. /\ SetupTyped /\ LocksHeldBy /\ LocksOf /\ ImportsKnow /\ ImportTrue /\ S!ReportsTrue
      /\ ManifestRead /\ S!ManifestKept
  BY DEF SetupHold
<1>5. ASSUME step[s] = "installing", ousted = {}, NEW t \in S!Installer
      PROVE  step[t] # "reporting"
  BY <1>0, <1>5 DEF LocksHeldBy, LocksFit, S!Installing
<1>2. doing[s].has = "checked" => doing[s].item \in Archive
  BY <1>0 DEF ManifestRead
<1>3. LET n == [paths |-> doing[s].read.paths \cup {doing[s].item}, edition |-> doing[s].read.edition + 1] IN
      doing[s].item \in Archive => n \in Manifests /\ n.paths = doing[s].read.paths \cup {doing[s].item}
  BY <1>0, SetupKnows DEF Manifests
<1>7. UNCHANGED <<source, imported, importLock, setupLock, ousted, disk, late, slipped, step, importPlan, inspected, missing, failures, report>>
  BY DEF S!WriteManifest, S!placeVars, S!ownVars, S!Forget, S!Turn
<1>8. /\ step[s] = "installing"
      /\ doing[s].has = "checked"
      /\ entered' \in [S!Installer -> SUBSET Archive]
      /\ \A t \in S!Installer \ {s} : entered'[t] = entered[t]
      /\ doing' \in [S!Installer -> Doings]
      /\ \A t \in S!Installer \ {s} : doing'[t] = doing[t]
      /\ manifest' \in Manifests
      /\ manifest'.paths = doing[s].read.paths \cup {doing[s].item}
      /\ entered'[s] = entered[s] \cup {doing[s].item}
      /\ doing'[s] = S!Nothing
  BY <1>0, <1>2, <1>3, NothingIs, SetupKnows DEF S!WriteManifest, SetupTyped
<1>9. SetupTyped'
  BY <1>0, <1>7, <1>8, SetupKnows DEF SetupTyped
<1>10. LocksHeldBy'
  <2>1. LocksFit(s)'
    BY <1>0, <1>7, <1>8, SetupKnows, SetupAssumed
    DEF LocksHeldBy, LocksFit, LocksOf, S!Importing, S!Installing
  <2>2. ASSUME NEW t \in S!Installer \ {s} PROVE LocksFit(t)'
    BY <1>0, <1>7, <1>8, <2>2, SetupKnows, SetupAssumed
    DEF LocksHeldBy, LocksFit, LocksOf, LocksHeldBy, LocksFit, S!Importing,
        S!Installing
  <2>. QED
    BY <2>1, <2>2 DEF LocksHeldBy
<1>11. LocksOf'
  BY <1>0, <1>7, <1>8, <1>9, SetupKnows, NothingIs, SetupAssumed
  DEF LocksOf, LocksFit, ImportKnows, ImportsKnow, SetupTyped, S!Importing,
      S!Installing
<1>12. ImportsKnow'
  <2>1. ImportKnows(s)'
    BY <1>0, <1>7, <1>8, SetupKnows, SetupAssumed
    DEF ImportsKnow, ImportKnows, LocksOf, S!Importing, S!Installing
  <2>2. ASSUME NEW t \in S!Installer \ {s} PROVE ImportKnows(t)'
    BY <1>0, <1>7, <1>8, <2>2, SetupKnows, SetupAssumed
    DEF ImportsKnow, ImportKnows, LocksOf, LocksHeldBy, LocksFit, S!Importing,
        S!Installing
  <2>. QED
    BY <2>1, <2>2 DEF ImportsKnow
<1>13. ImportTrue'
  BY <1>0, <1>7, <1>8, <1>9, SetupKnows, NothingIs, SetupAssumed
  DEF ImportTrue, LocksFit, ImportKnows, ImportsKnow, SetupTyped, S!Importing,
      S!Installing
<1>14. S!ReportsTrue'
  BY <1>5, <1>7, <1>8 DEF S!ReportsTrue
<1>15. ManifestRead'
  <2>1. ASSUME ~ slipped, NEW t \in S!Installer PROVE doing'[t].has # "checked"
    BY <1>0, <1>8, <2>1, NothingIs DEF ManifestRead
  <2>2. ASSUME NEW t \in S!Installer, doing'[t].has \in {"tool", "read", "checked"}
      PROVE  doing'[t].item \in Archive
    BY <1>0, <1>8, <2>2, NothingIs DEF ManifestRead
  <2>. QED
    BY <1>7, <2>1, <2>2 DEF ManifestRead
<1>16. S!ManifestKept'
  <2>1. ASSUME ~ slipped, NEW t \in S!Installer
      PROVE  entered'[t] \subseteq manifest'.paths
    <3>1. manifest'.paths = manifest.paths \cup {doing[s].item}
      BY <1>0, <1>8, <2>1 DEF ManifestRead
    <3>. QED
      BY <1>0, <1>8, <2>1, <3>1 DEF S!ManifestKept
  <2>. QED
    BY <1>7, <2>1 DEF S!ManifestKept
<1>. QED
  BY <1>9, <1>10, <1>11, <1>12, <1>13, <1>14, <1>15, <1>16 DEF SetupHold

LEMMA SetupVerifyKeeps ==
    ASSUME SetupHold, NEW s \in S!Installer, S!Verify(s)
    PROVE  SetupHold'
<1>0. /\ SetupTyped /\ LocksHeldBy /\ LocksOf /\ ImportsKnow /\ ImportTrue /\ S!ReportsTrue
      /\ ManifestRead /\ S!ManifestKept
  BY DEF SetupHold
<1>2. report'[s] = [c \in S!Component |-> IF c \in failures[s] THEN "failed"
                                         ELSE IF ~ S!Present(c) THEN "missing"
                                         ELSE IF S!Works(c) THEN "ready" ELSE "failed"]
  BY <1>0 DEF S!Verify, SetupTyped
<1>7. UNCHANGED <<source, imported, importLock, setupLock, ousted, disk, manifest, late, slipped, importPlan, inspected, missing, doing, failures, entered>>
  BY DEF S!Verify, S!placeVars, S!ownVars, S!Forget, S!Turn
<1>8. /\ step[s] = "installing"
      /\ step' \in [S!Installer -> {"start", "planned", "locked", "agreed", "staged", "inspecting", "unlocked", "installing", "reporting", "ended", "refused", "dead"}]
      /\ \A t \in S!Installer \ {s} : step'[t] = step[t]
      /\ report' \in [S!Installer -> [S!Component -> {None, "ready", "missing", "failed"}]]
      /\ \A t \in S!Installer \ {s} : report'[t] = report[t]
      /\ step'[s] = "reporting"
      /\ \A c \in S!Component : report'[s][c] = "ready" => S!Works(c)
  BY <1>0, <1>2 DEF S!Verify, S!Goes, SetupTyped
<1>9. SetupTyped'
  BY <1>0, <1>7, <1>8, SetupKnows DEF SetupTyped
<1>10. LocksHeldBy'
  <2>1. LocksFit(s)'
    BY <1>0, <1>7, <1>8, SetupKnows, SetupAssumed
    DEF LocksHeldBy, LocksFit, LocksOf, S!Importing, S!Installing
  <2>2. ASSUME NEW t \in S!Installer \ {s} PROVE LocksFit(t)'
    BY <1>0, <1>7, <1>8, <2>2, SetupKnows, SetupAssumed
    DEF LocksHeldBy, LocksFit, LocksOf, LocksHeldBy, LocksFit, S!Importing,
        S!Installing
  <2>. QED
    BY <2>1, <2>2 DEF LocksHeldBy
<1>11. LocksOf'
  BY <1>0, <1>7, <1>8, <1>9, SetupKnows, NothingIs, SetupAssumed
  DEF LocksOf, LocksFit, ImportKnows, ImportsKnow, SetupTyped, S!Importing,
      S!Installing
<1>12. ImportsKnow'
  <2>1. ImportKnows(s)'
    BY <1>0, <1>7, <1>8, SetupKnows, SetupAssumed
    DEF ImportsKnow, ImportKnows, LocksOf, S!Importing, S!Installing
  <2>2. ASSUME NEW t \in S!Installer \ {s} PROVE ImportKnows(t)'
    BY <1>0, <1>7, <1>8, <2>2, SetupKnows, SetupAssumed
    DEF ImportsKnow, ImportKnows, LocksOf, LocksHeldBy, LocksFit, S!Importing,
        S!Installing
  <2>. QED
    BY <2>1, <2>2 DEF ImportsKnow
<1>13. ImportTrue'
  BY <1>0, <1>7, <1>8, <1>9, SetupKnows, NothingIs, SetupAssumed
  DEF ImportTrue, LocksFit, ImportKnows, ImportsKnow, SetupTyped, S!Importing,
      S!Installing
<1>14. S!ReportsTrue'
  BY <1>0, <1>7, <1>8, <1>9, SetupKnows, NothingIs, SetupAssumed
  DEF S!ReportsTrue, LocksFit, ImportKnows, ImportsKnow, SetupTyped, S!Importing,
      S!Installing, S!Works, S!Entered
<1>15. ManifestRead'
  BY <1>0, <1>7, <1>8, <1>9, SetupKnows, NothingIs, SetupAssumed
  DEF ManifestRead, LocksFit, ImportKnows, ImportsKnow, SetupTyped, S!Importing,
      S!Installing
<1>16. S!ManifestKept'
  BY <1>0, <1>7, <1>8, <1>9, SetupKnows, NothingIs, SetupAssumed
  DEF S!ManifestKept, LocksFit, ImportKnows, ImportsKnow, SetupTyped, S!Importing,
      S!Installing
<1>. QED
  BY <1>9, <1>10, <1>11, <1>12, <1>13, <1>14, <1>15, <1>16 DEF SetupHold

LEMMA SetupEndKeeps ==
    ASSUME SetupHold, NEW s \in S!Installer, S!End(s)
    PROVE  SetupHold'
<1>0. /\ SetupTyped /\ LocksHeldBy /\ LocksOf /\ ImportsKnow /\ ImportTrue /\ S!ReportsTrue
      /\ ManifestRead /\ S!ManifestKept
  BY DEF SetupHold
<1>7. UNCHANGED <<source, imported, importLock, ousted, disk, manifest, late, slipped, importPlan, inspected, missing, doing, entered>>
  BY DEF S!End, S!placeVars, S!ownVars, S!Forget, S!Turn
<1>8. /\ step[s] = "reporting"
      /\ step' \in [S!Installer -> {"start", "planned", "locked", "agreed", "staged", "inspecting", "unlocked", "installing", "reporting", "ended", "refused", "dead"}]
      /\ \A t \in S!Installer \ {s} : step'[t] = step[t]
      /\ failures' \in [S!Installer -> SUBSET S!Component]
      /\ \A t \in S!Installer \ {s} : failures'[t] = failures[t]
      /\ report' \in [S!Installer -> [S!Component -> {None, "ready", "missing", "failed"}]]
      /\ \A t \in S!Installer \ {s} : report'[t] = report[t]
      /\ step'[s] = "ended"
      /\ setupLock' = IF setupLock = s THEN None ELSE setupLock
  BY <1>0, SetupKnows, SetupAssumed DEF S!End, S!Goes, SetupTyped
<1>9. SetupTyped'
  BY <1>0, <1>7, <1>8, SetupKnows DEF SetupTyped
<1>10. LocksHeldBy'
  <2>1. LocksFit(s)'
    BY <1>0, <1>7, <1>8, SetupKnows, SetupAssumed
    DEF LocksHeldBy, LocksFit, LocksOf, S!Importing, S!Installing
  <2>2. ASSUME NEW t \in S!Installer \ {s} PROVE LocksFit(t)'
    BY <1>0, <1>7, <1>8, <2>2, SetupKnows, SetupAssumed
    DEF LocksHeldBy, LocksFit, LocksOf, LocksHeldBy, LocksFit, S!Importing,
        S!Installing
  <2>. QED
    BY <2>1, <2>2 DEF LocksHeldBy
<1>11. LocksOf'
  BY <1>0, <1>7, <1>8, <1>9, SetupKnows, NothingIs, SetupAssumed
  DEF LocksOf, LocksFit, ImportKnows, ImportsKnow, SetupTyped, S!Importing,
      S!Installing
<1>12. ImportsKnow'
  <2>1. ImportKnows(s)'
    BY <1>0, <1>7, <1>8, SetupKnows, SetupAssumed
    DEF ImportsKnow, ImportKnows, LocksOf, S!Importing, S!Installing
  <2>2. ASSUME NEW t \in S!Installer \ {s} PROVE ImportKnows(t)'
    BY <1>0, <1>7, <1>8, <2>2, SetupKnows, SetupAssumed
    DEF ImportsKnow, ImportKnows, LocksOf, LocksHeldBy, LocksFit, S!Importing,
        S!Installing
  <2>. QED
    BY <2>1, <2>2 DEF ImportsKnow
<1>13. ImportTrue'
  BY <1>0, <1>7, <1>8, <1>9, SetupKnows, NothingIs, SetupAssumed
  DEF ImportTrue, LocksFit, ImportKnows, ImportsKnow, SetupTyped, S!Importing,
      S!Installing
<1>14. S!ReportsTrue'
  BY <1>0, <1>7, <1>8, <1>9, SetupKnows, NothingIs, SetupAssumed
  DEF S!ReportsTrue, LocksFit, ImportKnows, ImportsKnow, SetupTyped, S!Importing,
      S!Installing, S!Works, S!Entered
<1>15. ManifestRead'
  BY <1>0, <1>7, <1>8, <1>9, SetupKnows, NothingIs, SetupAssumed
  DEF ManifestRead, LocksFit, ImportKnows, ImportsKnow, SetupTyped, S!Importing,
      S!Installing
<1>16. S!ManifestKept'
  BY <1>0, <1>7, <1>8, <1>9, SetupKnows, NothingIs, SetupAssumed
  DEF S!ManifestKept, LocksFit, ImportKnows, ImportsKnow, SetupTyped, S!Importing,
      S!Installing
<1>. QED
  BY <1>9, <1>10, <1>11, <1>12, <1>13, <1>14, <1>15, <1>16 DEF SetupHold

LEMMA SetupDieKeeps ==
    ASSUME SetupHold, NEW s \in S!Installer, S!Die(s)
    PROVE  SetupHold'
<1>0. /\ SetupTyped /\ LocksHeldBy /\ LocksOf /\ ImportsKnow /\ ImportTrue /\ S!ReportsTrue
      /\ ManifestRead /\ S!ManifestKept
  BY DEF SetupHold
<1>7. UNCHANGED <<source, imported, importLock, setupLock, ousted, disk, manifest, late, slipped, entered>>
  BY DEF S!Die, S!placeVars, S!ownVars, S!Forget, S!Turn
<1>8. /\ S!Live(s)
      /\ step' \in [S!Installer -> {"start", "planned", "locked", "agreed", "staged", "inspecting", "unlocked", "installing", "reporting", "ended", "refused", "dead"}]
      /\ \A t \in S!Installer \ {s} : step'[t] = step[t]
      /\ doing' \in [S!Installer -> Doings]
      /\ \A t \in S!Installer \ {s} : doing'[t] = doing[t]
      /\ missing' \in [S!Installer -> SUBSET S!Component]
      /\ \A t \in S!Installer \ {s} : missing'[t] = missing[t]
      /\ failures' \in [S!Installer -> SUBSET S!Component]
      /\ \A t \in S!Installer \ {s} : failures'[t] = failures[t]
      /\ report' \in [S!Installer -> [S!Component -> {None, "ready", "missing", "failed"}]]
      /\ \A t \in S!Installer \ {s} : report'[t] = report[t]
      /\ importPlan' \in [S!Installer -> {None} \cup 0 .. MaxSaves]
      /\ \A t \in S!Installer \ {s} : importPlan'[t] = importPlan[t]
      /\ inspected' \in [S!Installer -> {None} \cup 0 .. MaxSaves]
      /\ \A t \in S!Installer \ {s} : inspected'[t] = inspected[t]
      /\ step'[s] = "dead"
      /\ doing'[s] = S!Nothing
  BY <1>0, NothingIs DEF S!Die, S!Goes, S!Forget, SetupTyped
<1>9. SetupTyped'
  BY <1>0, <1>7, <1>8, SetupKnows DEF SetupTyped
<1>10. LocksHeldBy'
  <2>1. LocksFit(s)'
    BY <1>0, <1>7, <1>8, SetupKnows, SetupAssumed
    DEF LocksHeldBy, LocksFit, LocksOf, S!Importing, S!Installing
  <2>2. ASSUME NEW t \in S!Installer \ {s} PROVE LocksFit(t)'
    BY <1>0, <1>7, <1>8, <2>2, SetupKnows, SetupAssumed
    DEF LocksHeldBy, LocksFit, LocksOf, LocksHeldBy, LocksFit, S!Importing,
        S!Installing
  <2>. QED
    BY <2>1, <2>2 DEF LocksHeldBy
<1>11. LocksOf'
  BY <1>0, <1>7, <1>8, <1>9, SetupKnows, NothingIs, SetupAssumed
  DEF LocksOf, LocksFit, ImportKnows, ImportsKnow, SetupTyped, S!Importing,
      S!Installing
<1>12. ImportsKnow'
  <2>1. ImportKnows(s)'
    BY <1>0, <1>7, <1>8, SetupKnows, SetupAssumed
    DEF ImportsKnow, ImportKnows, LocksOf, S!Importing, S!Installing
  <2>2. ASSUME NEW t \in S!Installer \ {s} PROVE ImportKnows(t)'
    BY <1>0, <1>7, <1>8, <2>2, SetupKnows, SetupAssumed
    DEF ImportsKnow, ImportKnows, LocksOf, LocksHeldBy, LocksFit, S!Importing,
        S!Installing
  <2>. QED
    BY <2>1, <2>2 DEF ImportsKnow
<1>13. ImportTrue'
  BY <1>0, <1>7, <1>8, <1>9, SetupKnows, NothingIs, SetupAssumed
  DEF ImportTrue, LocksFit, ImportKnows, ImportsKnow, SetupTyped, S!Importing,
      S!Installing
<1>14. S!ReportsTrue'
  BY <1>0, <1>7, <1>8, <1>9, SetupKnows, NothingIs, SetupAssumed
  DEF S!ReportsTrue, LocksFit, ImportKnows, ImportsKnow, SetupTyped, S!Importing,
      S!Installing, S!Works, S!Entered
<1>15. ManifestRead'
  BY <1>0, <1>7, <1>8, <1>9, SetupKnows, NothingIs, SetupAssumed
  DEF ManifestRead, LocksFit, ImportKnows, ImportsKnow, SetupTyped, S!Importing,
      S!Installing
<1>16. S!ManifestKept'
  BY <1>0, <1>7, <1>8, <1>9, SetupKnows, NothingIs, SetupAssumed
  DEF S!ManifestKept, LocksFit, ImportKnows, ImportsKnow, SetupTyped, S!Importing,
      S!Installing
<1>. QED
  BY <1>9, <1>10, <1>11, <1>12, <1>13, <1>14, <1>15, <1>16 DEF SetupHold

LEMMA UnlockKeeps ==
    ASSUME SetupHold, S!Unlock
    PROVE  SetupHold'
<1>0. /\ SetupTyped /\ LocksHeldBy /\ LocksOf /\ ImportsKnow /\ ImportTrue /\ S!ReportsTrue
      /\ ManifestRead /\ S!ManifestKept
  BY DEF SetupHold
<1>7. UNCHANGED <<source, imported, importLock, disk, manifest, late, slipped, step, importPlan, inspected, missing, doing, failures, entered, report>>
  BY DEF S!Unlock, S!placeVars, S!ownVars, S!Forget, S!Turn
<1>8. /\ setupLock # None
      /\ setupLock \in S!Installer
      /\ ousted' = ousted \cup {setupLock}
      /\ setupLock' = None
  BY <1>0, SetupKnows, SetupAssumed DEF S!Unlock, S!Goes, SetupTyped
<1>9. SetupTyped'
  BY <1>0, <1>7, <1>8, SetupKnows DEF SetupTyped
<1>10. LocksHeldBy'
  BY <1>0, <1>7, <1>8, <1>9, SetupKnows, NothingIs, SetupAssumed
  DEF LocksHeldBy, LocksFit, ImportKnows, ImportsKnow, SetupTyped, S!Importing,
      S!Installing
<1>11. LocksOf'
  BY <1>0, <1>7, <1>8, <1>9, SetupKnows, NothingIs, SetupAssumed
  DEF LocksOf, LocksFit, ImportKnows, ImportsKnow, SetupTyped, S!Importing,
      S!Installing
<1>12. ImportsKnow'
  BY <1>0, <1>7, <1>8, <1>9, SetupKnows, NothingIs, SetupAssumed
  DEF ImportsKnow, LocksFit, ImportKnows, ImportsKnow, SetupTyped, S!Importing,
      S!Installing
<1>13. ImportTrue'
  BY <1>0, <1>7, <1>8, <1>9, SetupKnows, NothingIs, SetupAssumed
  DEF ImportTrue, LocksFit, ImportKnows, ImportsKnow, SetupTyped, S!Importing,
      S!Installing
<1>14. S!ReportsTrue'
  BY <1>0, <1>7, <1>8, <1>9, SetupKnows, NothingIs, SetupAssumed
  DEF S!ReportsTrue, LocksFit, ImportKnows, ImportsKnow, SetupTyped, S!Importing,
      S!Installing, S!Works, S!Entered
<1>15. ManifestRead'
  BY <1>0, <1>7, <1>8, <1>9, SetupKnows, NothingIs, SetupAssumed
  DEF ManifestRead, LocksFit, ImportKnows, ImportsKnow, SetupTyped, S!Importing,
      S!Installing
<1>16. S!ManifestKept'
  BY <1>0, <1>7, <1>8, <1>9, SetupKnows, NothingIs, SetupAssumed
  DEF S!ManifestKept, LocksFit, ImportKnows, ImportsKnow, SetupTyped, S!Importing,
      S!Installing
<1>. QED
  BY <1>9, <1>10, <1>11, <1>12, <1>13, <1>14, <1>15, <1>16 DEF SetupHold

LEMMA SourceSavedKeeps ==
    ASSUME SetupHold, S!SourceSaved
    PROVE  SetupHold'
<1>0. /\ SetupTyped /\ LocksHeldBy /\ LocksOf /\ ImportsKnow /\ ImportTrue /\ S!ReportsTrue
      /\ ManifestRead /\ S!ManifestKept
  BY DEF SetupHold
<1>2. source.text < MaxSaves => source.text + 1 \in 0 .. MaxSaves
  BY <1>0, SetupKnows, SetupAssumed
<1>7. UNCHANGED <<imported, importLock, setupLock, ousted, disk, manifest, slipped, step, importPlan, inspected, missing, doing, failures, entered, report>>
  BY DEF S!SourceSaved, S!placeVars, S!ownVars, S!Forget, S!Turn
<1>8. /\ source' \in [text : 0 .. MaxSaves, busy : BOOLEAN]
      /\ late' = late \cup {s \in S!Installer : step[s] = "agreed"}
  BY <1>0, <1>2 DEF S!SourceSaved, SetupTyped
<1>9. SetupTyped'
  BY <1>0, <1>7, <1>8, SetupKnows DEF SetupTyped
<1>10. LocksHeldBy'
  BY <1>0, <1>7, <1>8, <1>9, SetupKnows, NothingIs, SetupAssumed
  DEF LocksHeldBy, LocksFit, ImportKnows, ImportsKnow, SetupTyped, S!Importing,
      S!Installing
<1>11. LocksOf'
  BY <1>0, <1>7, <1>8, <1>9, SetupKnows, NothingIs, SetupAssumed
  DEF LocksOf, LocksFit, ImportKnows, ImportsKnow, SetupTyped, S!Importing,
      S!Installing
<1>12. ImportsKnow'
  BY <1>0, <1>7, <1>8, <1>9, SetupKnows, NothingIs, SetupAssumed
  DEF ImportsKnow, LocksFit, ImportKnows, ImportsKnow, SetupTyped, S!Importing,
      S!Installing
<1>13. ImportTrue'
  BY <1>0, <1>7, <1>8, <1>9, SetupKnows, NothingIs, SetupAssumed
  DEF ImportTrue, LocksFit, ImportKnows, ImportsKnow, SetupTyped, S!Importing,
      S!Installing
<1>14. S!ReportsTrue'
  BY <1>0, <1>7, <1>8, <1>9, SetupKnows, NothingIs, SetupAssumed
  DEF S!ReportsTrue, LocksFit, ImportKnows, ImportsKnow, SetupTyped, S!Importing,
      S!Installing, S!Works, S!Entered
<1>15. ManifestRead'
  BY <1>0, <1>7, <1>8, <1>9, SetupKnows, NothingIs, SetupAssumed
  DEF ManifestRead, LocksFit, ImportKnows, ImportsKnow, SetupTyped, S!Importing,
      S!Installing
<1>16. S!ManifestKept'
  BY <1>0, <1>7, <1>8, <1>9, SetupKnows, NothingIs, SetupAssumed
  DEF S!ManifestKept, LocksFit, ImportKnows, ImportsKnow, SetupTyped, S!Importing,
      S!Installing
<1>. QED
  BY <1>9, <1>10, <1>11, <1>12, <1>13, <1>14, <1>15, <1>16 DEF SetupHold

LEMMA TargetUsedKeeps ==
    ASSUME SetupHold, S!TargetUsed
    PROVE  SetupHold'
<1>0. /\ SetupTyped /\ LocksHeldBy /\ LocksOf /\ ImportsKnow /\ ImportTrue /\ S!ReportsTrue
      /\ ManifestRead /\ S!ManifestKept
  BY DEF SetupHold
<1>7. UNCHANGED <<source, importLock, setupLock, ousted, disk, manifest, late, slipped, step, importPlan, inspected, missing, doing, failures, entered, report>>
  BY DEF S!TargetUsed, S!placeVars, S!ownVars, S!Forget, S!Turn
<1>8. /\ imported' = S!Made("empty") \/ imported' = S!Made("used")
  BY <1>0, SetupKnows, SetupAssumed DEF S!TargetUsed, S!Goes, SetupTyped
<1>9. SetupTyped'
  BY <1>0, <1>7, <1>8, MadeIs DEF SetupTyped
<1>10. LocksHeldBy'
  BY <1>0, <1>7, <1>8, <1>9, SetupKnows, NothingIs, SetupAssumed
  DEF LocksHeldBy, LocksFit, ImportKnows, ImportsKnow, SetupTyped, S!Importing,
      S!Installing
<1>11. LocksOf'
  BY <1>0, <1>7, <1>8, <1>9, SetupKnows, NothingIs, SetupAssumed
  DEF LocksOf, LocksFit, ImportKnows, ImportsKnow, SetupTyped, S!Importing,
      S!Installing
<1>12. ImportsKnow'
  BY <1>0, <1>7, <1>8, <1>9, SetupKnows, NothingIs, SetupAssumed
  DEF ImportsKnow, LocksFit, ImportKnows, ImportsKnow, SetupTyped, S!Importing,
      S!Installing
<1>13. ImportTrue'
  BY <1>0, <1>7, <1>8, MadeIs DEF ImportTrue
<1>14. S!ReportsTrue'
  BY <1>0, <1>7, <1>8, <1>9, SetupKnows, NothingIs, SetupAssumed
  DEF S!ReportsTrue, LocksFit, ImportKnows, ImportsKnow, SetupTyped, S!Importing,
      S!Installing, S!Works, S!Entered
<1>15. ManifestRead'
  BY <1>0, <1>7, <1>8, <1>9, SetupKnows, NothingIs, SetupAssumed
  DEF ManifestRead, LocksFit, ImportKnows, ImportsKnow, SetupTyped, S!Importing,
      S!Installing
<1>16. S!ManifestKept'
  BY <1>0, <1>7, <1>8, <1>9, SetupKnows, NothingIs, SetupAssumed
  DEF S!ManifestKept, LocksFit, ImportKnows, ImportsKnow, SetupTyped, S!Importing,
      S!Installing
<1>. QED
  BY <1>9, <1>10, <1>11, <1>12, <1>13, <1>14, <1>15, <1>16 DEF SetupHold

LEMMA SetupInductive ==
    /\ S!SetupInit => SetupHold
    /\ SetupHold /\ [S!SetupNext]_(S!setupVars) => SetupHold'
<1>1. ASSUME S!SetupInit PROVE SetupHold
  <2>1. SetupTyped
    <3>1. /\ step \in [S!Installer -> {"start"}] /\ doing \in [S!Installer -> {S!Nothing}]
          /\ disk \in [S!Component -> {"none", "whole", "bad"}]
      BY <1>1 DEF S!SetupInit
    <3>2. report \in [S!Installer -> [S!Component -> {None, "ready", "missing", "failed"}]]
      BY <1>1 DEF S!SetupInit
    <3>3. source \in [text : 0 .. MaxSaves, busy : BOOLEAN]
      BY <1>1, SetupAssumed DEF S!SetupInit
    <3>4. /\ importPlan \in [S!Installer -> {None} \cup 0 .. MaxSaves]
          /\ inspected \in [S!Installer -> {None} \cup 0 .. MaxSaves]
          /\ missing \in [S!Installer -> SUBSET S!Component]
          /\ failures \in [S!Installer -> SUBSET S!Component]
          /\ entered \in [S!Installer -> SUBSET Archive]
      BY <1>1 DEF S!SetupInit
    <3>. QED
      BY <1>1, <3>1, <3>2, <3>3, <3>4, NothingIs, MadeIs DEF S!SetupInit, SetupTyped
  <2>2. LocksHeldBy /\ LocksOf /\ ImportsKnow /\ ImportTrue
    BY <1>1, SetupAssumed, MadeIs
    DEF S!SetupInit, LocksHeldBy, LocksFit, LocksOf, ImportsKnow, ImportKnows,
        ImportTrue, S!Importing, S!Installing
  <2>3. S!ReportsTrue
    BY <1>1 DEF S!SetupInit, S!ReportsTrue
  <2>4. ManifestRead /\ S!ManifestKept
    BY <1>1, NothingIs DEF S!SetupInit, ManifestRead, S!ManifestKept
  <2>. QED
    BY <2>1, <2>2, <2>3, <2>4 DEF SetupHold
<1>2. ASSUME SetupHold, UNCHANGED S!setupVars PROVE SetupHold'
  <2>1. UNCHANGED <<source, imported, importLock, setupLock, ousted, disk, manifest, late, slipped, step, importPlan, inspected, missing, doing, failures, entered, report>>
    BY <1>2 DEF S!setupVars, S!placeVars, S!ownVars
  <2>. QED
    BY <1>2, <2>1
    DEF SetupHold, SetupTyped, LocksHeldBy, LocksFit, LocksOf, ImportsKnow,
        ImportKnows, ImportTrue,
       S!ReportsTrue, ManifestRead, S!ManifestKept, S!Importing, S!Installing, S!Works, S!Entered
<1>3. ASSUME SetupHold, NEW s \in S!Installer, S!SetupStep(s) PROVE SetupHold'
  BY <1>3, SetupPlanKeeps, LockImportKeeps, AgreeKeeps, StageKeeps, RenameKeeps,
     SetupInspectKeeps, LockSetupKeeps, SetupPackageKeeps, DownloadKeeps, LinkKeeps,
     UnpackKeeps, ReadManifestKeeps, CheckManifestKeeps, WriteManifestKeeps,
     SetupVerifyKeeps, SetupEndKeeps, SetupDieKeeps
  DEF S!SetupStep
<1>. QED
  BY <1>1, <1>2, <1>3, UnlockKeeps, SourceSavedKeeps, TargetUsedKeeps DEF S!SetupNext

LEMMA SetupSound == ASSUME SetupHold PROVE S!SetupTypeOK /\ S!SetupSafe
<1>1. S!SetupTypeOK
  BY SetupKnows DEF SetupHold, SetupTyped, S!SetupTypeOK
<1>2. S!LocksHeld
  BY DEF SetupHold, LocksHeldBy, LocksFit, S!LocksHeld
<1>3. S!ImportAgreed
  BY DEF SetupHold, ImportsKnow, ImportKnows, ImportTrue, S!ImportAgreed
<1>. QED
  BY <1>1, <1>2, <1>3 DEF SetupHold, S!SetupSafe

-----------------------------------------------------------------------------
(* The parts together.                                                     *)

\* What the images, the private file and the setups keep, whichever part runs.
ServiceHold == ImagesHold /\ VaultHold /\ SetupHold

LEMMA ServiceInductive ==
    /\ partsInit => ServiceHold
    /\ ServiceHold /\ [partsNext]_<<part, vars, imageVars, vaultVars, setupVars>> => ServiceHold'
<1>1. partsInit => ServiceHold
  BY ImagesInductive, VaultInductive, SetupInductive DEF partsInit, ServiceHold
<1>2. ASSUME ServiceHold, [partsNext]_<<part, vars, imageVars, vaultVars, setupVars>>
      PROVE  ServiceHold'
  <2>1. [D!DeploymentsNext]_(D!deployVars)
    <3>1. D!DeploymentsNext \/ UNCHANGED imageVars
      BY <1>2 DEF partsNext
    <3>2. UNCHANGED imageVars => UNCHANGED D!deployVars
      BY DEF imageVars, D!deployVars, D!dbase, D!records, D!upkeep, D!daemon, D!clock
    <3>. QED
      BY <3>1, <3>2
  <2>2. [V!VaultNext]_(V!vaultVars)
    <3>1. V!VaultNext \/ UNCHANGED vaultVars
      BY <1>2 DEF partsNext
    <3>2. UNCHANGED vaultVars => UNCHANGED V!vaultVars
      BY DEF vaultVars, V!vaultVars
    <3>. QED
      BY <3>1, <3>2
  <2>3. [S!SetupNext]_(S!setupVars)
    <3>1. S!SetupNext \/ UNCHANGED setupVars
      BY <1>2 DEF partsNext
    <3>2. UNCHANGED setupVars => UNCHANGED S!setupVars
      BY DEF setupVars, S!setupVars, S!placeVars, S!ownVars
    <3>. QED
      BY <3>1, <3>2
  <2>. QED
    BY <1>2, <2>1, <2>2, <2>3, ImagesInductive, VaultInductive, SetupInductive DEF ServiceHold
<1>. QED
  BY <1>1, <1>2

\* ServiceRecoverable holds always.  An owner can go back: whatever is built,
\* applied, lost, timed out, cleaned up or killed, the current and the previous
\* known-good deployment of the service keep an image that is there
\* (deploymentMaintenance.ts, cleanup), a build and a `compose up` are sent once
\* each, and a container that DODO made is on record (deploymentService.ts); a
\* backup that a restore names can be read, and so can the file itself but for
\* what another write tore (configVault.ts); setups import what was agreed, do
\* not undo each other, and report as ready what works (setup.ts).
THEOREM ServiceCorrect == RecoverySpec => []ServiceRecoverable
<1>1. partsInit => ServiceHold
  BY ServiceInductive
<1>2. ServiceHold /\ [partsNext]_<<part, vars, imageVars, vaultVars, setupVars>> => ServiceHold'
  BY ServiceInductive
<1>3. ServiceHold => ServiceRecoverable
  BY ImagesSound, VaultSound, SetupSound DEF ServiceHold, ServiceRecoverable
<1>. QED
  BY <1>1, <1>2, <1>3, PTL DEF RecoverySpec
=============================================================================
