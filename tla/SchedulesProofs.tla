-------------------------- MODULE SchedulesProofs --------------------------
(***************************************************************************)
(* The scheduler's promises for every number of schedules, ticks, minutes, *)
(* crashes and failed writes.  An occurrence is in one tick's hands at     *)
(* most, from its claim to its receipt, and nobody else touches its        *)
(* receipt meanwhile; that is why it starts at most once.                  *)
(***************************************************************************)
EXTENDS Schedules, TLAPS

\* What a tick has in hand is claimed, is in no other tick's hands, and was
\* started just when the tick says so.
Hands ==
    /\ \A t \in Tick : stage[t] \in {"claimed", "backup", "started", "failed"}
                           <=> doing[t] # None
    /\ \A t, u \in Tick : doing[t] = doing[u] /\ doing[t] # None => t = u
    /\ \A t \in Tick : doing[t] # None =>
          /\ run[doing[t]] = "claimed"
          /\ started[doing[t]] = IF stage[t] = "started" THEN 1 ELSE 0

\* A tick that waits for its backup has the turn, and so has a job; a tick that
\* claimed found the turn free or its own job at work.
Turns ==
    /\ \A t \in Tick : stage[t] \in {"rows", "claimed", "started", "failed"} => loop = t
    /\ \A t \in Tick : stage[t] = "backup" => turn = t
    /\ \A t \in Tick : stage[t] = "claimed" =>
          turn = None \/ job[doing[t][1]] = "running"
    /\ \A s \in Schedule : job[s] # "none" => turn = s

IInv == TypeOK /\ Hands /\ Turns /\ OccurrenceOnce /\ ReceiptsTrue /\ RevokedIsQuiet

\* Every step keeps the types.
LEMMA TypeStep ==
    ASSUME TypeOK, Hands, [Next]_vars
    PROVE  TypeOK'
<1>1. ASSUME NEW s \in Schedule, NEW e \in Minute, Propose(s, e) PROVE TypeOK'
  BY <1>1, SchedulesAssumption
  DEF Propose, tickVars, daemonVars, workVars, boundVars, TypeOK, Copies, Minute,
      NextAfter
<1>2. ASSUME NEW s \in Schedule, Approve(s) PROVE TypeOK'
  BY <1>2, SchedulesAssumption
  DEF Approve, tickVars, daemonVars, workVars, boundVars, TypeOK, Copies, Minute,
      NextAfter
<1>3. ASSUME NEW s \in Schedule, Revoke(s) PROVE TypeOK'
  BY <1>3, SchedulesAssumption
  DEF Revoke, Revoked, tickVars, daemonVars, boundVars, TypeOK, Copies, Minute
<1>4. ASSUME NEW s \in Schedule, Change(s) PROVE TypeOK'
  BY <1>4, SchedulesAssumption
  DEF Change, storeVars, tickVars, daemonVars, workVars, TypeOK, Copies, Minute,
      Trouble
<1>5. ASSUME NEW s \in Schedule, JobCloses(s) PROVE TypeOK'
  BY <1>5, SchedulesAssumption
  DEF JobCloses, storeVars, tickVars, daemonVars, boundVars, TypeOK, Copies, Minute
<1>6. ASSUME NEW s \in Schedule, JobOver(s) PROVE TypeOK'
  BY <1>6, SchedulesAssumption
  DEF JobOver, GiveTurn, storeVars, tickVars, daemonVars, boundVars, TypeOK, Copies,
      Minute
<1>7. ASSUME NEW t \in Tick, Begin(t) PROVE TypeOK'
  BY <1>7, SchedulesAssumption
  DEF Begin, storeVars, daemonVars, workVars, boundVars, TypeOK, Copies, Minute
<1>8. ASSUME NEW t \in Tick, NEW o \in todo[t], Expire(t, o) PROVE TypeOK'
  BY <1>8, SchedulesAssumption
  DEF Expire, AtHand, Passed, Revoked, daemonVars, boundVars, TypeOK, Copies, Minute
<1>9. ASSUME NEW t \in Tick, NEW o \in todo[t], Pause(t, o) PROVE TypeOK'
  BY <1>9, SchedulesAssumption
  DEF Pause, AtHand, Passed, daemonVars, workVars, boundVars, TypeOK, Copies, Minute
<1>10. ASSUME NEW t \in Tick, NEW o \in todo[t], Defer(t, o) PROVE TypeOK'
  BY <1>10, SchedulesAssumption
  DEF Defer, Fitting, AtHand, Passed, storeVars, daemonVars, workVars, boundVars,
      TypeOK, Copies, Minute
<1>11. ASSUME NEW t \in Tick, NEW o \in todo[t], Claim(t, o) PROVE TypeOK'
  <2>1. o \in Copies /\ o[1] \in Schedule /\ NextAfter(at[t]) \in Minute
    BY SchedulesAssumption DEF TypeOK, Copies, Minute, NextAfter
  <2>. QED
    BY <1>11, <2>1
    DEF Claim, Fitting, AtHand, Passed, TypeOK, daemonVars, workVars, boundVars
<1>12. ASSUME NEW t \in Tick, Skip(t) PROVE TypeOK'
  <2>1. PICK r \in {"skipped_missed", "skipped_overlap"} : Receipt(t, r)
    BY <1>12 DEF Skip
  <2>2. run' \in [Copies -> {"none", "claimed", "skipped_missed", "skipped_overlap",
                             "launched", "launch_failed"}]
    BY <2>1 DEF Receipt, TypeOK
  <2>3. doing' \in [Tick -> Copies \cup {None}]
    BY <2>1 DEF Receipt, TypeOK
  <2>4. stage' \in [Tick -> {"idle", "rows", "claimed", "backup", "started", "failed"}]
    BY <2>1 DEF Receipt, TypeOK
  <2>5. UNCHANGED <<now, status, expires, next, fits, loop, at, todo, daemonVars, workVars,
                    boundVars>>
    BY <1>12 DEF Skip
  <2>. QED
    BY <2>2, <2>3, <2>4, <2>5 DEF daemonVars, workVars, boundVars, TypeOK
<1>13. ASSUME NEW t \in Tick, BackUp(t) PROVE TypeOK'
  BY <1>13, SchedulesAssumption
  DEF BackUp, storeVars, daemonVars, boundVars, TypeOK, Copies, Minute
<1>14. ASSUME NEW t \in Tick, Start(t) PROVE TypeOK'
  <2>1. doing[t] \in Copies /\ doing[t][1] \in Schedule /\ started[doing[t]] + 1 \in Nat
    BY <1>14 DEF Start, Hands, TypeOK, Copies
  <2>. QED
    BY <1>14, <2>1 DEF Start, TypeOK, storeVars, daemonVars, boundVars
<1>15. ASSUME NEW t \in Tick, Refuse(t) PROVE TypeOK'
  BY <1>15, SchedulesAssumption
  DEF Refuse, GiveTurn, storeVars, daemonVars, boundVars, TypeOK, Copies, Minute
<1>16. ASSUME NEW t \in Tick, Record(t) PROVE TypeOK'
  <2>1. doing[t] \in Copies
    BY <1>16 DEF Record, Hands, TypeOK
  <2>2. faults' \in Nat
    BY <1>16 DEF Record, TypeOK
  <2>. QED
    BY <1>16, <2>1, <2>2 DEF Record, Receipt, TypeOK, daemonVars, workVars
<1>17. ASSUME NEW t \in Tick, Done(t) PROVE TypeOK'
  BY <1>17, SchedulesAssumption
  DEF Done, Ended, storeVars, daemonVars, workVars, boundVars, TypeOK, Copies,
      Minute
<1>18. ASSUME NEW t \in Tick, Fail(t) PROVE TypeOK'
  <2>1. {} \in SUBSET Copies /\ None \in Copies \cup {None} /\ 0 \in 0..MaxNow /\ faults + 1 \in Nat
    BY SchedulesAssumption DEF TypeOK
  <2>. QED
    BY <1>18, <2>1 DEF Fail, Ended, TypeOK, storeVars, workVars
<1>19. ASSUME CallTakes PROVE TypeOK'
  BY <1>19, SchedulesAssumption
  DEF CallTakes, storeVars, tickVars, daemonVars, boundVars, TypeOK, Copies, Minute
<1>20. ASSUME CallEnds PROVE TypeOK'
  BY <1>20, SchedulesAssumption
  DEF CallEnds, storeVars, tickVars, daemonVars, boundVars, TypeOK, Copies, Minute
<1>21. ASSUME Clock PROVE TypeOK'
  BY <1>21, SchedulesAssumption
  DEF Clock, storeVars, tickVars, daemonVars, workVars, boundVars, TypeOK, Copies,
      Minute
<1>22. ASSUME Crash PROVE TypeOK'
  <2>1. {} \in SUBSET Copies /\ None \in Copies \cup {None} /\ 0 \in 0..MaxNow /\ crashes + 1 \in Nat
    BY SchedulesAssumption DEF TypeOK
  <2>. QED
    BY <1>22, <2>1 DEF Crash, TypeOK, storeVars
<1>23. ASSUME Boot PROVE TypeOK'
  BY <1>23, SchedulesAssumption
  DEF Boot, storeVars, tickVars, workVars, boundVars, TypeOK, Copies, Minute
<1>u. ASSUME UNCHANGED vars PROVE TypeOK'
  BY <1>u
  DEF TypeOK, Copies, Minute, NextAfter, Trouble, vars, storeVars, tickVars,
      daemonVars, workVars, boundVars
<1>. QED
  BY <1>1, <1>2, <1>3, <1>4, <1>5, <1>6, <1>7, <1>8, <1>9, <1>10, <1>11, <1>12,
     <1>13, <1>14, <1>15, <1>16, <1>17, <1>18, <1>19, <1>20, <1>21, <1>22, <1>23,
     <1>u
  DEF Next, Owner, TickStep, TickRow

\* Every step keeps the turn where it belongs.
LEMMA TurnStep ==
    ASSUME TypeOK, Hands, Turns, [Next]_vars
    PROVE  Turns'
<1>1. ASSUME NEW s \in Schedule, NEW e \in Minute, Propose(s, e) PROVE Turns'
  BY <1>1, SchedulesAssumption
  DEF Propose, tickVars, daemonVars, workVars, boundVars, TypeOK, Hands, Turns,
      Copies, Free
<1>2. ASSUME NEW s \in Schedule, Approve(s) PROVE Turns'
  BY <1>2, SchedulesAssumption
  DEF Approve, tickVars, daemonVars, workVars, boundVars, TypeOK, Hands, Turns,
      Copies, Free
<1>3. ASSUME NEW s \in Schedule, Revoke(s) PROVE Turns'
  BY <1>3, SchedulesAssumption
  DEF Revoke, Revoked, tickVars, daemonVars, boundVars, TypeOK, Hands, Turns,
      Copies, Free
<1>4. ASSUME NEW s \in Schedule, Change(s) PROVE Turns'
  BY <1>4, SchedulesAssumption
  DEF Change, storeVars, tickVars, daemonVars, workVars, TypeOK, Hands, Turns,
      Copies, Free
<1>5. ASSUME NEW s \in Schedule, JobCloses(s) PROVE Turns'
  BY <1>5, SchedulesAssumption
  DEF JobCloses, storeVars, tickVars, daemonVars, boundVars, TypeOK, Hands, Turns,
      Copies, Free
<1>6. ASSUME NEW s \in Schedule, JobOver(s) PROVE Turns'
  BY <1>6, SchedulesAssumption
  DEF JobOver, GiveTurn, storeVars, tickVars, daemonVars, boundVars, TypeOK, Hands,
      Turns, Copies, Free
<1>7. ASSUME NEW t \in Tick, Begin(t) PROVE Turns'
  BY <1>7, SchedulesAssumption
  DEF Begin, storeVars, daemonVars, workVars, boundVars, TypeOK, Hands, Turns,
      Copies, Free
<1>8. ASSUME NEW t \in Tick, NEW o \in todo[t], Expire(t, o) PROVE Turns'
  BY <1>8, SchedulesAssumption
  DEF Expire, AtHand, Passed, Revoked, daemonVars, boundVars, TypeOK, Hands, Turns,
      Copies
<1>9. ASSUME NEW t \in Tick, NEW o \in todo[t], Pause(t, o) PROVE Turns'
  BY <1>9, SchedulesAssumption
  DEF Pause, AtHand, Passed, daemonVars, workVars, boundVars, TypeOK, Hands, Turns,
      Copies
<1>10. ASSUME NEW t \in Tick, NEW o \in todo[t], Defer(t, o) PROVE Turns'
  BY <1>10, SchedulesAssumption
  DEF Defer, Fitting, AtHand, Passed, storeVars, daemonVars, workVars, boundVars,
      TypeOK, Hands, Turns, Copies
<1>11. ASSUME NEW t \in Tick, NEW o \in todo[t], Claim(t, o) PROVE Turns'
  BY <1>11, SchedulesAssumption
  DEF Claim, Fitting, AtHand, Passed, daemonVars, workVars, boundVars, TypeOK,
      Hands, Turns, Copies
<1>12. ASSUME NEW t \in Tick, Skip(t) PROVE Turns'
  BY <1>12, SchedulesAssumption
  DEF Skip, Receipt, daemonVars, workVars, boundVars, TypeOK, Hands, Turns, Copies
<1>13. ASSUME NEW t \in Tick, BackUp(t) PROVE Turns'
  BY <1>13, SchedulesAssumption
  DEF BackUp, storeVars, daemonVars, boundVars, TypeOK, Hands, Turns, Copies
<1>14. ASSUME NEW t \in Tick, Start(t) PROVE Turns'
  BY <1>14, SchedulesAssumption
  DEF Start, storeVars, daemonVars, boundVars, TypeOK, Hands, Turns, Copies, Free
<1>15. ASSUME NEW t \in Tick, Refuse(t) PROVE Turns'
  BY <1>15, SchedulesAssumption
  DEF Refuse, GiveTurn, storeVars, daemonVars, boundVars, TypeOK, Hands, Turns,
      Copies, Free
<1>16. ASSUME NEW t \in Tick, Record(t) PROVE Turns'
  BY <1>16, SchedulesAssumption
  DEF Record, Receipt, daemonVars, workVars, TypeOK, Hands, Turns, Copies
<1>17. ASSUME NEW t \in Tick, Done(t) PROVE Turns'
  BY <1>17, SchedulesAssumption
  DEF Done, Ended, storeVars, daemonVars, workVars, boundVars, TypeOK, Hands, Turns,
      Copies
<1>18. ASSUME NEW t \in Tick, Fail(t) PROVE Turns'
  BY <1>18, SchedulesAssumption
  DEF Fail, Ended, storeVars, workVars, TypeOK, Hands, Turns, Copies
<1>19. ASSUME CallTakes PROVE Turns'
  BY <1>19, SchedulesAssumption
  DEF CallTakes, storeVars, tickVars, daemonVars, boundVars, TypeOK, Hands, Turns,
      Copies, Free
<1>20. ASSUME CallEnds PROVE Turns'
  BY <1>20, SchedulesAssumption
  DEF CallEnds, storeVars, tickVars, daemonVars, boundVars, TypeOK, Hands, Turns,
      Copies, Free
<1>21. ASSUME Clock PROVE Turns'
  BY <1>21, SchedulesAssumption
  DEF Clock, storeVars, tickVars, daemonVars, workVars, boundVars, TypeOK, Hands,
      Turns, Copies
<1>22. ASSUME Crash PROVE Turns'
  BY <1>22, SchedulesAssumption DEF Crash, storeVars, TypeOK, Hands, Turns, Copies
<1>23. ASSUME Boot PROVE Turns'
  BY <1>23, SchedulesAssumption
  DEF Boot, storeVars, tickVars, workVars, boundVars, TypeOK, Hands, Turns, Copies
<1>u. ASSUME UNCHANGED vars PROVE Turns'
  BY <1>u
  DEF TypeOK, Hands, Turns, Copies, Free, vars, storeVars, tickVars, daemonVars,
      workVars, boundVars
<1>. QED
  BY <1>1, <1>2, <1>3, <1>4, <1>5, <1>6, <1>7, <1>8, <1>9, <1>10, <1>11, <1>12,
     <1>13, <1>14, <1>15, <1>16, <1>17, <1>18, <1>19, <1>20, <1>21, <1>22, <1>23,
     <1>u
  DEF Next, Owner, TickStep, TickRow

\* Every step leaves an occurrence in one hand.
LEMMA HandStep ==
    ASSUME TypeOK, Hands, OccurrenceOnce, ReceiptsTrue, [Next]_vars
    PROVE  Hands'
<1>1. ASSUME NEW s \in Schedule, NEW e \in Minute, Propose(s, e) PROVE Hands'
  BY <1>1, SchedulesAssumption
  DEF Propose, tickVars, daemonVars, workVars, boundVars, TypeOK, Hands,
      ReceiptsTrue, OccurrenceOnce, Copies
<1>2. ASSUME NEW s \in Schedule, Approve(s) PROVE Hands'
  BY <1>2, SchedulesAssumption
  DEF Approve, tickVars, daemonVars, workVars, boundVars, TypeOK, Hands,
      ReceiptsTrue, OccurrenceOnce, Copies
<1>3. ASSUME NEW s \in Schedule, Revoke(s) PROVE Hands'
  BY <1>3, SchedulesAssumption
  DEF Revoke, Revoked, tickVars, daemonVars, boundVars, TypeOK, Hands, ReceiptsTrue,
      OccurrenceOnce, Copies
<1>4. ASSUME NEW s \in Schedule, Change(s) PROVE Hands'
  BY <1>4, SchedulesAssumption
  DEF Change, storeVars, tickVars, daemonVars, workVars, TypeOK, Hands,
      ReceiptsTrue, OccurrenceOnce, Copies
<1>5. ASSUME NEW s \in Schedule, JobCloses(s) PROVE Hands'
  BY <1>5, SchedulesAssumption
  DEF JobCloses, storeVars, tickVars, daemonVars, boundVars, TypeOK, Hands,
      ReceiptsTrue, OccurrenceOnce, Copies
<1>6. ASSUME NEW s \in Schedule, JobOver(s) PROVE Hands'
  BY <1>6, SchedulesAssumption
  DEF JobOver, GiveTurn, storeVars, tickVars, daemonVars, boundVars, TypeOK, Hands,
      ReceiptsTrue, OccurrenceOnce, Copies
<1>7. ASSUME NEW t \in Tick, Begin(t) PROVE Hands'
  BY <1>7, SchedulesAssumption
  DEF Begin, storeVars, daemonVars, workVars, boundVars, TypeOK, Hands,
      ReceiptsTrue, OccurrenceOnce, Copies
<1>8. ASSUME NEW t \in Tick, NEW o \in todo[t], Expire(t, o) PROVE Hands'
  BY <1>8, SchedulesAssumption
  DEF Expire, AtHand, Passed, Revoked, daemonVars, boundVars, TypeOK, Hands,
      ReceiptsTrue, OccurrenceOnce, Copies
<1>9. ASSUME NEW t \in Tick, NEW o \in todo[t], Pause(t, o) PROVE Hands'
  BY <1>9, SchedulesAssumption
  DEF Pause, AtHand, Passed, daemonVars, workVars, boundVars, TypeOK, Hands,
      ReceiptsTrue, OccurrenceOnce, Copies
<1>10. ASSUME NEW t \in Tick, NEW o \in todo[t], Defer(t, o) PROVE Hands'
  BY <1>10, SchedulesAssumption
  DEF Defer, Fitting, AtHand, Passed, storeVars, daemonVars, workVars, boundVars,
      TypeOK, Hands, ReceiptsTrue, OccurrenceOnce, Copies
<1>11. ASSUME NEW t \in Tick, NEW o \in todo[t], Claim(t, o) PROVE Hands'
  <2>1. o \in Copies /\ None \notin Copies /\ doing[t] = None
    BY <1>11, SchedulesAssumption
    DEF TypeOK, Copies, Minute, Hands, Claim, Fitting, AtHand
  <2>2. CASE UNCHANGED <<run, stage, doing>>
    BY <1>11, <2>2 DEF Claim, Hands, workVars
  <2>3. CASE /\ run[o] = "none"
             /\ run' = [run EXCEPT ![o] = "claimed"]
             /\ stage' = [stage EXCEPT ![t] = "claimed"]
             /\ doing' = [doing EXCEPT ![t] = o]
    <3>1. \A u \in Tick : doing[u] # o
      BY <2>1, <2>3 DEF Hands
    <3>2. started[o] = 0 /\ UNCHANGED started
      BY <1>11, <2>1, <2>3 DEF Claim, ReceiptsTrue, workVars
    <3>. QED
      BY <2>1, <2>3, <3>1, <3>2 DEF Hands, TypeOK
  <2>. QED
    BY <1>11, <2>2, <2>3 DEF Claim
<1>12. ASSUME NEW t \in Tick, Skip(t) PROVE Hands'
  <2>1. doing[t] \in Copies /\ None \notin Copies
    BY <1>12, SchedulesAssumption DEF Skip, Hands, TypeOK, Copies, Minute
  <2>2. \A u \in Tick \ {t} : doing[u] # doing[t] \/ doing[u] = None
    BY DEF Hands
  <2>3. \A u \in Tick \ {t} : doing[u] # None => run'[doing[u]] = run[doing[u]]
    BY <1>12, <2>1, <2>2 DEF Skip, Receipt, TypeOK
  <2>4. doing'[t] = None /\ stage'[t] = "rows" /\ UNCHANGED started
    BY <1>12 DEF Skip, Receipt, TypeOK, workVars
  <2>5. \A u \in Tick \ {t} : doing'[u] = doing[u] /\ stage'[u] = stage[u]
    BY <1>12 DEF Skip, Receipt, TypeOK
  <2>. QED
    BY <2>2, <2>3, <2>4, <2>5 DEF Hands
<1>13. ASSUME NEW t \in Tick, BackUp(t) PROVE Hands'
  BY <1>13, SchedulesAssumption
  DEF BackUp, storeVars, daemonVars, boundVars, TypeOK, Hands, ReceiptsTrue,
      OccurrenceOnce, Copies
<1>14. ASSUME NEW t \in Tick, Start(t) PROVE Hands'
  BY <1>14, SchedulesAssumption
  DEF Start, storeVars, daemonVars, boundVars, TypeOK, Hands, ReceiptsTrue,
      OccurrenceOnce, Copies
<1>15. ASSUME NEW t \in Tick, Refuse(t) PROVE Hands'
  BY <1>15, SchedulesAssumption
  DEF Refuse, GiveTurn, storeVars, daemonVars, boundVars, TypeOK, Hands,
      ReceiptsTrue, OccurrenceOnce, Copies
<1>16. ASSUME NEW t \in Tick, Record(t) PROVE Hands'
  <2>1. doing[t] \in Copies /\ None \notin Copies
    BY <1>16, SchedulesAssumption DEF Record, Hands, TypeOK, Copies, Minute
  <2>2. \A u \in Tick \ {t} : doing[u] # doing[t] \/ doing[u] = None
    BY DEF Hands
  <2>3. \A u \in Tick \ {t} : doing[u] # None => run'[doing[u]] = run[doing[u]]
    BY <1>16, <2>1, <2>2 DEF Record, Receipt, TypeOK
  <2>4. doing'[t] = None /\ stage'[t] = "rows" /\ UNCHANGED started
    BY <1>16 DEF Record, Receipt, TypeOK, workVars
  <2>5. \A u \in Tick \ {t} : doing'[u] = doing[u] /\ stage'[u] = stage[u]
    BY <1>16 DEF Record, Receipt, TypeOK
  <2>. QED
    BY <2>2, <2>3, <2>4, <2>5 DEF Hands
<1>17. ASSUME NEW t \in Tick, Done(t) PROVE Hands'
  BY <1>17, SchedulesAssumption
  DEF Done, Ended, storeVars, daemonVars, workVars, boundVars, TypeOK, Hands,
      ReceiptsTrue, OccurrenceOnce, Copies
<1>18. ASSUME NEW t \in Tick, Fail(t) PROVE Hands'
  BY <1>18, SchedulesAssumption
  DEF Fail, Ended, storeVars, workVars, TypeOK, Hands, ReceiptsTrue, OccurrenceOnce,
      Copies
<1>19. ASSUME CallTakes PROVE Hands'
  BY <1>19, SchedulesAssumption
  DEF CallTakes, storeVars, tickVars, daemonVars, boundVars, TypeOK, Hands,
      ReceiptsTrue, OccurrenceOnce, Copies
<1>20. ASSUME CallEnds PROVE Hands'
  BY <1>20, SchedulesAssumption
  DEF CallEnds, storeVars, tickVars, daemonVars, boundVars, TypeOK, Hands,
      ReceiptsTrue, OccurrenceOnce, Copies
<1>21. ASSUME Clock PROVE Hands'
  BY <1>21, SchedulesAssumption
  DEF Clock, storeVars, tickVars, daemonVars, workVars, boundVars, TypeOK, Hands,
      ReceiptsTrue, OccurrenceOnce, Copies
<1>22. ASSUME Crash PROVE Hands'
  BY <1>22, SchedulesAssumption
  DEF Crash, storeVars, TypeOK, Hands, ReceiptsTrue, OccurrenceOnce, Copies
<1>23. ASSUME Boot PROVE Hands'
  BY <1>23, SchedulesAssumption
  DEF Boot, storeVars, tickVars, workVars, boundVars, TypeOK, Hands, ReceiptsTrue,
      OccurrenceOnce, Copies
<1>u. ASSUME UNCHANGED vars PROVE Hands'
  BY <1>u
  DEF TypeOK, Hands, ReceiptsTrue, OccurrenceOnce, Copies, vars, storeVars,
      tickVars, daemonVars, workVars, boundVars
<1>. QED
  BY <1>1, <1>2, <1>3, <1>4, <1>5, <1>6, <1>7, <1>8, <1>9, <1>10, <1>11, <1>12,
     <1>13, <1>14, <1>15, <1>16, <1>17, <1>18, <1>19, <1>20, <1>21, <1>22, <1>23,
     <1>u
  DEF Next, Owner, TickStep, TickRow

\* Every step keeps receipts true.
LEMMA ReceiptStep ==
    ASSUME TypeOK, Hands, OccurrenceOnce, ReceiptsTrue, [Next]_vars
    PROVE  ReceiptsTrue' /\ OccurrenceOnce'
<1>1. ASSUME NEW s \in Schedule, NEW e \in Minute, Propose(s, e)
      PROVE  ReceiptsTrue' /\ OccurrenceOnce'
  BY <1>1, SchedulesAssumption
  DEF Propose, tickVars, daemonVars, workVars, boundVars, TypeOK, Hands,
      ReceiptsTrue, OccurrenceOnce, Copies
<1>2. ASSUME NEW s \in Schedule, Approve(s) PROVE ReceiptsTrue' /\ OccurrenceOnce'
  BY <1>2, SchedulesAssumption
  DEF Approve, tickVars, daemonVars, workVars, boundVars, TypeOK, Hands,
      ReceiptsTrue, OccurrenceOnce, Copies
<1>3. ASSUME NEW s \in Schedule, Revoke(s) PROVE ReceiptsTrue' /\ OccurrenceOnce'
  BY <1>3, SchedulesAssumption
  DEF Revoke, Revoked, tickVars, daemonVars, boundVars, TypeOK, Hands, ReceiptsTrue,
      OccurrenceOnce, Copies
<1>4. ASSUME NEW s \in Schedule, Change(s) PROVE ReceiptsTrue' /\ OccurrenceOnce'
  BY <1>4, SchedulesAssumption
  DEF Change, storeVars, tickVars, daemonVars, workVars, TypeOK, Hands,
      ReceiptsTrue, OccurrenceOnce, Copies
<1>5. ASSUME NEW s \in Schedule, JobCloses(s) PROVE ReceiptsTrue' /\ OccurrenceOnce'
  BY <1>5, SchedulesAssumption
  DEF JobCloses, storeVars, tickVars, daemonVars, boundVars, TypeOK, Hands,
      ReceiptsTrue, OccurrenceOnce, Copies
<1>6. ASSUME NEW s \in Schedule, JobOver(s) PROVE ReceiptsTrue' /\ OccurrenceOnce'
  BY <1>6, SchedulesAssumption
  DEF JobOver, GiveTurn, storeVars, tickVars, daemonVars, boundVars, TypeOK, Hands,
      ReceiptsTrue, OccurrenceOnce, Copies
<1>7. ASSUME NEW t \in Tick, Begin(t) PROVE ReceiptsTrue' /\ OccurrenceOnce'
  BY <1>7, SchedulesAssumption
  DEF Begin, storeVars, daemonVars, workVars, boundVars, TypeOK, Hands,
      ReceiptsTrue, OccurrenceOnce, Copies
<1>8. ASSUME NEW t \in Tick, NEW o \in todo[t], Expire(t, o)
      PROVE  ReceiptsTrue' /\ OccurrenceOnce'
  BY <1>8, SchedulesAssumption
  DEF Expire, AtHand, Passed, Revoked, daemonVars, boundVars, TypeOK, Hands,
      ReceiptsTrue, OccurrenceOnce, Copies
<1>9. ASSUME NEW t \in Tick, NEW o \in todo[t], Pause(t, o)
      PROVE  ReceiptsTrue' /\ OccurrenceOnce'
  BY <1>9, SchedulesAssumption
  DEF Pause, AtHand, Passed, daemonVars, workVars, boundVars, TypeOK, Hands,
      ReceiptsTrue, OccurrenceOnce, Copies
<1>10. ASSUME NEW t \in Tick, NEW o \in todo[t], Defer(t, o)
      PROVE  ReceiptsTrue' /\ OccurrenceOnce'
  BY <1>10, SchedulesAssumption
  DEF Defer, Fitting, AtHand, Passed, storeVars, daemonVars, workVars, boundVars,
      TypeOK, Hands, ReceiptsTrue, OccurrenceOnce, Copies
<1>11. ASSUME NEW t \in Tick, NEW o \in todo[t], Claim(t, o)
      PROVE  ReceiptsTrue' /\ OccurrenceOnce'
  <2>1. o \in Copies /\ None \notin Copies /\ doing[t] = None
    BY <1>11, SchedulesAssumption
    DEF TypeOK, Copies, Minute, Hands, Claim, Fitting, AtHand
  <2>2. CASE UNCHANGED <<run, stage, doing>>
    BY <1>11, <2>2 DEF Claim, ReceiptsTrue, OccurrenceOnce, workVars, boundVars
  <2>3. CASE /\ run[o] = "none"
             /\ run' = [run EXCEPT ![o] = "claimed"]
             /\ stage' = [stage EXCEPT ![t] = "claimed"]
             /\ doing' = [doing EXCEPT ![t] = o]
    <3>1. doing'[t] = o /\ \A u \in Tick \ {t} : doing'[u] = doing[u]
      BY <2>3 DEF TypeOK
    <3>2. UNCHANGED <<started, crashes, faults>>
      BY <1>11 DEF Claim, workVars, boundVars
    <3>. QED
      BY <2>1, <2>3, <3>1, <3>2 DEF ReceiptsTrue, OccurrenceOnce, TypeOK
  <2>. QED
    BY <1>11, <2>2, <2>3 DEF Claim
<1>12. ASSUME NEW t \in Tick, Skip(t) PROVE ReceiptsTrue' /\ OccurrenceOnce'
  BY <1>12, SchedulesAssumption
  DEF Skip, Receipt, daemonVars, workVars, boundVars, TypeOK, Hands, ReceiptsTrue,
      OccurrenceOnce, Copies
<1>13. ASSUME NEW t \in Tick, BackUp(t) PROVE ReceiptsTrue' /\ OccurrenceOnce'
  BY <1>13, SchedulesAssumption
  DEF BackUp, storeVars, daemonVars, boundVars, TypeOK, Hands, ReceiptsTrue,
      OccurrenceOnce, Copies
<1>14. ASSUME NEW t \in Tick, Start(t) PROVE ReceiptsTrue' /\ OccurrenceOnce'
  BY <1>14, SchedulesAssumption
  DEF Start, storeVars, daemonVars, boundVars, TypeOK, Hands, ReceiptsTrue,
      OccurrenceOnce, Copies
<1>15. ASSUME NEW t \in Tick, Refuse(t) PROVE ReceiptsTrue' /\ OccurrenceOnce'
  BY <1>15, SchedulesAssumption
  DEF Refuse, GiveTurn, storeVars, daemonVars, boundVars, TypeOK, Hands,
      ReceiptsTrue, OccurrenceOnce, Copies
<1>16. ASSUME NEW t \in Tick, Record(t) PROVE ReceiptsTrue' /\ OccurrenceOnce'
  BY <1>16, SchedulesAssumption
  DEF Record, Receipt, daemonVars, workVars, TypeOK, Hands, ReceiptsTrue,
      OccurrenceOnce, Copies
<1>17. ASSUME NEW t \in Tick, Done(t) PROVE ReceiptsTrue' /\ OccurrenceOnce'
  BY <1>17, SchedulesAssumption
  DEF Done, Ended, storeVars, daemonVars, workVars, boundVars, TypeOK, Hands,
      ReceiptsTrue, OccurrenceOnce, Copies
<1>18. ASSUME NEW t \in Tick, Fail(t) PROVE ReceiptsTrue' /\ OccurrenceOnce'
  BY <1>18, SchedulesAssumption
  DEF Fail, Ended, storeVars, workVars, TypeOK, Hands, ReceiptsTrue, OccurrenceOnce,
      Copies
<1>19. ASSUME CallTakes PROVE ReceiptsTrue' /\ OccurrenceOnce'
  BY <1>19, SchedulesAssumption
  DEF CallTakes, storeVars, tickVars, daemonVars, boundVars, TypeOK, Hands,
      ReceiptsTrue, OccurrenceOnce, Copies
<1>20. ASSUME CallEnds PROVE ReceiptsTrue' /\ OccurrenceOnce'
  BY <1>20, SchedulesAssumption
  DEF CallEnds, storeVars, tickVars, daemonVars, boundVars, TypeOK, Hands,
      ReceiptsTrue, OccurrenceOnce, Copies
<1>21. ASSUME Clock PROVE ReceiptsTrue' /\ OccurrenceOnce'
  BY <1>21, SchedulesAssumption
  DEF Clock, storeVars, tickVars, daemonVars, workVars, boundVars, TypeOK, Hands,
      ReceiptsTrue, OccurrenceOnce, Copies
<1>22. ASSUME Crash PROVE ReceiptsTrue' /\ OccurrenceOnce'
  BY <1>22, SchedulesAssumption
  DEF Crash, storeVars, TypeOK, Hands, ReceiptsTrue, OccurrenceOnce, Copies
<1>23. ASSUME Boot PROVE ReceiptsTrue' /\ OccurrenceOnce'
  BY <1>23, SchedulesAssumption
  DEF Boot, storeVars, tickVars, workVars, boundVars, TypeOK, Hands, ReceiptsTrue,
      OccurrenceOnce, Copies
<1>u. ASSUME UNCHANGED vars PROVE ReceiptsTrue' /\ OccurrenceOnce'
  BY <1>u
  DEF TypeOK, Hands, ReceiptsTrue, OccurrenceOnce, Copies, vars, storeVars,
      tickVars, daemonVars, workVars, boundVars
<1>. QED
  BY <1>1, <1>2, <1>3, <1>4, <1>5, <1>6, <1>7, <1>8, <1>9, <1>10, <1>11, <1>12,
     <1>13, <1>14, <1>15, <1>16, <1>17, <1>18, <1>19, <1>20, <1>21, <1>22, <1>23,
     <1>u
  DEF Next, Owner, TickStep, TickRow

\* Every step keeps revoked schedules quiet.
LEMMA QuietStep ==
    ASSUME TypeOK, RevokedIsQuiet, [Next]_vars
    PROVE  RevokedIsQuiet'
<1>1. ASSUME NEW s \in Schedule, NEW e \in Minute, Propose(s, e) PROVE RevokedIsQuiet'
  BY <1>1, SchedulesAssumption
  DEF Propose, tickVars, daemonVars, workVars, boundVars, TypeOK, RevokedIsQuiet,
      Copies
<1>2. ASSUME NEW s \in Schedule, Approve(s) PROVE RevokedIsQuiet'
  BY <1>2, SchedulesAssumption
  DEF Approve, tickVars, daemonVars, workVars, boundVars, TypeOK, RevokedIsQuiet,
      Copies
<1>3. ASSUME NEW s \in Schedule, Revoke(s) PROVE RevokedIsQuiet'
  BY <1>3, SchedulesAssumption
  DEF Revoke, Revoked, tickVars, daemonVars, boundVars, TypeOK, RevokedIsQuiet,
      Copies
<1>4. ASSUME NEW s \in Schedule, Change(s) PROVE RevokedIsQuiet'
  BY <1>4, SchedulesAssumption
  DEF Change, storeVars, tickVars, daemonVars, workVars, TypeOK, RevokedIsQuiet,
      Copies
<1>5. ASSUME NEW s \in Schedule, JobCloses(s) PROVE RevokedIsQuiet'
  BY <1>5, SchedulesAssumption
  DEF JobCloses, storeVars, tickVars, daemonVars, boundVars, TypeOK, RevokedIsQuiet,
      Copies
<1>6. ASSUME NEW s \in Schedule, JobOver(s) PROVE RevokedIsQuiet'
  BY <1>6, SchedulesAssumption
  DEF JobOver, GiveTurn, storeVars, tickVars, daemonVars, boundVars, TypeOK,
      RevokedIsQuiet, Copies
<1>7. ASSUME NEW t \in Tick, Begin(t) PROVE RevokedIsQuiet'
  BY <1>7, SchedulesAssumption
  DEF Begin, storeVars, daemonVars, workVars, boundVars, TypeOK, RevokedIsQuiet,
      Copies
<1>8. ASSUME NEW t \in Tick, NEW o \in todo[t], Expire(t, o) PROVE RevokedIsQuiet'
  BY <1>8, SchedulesAssumption
  DEF Expire, AtHand, Passed, Revoked, daemonVars, boundVars, TypeOK,
      RevokedIsQuiet, Copies
<1>9. ASSUME NEW t \in Tick, NEW o \in todo[t], Pause(t, o) PROVE RevokedIsQuiet'
  BY <1>9, SchedulesAssumption
  DEF Pause, AtHand, Passed, daemonVars, workVars, boundVars, TypeOK,
      RevokedIsQuiet, Copies
<1>10. ASSUME NEW t \in Tick, NEW o \in todo[t], Defer(t, o) PROVE RevokedIsQuiet'
  BY <1>10, SchedulesAssumption
  DEF Defer, Fitting, AtHand, Passed, storeVars, daemonVars, workVars, boundVars,
      TypeOK, RevokedIsQuiet, Copies
<1>11. ASSUME NEW t \in Tick, NEW o \in todo[t], Claim(t, o) PROVE RevokedIsQuiet'
  BY <1>11, SchedulesAssumption
  DEF Claim, Fitting, AtHand, Passed, daemonVars, workVars, boundVars, TypeOK,
      RevokedIsQuiet, Copies
<1>12. ASSUME NEW t \in Tick, Skip(t) PROVE RevokedIsQuiet'
  BY <1>12, SchedulesAssumption
  DEF Skip, Receipt, daemonVars, workVars, boundVars, TypeOK, RevokedIsQuiet, Copies
<1>13. ASSUME NEW t \in Tick, BackUp(t) PROVE RevokedIsQuiet'
  BY <1>13, SchedulesAssumption
  DEF BackUp, storeVars, daemonVars, boundVars, TypeOK, RevokedIsQuiet, Copies
<1>14. ASSUME NEW t \in Tick, Start(t) PROVE RevokedIsQuiet'
  BY <1>14, SchedulesAssumption
  DEF Start, storeVars, daemonVars, boundVars, TypeOK, RevokedIsQuiet, Copies
<1>15. ASSUME NEW t \in Tick, Refuse(t) PROVE RevokedIsQuiet'
  BY <1>15, SchedulesAssumption
  DEF Refuse, GiveTurn, storeVars, daemonVars, boundVars, TypeOK, RevokedIsQuiet,
      Copies
<1>16. ASSUME NEW t \in Tick, Record(t) PROVE RevokedIsQuiet'
  BY <1>16, SchedulesAssumption
  DEF Record, Receipt, daemonVars, workVars, TypeOK, RevokedIsQuiet, Copies
<1>17. ASSUME NEW t \in Tick, Done(t) PROVE RevokedIsQuiet'
  BY <1>17, SchedulesAssumption
  DEF Done, Ended, storeVars, daemonVars, workVars, boundVars, TypeOK,
      RevokedIsQuiet, Copies
<1>18. ASSUME NEW t \in Tick, Fail(t) PROVE RevokedIsQuiet'
  BY <1>18, SchedulesAssumption
  DEF Fail, Ended, storeVars, workVars, TypeOK, RevokedIsQuiet, Copies
<1>19. ASSUME CallTakes PROVE RevokedIsQuiet'
  BY <1>19, SchedulesAssumption
  DEF CallTakes, storeVars, tickVars, daemonVars, boundVars, TypeOK, RevokedIsQuiet,
      Copies
<1>20. ASSUME CallEnds PROVE RevokedIsQuiet'
  BY <1>20, SchedulesAssumption
  DEF CallEnds, storeVars, tickVars, daemonVars, boundVars, TypeOK, RevokedIsQuiet,
      Copies
<1>21. ASSUME Clock PROVE RevokedIsQuiet'
  BY <1>21, SchedulesAssumption
  DEF Clock, storeVars, tickVars, daemonVars, workVars, boundVars, TypeOK,
      RevokedIsQuiet, Copies
<1>22. ASSUME Crash PROVE RevokedIsQuiet'
  BY <1>22, SchedulesAssumption DEF Crash, storeVars, TypeOK, RevokedIsQuiet, Copies
<1>23. ASSUME Boot PROVE RevokedIsQuiet'
  BY <1>23, SchedulesAssumption
  DEF Boot, storeVars, tickVars, workVars, boundVars, TypeOK, RevokedIsQuiet, Copies
<1>u. ASSUME UNCHANGED vars PROVE RevokedIsQuiet'
  BY <1>u
  DEF TypeOK, RevokedIsQuiet, Copies, vars, storeVars, tickVars, daemonVars,
      workVars, boundVars
<1>. QED
  BY <1>1, <1>2, <1>3, <1>4, <1>5, <1>6, <1>7, <1>8, <1>9, <1>10, <1>11, <1>12,
     <1>13, <1>14, <1>15, <1>16, <1>17, <1>18, <1>19, <1>20, <1>21, <1>22, <1>23,
     <1>u
  DEF Next, Owner, TickStep, TickRow

\* Nothing but Start makes a job run.
LEMMA OnlyStart ==
    ASSUME TypeOK, Hands, NEW r \in Schedule, job[r] # "running", job'[r] = "running", [Next]_vars
    PROVE  \E u \in Tick : Start(u)
<1>1. ASSUME NEW s \in Schedule, NEW e \in Minute, Propose(s, e)
      PROVE  \E u \in Tick : Start(u)
  BY <1>1, SchedulesAssumption
  DEF Propose, tickVars, daemonVars, workVars, boundVars, TypeOK
<1>2. ASSUME NEW s \in Schedule, Approve(s) PROVE \E u \in Tick : Start(u)
  BY <1>2, SchedulesAssumption
  DEF Approve, tickVars, daemonVars, workVars, boundVars, TypeOK
<1>3. ASSUME NEW s \in Schedule, Revoke(s) PROVE \E u \in Tick : Start(u)
  BY <1>3, SchedulesAssumption
  DEF Revoke, Revoked, tickVars, daemonVars, boundVars, TypeOK
<1>4. ASSUME NEW s \in Schedule, Change(s) PROVE \E u \in Tick : Start(u)
  BY <1>4, SchedulesAssumption
  DEF Change, storeVars, tickVars, daemonVars, workVars, TypeOK
<1>5. ASSUME NEW s \in Schedule, JobCloses(s) PROVE \E u \in Tick : Start(u)
  BY <1>5, SchedulesAssumption
  DEF JobCloses, storeVars, tickVars, daemonVars, boundVars, TypeOK
<1>6. ASSUME NEW s \in Schedule, JobOver(s) PROVE \E u \in Tick : Start(u)
  BY <1>6, SchedulesAssumption
  DEF JobOver, GiveTurn, storeVars, tickVars, daemonVars, boundVars, TypeOK
<1>7. ASSUME NEW t \in Tick, Begin(t) PROVE \E u \in Tick : Start(u)
  BY <1>7, SchedulesAssumption
  DEF Begin, storeVars, daemonVars, workVars, boundVars, TypeOK
<1>8. ASSUME NEW t \in Tick, NEW o \in todo[t], Expire(t, o)
      PROVE  \E u \in Tick : Start(u)
  BY <1>8, SchedulesAssumption
  DEF Expire, AtHand, Passed, Revoked, daemonVars, boundVars, TypeOK
<1>9. ASSUME NEW t \in Tick, NEW o \in todo[t], Pause(t, o)
      PROVE  \E u \in Tick : Start(u)
  BY <1>9, SchedulesAssumption
  DEF Pause, AtHand, Passed, daemonVars, workVars, boundVars, TypeOK
<1>10. ASSUME NEW t \in Tick, NEW o \in todo[t], Defer(t, o)
      PROVE  \E u \in Tick : Start(u)
  BY <1>10, SchedulesAssumption
  DEF Defer, Fitting, AtHand, Passed, storeVars, daemonVars, workVars, boundVars,
      TypeOK
<1>11. ASSUME NEW t \in Tick, NEW o \in todo[t], Claim(t, o)
      PROVE  \E u \in Tick : Start(u)
  BY <1>11, SchedulesAssumption
  DEF Claim, Fitting, AtHand, Passed, daemonVars, workVars, boundVars, TypeOK
<1>12. ASSUME NEW t \in Tick, Skip(t) PROVE \E u \in Tick : Start(u)
  BY <1>12, SchedulesAssumption
  DEF Skip, Receipt, daemonVars, workVars, boundVars, TypeOK
<1>13. ASSUME NEW t \in Tick, BackUp(t) PROVE \E u \in Tick : Start(u)
  BY <1>13, SchedulesAssumption DEF BackUp, storeVars, daemonVars, boundVars, TypeOK
<1>14. ASSUME NEW t \in Tick, Start(t) PROVE \E u \in Tick : Start(u)
  BY <1>14
<1>15. ASSUME NEW t \in Tick, Refuse(t) PROVE \E u \in Tick : Start(u)
  BY <1>15, SchedulesAssumption
  DEF Refuse, GiveTurn, storeVars, daemonVars, boundVars, TypeOK
<1>16. ASSUME NEW t \in Tick, Record(t) PROVE \E u \in Tick : Start(u)
  BY <1>16, SchedulesAssumption DEF Record, Receipt, daemonVars, workVars, TypeOK
<1>17. ASSUME NEW t \in Tick, Done(t) PROVE \E u \in Tick : Start(u)
  BY <1>17, SchedulesAssumption
  DEF Done, Ended, storeVars, daemonVars, workVars, boundVars, TypeOK
<1>18. ASSUME NEW t \in Tick, Fail(t) PROVE \E u \in Tick : Start(u)
  BY <1>18, SchedulesAssumption DEF Fail, Ended, storeVars, workVars, TypeOK
<1>19. ASSUME CallTakes PROVE \E u \in Tick : Start(u)
  BY <1>19, SchedulesAssumption
  DEF CallTakes, storeVars, tickVars, daemonVars, boundVars, TypeOK
<1>20. ASSUME CallEnds PROVE \E u \in Tick : Start(u)
  BY <1>20, SchedulesAssumption
  DEF CallEnds, storeVars, tickVars, daemonVars, boundVars, TypeOK
<1>21. ASSUME Clock PROVE \E u \in Tick : Start(u)
  BY <1>21, SchedulesAssumption
  DEF Clock, storeVars, tickVars, daemonVars, workVars, boundVars, TypeOK
<1>22. ASSUME Crash PROVE \E u \in Tick : Start(u)
  BY <1>22, SchedulesAssumption DEF Crash, storeVars, TypeOK
<1>23. ASSUME Boot PROVE \E u \in Tick : Start(u)
  BY <1>23, SchedulesAssumption
  DEF Boot, storeVars, tickVars, workVars, boundVars, TypeOK
<1>u. ASSUME UNCHANGED vars PROVE \E u \in Tick : Start(u)
  BY <1>u DEF TypeOK, vars, storeVars, tickVars, daemonVars, workVars, boundVars
<1>. QED
  BY <1>1, <1>2, <1>3, <1>4, <1>5, <1>6, <1>7, <1>8, <1>9, <1>10, <1>11, <1>12,
     <1>13, <1>14, <1>15, <1>16, <1>17, <1>18, <1>19, <1>20, <1>21, <1>22, <1>23,
     <1>u
  DEF Next, Owner, TickStep, TickRow

\* The invariant holds at the start and is kept by every step.
LEMMA Inductive == SafeSpec => []IInv
<1>1. Init => IInv
  BY SchedulesAssumption
  DEF Init, IInv, TypeOK, Hands, Turns, OccurrenceOnce, ReceiptsTrue, RevokedIsQuiet,
      Copies, Minute
<1>2. IInv /\ [Next]_vars => IInv'
  BY TypeStep, TurnStep, HandStep, ReceiptStep, QuietStep DEF IInv
<1>. QED
  BY <1>1, <1>2, PTL DEF SafeSpec

\* Every state is well typed.
THEOREM TypeCorrect == SafeSpec => []TypeOK
BY Inductive, PTL DEF IInv

\* An occurrence of a schedule is started at most once, however ticks overlap
\* and wherever the daemon dies.
THEOREM OnceCorrect == SafeSpec => []OccurrenceOnce
BY Inductive, PTL DEF IInv

\* The history of a schedule says what happened.
THEOREM ReceiptsCorrect == SafeSpec => []ReceiptsTrue
BY Inductive, PTL DEF IInv

\* A revoked schedule has no job that was not told to end.
THEOREM QuietCorrect == SafeSpec => []RevokedIsQuiet
BY Inductive, PTL DEF IInv

\* A command starts under a consent in force, and while nobody else writes.
THEOREM ConsentCorrect == SafeSpec => StartsUnderConsent
<1>1. ASSUME IInv, [Next]_vars, NEW s \in Schedule, job[s] # "running", job'[s] = "running"
      PROVE  /\ status[s] = "approved" /\ expires[s] > now /\ fits[s]
             /\ \A r \in Schedule \ {s} : job[r] = "none"
             /\ turn \in Tick
  <2>1. \A t \in Tick : Start(t) =>
           /\ doing[t] \in Copies /\ doing[t][1] \in Schedule /\ turn = t
           /\ s = doing[t][1]
    BY <1>1 DEF Start, IInv, TypeOK, Hands, Turns, Copies
  <2>2. \E u \in Tick : Start(u)
    BY <1>1, OnlyStart DEF IInv
  <2>3. PICK t \in Tick : Start(t)
    BY <2>2
  <2>. QED
    BY <1>1, <2>1, <2>3, SchedulesAssumption DEF Start, IInv, TypeOK, Turns
<1>2. IInv /\ [Next]_vars => [\A s \in Schedule :
         job[s] # "running" /\ job'[s] = "running" =>
            /\ status[s] = "approved" /\ expires[s] > now /\ fits[s]
            /\ \A r \in Schedule \ {s} : job[r] = "none"
            /\ turn \in Tick]_vars
  BY <1>1
<1>. QED
  BY <1>2, Inductive, PTL DEF SafeSpec, StartsUnderConsent

(* Whoever a job is started for has consented, and a consent that is taken   *)
(* back ends it: both theorems in one.                                       *)
THEOREM ConsentObeyedCorrect == SafeSpec => ConsentObeyed
  BY QuietCorrect, ConsentCorrect DEF ConsentObeyed
=============================================================================
