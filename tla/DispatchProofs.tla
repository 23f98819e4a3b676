--------------------------- MODULE DispatchProofs ---------------------------
(***************************************************************************)
(* Proofs about Dispatch for any clients, requests, calls, keys, access    *)
(* lists and bounds.  Two invariants carry them: the call that works holds *)
(* the turn and its key (so nobody else's key is released, and nobody      *)
(* else's effect happened under it), and a row of the approval table that  *)
(* was consumed is never found again.                                      *)
(***************************************************************************)
EXTENDS Dispatch, SequenceTheorems, WellFoundedInduction, TLAPS

Working(c) == stage[c] \in {"backup", "running"}

(* The turn is held by the one call that works.                            *)
Turn == \A c \in Call : Working(c) <=> turn = c

(* What a call has done and been told, by its stage.                       *)
Progress ==
  \A c \in Call :
    /\ stage[c] # "over" => told[c] = "none"
    /\ stage[c] \in {"idle", "queued", "backup"} => did[c] = "none"
    /\ did[c] = "begun" <=> stage[c] = "running"

(* A call that works holds its key; a call that took hold left its key in  *)
(* use, unless its receipt was refused; and nobody else's did then.        *)
Keys ==
  /\ \A c \in Call : Working(c) => keys[KeyOf(c)] = Reserved(c)
  /\ \A c \in Call : TookHold(c) /\ told[c] # "unrecorded" => keys[KeyOf(c)] # NoReceipt
  /\ \A c, d \in Call :
       Working(c) /\ c # d /\ KeyOf(c) = KeyOf(d) /\ TookHold(d) => told[d] = "unrecorded"

(* A receipt is some call's.                                               *)
Receipts ==
  \A c \in Call : keys[KeyOf(c)] # NoReceipt /\ keys[KeyOf(c)].state = "completed" =>
    \E d \in Call : KeyOf(d) = KeyOf(c) /\ did[d] = "done" /\ keys[KeyOf(c)] = Completed(d)

(* Who works went through the gate.                                        *)
Gated ==
  \A c \in Call : Working(c) =>
    Allows(Request[c].class, atStart[c]) \/ spent[c] # 0

CallInv == Turn /\ Progress /\ Keys /\ Receipts /\ Gated /\ KeyRunsOnce /\ AnswersTrue

(* A call that has not been through the gate has used no approval.         *)
Unspent == \A c \in Call : stage[c] \in {"idle", "queued"} => spent[c] = 0

IInv == TypeOK /\ CallInv /\ Unspent /\ ApprovalFits /\ DeletedClientGone

-----------------------------------------------------------------------------
(* The steps that are not a call's.                                        *)

LEMMA NextCases ==
  ASSUME [Next]_vars
  PROVE  \/ UNCHANGED callVars
         \/ \E c \in Call : Submit(c) \/ Step(c)
         \/ Restart
BY DEF Next, vars, SetTrust, Row, Policy, Connect

LEMMA KeysAreKeys == \A c \in Call : KeyOf(c) \in Key
BY DEF Key

-----------------------------------------------------------------------------
(* The calls.                                                              *)

LEMMA InitCalls == ASSUME Init PROVE CallInv
<1>1. \A c \in Call : keys[KeyOf(c)] = NoReceipt
  BY KeysAreKeys DEF Init
<1>2. \A c \in Call : stage[c] = "idle" /\ told[c] = "none" /\ did[c] = "none"
  BY DEF Init
<1>3. \A c \in Call : turn # c
  BY CallAssumption DEF Init
<1>4. Turn /\ Progress /\ Gated /\ KeyRunsOnce
  BY <1>2, <1>3 DEF Turn, Progress, Gated, KeyRunsOnce, Working, TookHold
<1>5. Keys /\ Receipts
  BY <1>1, <1>2 DEF Keys, Receipts, Working, TookHold
<1>6. AnswersTrue
  BY <1>2 DEF AnswersTrue
<1>. QED BY <1>4, <1>5, <1>6 DEF CallInv

(* A step that leaves the keys, the turn and the effects alone, and in     *)
(* which a waiting call goes on waiting or ends without an answer that     *)
(* claims an effect.                                                       *)
LEMMA Waits ==
  ASSUME TypeOK, CallInv, NEW c \in Call, RefusedQueued(c) \/ GateStops(c) \/ Submit(c)
  PROVE  CallInv'
<1>1. stage[c] \in {"idle", "queued"} /\ UNCHANGED <<did, turn, keys, atStart, spent>>
  BY DEF RefusedQueued, GateStops, Submit, MyTurn
<1>2. \E s \in {"queued", "over"}, a \in {"none", "forbidden", "approval", "expired"} :
        /\ stage' = [stage EXCEPT ![c] = s] /\ told' = [told EXCEPT ![c] = a]
        /\ s = "queued" => a = "none"
  BY DEF RefusedQueued, GateStops, Submit, Answered, CallInv, Progress, TypeOK, CallsTyped
<1>3. PICK s \in {"queued", "over"}, a \in {"none", "forbidden", "approval", "expired"} :
        /\ stage' = [stage EXCEPT ![c] = s] /\ told' = [told EXCEPT ![c] = a]
        /\ s = "queued" => a = "none"
  BY <1>2
<1>4. Turn'
  BY <1>1, <1>3 DEF CallInv, Turn, Working, TypeOK, CallsTyped
<1>5. Progress'
  BY <1>1, <1>3 DEF CallInv, Progress, TypeOK, CallsTyped
<1>6. Keys'
  BY <1>1, <1>3 DEF CallInv, Keys, Progress, Working, TookHold, TypeOK, CallsTyped
<1>7. Receipts'
  BY <1>1 DEF CallInv, Receipts
<1>8. Gated'
  BY <1>1, <1>3 DEF CallInv, Gated, Working, TypeOK, CallsTyped
<1>9. KeyRunsOnce'
  BY <1>1, <1>3 DEF CallInv, KeyRunsOnce, Progress, TookHold, TypeOK, CallsTyped
<1>10. AnswersTrue'
  BY <1>1, <1>3 DEF CallInv, AnswersTrue, Progress, TypeOK, CallsTyped
<1>. QED BY <1>4, <1>5, <1>6, <1>7, <1>8, <1>9, <1>10 DEF CallInv

(* The duplicate is answered from the row it found.                        *)
LEMMA DuplicateAnswer ==
  ASSUME NEW c \in Call, Duplicate(c)
  PROVE  \E a \in {"conflict", "replayed", "uncertain"} :
           /\ Answered(c, a)
           /\ a = "replayed" => keys[KeyOf(c)] = Completed(c)
<1>1. CASE keys[KeyOf(c)].action # Request[c].action
  <2>1. keys[KeyOf(c)] # Completed(c)
    BY <1>1 DEF Completed, Held
  <2>. QED BY <1>1, <2>1 DEF Duplicate, Answered
<1>2. CASE keys[KeyOf(c)].action = Request[c].action /\ keys[KeyOf(c)] = Completed(c)
  BY <1>2 DEF Duplicate, Answered
<1>3. CASE keys[KeyOf(c)].action = Request[c].action /\ keys[KeyOf(c)] # Completed(c)
  BY <1>3 DEF Duplicate, Answered
<1>. QED BY <1>1, <1>2, <1>3

LEMMA Replays ==
  ASSUME TypeOK, CallInv, NEW c \in Call, Duplicate(c)
  PROVE  CallInv'
<1>1. stage[c] = "queued" /\ UNCHANGED <<did, turn, keys>>
  BY DEF Duplicate, PassGate, MyTurn
<1>2. PICK a \in {"conflict", "replayed", "uncertain"} :
        /\ stage' = [stage EXCEPT ![c] = "over"] /\ told' = [told EXCEPT ![c] = a]
        /\ a = "replayed" => keys[KeyOf(c)] = Completed(c)
  BY DuplicateAnswer DEF Answered
<1>3. \A d \in Call : d # c => atStart'[d] = atStart[d] /\ spent'[d] = spent[d]
  BY DEF Duplicate, PassGate, TypeOK, CallsTyped
<1>4. Turn'
  BY <1>1, <1>2 DEF CallInv, Turn, Working, TypeOK, CallsTyped
<1>5. Progress'
  BY <1>1, <1>2 DEF CallInv, Progress, TypeOK, CallsTyped
<1>6. Keys'
  BY <1>1, <1>2 DEF CallInv, Keys, Progress, Working, TookHold, TypeOK, CallsTyped
<1>7. Receipts'
  BY <1>1 DEF CallInv, Receipts
<1>8. Gated'
  BY <1>1, <1>2, <1>3 DEF CallInv, Gated, Working, TypeOK, CallsTyped
<1>9. KeyRunsOnce'
  BY <1>1, <1>2 DEF CallInv, KeyRunsOnce, Progress, TookHold, TypeOK, CallsTyped
<1>10. AnswersTrue'
  <2>1. did[c] = "none"
    BY <1>1 DEF CallInv, Progress
  <2>2. keys[KeyOf(c)] = Completed(c) =>
          \E d \in Call : KeyOf(d) = KeyOf(c) /\ did[d] = "done" /\ Completed(c) = Completed(d)
    BY DEF CallInv, Receipts, Completed, Held, NoReceipt
  <2>3. \A d \in Call : Completed(c) = Completed(d) => Request[d].action = Request[c].action
    BY DEF Completed, Held
  <2>. QED BY <1>1, <1>2, <2>1, <2>2, <2>3 DEF CallInv, AnswersTrue, TypeOK, CallsTyped
<1>. QED BY <1>4, <1>5, <1>6, <1>7, <1>8, <1>9, <1>10 DEF CallInv

(* A key that is free is nobody's: its reservation starts a clean run.     *)
LEMMA Reserves ==
  ASSUME TypeOK, CallInv, NEW c \in Call, Reserve(c)
  PROVE  CallInv'
<1>1. stage[c] = "queued" /\ turn = None /\ turn' = c
      /\ stage' = [stage EXCEPT ![c] = "backup"] /\ UNCHANGED <<did, told>>
      /\ keys[KeyOf(c)] = NoReceipt /\ keys' = [keys EXCEPT ![KeyOf(c)] = Reserved(c)]
  BY DEF Reserve, PassGate, MyTurn, SetKey
<1>2. Reserved(c) # NoReceipt /\ Reserved(c).state = "reserved"
      /\ \A d \in Call : Completed(d) # Reserved(c)
  BY DEF Reserved, Completed, Held, NoReceipt
<1>3. \A d \in Call : ~Working(d)
  BY <1>1, CallAssumption DEF CallInv, Turn
<1>4. \A d \in Call : KeyOf(d) = KeyOf(c) /\ TookHold(d) => told[d] = "unrecorded"
  BY <1>1 DEF CallInv, Keys
<1>5. \A d \in Call : keys'[KeyOf(d)] = IF KeyOf(d) = KeyOf(c) THEN Reserved(c) ELSE keys[KeyOf(d)]
  BY <1>1, KeysAreKeys DEF TypeOK, CallsTyped
<1>6. \A d \in Call : stage'[d] = IF d = c THEN "backup" ELSE stage[d]
  BY <1>1 DEF TypeOK, CallsTyped
<1>7. Turn'
  BY <1>1, <1>3, <1>6 DEF Turn, Working
<1>8. Progress'
  BY <1>1, <1>6 DEF CallInv, Progress
<1>9. Keys'
  <2>1. \A d \in Call : Working(d)' <=> d = c
    BY <1>3, <1>6 DEF Working
  <2>2. \A d \in Call : TookHold(d)' <=> TookHold(d)
    BY <1>1 DEF TookHold
  <2>. QED BY <1>1, <1>2, <1>4, <1>5, <2>1, <2>2 DEF CallInv, Keys, Reserved
<1>10. Receipts'
  BY <1>1, <1>2, <1>5 DEF CallInv, Receipts, Completed
<1>11. Gated'
  <2>1. Allows(Request[c].class, atStart'[c]) \/ spent'[c] # 0
    BY DEF Reserve, PassGate, Consumable, TypeOK, CallsTyped
  <2>. QED BY <1>3, <1>6, <2>1 DEF Gated, Working
<1>12. KeyRunsOnce'
  BY <1>1 DEF CallInv, KeyRunsOnce, TookHold
<1>13. AnswersTrue'
  <2>1. \A d \in Call : Completed(d) # NoReceipt
    BY DEF Completed, Held, NoReceipt
  <2>2. \A d \in Call : told[d] = "forbidden" /\ did[d] # "none" => KeyOf(d) # KeyOf(c)
    BY <1>1, <2>1 DEF CallInv, AnswersTrue
  <2>. QED BY <1>1, <1>5, <2>2 DEF CallInv, AnswersTrue, Completed, Held
<1>. QED BY <1>7, <1>8, <1>9, <1>10, <1>11, <1>12, <1>13 DEF CallInv

(* How the work of a call may end: an effect that took hold keeps its key  *)
(* in use unless its receipt was refused, a receipt is completed only for  *)
(* a whole effect, and the answer claims no more than there is.            *)
Outcome(c, answer, effect, receipt) ==
  /\ answer \in Answer \ {"none", "replayed"}
  /\ effect \in {"none", "done", "undone", "unknown"}
  /\ receipt \in {NoReceipt, Reserved(c), Completed(c)}
  /\ effect \in {"done", "unknown"} /\ answer # "unrecorded" => receipt # NoReceipt
  /\ receipt = Completed(c) => effect = "done"
  /\ answer = "ok" => effect = "done"
  /\ answer = "forbidden" /\ effect # "none" => effect = "done" /\ receipt = Completed(c)
  /\ answer \in {"failed", "blocked", "approval", "expired", "conflict"}
       => effect \in {"none", "undone"}

EndsWith(c, answer, effect, receipt) ==
  /\ Working(c)
  /\ Answered(c, answer)
  /\ did' = [did EXCEPT ![c] = effect]
  /\ SetKey(c, receipt)
  /\ turn' = None
  /\ UNCHANGED <<atStart, spent>>

LEMMA Ends ==
  ASSUME CallsTyped, CallInv, NEW c \in Call, NEW a, NEW e, NEW r,
         EndsWith(c, a, e, r), Outcome(c, a, e, r)
  PROVE  CallInv'
<1>1. turn = c /\ turn' = None /\ UNCHANGED <<atStart, spent>>
  BY DEF EndsWith, CallInv, Turn
<1>2. \A d \in Call : /\ stage'[d] = IF d = c THEN "over" ELSE stage[d]
                      /\ told'[d] = IF d = c THEN a ELSE told[d]
                      /\ did'[d] = IF d = c THEN e ELSE did[d]
  BY DEF EndsWith, Answered, CallsTyped
<1>3. \A d \in Call : keys'[KeyOf(d)] = IF KeyOf(d) = KeyOf(c) THEN r ELSE keys[KeyOf(d)]
  BY KeysAreKeys DEF EndsWith, SetKey, CallsTyped
<1>4. \A d \in Call : ~Working(d)'
  BY <1>1, <1>2 DEF CallInv, Turn, Working
<1>5. \A d \in Call : d # c /\ KeyOf(d) = KeyOf(c) /\ TookHold(d) => told[d] = "unrecorded"
  BY DEF EndsWith, CallInv, Keys
<1>6. keys[KeyOf(c)] = Reserved(c)
  BY DEF EndsWith, CallInv, Keys
<1>7. /\ \A d \in Call : Completed(d) # Reserved(c) /\ Completed(d) # NoReceipt
      /\ Reserved(c) # NoReceipt /\ Reserved(c).state = "reserved" /\ NoReceipt.state = "free"
      /\ Completed(c).state = "completed"
  BY DEF Reserved, Completed, Held, NoReceipt
<1>8. Turn' /\ Gated'
  BY <1>1, <1>4, CallAssumption DEF Turn, Gated
<1>9. Progress'
  BY <1>2 DEF CallInv, Progress, Outcome
<1>10. Keys'
  <2>2. ASSUME NEW d \in Call, did'[d] \in {"begun", "done", "unknown"}, told'[d] # "unrecorded"
        PROVE  keys'[KeyOf(d)] # NoReceipt
    <3>1. CASE d = c
      BY <1>2, <1>3, <2>2, <3>1 DEF Outcome
    <3>2. CASE d # c
      <4>1. TookHold(d) /\ told[d] # "unrecorded"
        BY <1>2, <2>2, <3>2 DEF TookHold
      <4>2. KeyOf(d) # KeyOf(c) /\ keys[KeyOf(d)] # NoReceipt
        BY <1>5, <3>2, <4>1 DEF CallInv, Keys
      <4>. QED BY <1>3, <4>2
    <3>. QED BY <3>1, <3>2
  <2>. QED BY <1>4, <2>2 DEF Keys, TookHold
<1>11. Receipts'
  <2>1. SUFFICES ASSUME NEW d \in Call, keys'[KeyOf(d)] # NoReceipt,
                        keys'[KeyOf(d)].state = "completed"
                 PROVE  \E x \in Call : /\ KeyOf(x) = KeyOf(d) /\ did'[x] = "done"
                                       /\ keys'[KeyOf(d)] = Completed(x)
    BY DEF Receipts, Completed
  <2>2. CASE KeyOf(d) = KeyOf(c)
    <3>1. r = Completed(c)
      BY <1>3, <1>7, <2>1, <2>2 DEF Outcome
    <3>. QED BY <1>2, <1>3, <2>2, <3>1 DEF Outcome
  <2>3. CASE KeyOf(d) # KeyOf(c)
    <3>1. PICK x \in Call : KeyOf(x) = KeyOf(d) /\ did[x] = "done" /\ keys[KeyOf(d)] = Completed(x)
      BY <1>3, <2>1, <2>3 DEF CallInv, Receipts
    <3>. QED BY <1>2, <1>3, <2>3, <3>1
  <2>. QED BY <2>2, <2>3
<1>12. KeyRunsOnce'
  <2>1. \A d \in Call : d # c => (TookHold(d)' <=> TookHold(d))
    BY <1>2 DEF TookHold
  <2>. QED BY <1>2, <1>5, <2>1 DEF CallInv, KeyRunsOnce
<1>13. AnswersTrue'
  <2>1. SUFFICES ASSUME NEW d \in Call
                 PROVE /\ told'[d] = "ok" => did'[d] = "done"
                       /\ told'[d] = "replayed" =>
                            \E x \in Call : /\ KeyOf(x) = KeyOf(d) /\ did'[x] = "done"
                                            /\ Request[x].action = Request[d].action
                       /\ told'[d] = "forbidden" /\ did'[d] # "none"
                            => did'[d] = "done" /\ keys'[KeyOf(d)] = Completed(d)
                       /\ told'[d] \in {"failed", "blocked", "approval", "expired", "conflict"}
                            => did'[d] \in {"none", "undone"}
    BY DEF AnswersTrue, Completed, Held
  <2>2. CASE d = c
    BY <1>2, <1>3, <2>2 DEF Outcome
  <2>3. CASE d # c
    <3>1. told'[d] = told[d] /\ did'[d] = did[d]
      BY <1>2, <2>3
    <3>2. did[c] # "done"
      BY DEF CallInv, Progress, Working, EndsWith
    <3>3. told[d] = "replayed" =>
            \E x \in Call : /\ KeyOf(x) = KeyOf(d) /\ did'[x] = "done"
                            /\ Request[x].action = Request[d].action
      BY <1>2, <3>2 DEF CallInv, AnswersTrue
    <3>4. told[d] = "forbidden" /\ did[d] # "none"
            => did[d] = "done" /\ keys'[KeyOf(d)] = Completed(d)
      <4>1. told[d] = "forbidden" /\ did[d] # "none"
              => did[d] = "done" /\ keys[KeyOf(d)] = Completed(d)
        BY DEF CallInv, AnswersTrue
      <4>. QED BY <1>3, <1>6, <1>7, <4>1
    <3>. QED BY <3>1, <3>3, <3>4 DEF CallInv, AnswersTrue
  <2>. QED BY <2>2, <2>3
<1>. QED BY <1>8, <1>9, <1>10, <1>11, <1>12, <1>13 DEF CallInv

(* The steps that end a call's work, each with its outcome.                *)
Ending(c) ==
  \/ Withdrawn(c) \/ Blocked(c) \/ FailsEarly(c) \/ SpawnJob(c)
  \/ Applied(c) \/ Unrecorded(c) \/ Restored(c) \/ Partial(c)

LEMMA EndingOutcome ==
  ASSUME CallsTyped, CallInv, NEW c \in Call, Ending(c)
  PROVE  \E a \in Answer, e \in Effect, r \in {NoReceipt, Reserved(c), Completed(c)} :
           EndsWith(c, a, e, r) /\ Outcome(c, a, e, r)
<1>1. \A e : did[c] = e => did = [did EXCEPT ![c] = e]
  BY DEF CallsTyped
<1>2. Working(c) => keys = [keys EXCEPT ![KeyOf(c)] = Reserved(c)]
  BY KeysAreKeys DEF CallsTyped, CallInv, Keys
<1>3. stage[c] = "backup" => Working(c) /\ did[c] = "none"
  BY DEF Working, CallInv, Progress
<1>4. stage[c] = "running" => Working(c)
  BY DEF Working
<1>5. Reserved(c) # NoReceipt /\ Completed(c) # NoReceipt /\ Reserved(c) # Completed(c)
  BY DEF Reserved, Completed, Held, NoReceipt
<1>6. CASE Withdrawn(c)
  <2>1. EndsWith(c, "forbidden", "none", NoReceipt)
    BY <1>1, <1>3, <1>6 DEF Withdrawn, AfterBackup, EndsWith
  <2>2. Outcome(c, "forbidden", "none", NoReceipt)
    BY <1>5 DEF Outcome, Answer
  <2>. QED BY <2>1, <2>2 DEF Answer, Effect
<1>7. CASE Blocked(c)
  <2>1. EndsWith(c, "blocked", "none", Reserved(c))
    BY <1>1, <1>2, <1>3, <1>7 DEF Blocked, AfterBackup, EndsWith, SetKey
  <2>2. Outcome(c, "blocked", "none", Reserved(c))
    BY <1>5 DEF Outcome, Answer
  <2>. QED BY <2>1, <2>2 DEF Answer, Effect
<1>8. CASE FailsEarly(c)
  <2>1. EndsWith(c, "failed", "none", NoReceipt)
    BY <1>1, <1>3, <1>8 DEF FailsEarly, AfterBackup, EndsWith
  <2>2. Outcome(c, "failed", "none", NoReceipt)
    BY <1>5 DEF Outcome, Answer
  <2>. QED BY <2>1, <2>2 DEF Answer, Effect
<1>9. CASE SpawnJob(c)
  <2>1. EndsWith(c, "ok", "done", Completed(c))
    BY <1>3, <1>9 DEF SpawnJob, AfterBackup, EndsWith
  <2>2. Outcome(c, "ok", "done", Completed(c))
    BY <1>5 DEF Outcome, Answer
  <2>. QED BY <2>1, <2>2 DEF Answer, Effect
<1>10. CASE Applied(c)
  <2>1. Reply(c) \in {"ok", "forbidden"}
    BY DEF Reply
  <2>2. \A a : Reply(c) = a => EndsWith(c, a, "done", Completed(c))
    BY <1>4, <1>10 DEF Applied, EndsWith
  <2>3. \A a \in {"ok", "forbidden"} : Outcome(c, a, "done", Completed(c))
    BY <1>5 DEF Outcome, Answer
  <2>. QED BY <2>1, <2>2, <2>3 DEF Answer, Effect
<1>11. CASE Unrecorded(c)
  <2>1. EndsWith(c, "unrecorded", "done", NoReceipt)
    BY <1>4, <1>11 DEF Unrecorded, EndsWith
  <2>2. Outcome(c, "unrecorded", "done", NoReceipt)
    BY <1>5 DEF Outcome, Answer
  <2>. QED BY <2>1, <2>2 DEF Answer, Effect
<1>12. CASE Restored(c)
  <2>1. EndsWith(c, "failed", "undone", NoReceipt)
    BY <1>4, <1>12 DEF Restored, EndsWith
  <2>2. Outcome(c, "failed", "undone", NoReceipt)
    BY <1>5 DEF Outcome, Answer
  <2>. QED BY <2>1, <2>2 DEF Answer, Effect
<1>13. CASE Partial(c)
  <2>1. EndsWith(c, "partial", "unknown", Reserved(c))
    BY <1>2, <1>4, <1>13 DEF Partial, EndsWith, SetKey
  <2>2. Outcome(c, "partial", "unknown", Reserved(c))
    BY <1>5 DEF Outcome, Answer
  <2>. QED BY <2>1, <2>2 DEF Answer, Effect
<1>. QED BY <1>6, <1>7, <1>8, <1>9, <1>10, <1>11, <1>12, <1>13 DEF Ending

(* The first write: from now on the effect is begun.                       *)
LEMMA Begins ==
  ASSUME CallsTyped, CallInv, NEW c \in Call, StartWrites(c)
  PROVE  CallInv'
<1>1. stage[c] = "backup" /\ UNCHANGED <<told, atStart, spent, turn, keys>>
  BY DEF StartWrites, AfterBackup
<1>2. \A d \in Call : /\ stage'[d] = IF d = c THEN "running" ELSE stage[d]
                      /\ did'[d] = IF d = c THEN "begun" ELSE did[d]
  BY DEF StartWrites, CallsTyped
<1>3. did[c] = "none" /\ told[c] = "none" /\ keys[KeyOf(c)] = Reserved(c) /\ turn = c
  BY <1>1 DEF CallInv, Progress, Keys, Turn, Working
<1>4. Reserved(c) # NoReceipt
  BY DEF Reserved, Held, NoReceipt
<1>5. \A d \in Call : Working(d)' <=> Working(d)
  BY <1>1, <1>2 DEF Working
<1>6. Turn' /\ Gated'
  BY <1>1, <1>5 DEF CallInv, Turn, Gated
<1>7. Progress'
  BY <1>1, <1>2, <1>3 DEF CallInv, Progress
<1>8. \A d \in Call : d # c => (TookHold(d)' <=> TookHold(d))
  BY <1>2 DEF TookHold
<1>9. Keys'
  <2>1. \A d \in Call : Working(d) => d = c
    BY <1>3, <1>5 DEF CallInv, Turn
  <2>. QED BY <1>1, <1>3, <1>4, <1>5, <1>8, <2>1 DEF CallInv, Keys, Reserved
<1>10. Receipts'
  BY <1>1, <1>2, <1>3 DEF CallInv, Receipts, Completed
<1>11. KeyRunsOnce'
  <2>1. Working(c)
    BY <1>1 DEF Working
  <2>. QED BY <1>1, <1>8, <2>1 DEF CallInv, Keys, KeyRunsOnce
<1>12. AnswersTrue'
  BY <1>1, <1>2, <1>3 DEF CallInv, AnswersTrue, Completed
<1>. QED BY <1>6, <1>7, <1>9, <1>10, <1>11, <1>12 DEF CallInv

(* A restart interrupts every call and keeps every key.                    *)
LEMMA Restarts ==
  ASSUME CallsTyped, CallInv, Restart
  PROVE  CallInv'
<1>1. UNCHANGED <<told, atStart, spent, keys>> /\ turn' = None
  BY DEF Restart
<1>2. \A d \in Call : /\ stage'[d] = IF stage[d] = "idle" THEN "idle" ELSE "over"
                      /\ did'[d] = IF did[d] = "begun" THEN "unknown" ELSE did[d]
  BY DEF Restart
<1>3. \A d \in Call : ~Working(d)' /\ (TookHold(d)' <=> TookHold(d))
  BY <1>2 DEF Working, TookHold
<1>4. Turn' /\ Gated'
  BY <1>1, <1>3, CallAssumption DEF Turn, Gated
<1>5. Progress'
  BY <1>1, <1>2 DEF CallInv, Progress
<1>6. Keys' /\ KeyRunsOnce'
  BY <1>1, <1>3 DEF CallInv, Keys, KeyRunsOnce
<1>7. Receipts'
  BY <1>1, <1>2 DEF CallInv, Receipts, Completed
<1>8. AnswersTrue'
  BY <1>1, <1>2 DEF CallInv, AnswersTrue, Completed
<1>. QED BY <1>4, <1>5, <1>6, <1>7, <1>8 DEF CallInv

LEMMA CallsStep ==
  ASSUME TypeOK, CallInv, [Next]_vars
  PROVE  CallInv'
<1>1. CallsTyped
  BY DEF TypeOK
<1>2. CASE UNCHANGED callVars
  <2>1. UNCHANGED stage /\ UNCHANGED told /\ UNCHANGED atStart /\ UNCHANGED spent
        /\ UNCHANGED did /\ UNCHANGED turn /\ UNCHANGED keys
    BY <1>2 DEF callVars
  <2>2. Turn' /\ Progress' /\ Gated'
    BY <2>1 DEF CallInv, Turn, Progress, Gated, Working
  <2>3. Keys' /\ Receipts'
    BY <2>1 DEF CallInv, Keys, Receipts, Working, TookHold, Reserved, Completed
  <2>4. KeyRunsOnce' /\ AnswersTrue'
    BY <2>1 DEF CallInv, KeyRunsOnce, AnswersTrue, TookHold, Completed
  <2>. QED BY <2>2, <2>3, <2>4 DEF CallInv
<1>3. ASSUME NEW c \in Call, Submit(c) \/ Step(c)
      PROVE  CallInv'
  <2>1. CASE Submit(c) \/ RefusedQueued(c) \/ GateStops(c)
    BY <2>1, Waits
  <2>2. CASE Duplicate(c)
    BY <2>2, Replays
  <2>3. CASE Reserve(c)
    BY <2>3, Reserves
  <2>4. CASE StartWrites(c)
    BY <1>1, <2>4, Begins
  <2>5. CASE Ending(c)
    <3>1. PICK a \in Answer, e \in Effect, r \in {NoReceipt, Reserved(c), Completed(c)} :
                 EndsWith(c, a, e, r) /\ Outcome(c, a, e, r)
      BY <1>1, <2>5, EndingOutcome
    <3>. QED BY <1>1, <3>1, Ends
  <2>. QED BY <1>3, <2>1, <2>2, <2>3, <2>4, <2>5 DEF Step, Ending
<1>4. CASE Restart
  BY <1>1, <1>4, Restarts
<1>. QED BY <1>2, <1>3, <1>4, NextCases

-----------------------------------------------------------------------------
(* The approval table.                                                     *)

LEMMA MaxOfSome ==
  ASSUME NEW n \in Nat, NEW S \in SUBSET (1..n), S # {}
  PROVE  Max(S) \in S
<1>. DEFINE R == OpToRel(<, Nat)
            T == {k \in Nat : \E x \in S : k = n - x}
<1>1. PICK x0 \in S : TRUE
  OBVIOUS
<1>2. T \subseteq Nat /\ T # {}
  <2>1. n - x0 \in Nat
    BY <1>1
  <2>. QED BY <1>1, <2>1
<1>3. PICK k \in T : \A y \in T : ~(<<y, k>> \in R)
  <2>. HIDE DEF T, R
  <2>1. IsWellFoundedOn(R, Nat)
    BY NatLessThanWellFounded DEF R
  <2>. QED BY <1>2, <2>1, WFMin
<1>4. \A y \in T : y \in Nat /\ k \in Nat /\ ~(y < k)
  BY <1>3 DEF OpToRel
<1>5. PICK x \in S : k = n - x
  OBVIOUS
<1>6. \A y \in S : x >= y
  <2>1. TAKE y \in S
  <2>2. n - y \in T
    OBVIOUS
  <2>. QED BY <1>4, <1>5, <2>2
<1>. QED BY <1>5, <1>6 DEF Max

LEMMA FoundMatches ==
  ASSUME RowsTyped, NEW c \in Call, Found[c] > 0
  PROVE  /\ Found[c] \in DOMAIN approvals
         /\ approvals[Found[c]].kind = "action"
         /\ approvals[Found[c]].subject = Subject(c)
         /\ CanDeny(Found[c])
<1>. DEFINE M == Matching(Subject(c))
<1>1. Found[c] = IF M = {} THEN 0 ELSE Max(M)
  BY DEF Found, FindAction
<1>2. M # {}
  BY <1>1
<1>3. M \subseteq 1..Len(approvals) /\ Len(approvals) \in Nat
  BY DEF Matching, RowsTyped
<1>4. Max(M) \in M
  <2>. HIDE DEF M
  <2>. QED BY <1>2, <1>3, MaxOfSome
<1>. QED BY <1>1, <1>2, <1>4 DEF Matching, Findable, CanDeny

(* A row never changes what it was asked for, and its end is an end.       *)
Kept(old, new) ==
  /\ new.kind = old.kind /\ new.subject = old.subject /\ new.epoch = old.epoch
  /\ old.status \in {"consumed", "denied"} => new.status = old.status

TableKept(rows) == \A i \in 1..Len(approvals) : Kept(approvals[i], rows[i])

LEMMA StatusChange ==
  ASSUME RowsTyped, NEW i \in DOMAIN approvals, CanDeny(i), NEW s \in ApprovalStatus
  PROVE  /\ WithStatus(i, s) \in Seq(ApprovalRow)
         /\ Len(WithStatus(i, s)) = Len(approvals)
         /\ TableKept(WithStatus(i, s))
         /\ WithStatus(i, s)[i].status = s
         /\ \A j \in 1..Len(approvals) : j # i => WithStatus(i, s)[j] = approvals[j]
<1>1. i \in 1..Len(approvals) /\ approvals \in Seq(ApprovalRow)
  BY DEF RowsTyped
<1>2. approvals[i] \in ApprovalRow
  BY <1>1, ElementOfSeq
<1>. DEFINE new == [approvals[i] EXCEPT !.status = s]
<1>3. new \in ApprovalRow /\ Kept(approvals[i], new) /\ new.status = s
  BY <1>2 DEF ApprovalRow, Kept, CanDeny
<1>4. WithStatus(i, s) = [approvals EXCEPT ![i] = new]
  BY DEF WithStatus
<1>. HIDE DEF new
<1>5. /\ WithStatus(i, s) \in Seq(ApprovalRow)
      /\ Len(WithStatus(i, s)) = Len(approvals)
      /\ \A j \in 1..Len(approvals) : WithStatus(i, s)[j] = IF j = i THEN new ELSE approvals[j]
  BY <1>1, <1>3, <1>4, ExceptSeq
<1>. QED BY <1>1, <1>3, <1>5 DEF TableKept, Kept

LEMMA LateChange ==
  ASSUME RowsTyped, NEW i \in DOMAIN approvals, ApprovalExpires(i)
  PROVE  /\ approvals' \in Seq(ApprovalRow)
         /\ Len(approvals') = Len(approvals)
         /\ TableKept(approvals')
         /\ \A j \in 1..Len(approvals) : approvals'[j].status = approvals[j].status
<1>1. i \in 1..Len(approvals) /\ approvals \in Seq(ApprovalRow)
  BY DEF RowsTyped
<1>2. approvals[i] \in ApprovalRow
  BY <1>1, ElementOfSeq
<1>. DEFINE new == [approvals[i] EXCEPT !.late = TRUE]
<1>3. new \in ApprovalRow /\ Kept(approvals[i], new) /\ new.status = approvals[i].status
  BY <1>2 DEF ApprovalRow, Kept
<1>4. approvals' = [approvals EXCEPT ![i] = new]
  BY DEF ApprovalExpires
<1>. HIDE DEF new
<1>5. /\ approvals' \in Seq(ApprovalRow)
      /\ Len(approvals') = Len(approvals)
      /\ \A j \in 1..Len(approvals) : approvals'[j] = IF j = i THEN new ELSE approvals[j]
  BY <1>1, <1>3, <1>4, ExceptSeq
<1>. QED BY <1>1, <1>3, <1>5 DEF TableKept, Kept

LEMMA NewRow ==
  ASSUME NEW rows \in Seq(ApprovalRow), NEW row \in ApprovalRow
  PROVE  /\ Append(rows, row) \in Seq(ApprovalRow)
         /\ Len(Append(rows, row)) = Len(rows) + 1
         /\ \A i \in 1..Len(rows) : Append(rows, row)[i] = rows[i]
         /\ Append(rows, row)[Len(rows) + 1] = row
OBVIOUS

LEMMA DeletionChange ==
  ASSUME RowsTyped, NEW c \in Client, DeleteClient(c)
  PROVE  /\ approvals' \in Seq(ApprovalRow)
         /\ Len(approvals') = Len(approvals)
         /\ TableKept(approvals')
         /\ \A i \in 1..Len(approvals) :
              /\ approvals'[i].status \in {approvals[i].status, "denied"}
              /\ RowBelongsTo(approvals[i], c) => approvals'[i].status \in {"denied", "consumed"}
<1>. DEFINE new(i) == IF RowBelongsTo(approvals[i], c) /\ CanDeny(i)
                      THEN [approvals[i] EXCEPT !.status = "denied"]
                      ELSE approvals[i]
<1>1. /\ approvals \in Seq(ApprovalRow) /\ Len(approvals) \in Nat
      /\ DOMAIN approvals = 1..Len(approvals)
  BY DEF RowsTyped
<1>2. \A i \in 1..Len(approvals) : approvals[i] \in ApprovalRow
  BY <1>1, ElementOfSeq
<1>3. ASSUME NEW i \in 1..Len(approvals)
      PROVE  /\ new(i) \in ApprovalRow
             /\ Kept(approvals[i], new(i))
             /\ new(i).status \in {approvals[i].status, "denied"}
             /\ RowBelongsTo(approvals[i], c) => new(i).status \in {"denied", "consumed"}
  <2>1. approvals[i] \in ApprovalRow
    BY <1>2
  <2>2. CASE RowBelongsTo(approvals[i], c) /\ CanDeny(i)
    <3>1. new(i) = [approvals[i] EXCEPT !.status = "denied"]
      BY <2>2
    <3>. HIDE DEF new
    <3>. QED BY <2>1, <2>2, <3>1 DEF ApprovalRow, ApprovalStatus, Kept, CanDeny
  <2>3. CASE ~(RowBelongsTo(approvals[i], c) /\ CanDeny(i))
    <3>1. new(i) = approvals[i]
      BY <2>3
    <3>. HIDE DEF new
    <3>. QED BY <2>1, <2>3, <3>1 DEF ApprovalRow, ApprovalStatus, Kept, CanDeny
  <2>. QED BY <2>2, <2>3
<1>4. approvals' = [i \in 1..Len(approvals) |-> new(i)]
  BY <1>1 DEF DeleteClient
<1>. HIDE DEF new
<1>5. approvals' \in Seq(ApprovalRow) /\ Len(approvals') = Len(approvals)
  BY <1>1, <1>3, <1>4
<1>. QED BY <1>3, <1>4, <1>5 DEF TableKept

LEMMA SubjectTyped ==
  ASSUME CallsTyped, NEW c \in Call
  PROVE  /\ Subject(c) \in RowSubject
         /\ NewApproval("action", Subject(c), epoch) \in ApprovalRow
<1>1. Request[c].grant \in Flow /\ Request[c].class \in Class /\ Request[c].action \in Action
  BY CallAssumption DEF Action
<1>2. Subject(c) \in RowSubject
  BY <1>1 DEF Subject, RowSubject, CallsTyped
<1>. QED BY <1>2 DEF NewApproval, ApprovalRow, ApprovalStatus, CallsTyped

(* What the gate's request does: one row more, and at most one row denied. *)
LEMMA Asks ==
  ASSUME TypeOK, NEW c \in Call, AskOwner(c)
  PROVE  /\ approvals' \in Seq(ApprovalRow)
         /\ Len(approvals') = Len(approvals) + 1 /\ Len(approvals') <= MaxRows
         /\ TableKept(approvals')
         /\ \A i \in 1..Len(approvals) :
              approvals'[i].status \in {approvals[i].status, "denied"}
         /\ approvals'[Len(approvals) + 1] = NewApproval("action", Subject(c), epoch)
<1>1. RowsTyped /\ CallsTyped
  BY DEF TypeOK
<1>. DEFINE rows == IF Stale(c) THEN WithStatus(Found[c], "denied") ELSE approvals
            row == NewApproval("action", Subject(c), epoch)
<1>2. /\ rows \in Seq(ApprovalRow) /\ Len(rows) = Len(approvals) /\ TableKept(rows)
      /\ \A i \in 1..Len(approvals) : rows[i].status \in {approvals[i].status, "denied"}
  <2>1. CASE Stale(c)
    <3>1. Found[c] \in DOMAIN approvals /\ CanDeny(Found[c])
      BY <1>1, <2>1, FoundMatches DEF Stale
    <3>2. "denied" \in ApprovalStatus
      BY DEF ApprovalStatus
    <3>3. /\ WithStatus(Found[c], "denied") \in Seq(ApprovalRow)
          /\ Len(WithStatus(Found[c], "denied")) = Len(approvals)
          /\ TableKept(WithStatus(Found[c], "denied"))
          /\ WithStatus(Found[c], "denied")[Found[c]].status = "denied"
          /\ \A j \in 1..Len(approvals) :
               j # Found[c] => WithStatus(Found[c], "denied")[j] = approvals[j]
      BY <1>1, <3>1, <3>2, StatusChange
    <3>. QED BY <2>1, <3>3
  <2>2. CASE ~Stale(c)
    BY <1>1, <2>2 DEF RowsTyped, TableKept, Kept
  <2>. QED BY <2>1, <2>2
<1>3. row \in ApprovalRow
  BY <1>1, SubjectTyped
<1>4. approvals' = Append(rows, row) /\ Len(approvals) < MaxRows
  BY DEF AskOwner, RoomForRow
<1>5. Len(approvals) \in Nat /\ MaxRows \in Nat
  BY <1>1, RowsAssumption DEF RowsTyped
<1>. HIDE DEF rows, row
<1>6. /\ approvals' \in Seq(ApprovalRow) /\ Len(approvals') = Len(approvals) + 1
      /\ \A i \in 1..Len(approvals) : approvals'[i] = rows[i]
      /\ approvals'[Len(approvals) + 1] = row
  BY <1>2, <1>3, <1>4, NewRow
<1>7. Len(approvals') <= MaxRows
  BY <1>4, <1>5, <1>6
<1>. QED BY <1>2, <1>6, <1>7 DEF TableKept, row

(* What the gate's consumption does.                                       *)
LEMMA Consumes ==
  ASSUME RowsTyped, NEW c \in Call, Consumable(c), approvals' = WithStatus(Found[c], "consumed")
  PROVE  /\ approvals' \in Seq(ApprovalRow)
         /\ Len(approvals') = Len(approvals)
         /\ TableKept(approvals')
         /\ \A i \in 1..Len(approvals) :
              approvals'[i].status \in {approvals[i].status, "consumed"}
         /\ approvals[Found[c]].status = "approved" /\ approvals'[Found[c]].status = "consumed"
<1>1. Found[c] \in DOMAIN approvals /\ CanDeny(Found[c]) /\ "consumed" \in ApprovalStatus
  BY FoundMatches DEF Consumable, ApprovalStatus
<1>2. /\ WithStatus(Found[c], "consumed") \in Seq(ApprovalRow)
      /\ Len(WithStatus(Found[c], "consumed")) = Len(approvals)
      /\ TableKept(WithStatus(Found[c], "consumed"))
      /\ WithStatus(Found[c], "consumed")[Found[c]].status = "consumed"
      /\ \A j \in 1..Len(approvals) :
           j # Found[c] => WithStatus(Found[c], "consumed")[j] = approvals[j]
  BY <1>1, StatusChange
<1>. QED BY <1>2 DEF Consumable, CanConsume

(* Every step of the system keeps the rows there are, and asks nothing     *)
(* more for a client that is gone.                                         *)
RowsMove ==
  /\ RowsTyped' /\ TableKept(approvals') /\ Len(approvals) <= Len(approvals')
  /\ \A i \in 1..Len(approvals') : i > Len(approvals) =>
       \A c \in Client \ clients : ~RowBelongsTo(approvals'[i], c)

(* No row is added.                                                        *)
LEMMA SameRows ==
  ASSUME RowsTyped, approvals' \in Seq(ApprovalRow), Len(approvals') = Len(approvals),
         TableKept(approvals')
  PROVE  RowsMove
<1>1. Len(approvals) \in Nat
  BY DEF RowsTyped
<1>. QED BY <1>1 DEF RowsTyped, RowsMove

LEMMA NothingMoves == ASSUME RowsTyped, UNCHANGED approvals PROVE RowsMove
<1>1. TableKept(approvals')
  BY DEF TableKept, Kept
<1>. QED BY <1>1, SameRows DEF RowsTyped

LEMMA AskMoves ==
  ASSUME TypeOK, NEW c \in Call, AskOwner(c), Scoped(c)
  PROVE  RowsMove
<1>1. /\ approvals' \in Seq(ApprovalRow)
      /\ Len(approvals') = Len(approvals) + 1 /\ Len(approvals') <= MaxRows
      /\ TableKept(approvals')
      /\ approvals'[Len(approvals) + 1] = NewApproval("action", Subject(c), epoch)
  BY Asks
<1>2. Len(approvals) \in Nat
  BY DEF TypeOK, RowsTyped
<1>3. ClientOf[Request[c].grant] \in clients
  BY DEF Scoped, Effective, Live
<1>4. \A x \in Client \ clients : ~RowBelongsTo(NewApproval("action", Subject(c), epoch), x)
  BY <1>3 DEF RowBelongsTo, NewApproval, Subject, GrantsOf
<1>5. \A i \in 1..Len(approvals') : i > Len(approvals) => i = Len(approvals) + 1
  BY <1>1, <1>2
<1>. QED BY <1>1, <1>2, <1>4, <1>5 DEF RowsMove, RowsTyped

LEMMA VisitMoves ==
  ASSUME TypeOK, NEW f \in Flow, Visit(f)
  PROVE  RowsMove
<1>. DEFINE row == NewApproval("oauth", f, InstallationEpoch)
<1>1. row \in ApprovalRow /\ row.kind = "oauth" /\ row.subject = f
  BY DEF NewApproval, ApprovalRow, ApprovalStatus, RowSubject, InstallationEpoch
<1>2. approvals \in Seq(ApprovalRow) /\ Len(approvals) \in Nat /\ MaxRows \in Nat
  BY RowsAssumption DEF TypeOK, RowsTyped
<1>3. approvals' = Append(approvals, row) /\ Len(approvals) < MaxRows /\ ClientOf[f] \in clients
  BY DEF Visit, RoomForRow
<1>. HIDE DEF row
<1>4. /\ approvals' \in Seq(ApprovalRow) /\ Len(approvals') = Len(approvals) + 1
      /\ \A i \in 1..Len(approvals) : approvals'[i] = approvals[i]
      /\ approvals'[Len(approvals) + 1] = row
  BY <1>1, <1>2, <1>3, NewRow
<1>5. TableKept(approvals') /\ RowsTyped'
  BY <1>2, <1>3, <1>4 DEF TableKept, Kept, RowsTyped
<1>6. \A x \in Client \ clients : ~RowBelongsTo(row, x)
  BY <1>1, <1>3 DEF RowBelongsTo
<1>7. \A i \in 1..Len(approvals') : i > Len(approvals) => i = Len(approvals) + 1
  BY <1>2, <1>4
<1>. QED BY <1>2, <1>4, <1>5, <1>6, <1>7 DEF RowsMove

LEMMA OneRowMoves ==
  ASSUME RowsTyped, NEW i \in DOMAIN approvals, CanDeny(i), NEW s \in ApprovalStatus,
         approvals' = WithStatus(i, s)
  PROVE  RowsMove
<1>1. /\ WithStatus(i, s) \in Seq(ApprovalRow)
      /\ Len(WithStatus(i, s)) = Len(approvals)
      /\ TableKept(WithStatus(i, s))
  BY StatusChange
<1>. QED BY <1>1, SameRows

LEMMA GateMoves ==
  ASSUME RowsTyped, NEW c \in Call, PassGate(c)
  PROVE  RowsMove
<1>1. CASE UNCHANGED approvals
  BY <1>1, NothingMoves
<1>2. CASE Consumable(c) /\ approvals' = WithStatus(Found[c], "consumed")
  BY <1>2, Consumes, SameRows
<1>. QED BY <1>1, <1>2 DEF PassGate

LEMMA RowsStep == ASSUME TypeOK, [Next]_vars PROVE RowsMove
<1>0. RowsTyped
  BY DEF TypeOK
<1>1. ASSUME UNCHANGED approvals PROVE RowsMove
  BY <1>0, <1>1, NothingMoves
<1>2. ASSUME NEW c \in Call, Submit(c) \/ Step(c) PROVE RowsMove
  <2>1. CASE GateStops(c)
    <3>1. CASE AskOwner(c)
      BY <2>1, <3>1, AskMoves DEF GateStops
    <3>2. CASE UNCHANGED approvals
      BY <1>1, <3>2
    <3>. QED BY <2>1, <3>1, <3>2 DEF GateStops
  <2>2. CASE Duplicate(c) \/ Reserve(c)
    BY <1>0, <2>2, GateMoves DEF Duplicate, Reserve
  <2>3. CASE Submit(c) \/ RefusedQueued(c) \/ Withdrawn(c) \/ Blocked(c) \/ FailsEarly(c)
             \/ StartWrites(c) \/ SpawnJob(c) \/ Applied(c) \/ Unrecorded(c) \/ Restored(c) \/ Partial(c)
    <3>1. UNCHANGED approvals
      BY <2>3 DEF Submit, RefusedQueued, Withdrawn, Blocked, FailsEarly, StartWrites,
                  SpawnJob, Applied, Unrecorded, Restored, Partial
    <3>. QED BY <1>1, <3>1
  <2>. QED BY <1>2, <2>1, <2>2, <2>3 DEF Step
<1>3. CASE Row(OwnerApproves) \/ Row(OwnerDenies)
  <2>1. PICK i \in DOMAIN approvals, s \in {"approved", "denied"} :
               CanDeny(i) /\ approvals' = WithStatus(i, s)
    BY <1>3 DEF Row, OwnerApproves, OwnerDenies, CanApprove, CanDeny
  <2>. QED BY <1>0, <2>1, OneRowMoves DEF ApprovalStatus
<1>4. CASE Row(ApprovalExpires)
  BY <1>0, <1>4, LateChange, SameRows DEF Row
<1>5. CASE \E c \in Client : DeleteClient(c)
  BY <1>0, <1>5, DeletionChange, SameRows
<1>6. CASE Policy
  <2>1. UNCHANGED approvals \/ \E c \in Client : DeleteClient(c)
    BY <1>6 DEF Policy, Revoke, TokenExpires, SetAccess, SetLevel, SetAccessMode
  <2>. QED BY <1>1, <1>5, <2>1
<1>7. ASSUME NEW f \in Flow, Complete(f) PROVE RowsMove
  <2>1. PICK i \in RowOf(f) : CanConsume(i) /\ approvals' = WithStatus(i, "consumed")
    BY <1>7 DEF Complete
  <2>2. i \in DOMAIN approvals /\ CanDeny(i) /\ "consumed" \in ApprovalStatus
    BY <2>1 DEF RowOf, CanConsume, CanDeny, ApprovalStatus
  <2>. QED BY <1>0, <2>1, <2>2, OneRowMoves
<1>8. CASE Connect
  <2>1. \E f \in Flow : Visit(f) \/ Complete(f) \/ UNCHANGED approvals
    BY <1>8 DEF Connect, GrantSaved, IssueToken
  <2>. QED BY <1>1, <1>7, <2>1, VisitMoves
<1>9. CASE (\E m \in Trust : SetTrust(m)) \/ Restart \/ UNCHANGED vars
  <2>1. UNCHANGED approvals
    BY <1>9 DEF SetTrust, Restart, vars
  <2>. QED BY <1>1, <2>1
<1>. QED BY <1>2, <1>3, <1>4, <1>6, <1>8, <1>9 DEF Next

-----------------------------------------------------------------------------
(* Types.                                                                  *)

LEMMA InitTypes == ASSUME Init PROVE TypeOK
<1>1. RowsTyped
  <2>1. << >> \in Seq(ApprovalRow) /\ Len(<< >>) = 0
    BY EmptySeq
  <2>. QED BY <2>1, RowsAssumption DEF Init, RowsTyped
<1>2. AuthTyped
  BY FlowAssumption DEF Init, AuthInit, AuthTyped, Level
<1>3. CallsTyped
  BY RowsAssumption DEF Init, CallsTyped, Trust, Stage, Answer, Effect, Receipt
<1>. QED BY <1>1, <1>2, <1>3 DEF TypeOK

LEMMA AuthStep == ASSUME AuthTyped, [Next]_vars PROVE AuthTyped'
<1>1. CASE UNCHANGED authVars
  BY <1>1 DEF AuthTyped, authVars
<1>2. CASE Policy
  <2>1. ASSUME NEW f \in Flow, Revoke(f) \/ TokenExpires(f) PROVE AuthTyped'
    BY <2>1 DEF Revoke, TokenExpires, AuthTyped
  <2>2. ASSUME NEW c \in Client, DeleteClient(c) PROVE AuthTyped'
    BY <2>2 DEF DeleteClient, GrantsOf, AuthTyped
  <2>3. policies < MaxPolicy /\ policies' = policies + 1 => policies' \in 0..MaxPolicy
    BY FlowAssumption DEF AuthTyped
  <2>4. ASSUME NEW c \in Client, NEW s \in Lists, SetAccess(c, s) PROVE AuthTyped'
    BY <2>3, <2>4, FlowAssumption DEF SetAccess, PolicyChange, AuthTyped
  <2>5. ASSUME NEW l \in Levels, SetLevel(l) PROVE AuthTyped'
    BY <2>3, <2>5, FlowAssumption DEF SetLevel, PolicyChange, AuthTyped
  <2>6. ASSUME NEW p \in BOOLEAN, SetAccessMode(p) PROVE AuthTyped'
    BY <2>3, <2>6 DEF SetAccessMode, PolicyChange, AuthTyped
  <2>. QED BY <1>2, <2>1, <2>2, <2>4, <2>5, <2>6 DEF Policy
<1>3. CASE Connect
  BY <1>3 DEF Connect, Visit, Complete, GrantSaved, IssueToken, AuthTyped, authVars
<1>4. CASE Restart
  BY <1>4 DEF Restart, ForgetCompletions, AuthTyped
<1>5. ASSUME NEW c \in Call, Submit(c) \/ Step(c) PROVE UNCHANGED authVars
  BY <1>5 DEF Submit, Step, RefusedQueued, GateStops, Duplicate, Reserve, Withdrawn, Blocked,
              FailsEarly, StartWrites, SpawnJob, Applied, Unrecorded, Restored, Partial
<1>6. CASE (\E m \in Trust : SetTrust(m)) \/ Row(OwnerApproves) \/ Row(OwnerDenies)
           \/ Row(ApprovalExpires) \/ UNCHANGED vars
  <2>1. UNCHANGED authVars
    BY <1>6 DEF SetTrust, Row, vars
  <2>. QED BY <1>1, <2>1
<1>. QED BY <1>1, <1>2, <1>3, <1>4, <1>5, <1>6 DEF Next

LEMMA ReceiptTyped ==
  ASSUME NEW c \in Call
  PROVE  NoReceipt \in Receipt /\ Reserved(c) \in Receipt /\ Completed(c) \in Receipt
BY DEF Receipt, Reserved, Completed, Held, Action

LEMMA GateTyped ==
  ASSUME RowsTyped, CallsTyped, NEW c \in Call, PassGate(c)
  PROVE  atStart' \in [Call -> Trust] /\ spent' \in [Call -> 0..MaxRows]
<1>1. TrustMode \in Trust
  BY DEF TrustMode, CallsTyped, Trust
<1>2. Consumable(c) => Found[c] \in 0..MaxRows
  BY FoundMatches, RowsAssumption DEF Consumable, RowsTyped
<1>. QED BY <1>1, <1>2 DEF PassGate, CallsTyped

LEMMA CallsTypedStep == ASSUME TypeOK, CallInv, [Next]_vars PROVE CallsTyped'
<1>0. RowsTyped /\ CallsTyped
  BY DEF TypeOK
<1>1. CASE UNCHANGED callVars
  <2>1. epoch' \in Nat /\ version' \in Nat /\ trust' \in Trust
    <3>1. CASE \E m \in Trust : SetTrust(m)
      BY <1>0, <3>1 DEF SetTrust, CallsTyped
    <3>2. CASE Restart
      BY <1>0, <3>2 DEF Restart, CallsTyped
    <3>3. CASE \E c \in Call : Submit(c) \/ Step(c)
      <4>1. UNCHANGED <<epoch, version, trust>>
        BY <3>3 DEF Submit, Step, RefusedQueued, GateStops, Duplicate, Reserve, Withdrawn, Blocked,
                    FailsEarly, StartWrites, SpawnJob, Applied, Unrecorded, Restored, Partial
      <4>. QED BY <1>0, <4>1 DEF CallsTyped
    <3>4. CASE Row(OwnerApproves) \/ Row(OwnerDenies) \/ Row(ApprovalExpires) \/ Policy
               \/ Connect \/ UNCHANGED vars
      <4>1. UNCHANGED <<epoch, version, trust>>
        BY <3>4 DEF Row, Policy, Connect, vars
      <4>. QED BY <1>0, <4>1 DEF CallsTyped
    <3>. QED BY <3>1, <3>2, <3>3, <3>4 DEF Next
  <2>. QED BY <1>0, <1>1, <2>1 DEF CallsTyped, callVars
<1>2. ASSUME NEW c \in Call, Submit(c) \/ Step(c) PROVE CallsTyped'
  <2>1. CASE Submit(c) \/ RefusedQueued(c) \/ GateStops(c)
    <3>1. UNCHANGED <<epoch, trust, version, atStart, spent, did, turn, keys>>
      BY <2>1 DEF Submit, RefusedQueued, GateStops
    <3>2. stage' \in [Call -> Stage] /\ told' \in [Call -> Answer]
      BY <1>0, <2>1 DEF Submit, RefusedQueued, GateStops, Answered, CallsTyped, Stage, Answer
    <3>. QED BY <1>0, <3>1, <3>2 DEF CallsTyped
  <2>2. CASE Duplicate(c)
    <3>1. UNCHANGED <<epoch, trust, version, did, turn, keys>>
      BY <2>2 DEF Duplicate
    <3>2. atStart' \in [Call -> Trust] /\ spent' \in [Call -> 0..MaxRows]
      BY <1>0, <2>2, GateTyped DEF Duplicate
    <3>3. PICK a \in {"conflict", "replayed", "uncertain"} : Answered(c, a)
      BY <2>2, DuplicateAnswer
    <3>4. stage' \in [Call -> Stage] /\ told' \in [Call -> Answer]
      BY <1>0, <3>3 DEF Answered, CallsTyped, Stage, Answer
    <3>. QED BY <1>0, <3>1, <3>2, <3>4 DEF CallsTyped
  <2>3. CASE Reserve(c)
    <3>1. UNCHANGED <<epoch, trust, version, told, did>>
      BY <2>3 DEF Reserve
    <3>2. atStart' \in [Call -> Trust] /\ spent' \in [Call -> 0..MaxRows]
      BY <1>0, <2>3, GateTyped DEF Reserve
    <3>3. keys' \in [Key -> Receipt] /\ turn' \in Call \cup {None}
      BY <1>0, <2>3, ReceiptTyped DEF Reserve, SetKey, CallsTyped
    <3>4. stage' \in [Call -> Stage]
      BY <1>0, <2>3 DEF Reserve, CallsTyped, Stage
    <3>. QED BY <1>0, <3>1, <3>2, <3>3, <3>4 DEF CallsTyped
  <2>4. CASE StartWrites(c)
    <3>1. UNCHANGED <<epoch, trust, version, told, atStart, spent, turn, keys>>
      BY <2>4 DEF StartWrites
    <3>2. stage' \in [Call -> Stage] /\ did' \in [Call -> Effect]
      BY <1>0, <2>4 DEF StartWrites, CallsTyped, Stage, Effect
    <3>. QED BY <1>0, <3>1, <3>2 DEF CallsTyped
  <2>5. CASE Ending(c)
    <3>1. UNCHANGED <<epoch, trust, version>>
      BY <2>5 DEF Ending, Withdrawn, Blocked, FailsEarly, SpawnJob, Applied, Unrecorded, Restored, Partial
    <3>2. PICK a \in Answer, e \in Effect, r \in {NoReceipt, Reserved(c), Completed(c)} :
                 EndsWith(c, a, e, r)
      BY <1>0, <2>5, EndingOutcome
    <3>3. UNCHANGED <<atStart, spent>> /\ turn' = None
      BY <3>2 DEF EndsWith
    <3>4. stage' \in [Call -> Stage] /\ told' \in [Call -> Answer] /\ did' \in [Call -> Effect]
      BY <1>0, <3>2 DEF EndsWith, Answered, CallsTyped, Stage
    <3>5. keys' \in [Key -> Receipt]
      BY <1>0, <3>2, ReceiptTyped DEF EndsWith, SetKey, CallsTyped
    <3>. QED BY <1>0, <3>1, <3>3, <3>4, <3>5 DEF CallsTyped
  <2>. QED BY <1>2, <2>1, <2>2, <2>3, <2>4, <2>5 DEF Step, Ending
<1>3. CASE Restart
  <2>1. UNCHANGED <<trust, version, told, atStart, spent, keys>> /\ turn' = None /\ epoch' = epoch + 1
    BY <1>3 DEF Restart
  <2>2. stage' \in [Call -> Stage] /\ did' \in [Call -> Effect]
    BY <1>0, <1>3 DEF Restart, CallsTyped, Stage, Effect
  <2>. QED BY <1>0, <2>1, <2>2 DEF CallsTyped
<1>. QED BY <1>1, <1>2, <1>3, NextCases

-----------------------------------------------------------------------------
(* Deleted clients.                                                        *)

LEMMA InitGone == ASSUME Init PROVE DeletedClientGone
BY DEF Init, AuthInit, DeletedClientGone

LEMMA GoneStep ==
  ASSUME TypeOK, DeletedClientGone, [Next]_vars
  PROVE  DeletedClientGone'
<1>0. /\ DOMAIN approvals = 1..Len(approvals) /\ Len(approvals) \in Nat
      /\ DOMAIN approvals' = 1..Len(approvals') /\ Len(approvals') \in Nat
  BY RowsStep DEF TypeOK, RowsTyped, RowsMove
(* Rows of a client that was gone already.                                 *)
<1>1. ASSUME NEW c \in Client \ clients, NEW i \in DOMAIN approvals',
             RowBelongsTo(approvals'[i], c)
      PROVE  approvals'[i].status \in {"denied", "consumed"}
  <2>1. i \in 1..Len(approvals)
    BY <1>0, <1>1, RowsStep DEF RowsMove
  <2>2. Kept(approvals[i], approvals'[i])
    BY <2>1, RowsStep DEF RowsMove, TableKept
  <2>3. RowBelongsTo(approvals[i], c)
    BY <1>1, <2>2 DEF RowBelongsTo, Kept
  <2>4. approvals[i].status \in {"denied", "consumed"}
    BY <1>0, <2>1, <2>3 DEF DeletedClientGone
  <2>. QED BY <2>2, <2>4 DEF Kept
<1>2. ASSUME UNCHANGED clients, UNCHANGED granted, revoked \subseteq revoked'
      PROVE  DeletedClientGone'
  <2>1. \A c \in Client : GrantsOf(c)' = GrantsOf(c)
    BY <1>2 DEF GrantsOf
  <2>2. \A c : \A row : RowBelongsTo(row, c)' <=> RowBelongsTo(row, c)
    BY <1>2 DEF RowBelongsTo, GrantsOf
  <2>. QED BY <1>1, <1>2, <2>1, <2>2 DEF DeletedClientGone
<1>3. ASSUME NEW f \in Flow, GrantSaved(f)
      PROVE  DeletedClientGone'
  <2>1. UNCHANGED approvals /\ UNCHANGED clients /\ UNCHANGED revoked
    BY <1>3 DEF GrantSaved
  <2>2. \A c \in Client \ clients : GrantsOf(c)' = GrantsOf(c)
    BY <1>3 DEF GrantSaved, GrantsOf
  <2>3. \A c \in Client \ clients : \A row : RowBelongsTo(row, c)' <=> RowBelongsTo(row, c)
    BY <2>1, <2>2 DEF RowBelongsTo
  <2>. QED BY <2>1, <2>2, <2>3 DEF DeletedClientGone
<1>4. ASSUME NEW d \in Client, DeleteClient(d)
      PROVE  DeletedClientGone'
  <2>1. /\ clients' = clients \ {d} /\ revoked' = revoked \cup GrantsOf(d)
        /\ UNCHANGED granted
    BY <1>4 DEF DeleteClient
  <2>2. \A c \in Client : GrantsOf(c)' = GrantsOf(c)
    BY <2>1 DEF GrantsOf
  <2>3. \A c : \A row : RowBelongsTo(row, c)' <=> RowBelongsTo(row, c)
    BY <2>1 DEF RowBelongsTo, GrantsOf
  <2>4. ASSUME NEW i \in DOMAIN approvals', RowBelongsTo(approvals'[i], d)
        PROVE  approvals'[i].status \in {"denied", "consumed"}
    <3>1. RowsTyped
      BY DEF TypeOK
    <3>2. /\ Len(approvals') = Len(approvals) /\ TableKept(approvals')
          /\ \A k \in 1..Len(approvals) :
               RowBelongsTo(approvals[k], d) => approvals'[k].status \in {"denied", "consumed"}
      BY <1>4, <3>1, DeletionChange
    <3>3. i \in 1..Len(approvals) /\ Kept(approvals[i], approvals'[i])
      BY <1>0, <3>2 DEF TableKept
    <3>4. RowBelongsTo(approvals[i], d)
      BY <2>4, <3>3 DEF RowBelongsTo, Kept
    <3>. QED BY <3>2, <3>3, <3>4
  <2>. QED BY <1>1, <2>1, <2>2, <2>3, <2>4 DEF DeletedClientGone
<1>5. \/ UNCHANGED clients /\ UNCHANGED granted /\ revoked \subseteq revoked'
      \/ \E f \in Flow : GrantSaved(f)
      \/ \E c \in Client : DeleteClient(c)
  <2>1. CASE UNCHANGED authVars
    BY <2>1 DEF authVars
  <2>2. CASE Policy
    BY <2>2 DEF Policy, Revoke, TokenExpires, SetAccess, SetLevel, SetAccessMode
  <2>3. CASE Connect
    BY <2>3 DEF Connect, Visit, Complete, IssueToken, authVars
  <2>4. CASE Restart
    BY <2>4 DEF Restart
  <2>5. ASSUME NEW c \in Call, Submit(c) \/ Step(c) PROVE UNCHANGED authVars
    BY <2>5 DEF Submit, Step, RefusedQueued, GateStops, Duplicate, Reserve, Withdrawn, Blocked,
                FailsEarly, StartWrites, SpawnJob, Applied, Unrecorded, Restored, Partial
  <2>6. CASE (\E m \in Trust : SetTrust(m)) \/ Row(OwnerApproves) \/ Row(OwnerDenies)
             \/ Row(ApprovalExpires) \/ UNCHANGED vars
    <3>1. UNCHANGED authVars
      BY <2>6 DEF SetTrust, Row, vars
    <3>. QED BY <2>1, <3>1
  <2>. QED BY <2>1, <2>2, <2>3, <2>4, <2>5, <2>6 DEF Next
<1>. QED BY <1>2, <1>3, <1>4, <1>5

-----------------------------------------------------------------------------
(* Approvals.                                                              *)

LEMMA InitFits == ASSUME Init PROVE Unspent /\ ApprovalFits
BY DEF Init, Unspent, ApprovalFits

LEMMA UnspentStep == ASSUME TypeOK, Unspent, [Next]_vars PROVE Unspent'
<1>0. CallsTyped
  BY DEF TypeOK
<1>1. CASE UNCHANGED callVars
  BY <1>1 DEF Unspent, callVars
<1>2. ASSUME NEW c \in Call, Submit(c) \/ Step(c) PROVE Unspent'
  <2>1. CASE Duplicate(c) \/ Reserve(c)
    <3>1. \A d \in Call \ {c} : spent'[d] = spent[d] /\ stage'[d] = stage[d]
      BY <1>0, <2>1 DEF Duplicate, Reserve, PassGate, Answered, CallsTyped
    <3>2. stage'[c] \notin {"idle", "queued"}
      BY <1>0, <2>1 DEF Duplicate, Reserve, Answered, CallsTyped
    <3>. QED BY <3>1, <3>2 DEF Unspent
  <2>2. CASE Submit(c)
    BY <1>0, <2>2 DEF Submit, Answered, Unspent, CallsTyped
  <2>3. CASE RefusedQueued(c) \/ GateStops(c) \/ StartWrites(c)
    BY <1>0, <2>3 DEF RefusedQueued, GateStops, StartWrites, Answered, Unspent, CallsTyped
  <2>4. CASE Ending(c)
    BY <1>0, <2>4 DEF Ending, Withdrawn, Blocked, FailsEarly, SpawnJob, Applied, Unrecorded,
                      Restored, Partial, Answered, Unspent, CallsTyped
  <2>. QED BY <1>2, <2>1, <2>2, <2>3, <2>4 DEF Step, Ending
<1>3. CASE Restart
  BY <1>3 DEF Restart, Unspent
<1>. QED BY <1>1, <1>2, <1>3, NextCases

(* One call's approval.                                                    *)
Fits(c) ==
  spent[c] # 0 =>
    LET row == approvals[spent[c]] IN
      /\ spent[c] \in DOMAIN approvals
      /\ row.kind = "action" /\ row.status = "consumed"
      /\ row.subject.grant = Request[c].grant
      /\ row.subject.action = Request[c].action
      /\ row.subject.class = Request[c].class
      /\ stage[c] # "over" => row.epoch = epoch
      /\ \A d \in Call \ {c} : spent[d] # spent[c]

LEMMA FitsStep ==
  ASSUME TypeOK, Unspent, ApprovalFits, [Next]_vars
  PROVE  ApprovalFits'
<1>0. RowsTyped /\ CallsTyped /\ RowsMove
  BY RowsStep DEF TypeOK
<1>1. /\ DOMAIN approvals = 1..Len(approvals) /\ Len(approvals) \in Nat
      /\ DOMAIN approvals' = 1..Len(approvals') /\ Len(approvals') \in Nat
      /\ Len(approvals) <= Len(approvals')
  BY <1>0 DEF RowsTyped, RowsMove
(* A call whose approval is not touched.                                   *)
<1>2. ASSUME NEW c \in Call, spent'[c] = spent[c], spent[c] # 0
      PROVE  LET row == approvals'[spent'[c]] IN
               /\ spent'[c] \in DOMAIN approvals'
               /\ row.kind = "action" /\ row.status = "consumed"
               /\ row.subject.grant = Request[c].grant
               /\ row.subject.action = Request[c].action
               /\ row.subject.class = Request[c].class
               /\ stage[c] # "over" => row.epoch = epoch
  <2>1. spent[c] \in DOMAIN approvals /\ Kept(approvals[spent[c]], approvals'[spent[c]])
    BY <1>0, <1>1, <1>2 DEF ApprovalFits, RowsMove, TableKept
  <2>. QED BY <1>1, <1>2, <2>1 DEF ApprovalFits, Kept
<1>3. ASSUME UNCHANGED spent,
             \A c \in Call : stage'[c] # "over" /\ spent[c] # 0 => stage[c] # "over" /\ epoch' = epoch
      PROVE  ApprovalFits'
  BY <1>2, <1>3 DEF ApprovalFits
<1>4. ASSUME NEW c \in Call, PassGate(c), UNCHANGED epoch,
             \A d \in Call \ {c} : stage'[d] = stage[d]
      PROVE  ApprovalFits'
  <2>1. stage[c] = "queued" /\ spent[c] = 0
    BY <1>4 DEF PassGate, MyTurn, Unspent
  <2>2. \A d \in Call \ {c} : spent'[d] = spent[d]
    BY <1>0, <1>4 DEF PassGate, CallsTyped
  <2>3. CASE UNCHANGED spent
    <3>1. \A d \in Call : stage'[d] # "over" /\ spent[d] # 0 => stage[d] # "over" /\ epoch' = epoch
      BY <1>4, <2>1
    <3>. QED BY <1>3, <2>3, <3>1
  <2>4. CASE /\ Consumable(c) /\ approvals' = WithStatus(Found[c], "consumed")
             /\ spent' = [spent EXCEPT ![c] = Found[c]]
    <3>1. spent'[c] = Found[c]
      BY <1>0, <2>4 DEF CallsTyped
    <3>2. /\ Found[c] \in DOMAIN approvals
          /\ approvals[Found[c]].kind = "action"
          /\ approvals[Found[c]].subject = Subject(c)
          /\ approvals[Found[c]].epoch = epoch
      BY <1>0, <2>4, FoundMatches DEF Consumable, Stale
    <3>3. approvals[Found[c]].status = "approved" /\ approvals'[Found[c]].status = "consumed"
      BY <1>0, <2>4, Consumes
    <3>4. Kept(approvals[Found[c]], approvals'[Found[c]]) /\ Found[c] \in DOMAIN approvals'
      BY <1>0, <1>1, <3>2 DEF RowsMove, TableKept
    <3>5. \A d \in Call \ {c} : spent[d] # Found[c]
      BY <1>1, <3>2, <3>3 DEF ApprovalFits
    <3>6. /\ Subject(c).grant = Request[c].grant /\ Subject(c).action = Request[c].action
          /\ Subject(c).class = Request[c].class
      BY DEF Subject
    <3>7. Fits(c)'
      BY <1>4, <2>2, <3>1, <3>2, <3>3, <3>4, <3>5, <3>6 DEF Fits, Kept
    <3>8. ASSUME NEW d \in Call \ {c} PROVE Fits(d)'
      <4>1. spent'[d] = spent[d] /\ stage'[d] = stage[d]
        BY <1>4, <2>2
      <4>2. spent[d] # 0 => \A x \in Call \ {d} : spent'[x] # spent'[d]
        BY <2>2, <3>1, <3>5, <4>1 DEF ApprovalFits
      <4>. QED BY <1>2, <1>4, <4>1, <4>2 DEF Fits
    <3>. QED BY <3>7, <3>8 DEF ApprovalFits, Fits
  <2>. QED BY <1>4, <2>3, <2>4 DEF PassGate
<1>5. ASSUME NEW c \in Call, Submit(c) \/ Step(c) PROVE ApprovalFits'
  <2>1. CASE Duplicate(c) \/ Reserve(c)
    <3>1. PassGate(c) /\ UNCHANGED epoch
      BY <2>1 DEF Duplicate, Reserve
    <3>2. \A d \in Call \ {c} : stage'[d] = stage[d]
      BY <1>0, <2>1 DEF Duplicate, Reserve, Answered, CallsTyped
    <3>. QED BY <1>4, <3>1, <3>2
  <2>2. CASE Submit(c) \/ RefusedQueued(c) \/ GateStops(c) \/ StartWrites(c) \/ Ending(c)
    <3>1. UNCHANGED <<spent, epoch>>
      BY <2>2 DEF Submit, RefusedQueued, GateStops, StartWrites, Ending, Withdrawn, Blocked,
                  FailsEarly, SpawnJob, Applied, Unrecorded, Restored, Partial
    <3>2. \A d \in Call : stage'[d] # "over" => stage[d] # "over"
      BY <1>0, <2>2 DEF Submit, RefusedQueued, GateStops, StartWrites, AfterBackup, MyTurn, Ending,
                  Withdrawn, Blocked, FailsEarly, SpawnJob, Applied, Unrecorded, Restored, Partial,
                  Answered, CallsTyped
    <3>. QED BY <1>3, <3>1, <3>2
  <2>. QED BY <1>5, <2>1, <2>2 DEF Step, Ending
<1>6. CASE Restart
  <2>1. UNCHANGED spent /\ \A d \in Call : stage'[d] # "over" => stage[d] = "idle"
    BY <1>6 DEF Restart
  <2>. QED BY <1>3, <2>1 DEF Unspent
<1>7. CASE UNCHANGED callVars /\ ~Restart
  <2>1. UNCHANGED spent /\ UNCHANGED stage
    BY <1>7 DEF callVars
  <2>2. UNCHANGED epoch \/ \E c \in Call : Submit(c) \/ Step(c)
    BY <1>7 DEF Next, SetTrust, Row, Policy, Connect, vars
  <2>. QED BY <1>3, <1>5, <2>1, <2>2
<1>. QED BY <1>5, <1>6, <1>7, NextCases

-----------------------------------------------------------------------------
(* The theorems.                                                           *)

LEMMA Inductive ==
  /\ Init => IInv
  /\ IInv /\ [Next]_vars => IInv'
<1>1. ASSUME Init PROVE IInv
  BY <1>1, InitTypes, InitCalls, InitFits, InitGone DEF IInv
<1>2. ASSUME IInv, [Next]_vars PROVE IInv'
  <2>1. TypeOK /\ CallInv /\ Unspent /\ ApprovalFits /\ DeletedClientGone
    BY <1>2 DEF IInv
  <2>2. RowsTyped' /\ AuthTyped' /\ CallsTyped'
    BY <1>2, <2>1, RowsStep, AuthStep, CallsTypedStep DEF TypeOK, RowsMove
  <2>. QED BY <1>2, <2>1, <2>2, CallsStep, UnspentStep, FitsStep, GoneStep DEF IInv, TypeOK
<1>. QED BY <1>1, <1>2

LEMMA Invariance == SafeSpec => []IInv
BY Inductive, PTL DEF SafeSpec

(* Every variable keeps its type: the table of approvals never outgrows    *)
(* its bound, nobody but a call holds the turn, a key is free or names the *)
(* action it was used for (context.ts:262-405).                            *)
THEOREM TypeCorrect == SafeSpec => []TypeOK
<1>1. IInv => TypeOK
  BY DEF IInv
<1>. QED BY <1>1, Invariance, PTL

(* However many calls share a key, at most one of them changes the         *)
(* workspace (changeTools.ts:75-80).                                       *)
THEOREM KeyCorrect == SafeSpec => []KeyRunsOnce
<1>1. IInv => KeyRunsOnce
  BY DEF IInv, CallInv
<1>. QED BY <1>1, Invariance, PTL

(* No answer claims more, or less, than what happened (context.ts:360-362, *)
(* changeTools.ts:97-116).                                                 *)
THEOREM AnswersCorrect == SafeSpec => []AnswersTrue
<1>1. IInv => AnswersTrue
  BY DEF IInv, CallInv
<1>. QED BY <1>1, Invariance, PTL

(* An approval is for one call: that principal, that tool, those           *)
(* arguments, that start of the daemon (approvals.ts:38-75).               *)
THEOREM ApprovalsCorrect == SafeSpec => []ApprovalFits
<1>1. IInv => ApprovalFits
  BY DEF IInv
<1>. QED BY <1>1, Invariance, PTL

(* Nothing is left of a client after its deletion (clientDeletion.ts:26-45,*)
(* interactions.ts:142-144).                                               *)
THEOREM DeletionCorrect == SafeSpec => []DeletedClientGone
<1>1. IInv => DeletedClientGone
  BY DEF IInv
<1>. QED BY <1>1, Invariance, PTL

(* No call has its first effect after its caller lost the authority for it *)
(* (context.ts:338-351): the step that begins it is the one that checks.   *)
THEOREM AuthorityCorrect == SafeSpec => EffectAuthorized
<1>. DEFINE Begun(c) == did[c] = "none" /\ did'[c] # "none" =>
                          /\ Scoped(c)
                          /\ Allows(Request[c].class, TrustMode) \/ spent[c] # 0
<1>1. ASSUME IInv, [Next]_vars, NEW c \in Call PROVE Begun(c)
  <2>1. CallsTyped /\ Progress /\ Gated
    BY <1>1 DEF IInv, TypeOK, CallInv
  <2>2. SUFFICES ASSUME did[c] = "none", did'[c] # "none"
                 PROVE  Scoped(c) /\ (Allows(Request[c].class, TrustMode) \/ spent[c] # 0)
    OBVIOUS
  <2>3. StartWrites(c) \/ SpawnJob(c)
    <3>1. \E d \in Call : Submit(d) \/ Step(d)
      BY <1>1, <2>2, NextCases DEF callVars, Restart
    <3>2. PICK d \in Call : Submit(d) \/ Step(d)
      BY <3>1
    <3>3. stage[d] = "running" => did[d] = "begun"
      BY <2>1 DEF Progress
    <3>4. StartWrites(d) \/ SpawnJob(d) \/ stage[d] = "running" \/ UNCHANGED did
      BY <3>2 DEF Submit, Step, RefusedQueued, GateStops, Duplicate, Reserve, Withdrawn, Blocked,
                  FailsEarly, Applied, Unrecorded, Restored, Partial
    <3>5. \A x \in Call \ {d} : did'[x] = did[x]
      BY <2>1, <3>2 DEF Submit, Step, RefusedQueued, GateStops, Duplicate, Reserve, Withdrawn, Blocked,
                  FailsEarly, StartWrites, SpawnJob, Applied, Unrecorded, Restored, Partial, CallsTyped
    <3>. QED BY <2>2, <3>2, <3>3, <3>4, <3>5 DEF Step, Applied, Unrecorded, Restored, Partial
  <2>4. stage[c] = "backup" /\ Unchanged(c)
    BY <2>3 DEF StartWrites, SpawnJob, AfterBackup
  <2>. QED BY <2>1, <2>4 DEF Unchanged, Gated, Working
<1>2. IInv /\ [Next]_vars => [\A c \in Call : Begun(c)]_vars
  BY <1>1
<1>. QED BY <1>2, Invariance, PTL DEF SafeSpec, EffectAuthorized
=============================================================================
