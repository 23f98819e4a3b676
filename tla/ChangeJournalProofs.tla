------------------------ MODULE ChangeJournalProofs ------------------------
(***************************************************************************)
(* The commit engine keeps its types, works on nothing while a change is   *)
(* blocked, holds the only open change, implements the ledger, retires     *)
(* exactly the changes whose rollback committed, keeps the originals of    *)
(* every unsettled change, replaces only bytes it has accounted for and    *)
(* reports of a change what is so, for any number of changesets, paths,    *)
(* contents and plans.                                                     *)
(***************************************************************************)
EXTENDS ChangeJournal, TLAPS

(***************************************************************************)
(* The steps a journal can hold: those of a well-formed plan, those of the *)
(* plan that undoes one, and those whose directory identity was learnt or  *)
(* lost on the way.                                                        *)
(***************************************************************************)
GoodStep ==
    {f \in Step :
        /\ f.op = "create" => f.before = Absent /\ f.after \in Content
        /\ f.op = "modify" => f.before \in Content /\ f.after \in Content
        /\ f.op = "delete" => f.before \in Content /\ f.after = Absent
        /\ f.op = "move"   => f.before \in Content /\ f.after = f.before
        /\ f.op = "mkdir"  => f.before = Absent /\ f.after \in Dir \cup {Unknown}
        /\ f.op = "rmdir"  => f.before \in Dir \cup {Unknown} /\ f.after = Absent}

JournalTyped ==
    /\ \A c \in Changeset : files[c] \in Seq(GoodStep)
    /\ job.files \in Seq(GoodStep)

\* Who holds the lock, and on which row and step.
EngineInv ==
    /\ mode = "booting" => pc = "idle"
    /\ pc \in {"idle", "capture"} <=> cur = NoCs
    /\ pc = "capture" => /\ Len(job.files) > 0
                         /\ job.undoes # NoCs => /\ status[job.undoes] = "committed"
                                                 /\ undoes[job.undoes] = NoCs
    /\ cur # NoCs => /\ status[cur] = "committing"
                     /\ at \in 0..Len(files[cur])
                     /\ pc # "undo" => at > 0
    /\ unsaved # {} => cur # NoCs
    /\ \A c \in Changeset : status[c] # "none" => Len(files[c]) > 0
    /\ \A c \in Changeset : undoes[c] # NoCs => status[undoes[c]] # "none"

IInv == TypeOK /\ JournalTyped /\ EngineInv /\ NoWorkWhileBlocked

-----------------------------------------------------------------------------
(* Lemmas about the operators of the model.                                *)

\* What the planner accepts is a step a journal can hold.
LEMMA WellFormedGood == \A f \in Step : WellFormed(f) => f \in GoodStep
BY JournalAssumption DEF WellFormed, GoodStep, Step, Ops, Hash, Bytes

\* A plan is a short sequence of good steps.
LEMMA PlanGood ==
    ASSUME NEW p \in Plan
    PROVE  p \in Seq(GoodStep) /\ p \in Seq(Step) /\ Len(p) \in 1..MaxFiles
<1>1. PlanOK(p)
  BY JournalAssumption
<1>2. \A i \in 1..Len(p) : p[i] \in GoodStep
  BY <1>1, WellFormedGood DEF PlanOK
<1>. QED BY <1>1, <1>2 DEF PlanOK, Slot

\* The step that undoes a good step is one.
LEMMA InverseGood == \A f \in GoodStep : Inverse(f) \in GoodStep
BY JournalAssumption DEF GoodStep, Step, Inverse, Opposite, Ops, Hash, Bytes

\* So is every step of a rollback plan, which is as long as its target.
LEMMA RollbackPlanGood ==
    ASSUME NEW p \in Seq(GoodStep)
    PROVE  RollbackPlan(p) \in Seq(GoodStep) /\ Len(RollbackPlan(p)) = Len(p)
<1>1. \A i \in 1..Len(p) : p[Len(p) + 1 - i] \in GoodStep
  OBVIOUS
<1>2. \A i \in 1..Len(p) : Inverse(p[Len(p) + 1 - i]) \in GoodStep
  BY <1>1, InverseGood
<1>3. RollbackPlan(p) \in [1..Len(p) -> GoodStep]
  BY <1>2 DEF RollbackPlan
<1>. QED BY <1>3

\* Good steps are steps.
LEMMA GoodIsStep == Seq(GoodStep) \subseteq Seq(Step)
<1>1. GoodStep \subseteq Step
  BY DEF GoodStep
<1>. QED BY <1>1

\* A step whose new identity was lost in a crash is still good.
LEMMA ForgottenGood == \A f \in GoodStep : Forgotten(f) \in GoodStep
BY JournalAssumption DEF GoodStep, Step, Forgotten, Ops, Hash, Bytes

\* A system call leaves bytes of some kind at every path.
LEMMA WriteTyped ==
    ASSUME disk \in [Path -> Bytes], twin \subseteq Path,
           NEW f \in GoodStep, NEW i \in Dir, Write(f, i)
    PROVE  disk' \in [Path -> Bytes] /\ twin' \subseteq Path
<1>1. \A x \in Footprint(f) : x \in Path
  BY DEF Footprint, GoodStep, Step
<1>2. \A x \in Footprint(f) : Result(f, i)[x] \in Bytes
  BY JournalAssumption, <1>1
     DEF Write, Able, Result, Post, Footprint, GoodStep, Step, Ops, Bytes, Hash
<1>3. f.op = "create" => f.path \in Path
  BY DEF GoodStep, Step
<1>. QED BY <1>1, <1>2, <1>3 DEF Write

-----------------------------------------------------------------------------
(* The initial state, and the parts of the state an action leaves alone.   *)

\* The first state has all of the invariant.
LEMMA InitInv == Init => IInv
<1>. SUFFICES ASSUME Init PROVE IInv
  OBVIOUS
<1>. USE JournalAssumption DEF Init
<1>0. <<>> \in Seq(Step) /\ Len(<<>>) = 0
  OBVIOUS
<1>1. TypeOK
  <2>1. files \in [Changeset -> Seq(Step)] /\ \A c \in Changeset : Len(files[c]) = 0
    BY <1>0
  <2>2. job \in [files : Seq(Step), undoes : Changeset \cup {NoCs}]
    BY <1>0 DEF NoJob
  <2>3. Len(job.files) = 0
    BY <1>0 DEF NoJob
  <2>4. undoes \in [Changeset -> Changeset \cup {NoCs}]
    OBVIOUS
  <2>5. jstate \in [Changeset -> [Slot -> JState]]
    BY DEF JState
  <2>6. backup \in [Changeset -> [Slot -> Bytes]]
    BY DEF Bytes
  <2>7. status \in [Changeset -> Status]
    BY DEF Status
  <2>8. /\ disk \in [Path -> Bytes] /\ twin \subseteq Path /\ mode \in {"booting", "up"}
        /\ live \subseteq Plan /\ pc \in Phase /\ cur \in Changeset \cup {NoCs}
        /\ at \in 0..MaxFiles /\ unsaved \subseteq Slot /\ touched \subseteq Path
        /\ raced \subseteq Path /\ damaged \subseteq Changeset \X Slot
        /\ edits \in Nat /\ crashes \in Nat /\ faults \in Nat
    BY DEF Phase
  <2>9. stuck \in BOOLEAN
    BY Zenon
  <2>. HIDE DEF Init
  <2>. QED BY <2>1, <2>2, <2>3, <2>4, <2>5, <2>6, <2>7, <2>8, <2>9 DEF TypeOK
<1>2. JournalTyped
  BY DEF JournalTyped, NoJob
<1>3. EngineInv /\ NoWorkWhileBlocked
  BY DEF EngineInv, NoWorkWhileBlocked, Blocked
<1>. QED BY <1>1, <1>2, <1>3 DEF IInv

\* The step being worked on is a good step of a change that exists.
LEMMA ThisGood ==
    ASSUME IInv, cur # NoCs, at > 0
    PROVE  /\ cur \in Changeset
           /\ at \in DOMAIN files[cur]
           /\ at \in 1..Len(files[cur])
           /\ at \in Slot
           /\ This \in GoodStep
BY DEF IInv, TypeOK, JournalTyped, EngineInv, This, Slot

\* A request, or the capture being abandoned, touches only pc and job.
LEMMA RequestSteps ==
    ASSUME IInv,
           \/ \E p \in Plan : Preview(p) \/ Apply(p)
           \/ \E c \in Changeset : Rollback(c)
           \/ AbandonCapture
    PROVE  IInv'
<1>. USE JournalAssumption DEF IInv, diskVars, journalVars, engineVars, ghostVars
<1>1. ASSUME NEW p \in Plan, Preview(p) PROVE IInv'
  BY <1>1 DEF Preview, Awaiting, TypeOK, JournalTyped, EngineInv,
              NoWorkWhileBlocked, Blocked
<1>2. ASSUME NEW p \in Seq(GoodStep), Len(p) \in 1..MaxFiles,
             NEW t \in Changeset \cup {NoCs}, Start(p, t),
             t # NoCs => status[t] = "committed" /\ undoes[t] = NoCs
      PROVE  IInv'
  <2>1. p \in Seq(Step)
    BY GoodIsStep
  <2>2. TypeOK'
    BY <1>2, <2>1 DEF Start, TypeOK, Phase
  <2>3. JournalTyped' /\ EngineInv' /\ NoWorkWhileBlocked'
    BY <1>2 DEF Start, TypeOK, JournalTyped, EngineInv, NoWorkWhileBlocked, Blocked
  <2>. QED BY <2>2, <2>3
<1>3. ASSUME NEW p \in Plan, Apply(p) PROVE IInv'
  BY <1>2, <1>3, PlanGood DEF Apply
<1>4. ASSUME NEW c \in Changeset, Rollback(c) PROVE IInv'
  <2>1. files[c] \in Seq(GoodStep)
    BY DEF JournalTyped
  <2>2. Len(files[c]) > 0
    BY <1>4 DEF Rollback, EngineInv
  <2>3. Len(files[c]) \in 1..MaxFiles
    BY <2>1, <2>2 DEF TypeOK
  <2>. QED BY <1>2, <1>4, <2>1, <2>3, RollbackPlanGood DEF Rollback
<1>5. ASSUME AbandonCapture PROVE IInv'
  BY <1>5 DEF AbandonCapture, NoJob, TypeOK, JournalTyped, EngineInv,
              NoWorkWhileBlocked, Blocked, Phase
<1>. QED BY <1>1, <1>3, <1>4, <1>5

\* Opening a row: a new changeset, held by the engine at its first step.
LEMMA JournalStep ==
    ASSUME IInv, NEW c \in Changeset, Journal(c)
    PROVE  IInv'
<1>. USE JournalAssumption DEF IInv, diskVars, journalVars, engineVars, ghostVars
<1>1. TypeOK'
  <2>1. status' \in [Changeset -> Status] /\ undoes' \in [Changeset -> Changeset \cup {NoCs}]
    BY DEF Journal, TypeOK, Status
  <2>2. /\ files' \in [Changeset -> Seq(Step)]
        /\ \A e \in Changeset : Len(files'[e]) \in 0..MaxFiles
    BY DEF Journal, TypeOK
  <2>3. at' \in 0..MaxFiles /\ pc' \in Phase
    BY DEF Journal, TypeOK, EngineInv, Phase
  <2>4. /\ UNCHANGED <<disk, twin, jstate, backup, mode, live, job, unsaved, raced,
                       damaged, edits, crashes, faults>>
        /\ stuck' \in BOOLEAN /\ touched' \subseteq Path /\ cur' \in Changeset
    BY DEF Journal
  <2>. QED BY <2>1, <2>2, <2>3, <2>4 DEF TypeOK
<1>2. JournalTyped'
  BY DEF Journal, TypeOK, JournalTyped
<1>3. EngineInv'
  BY DEF Journal, TypeOK, EngineInv
<1>4. NoWorkWhileBlocked'
  BY DEF Journal, TypeOK, NoWorkWhileBlocked, Blocked
<1>. QED BY <1>1, <1>2, <1>3, <1>4

\* A backup stores bytes and moves the engine on, to the write phase at the end.
LEMMA BackUpStep == ASSUME IInv, BackUp PROVE IInv'
<1>. USE JournalAssumption DEF IInv, diskVars, journalVars, engineVars, ghostVars
<1>0. cur \in Changeset /\ at \in Slot /\ at \in 1..Len(files[cur]) /\ This \in GoodStep
  BY ThisGood DEF BackUp, EngineInv, TypeOK
<1>1. backup' \in [Changeset -> [Slot -> Bytes]]
  BY <1>0 DEF BackUp, TypeOK, GoodStep, Step
<1>2. jstate' \in [Changeset -> [Slot -> JState]]
  BY <1>0 DEF BackUp, TypeOK, JState
<1>3. at' \in 1..Len(files[cur]) /\ pc' \in {"backup", "ready"}
  BY <1>0 DEF BackUp, TypeOK, JournalTyped
<1>4. at' \in 0..MaxFiles
  BY <1>0, <1>3 DEF TypeOK
<1>. QED BY <1>0, <1>1, <1>2, <1>3, <1>4
         DEF BackUp, TypeOK, Phase, JournalTyped, EngineInv, NoWorkWhileBlocked, Blocked

\* A step that only moves the engine, or marks a journal step, keeps all of
\* the invariant that does not speak of pc and at.
LEMMA MoveSteps ==
    ASSUME IInv,
           \/ StartWrites \/ Intend \/ Recheck \/ Verify \/ WriteFails \/ FinalCheck
           \/ UndoSkip \/ UndoCheck \/ UndoVerify \/ UndoConflict
    PROVE  IInv'
<1>. USE JournalAssumption DEF IInv, diskVars, journalVars, engineVars, ghostVars
<1>1. cur \in Changeset /\ at \in Slot /\ at \in 1..Len(files[cur]) /\ This \in GoodStep
  BY ThisGood DEF EngineInv, TypeOK, StartWrites, Intend, Recheck, Verify, WriteFails,
     FinalCheck, UndoSkip, UndoCheck, UndoVerify, UndoConflict
<1>2. twin' \subseteq Path
  BY DEF TypeOK, StartWrites, Intend, Recheck, Verify, WriteFails,
     FinalCheck, UndoSkip, UndoCheck, UndoVerify, UndoConflict
<1>3. jstate' \in [Changeset -> [Slot -> JState]]
  <2>1. jstate' = jstate \/ \E s \in JState : jstate' = [jstate EXCEPT ![cur][at] = s]
    BY DEF StartWrites, Intend, Recheck, Verify, WriteFails,
       FinalCheck, UndoSkip, UndoCheck, UndoVerify, UndoConflict, JState
  <2>2. jstate \in [Changeset -> [Slot -> JState]]
    BY DEF TypeOK
  <2>3. ASSUME NEW s \in JState
        PROVE  [jstate EXCEPT ![cur][at] = s] \in [Changeset -> [Slot -> JState]]
    BY ONLY <1>1, <2>2, <2>3
  <2>. QED BY <2>1, <2>2, <2>3
<1>4. /\ pc' \in Phase \ {"idle", "capture"}
      /\ at' \in 0..Len(files[cur])
      /\ pc' # "undo" => at' > 0
  BY <1>1 DEF TypeOK, JournalTyped, StartWrites, Intend, Recheck, Verify, WriteFails,
     FinalCheck, UndoSkip, UndoCheck, UndoVerify, UndoConflict, Goto, Phase
<1>5. at' \in 0..MaxFiles
  BY <1>1, <1>4 DEF TypeOK
<1>6. unsaved' \subseteq unsaved /\ raced' \subseteq raced
  BY DEF StartWrites, Intend, Recheck, Verify, WriteFails,
     FinalCheck, UndoSkip, UndoCheck, UndoVerify, UndoConflict
<1>7. stuck' \in BOOLEAN
  BY DEF TypeOK, StartWrites, Intend, Recheck, Verify, WriteFails,
     FinalCheck, UndoSkip, UndoCheck, UndoVerify, UndoConflict
<1>8. UNCHANGED <<disk, status, undoes, files, backup, mode, live, job, cur,
                  touched, damaged, edits, crashes, faults>>
  BY DEF StartWrites, Intend, Recheck, Verify, WriteFails,
     FinalCheck, UndoSkip, UndoCheck, UndoVerify, UndoConflict, Goto
<1>9. TypeOK'
  BY <1>2, <1>3, <1>4, <1>5, <1>6, <1>7, <1>8 DEF TypeOK
<1>10. JournalTyped' /\ EngineInv' /\ NoWorkWhileBlocked'
  BY <1>1, <1>4, <1>6, <1>8
     DEF JournalTyped, EngineInv, NoWorkWhileBlocked, Blocked, TypeOK, StartWrites,
         Intend, Recheck, Verify, WriteFails, FinalCheck, UndoSkip, UndoCheck,
         UndoVerify, UndoConflict
<1>. QED BY <1>9, <1>10

\* Giving the lock back, whatever final status the row got.
LEMMA FreeSteps ==
    ASSUME IInv,
           \/ BackupsFail \/ FinalDrift \/ Seal \/ SealFails \/ UndoDone \/ StoreFault
    PROVE  IInv'
<1>. USE JournalAssumption DEF IInv, diskVars, journalVars, engineVars, ghostVars
<1>1. cur \in Changeset
  BY
  DEF EngineInv, TypeOK, BackupsFail, FinalDrift, Seal, SealFails, UndoDone,
      StoreFault
<1>2. /\ pc' = "idle" /\ cur' = NoCs /\ at' = 0 /\ stuck' = FALSE /\ unsaved' = {}
      /\ job' = NoJob /\ live' \subseteq live /\ faults' \in Nat
      /\ UNCHANGED <<disk, twin, undoes, files, backup, mode, touched, raced, damaged,
                     edits, crashes>>
  BY DEF BackupsFail, FinalDrift, Seal, SealFails, UndoDone, StoreFault, Finish, Free,
         TypeOK
<1>3. status' \in [Changeset -> Status]
  <2>1. CASE Seal
    BY <2>1 DEF Seal, Retire, TypeOK, Status
  <2>2. CASE StoreFault
    BY <2>2 DEF StoreFault, TypeOK
  <2>3. ASSUME NEW s \in {"failed", "recovery_required"}, Finish(s)
        PROVE  status' \in [Changeset -> Status]
    BY <1>1, <2>3 DEF Finish, TypeOK, Status
  <2>. QED BY <2>1, <2>2, <2>3 DEF BackupsFail, FinalDrift, SealFails, UndoDone
<1>4. jstate' \in [Changeset -> [Slot -> JState]]
  <2>1. CASE Seal
    BY <1>1, <2>1 DEF Seal, AllDone, TypeOK, JState
  <2>2. CASE ~Seal
    BY <2>2
    DEF BackupsFail, FinalDrift, SealFails, UndoDone, StoreFault, Finish, TypeOK
  <2>. QED BY <2>1, <2>2
<1>5. \A c \in Changeset : status[c] = "none" <=> status'[c] = "none"
  <2>1. CASE Seal
    <3>1. \A c \in Changeset : c = undoes[cur] => status[c] # "none"
      BY <1>1, <2>1 DEF Seal, EngineInv
    <3>. QED BY <1>1, <2>1, <3>1 DEF Seal, Retire, TypeOK, EngineInv
  <2>2. CASE ~Seal
    BY <1>1, <2>2
    DEF BackupsFail, FinalDrift, SealFails, UndoDone, StoreFault, Finish,
                      TypeOK, EngineInv
  <2>. QED BY <2>1, <2>2
<1>6. <<>> \in Seq(GoodStep) /\ <<>> \in Seq(Step) /\ Len(<<>>) = 0
  OBVIOUS
<1>7. /\ NoJob.files \in Seq(GoodStep) /\ Len(NoJob.files) = 0
      /\ NoJob \in [files : Seq(Step), undoes : Changeset \cup {NoCs}]
  BY <1>6 DEF NoJob
<1>8. stuck' \in BOOLEAN
  BY <1>2, Zenon
<1>9. at' \in 0..MaxFiles /\ pc' \in Phase /\ Len(job'.files) \in 0..MaxFiles
  BY <1>2, <1>7 DEF Phase
<1>10. TypeOK'
  BY <1>2, <1>3, <1>4, <1>7, <1>8, <1>9 DEF TypeOK
<1>11. JournalTyped'
  BY <1>2, <1>7 DEF JournalTyped
<1>12. EngineInv' /\ NoWorkWhileBlocked'
  BY <1>2, <1>5, <1>7 DEF EngineInv, NoWorkWhileBlocked, TypeOK
<1>. QED BY <1>10, <1>11, <1>12

\* Learning the identity of a directory keeps the journal well typed.
LEMMA LearnDir ==
    ASSUME IInv, cur # NoCs, at > 0, NEW i \in Dir \cup {Unknown},
           \/ files' = files
           \/ This.op = "mkdir" /\ files' = [files EXCEPT ![cur][at].after = i]
           \/ This.op = "rmdir" /\ files' = [files EXCEPT ![cur][at].before = i]
    PROVE  /\ \A c \in Changeset : files'[c] \in Seq(GoodStep)
           /\ \A c \in Changeset : Len(files'[c]) = Len(files[c])
           /\ files' \in [Changeset -> Seq(Step)]
<1>1. cur \in Changeset /\ at \in 1..Len(files[cur]) /\ This \in GoodStep
  BY ThisGood
<1>2. files \in [Changeset -> Seq(GoodStep)]
  BY DEF IInv, TypeOK, JournalTyped
<1>3. CASE files' = files
  BY <1>2, <1>3, GoodIsStep
<1>4. ASSUME NEW g \in GoodStep, files' = [files EXCEPT ![cur] = [files[cur] EXCEPT ![at] = g]]
      PROVE  /\ files' \in [Changeset -> Seq(GoodStep)]
             /\ \A c \in Changeset : Len(files'[c]) = Len(files[c])
  <2>1. files[cur] \in Seq(GoodStep)
    BY <1>1, <1>2
  <2>2. [files[cur] EXCEPT ![at] = g] \in Seq(GoodStep)
    BY <1>1, <2>1
  <2>3. Len([files[cur] EXCEPT ![at] = g]) = Len(files[cur])
    BY <1>1, <2>1
  <2>. QED BY <1>1, <1>2, <1>4, <2>2, <2>3
<1>5. CASE This.op = "mkdir" /\ files' = [files EXCEPT ![cur][at].after = i]
  <2>1. [This EXCEPT !.after = i] \in GoodStep
    BY <1>1, <1>5, JournalAssumption DEF GoodStep, Step, Ops, Hash, Bytes
  <2>2. files' = [files EXCEPT ![cur] = [files[cur] EXCEPT ![at] = [This EXCEPT !.after = i]]]
    BY <1>5, Zenon DEF This
  <2>. QED BY <2>1, <2>2, <1>4, GoodIsStep
<1>6. CASE This.op = "rmdir" /\ files' = [files EXCEPT ![cur][at].before = i]
  <2>1. [This EXCEPT !.before = i] \in GoodStep
    BY <1>1, <1>6, JournalAssumption DEF GoodStep, Step, Ops, Hash, Bytes
  <2>2. files' = [files EXCEPT ![cur] = [files[cur] EXCEPT ![at] = [This EXCEPT !.before = i]]]
    BY <1>6, Zenon DEF This
  <2>. QED BY <2>1, <2>2, <1>4, GoodIsStep
<1>. QED BY <1>3, <1>5, <1>6

\* Writing, or undoing, a step on disk.
LEMMA PublishSteps == ASSUME IInv, Publish \/ Unpublish PROVE IInv'
<1>. USE DEF diskVars, journalVars, engineVars, ghostVars
<1>1. cur \in Changeset /\ at \in Slot /\ at \in 1..Len(files[cur]) /\ This \in GoodStep
  BY ThisGood DEF IInv, EngineInv, TypeOK, Publish, Unpublish
<1>2. disk' \in [Path -> Bytes] /\ twin' \subseteq Path
  <2>1. PICK i \in Dir, f \in {This, Inverse(This)} : Write(f, i)
    BY DEF Publish, Unpublish
  <2>2. f \in GoodStep
    BY <1>1, <2>1, InverseGood
  <2>. QED BY <2>1, <2>2, WriteTyped DEF IInv, TypeOK
<1>3. /\ \A c \in Changeset : files'[c] \in Seq(GoodStep)
      /\ \A c \in Changeset : Len(files'[c]) = Len(files[c])
      /\ files' \in [Changeset -> Seq(Step)]
  <2>1. cur # NoCs /\ at > 0
    BY <1>1, JournalAssumption DEF Slot, IInv, TypeOK
  <2>. QED BY <2>1, LearnDir DEF Publish, Unpublish
<1>4. unsaved' \subseteq Slot
  BY <1>1 DEF Publish, Unpublish, IInv, TypeOK
<1>5. /\ pc' \in {"verify", "unverify"} /\ at' = at
      /\ UNCHANGED <<status, undoes, jstate, backup, mode, live, job, cur, stuck,
                     touched, raced, damaged, edits, crashes, faults>>
  BY DEF Publish, Unpublish, Goto
<1>6. TypeOK'
  BY <1>2, <1>3, <1>4, <1>5 DEF IInv, TypeOK, Phase
<1>7. JournalTyped'
  BY <1>3, <1>5 DEF IInv, JournalTyped
<1>8. EngineInv'
  BY <1>1, <1>3, <1>5, JournalAssumption
  DEF IInv, EngineInv, TypeOK, Publish, Unpublish
<1>9. NoWorkWhileBlocked'
  BY <1>1, <1>5
  DEF IInv, EngineInv, NoWorkWhileBlocked, Blocked, TypeOK, Publish, Unpublish
<1>. QED BY <1>6, <1>7, <1>8, <1>9 DEF IInv

-----------------------------------------------------------------------------
(* Crash, boot, the owner and the environment.                             *)

\* A crash gives up the lock and the identities that were in memory only.
LEMMA CrashStep == ASSUME IInv, Crash PROVE IInv'
<1>. USE JournalAssumption DEF diskVars, journalVars, engineVars, ghostVars
<1>1. /\ \A c \in Changeset : files'[c] \in Seq(GoodStep)
      /\ \A c \in Changeset : Len(files'[c]) = Len(files[c])
      /\ files' \in [Changeset -> Seq(Step)]
  <2>1. CASE cur = NoCs
    BY <2>1, GoodIsStep DEF Crash, IInv, TypeOK, JournalTyped
  <2>2. CASE cur # NoCs
    <3>. DEFINE q == [i \in DOMAIN files[cur] |->
                        IF i \in unsaved THEN Forgotten(files[cur][i]) ELSE files[cur][i]]
    <3>1. cur \in Changeset /\ files[cur] \in Seq(GoodStep)
      BY <2>2 DEF IInv, TypeOK, JournalTyped
    <3>2. \A i \in 1..Len(files[cur]) : Forgotten(files[cur][i]) \in GoodStep
      BY <3>1, ForgottenGood
    <3>3. q \in [1..Len(files[cur]) -> GoodStep]
      BY <3>1, <3>2
    <3>4. q \in Seq(GoodStep) /\ Len(q) = Len(files[cur])
      BY <3>1, <3>3
    <3>5. files' = [files EXCEPT ![cur] = q]
      BY <2>2 DEF Crash
    <3>. HIDE DEF q
    <3>6. files \in [Changeset -> Seq(GoodStep)]
      BY DEF IInv, TypeOK, JournalTyped
    <3>. QED BY <3>1, <3>4, <3>5, <3>6, GoodIsStep
  <2>. QED BY <2>1, <2>2
<1>2. /\ pc' = "idle" /\ cur' = NoCs /\ at' = 0 /\ unsaved' = {} /\ mode' = "booting"
      /\ job' = NoJob /\ live' = {} /\ crashes' \in Nat
      /\ UNCHANGED <<disk, twin, status, undoes, jstate, backup, touched, raced, damaged,
                     edits, faults>>
  BY DEF Crash, Free, IInv, TypeOK
<1>3. stuck' \in BOOLEAN
  BY Zenon DEF Crash, Free
<1>4. <<>> \in Seq(GoodStep) /\ <<>> \in Seq(Step) /\ Len(<<>>) = 0
  OBVIOUS
<1>5. /\ NoJob.files \in Seq(GoodStep) /\ Len(NoJob.files) = 0
      /\ NoJob \in [files : Seq(Step), undoes : Changeset \cup {NoCs}]
  BY <1>4 DEF NoJob
<1>6. at' \in 0..MaxFiles /\ pc' \in Phase /\ Len(job'.files) \in 0..MaxFiles
  BY <1>2, <1>5 DEF Phase
<1>7. TypeOK'
  BY <1>1, <1>2, <1>3, <1>5, <1>6 DEF IInv, TypeOK
<1>8. JournalTyped'
  BY <1>1, <1>2, <1>5 DEF JournalTyped
<1>9. EngineInv' /\ NoWorkWhileBlocked'
  BY <1>1, <1>2 DEF IInv, EngineInv, NoWorkWhileBlocked, TypeOK
<1>. QED BY <1>7, <1>8, <1>9 DEF IInv

\* Reconciliation and the owner settle rows nobody holds.
LEMMA BootSteps ==
    ASSUME IInv,
           \/ \E c \in Changeset : ReconcileApplied(c) \/ ReconcileOther(c) \/ Resolve(c)
           \/ Ready
    PROVE  IInv'
<1>. USE JournalAssumption DEF diskVars, journalVars, engineVars, ghostVars
<1>1. ASSUME NEW c \in Changeset, ReconcileApplied(c) PROVE IInv'
  <2>1. status' \in [Changeset -> Status]
    BY <1>1 DEF ReconcileApplied, Retire, IInv, TypeOK, Status
  <2>2. jstate' \in [Changeset -> [Slot -> JState]]
    BY <1>1 DEF ReconcileApplied, AllDone, IInv, TypeOK, JState
  <2>3. \A e \in Changeset : status[e] = "none" <=> status'[e] = "none"
    <3>1. \A e \in Changeset : e = undoes[c] => status[e] # "none"
      BY DEF IInv, EngineInv
    <3>. QED BY <1>1, <3>1 DEF ReconcileApplied, Retire, IInv, TypeOK
  <2>4. TypeOK' /\ JournalTyped'
    BY <1>1, <2>1, <2>2 DEF ReconcileApplied, IInv, TypeOK, JournalTyped
  <2>5. EngineInv' /\ NoWorkWhileBlocked'
    BY <1>1, <2>3 DEF ReconcileApplied, IInv, EngineInv, NoWorkWhileBlocked, TypeOK
  <2>. QED BY <2>4, <2>5 DEF IInv
<1>2. ASSUME NEW c \in Changeset, ReconcileOther(c) PROVE IInv'
  BY <1>2
  DEF ReconcileOther, IInv, TypeOK, JournalTyped, EngineInv, NoWorkWhileBlocked,
      Status
<1>3. ASSUME NEW c \in Changeset, Resolve(c) PROVE IInv'
  BY <1>3 DEF Resolve, Awaiting, IInv, TypeOK, JournalTyped, EngineInv,
              NoWorkWhileBlocked, Blocked, Status
<1>4. ASSUME Ready PROVE IInv'
  BY <1>4
  DEF Ready, IInv, TypeOK, JournalTyped, EngineInv, NoWorkWhileBlocked, Blocked
<1>. QED BY <1>1, <1>2, <1>3, <1>4

\* Other programs touch files and backups, never a row.
LEMMA EnvironmentSteps ==
    ASSUME IInv,
           \/ \E x \in Path, v \in Content \cup {Absent} : ExternalEdit(x, v)
           \/ \E c \in Changeset, i \in Slot : DamageBackup(c, i)
    PROVE  IInv'
<1>. USE DEF diskVars, journalVars, engineVars, ghostVars
<1>1. ASSUME NEW x \in Path, NEW v \in Content \cup {Absent}, ExternalEdit(x, v)
      PROVE  IInv'
  BY <1>1 DEF ExternalEdit, IInv, TypeOK, JournalTyped, EngineInv, NoWorkWhileBlocked,
              Blocked, Bytes
<1>2. ASSUME NEW c \in Changeset, NEW i \in Slot, DamageBackup(c, i) PROVE IInv'
  <2>1. backup' \in [Changeset -> [Slot -> Bytes]] /\ damaged' \subseteq Changeset \X Slot
    BY <1>2 DEF DamageBackup, IInv, TypeOK, Bytes
  <2>. QED BY <1>2, <2>1 DEF DamageBackup, IInv, TypeOK, JournalTyped, EngineInv,
                             NoWorkWhileBlocked, Blocked
<1>. QED BY <1>1, <1>2

\* IInv is inductive.
LEMMA StepInv == IInv /\ [Next]_vars => IInv'
<1>. SUFFICES ASSUME IInv, [Next]_vars PROVE IInv'
  OBVIOUS
<1>1. CASE Next
  BY <1>1, RequestSteps, JournalStep, BackUpStep, MoveSteps, FreeSteps, PublishSteps,
     CrashStep, BootSteps, EnvironmentSteps
     DEF Next, Engine, Phase1, Phase2, Compensation, Boot, Request, Environment
<1>2. CASE UNCHANGED vars
  BY <1>2 DEF vars, diskVars, journalVars, engineVars, ghostVars, IInv, TypeOK,
              JournalTyped, EngineInv, NoWorkWhileBlocked, Blocked
<1>. QED BY <1>1, <1>2

\* So it holds in every reachable state.
LEMMA Invariance == SafeSpec => []IInv
BY InitInv, StepInv, PTL DEF SafeSpec

\* The engine keeps its types: no step index outside the change, no row or
\* file of an impossible kind, for any plans, paths and bounds.
THEOREM TypeCorrect == SafeSpec => []TypeOK
BY Invariance, PTL DEF IInv

\* While a change waits for the owner nothing is being applied.
THEOREM BlockedMeansIdle == SafeSpec => []NoWorkWhileBlocked
BY Invariance, PTL DEF IInv

-----------------------------------------------------------------------------
(* What holds of every changeset table the ledger allows, as long as "not a *)
(* rollback" is not the identity of a row.                                 *)

LedgerType == /\ status \in [Changeset -> Ledger!Status]
              /\ undoes \in [Changeset -> Changeset \cup {NoCs}]

\* A rollback only ever undoes an apply, one that was committed when the
\* rollback opened, and a row that does not exist undoes nothing.
TargetsAreApplies ==
    \A c \in Changeset :
       undoes[c] # NoCs =>
          /\ status[c] # "none"
          /\ undoes[undoes[c]] = NoCs
          /\ status[undoes[c]] \in {"committed", "rolled_back"}

LedgerInv == LedgerType /\ TargetsAreApplies /\ Ledger!RolledBackIffUndone

\* An empty table has all of the invariant.
LEMMA LedgerInitial ==
    ASSUME NoCs \notin Changeset, Ledger!Init
    PROVE  LedgerInv
BY
DEF Ledger!Init, LedgerInv, LedgerType, TargetsAreApplies,
    Ledger!RolledBackIffUndone, Ledger!Status

\* A row that opens is new, and what it undoes is a committed apply.
LEMMA LedgerOpen ==
    ASSUME NoCs \notin Changeset, LedgerInv, NEW c \in Changeset, NEW t \in Changeset \cup {NoCs},
           Ledger!Open(c, t)
    PROVE  LedgerInv'
<1>. USE DEF LedgerInv
<1>1. LedgerType'
  BY DEF LedgerType, Ledger!Open, Ledger!Status
<1>2. c # t
  BY DEF LedgerType, Ledger!Open
<1>3. TargetsAreApplies'
  BY <1>2 DEF LedgerType, TargetsAreApplies, Ledger!Open, Ledger!Status
<1>4. Ledger!RolledBackIffUndone'
  BY <1>2
  DEF LedgerType, TargetsAreApplies, Ledger!RolledBackIffUndone, Ledger!Open,
      Ledger!Status
<1>. QED BY <1>1, <1>3, <1>4

\* Committing a rollback retires its target, and no other row.
LEMMA LedgerCommit ==
    ASSUME NoCs \notin Changeset, LedgerInv, NEW c \in Changeset, Ledger!Commit(c)
    PROVE  LedgerInv'
<1>. USE DEF LedgerInv
<1>1. LedgerType'
  BY DEF LedgerType, Ledger!Commit, Ledger!Status
<1>2. undoes[c] # c
  BY DEF LedgerType, TargetsAreApplies
<1>3. TargetsAreApplies'
  BY <1>2 DEF LedgerType, TargetsAreApplies, Ledger!Commit, Ledger!Status
<1>4. ASSUME NEW t \in Changeset
      PROVE  status'[t] = "rolled_back"
               <=> \E e \in Changeset : undoes'[e] = t /\ status'[e] = "committed"
  <2>1. CASE t = c
    BY <2>1, <1>2
    DEF LedgerType, TargetsAreApplies, Ledger!RolledBackIffUndone, Ledger!Commit,
        Ledger!Status
  <2>2. CASE t # c /\ t = undoes[c]
    BY <2>2, <1>2 DEF LedgerType, Ledger!Commit
  <2>3. CASE t # c /\ t # undoes[c]
    <3>1. status'[t] = status[t]
      BY <2>3 DEF LedgerType, Ledger!Commit
    <3>2. ASSUME NEW e \in Changeset, undoes[e] = t
          PROVE  status'[e] = "committed" <=> status[e] = "committed"
      BY <3>2, <2>3, <1>2 DEF LedgerType, TargetsAreApplies, Ledger!Commit
    <3>. QED BY <3>1, <3>2 DEF Ledger!RolledBackIffUndone, Ledger!Commit
  <2>. QED BY <2>1, <2>2, <2>3
<1>5. Ledger!RolledBackIffUndone'
  BY <1>4 DEF Ledger!RolledBackIffUndone
<1>. QED BY <1>1, <1>3, <1>5

\* Failing, blocking and resolving a change touch no committed row.
LEMMA LedgerClose ==
    ASSUME NoCs \notin Changeset, LedgerInv, NEW c \in Changeset, Ledger!Fail(c) \/ Ledger!Block(c) \/ Ledger!Resolve(c)
    PROVE  LedgerInv'
<1>. USE DEF LedgerInv, Ledger!Fail, Ledger!Block, Ledger!Resolve
<1>1. LedgerType'
  BY DEF LedgerType, Ledger!Status
<1>2. TargetsAreApplies'
  BY DEF LedgerType, TargetsAreApplies, Ledger!Status
<1>3. Ledger!RolledBackIffUndone'
  BY DEF LedgerType, Ledger!RolledBackIffUndone, Ledger!Status
<1>. QED BY <1>1, <1>2, <1>3

\* In every history of the ledger a change is rolled back exactly when a
\* rollback of it committed.
THEOREM LedgerCorrect ==
    ASSUME NoCs \notin Changeset
    PROVE  Ledger!SafeSpec => []LedgerInv
<1>0. Ledger!Init => LedgerInv
  BY LedgerInitial
<1>1. LedgerInv /\ [Ledger!Next]_(Ledger!ledgerVars) => LedgerInv'
  <2>. SUFFICES ASSUME LedgerInv, [Ledger!Next]_(Ledger!ledgerVars) PROVE LedgerInv'
    OBVIOUS
  <2>1. CASE Ledger!Next
    BY <2>1, LedgerOpen, LedgerCommit, LedgerClose DEF Ledger!Next, Ledger!Settle
  <2>2. CASE UNCHANGED Ledger!ledgerVars
    BY <2>2
    DEF Ledger!ledgerVars, LedgerInv, LedgerType, TargetsAreApplies,
        Ledger!RolledBackIffUndone
  <2>. QED BY <2>1, <2>2
<1>. QED BY <1>0, <1>1, PTL DEF Ledger!SafeSpec

-----------------------------------------------------------------------------
(* The journal implements the ledger.                                      *)

\* Every step of the journal is a step of the ledger or leaves the rows alone.
LEMMA LedgerStep ==
    ASSUME IInv, IInv', [Next]_vars
    PROVE  [Ledger!Next]_(Ledger!ledgerVars)
<1>. USE DEF IInv, Ledger!Next, Ledger!Settle
<1>1. ASSUME NEW c \in Changeset, Journal(c) PROVE Ledger!Next
  <2>1. Ledger!Open(c, job.undoes)
    BY <1>1 DEF Journal, Ledger!Open, Ledger!Blocked, NoWorkWhileBlocked, Blocked,
                EngineInv, TypeOK
  <2>2. job.undoes \in Changeset \cup {NoCs}
    BY DEF TypeOK
  <2>. QED BY <2>1, <2>2
<1>2. ASSUME pc \notin {"idle", "capture"}
      PROVE  cur \in Changeset /\ status[cur] = "committing"
  BY <1>2 DEF EngineInv, TypeOK
<1>3. ASSUME BackupsFail \/ FinalDrift \/ SealFails \/ UndoDone PROVE Ledger!Next
  <2>1. cur \in Changeset /\ status[cur] = "committing"
    BY <1>2, <1>3 DEF BackupsFail, FinalDrift, SealFails, UndoDone
  <2>2. Ledger!Fail(cur) \/ Ledger!Block(cur)
    BY <1>3, <2>1 DEF BackupsFail, FinalDrift, SealFails, UndoDone, Finish,
                      Ledger!Fail, Ledger!Block
  <2>. QED BY <2>1, <2>2
<1>4. ASSUME Seal PROVE Ledger!Next
  BY <1>2, <1>4 DEF Seal, Retire, Ledger!Commit
<1>5. ASSUME NEW c \in Changeset, ReconcileApplied(c) PROVE Ledger!Next
  BY <1>5 DEF ReconcileApplied, Retire, Ledger!Commit
<1>6. ASSUME NEW c \in Changeset, ReconcileOther(c) PROVE Ledger!Next
  BY <1>6 DEF ReconcileOther, Ledger!Fail, Ledger!Block
<1>7. ASSUME NEW c \in Changeset, Resolve(c) PROVE Ledger!Next
  BY <1>7 DEF Resolve, Ledger!Resolve
<1>8. ASSUME UNCHANGED <<status, undoes>> PROVE UNCHANGED Ledger!ledgerVars
  BY <1>8 DEF Ledger!ledgerVars
<1>9. ASSUME \/ \E p \in Plan : Preview(p) \/ Apply(p)
             \/ \E c \in Changeset : Rollback(c)
             \/ AbandonCapture \/ BackUp \/ StartWrites
      PROVE  UNCHANGED <<status, undoes>>
  BY <1>9 DEF Preview, Apply, Rollback, Start, AbandonCapture, BackUp, StartWrites,
              journalVars
<1>10. ASSUME Intend \/ Recheck \/ Publish \/ Verify \/ WriteFails \/ FinalCheck
       PROVE  UNCHANGED <<status, undoes>>
  BY <1>10 DEF Intend, Recheck, Publish, Verify, WriteFails, FinalCheck, journalVars
<1>11. ASSUME UndoSkip \/ UndoCheck \/ Unpublish \/ UndoVerify \/ UndoConflict
       PROVE  UNCHANGED <<status, undoes>>
  BY <1>11 DEF UndoSkip, UndoCheck, Unpublish, UndoVerify, UndoConflict, journalVars
<1>12. ASSUME \/ StoreFault \/ Crash \/ Ready
              \/ \E x \in Path, v \in Content \cup {Absent} : ExternalEdit(x, v)
              \/ \E c \in Changeset, i \in Slot : DamageBackup(c, i)
       PROVE  UNCHANGED <<status, undoes>>
  BY <1>12 DEF StoreFault, Crash, Ready, ExternalEdit, DamageBackup, journalVars
<1>13. CASE UNCHANGED vars
  BY <1>8, <1>13 DEF vars, journalVars
<1>. QED
  BY <1>1, <1>3, <1>4, <1>5, <1>6, <1>7, <1>8, <1>9, <1>10, <1>11, <1>12, <1>13
     DEF Next, Engine, Phase1, Phase2, Compensation, Boot, Request, Environment

\* Seen through its status column the journal behaves like the ledger.
THEOREM JournalImplementsLedger == SafeSpec => LedgerSafe
<1>1. Init => Ledger!Init
  BY DEF Init, Ledger!Init
<1>2. IInv /\ IInv' /\ [Next]_vars => [Ledger!Next]_(Ledger!ledgerVars)
  BY LedgerStep
<1>. QED BY <1>1, <1>2, Invariance, PTL DEF SafeSpec, LedgerSafe, Ledger!SafeSpec

\* Exactly the changes whose rollback committed count as rolled back: the
\* ledger guarantees it, and the journal implements the ledger.
THEOREM RolledBackCorrect == SafeSpec => []RolledBackIffUndone
<1>1. Ledger!SafeSpec => []LedgerInv
  BY LedgerCorrect, JournalAssumption
<1>2. LedgerInv => RolledBackIffUndone
  BY DEF LedgerInv, Ledger!RolledBackIffUndone, RolledBackIffUndone
<1>. QED BY <1>1, <1>2, JournalImplementsLedger, PTL DEF LedgerSafe

-----------------------------------------------------------------------------
(* One open change.                                                        *)

\* No step opens a second row, or lets go of an open one without settling it.
LEMMA OneOpenStep ==
    ASSUME MaxStoreFaults = 0, IInv, OneOpenChange, [Next]_vars
    PROVE  OneOpenChange'
<1>. USE DEF IInv, OneOpenChange, diskVars, journalVars, engineVars, ghostVars
<1>1. ASSUME NEW c \in Changeset, Journal(c) PROVE OneOpenChange'
  BY <1>1, JournalAssumption DEF Journal, EngineInv, TypeOK
<1>2. ASSUME NEW s \in Status \ {"committing"}, Finish(s), pc \notin {"idle", "capture"}
      PROVE  OneOpenChange'
  BY <1>2, JournalAssumption DEF Finish, Free, EngineInv, TypeOK
<1>3. ASSUME BackupsFail \/ FinalDrift \/ SealFails \/ UndoDone PROVE OneOpenChange'
  BY <1>2, <1>3 DEF BackupsFail, FinalDrift, SealFails, UndoDone, Status
<1>4. ASSUME Seal PROVE OneOpenChange'
  BY <1>4, JournalAssumption DEF Seal, Retire, Free, EngineInv, TypeOK
<1>5. ASSUME NEW c \in Changeset,
             ReconcileApplied(c) \/ ReconcileOther(c) \/ Resolve(c)
      PROVE  OneOpenChange'
  BY <1>5 DEF ReconcileApplied, ReconcileOther, Resolve, Retire, TypeOK
<1>6. ASSUME Ready \/ Crash \/ StoreFault PROVE OneOpenChange'
  BY <1>6 DEF Ready, Crash, StoreFault, TypeOK
<1>7. ASSUME \/ \E p \in Plan : Preview(p) \/ Apply(p)
             \/ \E c \in Changeset : Rollback(c)
             \/ AbandonCapture \/ BackUp \/ StartWrites
      PROVE  UNCHANGED <<status, mode, cur>>
  BY <1>7 DEF Preview, Apply, Rollback, Start, AbandonCapture, BackUp, StartWrites
<1>8. ASSUME Intend \/ Recheck \/ Publish \/ Verify \/ WriteFails \/ FinalCheck
      PROVE  UNCHANGED <<status, mode, cur>>
  BY <1>8 DEF Intend, Recheck, Publish, Verify, WriteFails, FinalCheck, Goto
<1>9. ASSUME UndoSkip \/ UndoCheck \/ Unpublish \/ UndoVerify \/ UndoConflict
      PROVE  UNCHANGED <<status, mode, cur>>
  BY <1>9 DEF UndoSkip, UndoCheck, Unpublish, UndoVerify, UndoConflict, Goto
<1>10. ASSUME \/ \E x \in Path, v \in Content \cup {Absent} : ExternalEdit(x, v)
              \/ \E c \in Changeset, i \in Slot : DamageBackup(c, i)
              \/ UNCHANGED vars
       PROVE  UNCHANGED <<status, mode, cur>>
  BY <1>10 DEF ExternalEdit, DamageBackup, vars
<1>. QED
  BY <1>1, <1>3, <1>4, <1>5, <1>6, <1>7, <1>8, <1>9, <1>10
     DEF Next, Engine, Phase1, Phase2, Compensation, Boot, Request, Environment

\* If the store never refuses a status write for good, at most the change that
\* holds the lock is open once boot reconciliation is over.
THEOREM OneOpenCorrect ==
    ASSUME MaxStoreFaults = 0
    PROVE  SafeSpec => []OneOpenChange
<1>1. Init => OneOpenChange
  BY DEF Init, OneOpenChange
<1>2. IInv /\ OneOpenChange /\ [Next]_vars => OneOpenChange'
  BY OneOpenStep
<1>. QED BY <1>1, <1>2, Invariance, PTL DEF SafeSpec

-----------------------------------------------------------------------------
(* The originals are recoverable.                                          *)

Saved(c, i) == \/ ~NeedsBackup(files[c][i])
               \/ backup[c][i] = files[c][i].before
               \/ <<c, i>> \in damaged

Started(c) == \E i \in DOMAIN files[c] : jstate[c][i] \in {"written", "done", "reverted"}

\* Backups are taken in order, and no step is intended before the last one.
BackupInv ==
    /\ OriginalsRecoverable
    /\ \A c \in Changeset : status[c] = "none" =>
                               \A i \in Slot : jstate[c][i] = "pending"
    /\ pc = "backup" => /\ ~Started(cur)
                        /\ \A i \in 1..(at - 1) : Saved(cur, i)
    /\ pc \notin {"idle", "capture", "backup"} =>
          \A i \in DOMAIN files[cur] : Saved(cur, i)

\* The steps of a change are numbered by slots.
LEMMA DomainsInSlot ==
    ASSUME IInv
    PROVE  /\ \A c \in Changeset : DOMAIN files[c] = 1..Len(files[c]) /\ DOMAIN files[c] \subseteq Slot
           /\ DOMAIN job.files = 1..Len(job.files) /\ DOMAIN job.files \subseteq Slot
           /\ 1..(at - 1) \subseteq Slot
<1>. USE JournalAssumption DEF IInv, TypeOK, Slot
<1>1. \A q \in Seq(Step) : DOMAIN q = 1..Len(q)
  OBVIOUS
<1>2. \A n \in 0..MaxFiles : 1..n \subseteq 1..MaxFiles /\ 1..(n - 1) \subseteq 1..MaxFiles
  OBVIOUS
<1>. QED BY <1>1, <1>2

\* Losing or learning a directory identity takes no backup away.
LEMMA SavedKept ==
    ASSUME IInv, Publish \/ Unpublish \/ Crash, NEW c \in Changeset
    PROVE  /\ DOMAIN files'[c] = DOMAIN files[c]
           /\ \A i \in DOMAIN files[c] : Saved(c, i) => Saved(c, i)'
<1>. USE DEF NeedsBackup, Saved
<1>1. Dir \cap Content = {} /\ Unknown \notin Content
  BY JournalAssumption
<1>2. files \in [Changeset -> Seq(Step)] /\ files[c] \in Seq(Step)
  BY DEF IInv, TypeOK
<1>3. CASE Crash
  <2>1. /\ DOMAIN files'[c] = DOMAIN files[c]
        /\ \A i \in DOMAIN files[c] : files'[c][i] \in {files[c][i], Forgotten(files[c][i])}
    BY <1>2, <1>3 DEF Crash
  <2>2. \A i \in DOMAIN files[c] :
           \/ Forgotten(files[c][i]).before = files[c][i].before
           \/ Forgotten(files[c][i]).before = Unknown
    BY DEF Forgotten
  <2>3. UNCHANGED <<backup, damaged>>
    BY <1>3 DEF Crash
  <2>. QED BY <1>1, <2>1, <2>2, <2>3
<1>4. CASE Publish \/ Unpublish
  <2>1. cur \in Changeset /\ at \in 1..Len(files[cur]) /\ files[cur] \in Seq(Step)
    BY <1>4, ThisGood DEF IInv, EngineInv, TypeOK, Publish, Unpublish
  <2>2. UNCHANGED <<backup, damaged>>
    BY <1>4 DEF Publish, Unpublish, ghostVars
  <2>3. PICK d \in Dir :
           \/ files' = files
           \/ files' = [files EXCEPT ![cur][at].after = d]
           \/ files' = [files EXCEPT ![cur][at].before = d]
    BY <1>4 DEF Publish, Unpublish
  <2>4. CASE files' = files
    BY <2>2, <2>4
  <2>5. CASE files' = [files EXCEPT ![cur][at].after = d]
    <3>1. /\ DOMAIN files'[c] = DOMAIN files[c]
          /\ \A i \in DOMAIN files[c] : files'[c][i].before = files[c][i].before
      BY <1>2, <2>1, <2>5 DEF Step
    <3>. QED BY <2>2, <3>1
  <2>6. CASE files' = [files EXCEPT ![cur][at].before = d]
    <3>1. /\ DOMAIN files'[c] = DOMAIN files[c]
          /\ \A i \in DOMAIN files[c] : \/ files'[c][i].before = files[c][i].before
                                       \/ files'[c][i].before = d
      BY <1>2, <2>1, <2>6 DEF Step
    <3>. QED BY <1>1, <2>2, <3>1
  <2>. QED BY <2>3, <2>4, <2>5, <2>6
<1>. QED BY <1>3, <1>4

\* A step that changes neither the rows nor the backups, and after which the
\* engine is no further than before.
LEMMA BackupFrame ==
    ASSUME BackupInv, UNCHANGED <<status, files, jstate, backup, damaged>>,
           \/ pc' \in {"idle", "capture"}
           \/ pc' = pc /\ at' = at /\ cur' = cur
           \/ /\ pc \notin {"idle", "capture", "backup"}
              /\ pc' # "backup"
              /\ cur' = cur
    PROVE  BackupInv'
BY DEF BackupInv, OriginalsRecoverable, Unsettled, Started, Saved, NeedsBackup

\* Every step of the engine keeps the backups ahead of the writes.
LEMMA BackupBeforeWrites ==
    ASSUME IInv, IInv', BackupInv, [Next]_vars
    PROVE  BackupInv'
<1>. USE DEF diskVars, journalVars, engineVars, ghostVars
<1>1. ASSUME \/ \E p \in Plan : Preview(p) \/ Apply(p)
             \/ \E c \in Changeset : Rollback(c)
             \/ AbandonCapture \/ StoreFault
      PROVE  BackupInv'
  BY <1>1, BackupFrame
  DEF Preview, Apply, Rollback, Start, AbandonCapture, StoreFault, Free
<1>2. ASSUME StartWrites \/ Recheck \/ WriteFails \/ FinalCheck \/ UndoCheck \/ UndoConflict
      PROVE  BackupInv'
  <2>1. CASE StartWrites
    BY <2>1, BackupFrame DEF StartWrites
  <2>2. CASE Recheck \/ WriteFails \/ FinalCheck \/ UndoCheck \/ UndoConflict
    BY <2>2, BackupFrame
    DEF Recheck, WriteFails, FinalCheck, UndoCheck, UndoConflict, Goto
  <2>. QED BY <1>2, <2>1, <2>2
<1>3. ASSUME \/ \E x \in Path, v \in Content \cup {Absent} : ExternalEdit(x, v)
             \/ Ready \/ UNCHANGED vars
      PROVE  BackupInv'
  BY <1>3, BackupFrame DEF ExternalEdit, Ready, vars
<1>4. ASSUME NEW c \in Changeset, Journal(c) PROVE BackupInv'
  <2>. USE DEF Journal, IInv, TypeOK
  <2>1. ~Started(c)'
    <3>1. files'[c] = job.files /\ jstate' = jstate /\ \A i \in Slot : jstate[c][i] = "pending"
      BY <1>4 DEF BackupInv
    <3>. QED BY <3>1, DomainsInSlot DEF Started
  <2>2. OriginalsRecoverable'
    BY <1>4, <2>1
    DEF BackupInv, OriginalsRecoverable, Unsettled, Started, Saved, NeedsBackup
  <2>. QED BY <1>4, <2>1, <2>2 DEF BackupInv
<1>5. ASSUME BackUp PROVE BackupInv'
  <2>. USE DEF BackUp
  <2>0. cur \in Changeset /\ at \in Slot /\ at \in 1..Len(files[cur]) /\ status[cur] = "committing"
    BY <1>5, ThisGood DEF IInv, EngineInv, TypeOK
  <2>1. \A i \in 1..at : Saved(cur, i)'
    <3>1. \A i \in 1..(at - 1) : Saved(cur, i)
      BY <1>5 DEF BackupInv
    <3>2. ASSUME NEW i \in 1..(at - 1) PROVE Saved(cur, i)'
      <4>. HIDE DEF BackUp
      <4>1. i \in Slot
        BY DomainsInSlot
      <4>2. i # at
        BY <2>0, JournalAssumption DEF Slot
      <4>. QED BY <1>5, <2>0, <3>1, <4>1, <4>2 DEF BackUp, Saved, NeedsBackup, IInv, TypeOK
    <3>3. ASSUME NEW i \in Slot, i = at PROVE Saved(cur, i)'
      BY <1>5, <3>3, <2>0 DEF Saved, NeedsBackup, This, IInv, TypeOK
    <3>4. \A i \in 1..at : (i = at /\ i \in Slot) \/ i \in 1..(at - 1)
      BY <2>0
    <3>. QED BY <3>2, <3>3, <3>4
  <2>2. ~Started(cur)'
    BY <1>5, <2>0 DEF BackupInv, Started, IInv, TypeOK
  <2>3. OriginalsRecoverable'
    BY <1>5, <2>0, <2>2, ZenonT(40)
    DEF BackupInv, OriginalsRecoverable, Unsettled, Started, NeedsBackup,
                            IInv, TypeOK
  <2>4. \A c \in Changeset : status'[c] = "none" => \A i \in Slot : jstate'[c][i] = "pending"
    BY <1>5, <2>0 DEF BackupInv, IInv, TypeOK
  <2>5. DOMAIN files'[cur'] = 1..Len(files[cur]) /\ Len(files[cur]) \in Nat
    BY <1>5, <2>0 DEF IInv, TypeOK
  <2>6. /\ cur' = cur
        /\ \/ pc' = "backup" /\ at' = at + 1
           \/ pc' = "ready" /\ at = Len(files[cur])
    BY <1>5, <2>0, <2>5
  <2>7. pc' = "backup" => \A i \in 1..(at' - 1) : Saved(cur, i)'
    BY <2>0, <2>1, <2>6
  <2>8. pc' = "ready" => \A i \in DOMAIN files'[cur] : Saved(cur, i)'
    BY <2>1, <2>5, <2>6
  <2>. QED BY <2>2, <2>3, <2>4, <2>6, <2>7, <2>8 DEF BackupInv
<1>6. ASSUME Intend \/ Verify \/ UndoSkip \/ UndoVerify PROVE BackupInv'
  <2>1. cur \in Changeset /\ status[cur] = "committing" /\ pc \notin {"idle", "capture", "backup"}
    BY <1>6 DEF Intend, Verify, UndoSkip, UndoVerify, IInv, EngineInv, TypeOK
  <2>2. /\ UNCHANGED <<status, files, backup, damaged, cur>>
        /\ \A c \in Changeset : c # cur => jstate'[c] = jstate[c]
        /\ pc' \notin {"idle", "capture", "backup"}
    BY <1>6, <2>1 DEF Intend, Verify, UndoSkip, UndoVerify, Goto, IInv, TypeOK
  <2>. QED BY <2>1, <2>2 DEF BackupInv, OriginalsRecoverable, Unsettled, Started, Saved, NeedsBackup
<1>7. ASSUME Publish \/ Unpublish PROVE BackupInv'
  <2>1. /\ UNCHANGED <<status, jstate, cur>>
        /\ pc \notin {"idle", "capture", "backup"}
        /\ pc' \notin {"idle", "capture", "backup"}
    BY <1>7 DEF Publish, Unpublish, Goto
  <2>2. cur \in Changeset
    BY <2>1 DEF IInv, EngineInv, TypeOK
  <2>. QED BY <1>7, <2>1, <2>2, SavedKept DEF BackupInv, OriginalsRecoverable, Unsettled, Started, Saved
<1>8. ASSUME Crash PROVE BackupInv'
  <2>1. UNCHANGED <<status, jstate>> /\ pc' = "idle"
    BY <1>8 DEF Crash, Free
  <2>. QED BY <1>8, <2>1, SavedKept DEF BackupInv, OriginalsRecoverable, Unsettled, Started, Saved
<1>9. ASSUME NEW s \in {"failed", "recovery_required"}, Finish(s), pc \notin {"idle", "capture"},
             pc = "backup" => s = "failed"
      PROVE  BackupInv'
  <2>1. cur \in Changeset /\ status[cur] = "committing"
    BY <1>9 DEF IInv, EngineInv, TypeOK
  <2>2. pc' = "idle"
    BY <1>9 DEF Finish, Free
  <2>. QED BY <1>9, <2>1, <2>2 DEF Finish, BackupInv, OriginalsRecoverable, Unsettled, Started,
                                    Saved, NeedsBackup, IInv, TypeOK
<1>10. ASSUME BackupsFail \/ FinalDrift \/ SealFails \/ UndoDone PROVE BackupInv'
  BY <1>9, <1>10 DEF BackupsFail, FinalDrift, SealFails, UndoDone
<1>11. ASSUME NEW c \in Changeset, Retire(c), AllDone(c), status[c] = "committing",
              UNCHANGED <<files, backup, damaged>>, pc' = "idle"
       PROVE  BackupInv'
  <2>1. \A e \in Changeset : Unsettled(e)' => e # c /\ Unsettled(e)
    BY <1>11 DEF Retire, Unsettled, IInv, TypeOK
  <2>2. \A e \in Changeset : e # c => jstate'[e] = jstate[e]
    BY <1>11 DEF AllDone, IInv, TypeOK
  <2>3. \A e \in Changeset : status'[e] = "none" => e # c /\ status[e] = "none"
    BY <1>11 DEF Retire, IInv, TypeOK
  <2>. QED BY <1>11, <2>1, <2>2, <2>3
           DEF BackupInv, OriginalsRecoverable, Started, Saved, NeedsBackup
<1>12. ASSUME Seal PROVE BackupInv'
  BY <1>11, <1>12 DEF Seal, Free, IInv, EngineInv, TypeOK
<1>13. ASSUME NEW c \in Changeset, ReconcileApplied(c) PROVE BackupInv'
  BY <1>11, <1>13 DEF ReconcileApplied, IInv, EngineInv, TypeOK
<1>14. ASSUME NEW c \in Changeset, ReconcileOther(c) \/ Resolve(c) PROVE BackupInv'
  <2>1. /\ UNCHANGED <<files, jstate, backup, damaged, pc, cur, at>>
        /\ Unsettled(c)
        /\ \A e \in Changeset : e # c => status'[e] = status[e]
        /\ status'[c] # "none"
    BY <1>14 DEF ReconcileOther, Resolve, Unsettled, IInv, TypeOK
  <2>. QED BY <2>1 DEF BackupInv, OriginalsRecoverable, Unsettled, Started, Saved, NeedsBackup
<1>15. ASSUME NEW c \in Changeset, NEW i \in Slot, DamageBackup(c, i) PROVE BackupInv'
  <2>1. /\ UNCHANGED <<files, jstate, status, pc, cur, at>>
        /\ \A e \in Changeset, j \in Slot : Saved(e, j) => Saved(e, j)'
    BY <1>15 DEF DamageBackup, Saved, NeedsBackup, IInv, TypeOK
  <2>2. \A e \in Changeset : DOMAIN files[e] \subseteq Slot
    BY DomainsInSlot
  <2>3. pc = "backup" => cur \in Changeset /\ 1..(at - 1) \subseteq Slot
    BY DomainsInSlot DEF IInv, EngineInv, TypeOK
  <2>4. pc \notin {"idle", "capture"} => cur \in Changeset
    BY DEF IInv, EngineInv, TypeOK
  <2>. QED BY <2>1, <2>2, <2>3, <2>4 DEF BackupInv, OriginalsRecoverable, Unsettled, Started, Saved
<1>. QED
  BY <1>1, <1>2, <1>3, <1>4, <1>5, <1>6, <1>7, <1>8, <1>10, <1>12, <1>13, <1>14, <1>15
     DEF Next, Engine, Phase1, Phase2, Compensation, Boot, Request, Environment

\* Whatever fails or crashes, an unsettled change that reached its first write
\* has every original in a backup nothing but damage can take away.
THEOREM OriginalsCorrect == SafeSpec => []OriginalsRecoverable
<1>1. Init => BackupInv
  BY DEF Init, BackupInv, OriginalsRecoverable, Unsettled
<1>2. IInv /\ IInv' /\ BackupInv /\ [Next]_vars => BackupInv'
  BY BackupBeforeWrites
<1>3. BackupInv => OriginalsRecoverable
  BY DEF BackupInv
<1>. QED BY <1>1, <1>2, <1>3, Invariance, PTL DEF SafeSpec

-----------------------------------------------------------------------------
(* The engine replaces what it has accounted for.                          *)

Accounted(x, bytes) == x \in raced \/ (disk[x] = bytes /\ x \notin twin)

\* Only a file has a second name.  What is at the paths of a step is what was
\* looked at last, or somebody has been there since; a directory is removed if
\* it is the one that was looked at, since others put no directories.
AccountInv ==
    /\ \A x \in twin : disk[x] \in Content
    /\ pc \in {"stage", "publish"} /\ This.op = "rmdir" =>
          (disk[This.path] \in Dir => disk[This.path] = This.before)
    /\ pc = "publish" /\ This.op \notin {"mkdir", "rmdir"} =>
          \A x \in Footprint(This) : Accounted(x, Pre(This)[x])
    /\ pc = "unpublish" => \A x \in Footprint(This) : Accounted(x, Post(This)[x])

\* A step and the one that undoes it are about the same paths.
LEMMA FootprintIs ==
    ASSUME NEW f \in GoodStep
    PROVE  /\ Footprint(f) \subseteq Path /\ f.path \in Footprint(f)
           /\ Footprint(Inverse(f)) = Footprint(f)
           /\ DOMAIN Pre(f) = Footprint(f) /\ DOMAIN Post(f) = Footprint(f)
           /\ f.op # "move" => Footprint(f) = {f.path}
           /\ Pre(f)[f.path] = f.before
BY DEF Footprint, Inverse, Opposite, GoodStep, Step, Ops, Pre, Post

\* Where the engine is not about to write, second names are all that matters.
LEMMA AccountFrame ==
    ASSUME AccountInv, UNCHANGED disk, twin' \subseteq twin, pc' \notin {"stage", "publish", "unpublish"}
    PROVE  AccountInv'
BY DEF AccountInv

\* A create leaves a second name of a file, and what is removed leaves none.
LEMMA WriteTwins ==
    ASSUME IInv, AccountInv, NEW f \in GoodStep, NEW d \in Dir, Write(f, d)
    PROVE  \A x \in twin' : disk'[x] \in Content
<1>1. f.op = "create" => f.path \in Footprint(f) /\ f.path \in Path /\ Result(f, d)[f.path] = f.after
                         /\ f.after \in Content
  BY DEF Footprint, Result, Post, GoodStep, Step
<1>2. Footprint(f) \subseteq Path /\ twin \subseteq Path
  BY FootprintIs DEF IInv, TypeOK
<1>3. \A x \in twin \ Footprint(f) : disk'[x] = disk[x]
  BY <1>2 DEF Write
<1>4. f.op = "create" => disk'[f.path] = f.after
  BY <1>1 DEF Write
<1>. QED BY <1>1, <1>3, <1>4 DEF Write, AccountInv

\* Others only put files, or take something away.
LEMMA AccountEdit ==
    ASSUME IInv, AccountInv, NEW x \in Path, NEW v \in Content \cup {Absent}, ExternalEdit(x, v)
    PROVE  AccountInv'
<1>1. /\ disk' = [disk EXCEPT ![x] = v] /\ twin' = twin \ {x}
      /\ raced' = IF pc \in {"publish", "unpublish"} THEN raced \cup {x} ELSE raced
      /\ UNCHANGED <<pc, cur, at, files>> /\ disk \in [Path -> Bytes] /\ twin \subseteq Path
  BY DEF ExternalEdit, engineVars, journalVars, IInv, TypeOK
<1>2. v \notin Dir
  BY JournalAssumption
<1>3. This' = This
  BY <1>1 DEF This
<1>4. \A y \in Path : y # x => disk'[y] = disk[y]
  BY <1>1
<1>5. \A y \in twin' : disk'[y] \in Content
  BY <1>1, <1>4 DEF AccountInv
<1>6. ASSUME pc \in {"stage", "publish", "unpublish"} PROVE This \in GoodStep
  BY <1>6, ThisGood DEF IInv, EngineInv, TypeOK
<1>7. pc \in {"stage", "publish"} /\ This.op = "rmdir" =>
         (disk'[This.path] \in Dir => disk'[This.path] = This.before)
  BY <1>1, <1>2, <1>6, FootprintIs DEF AccountInv
<1>8. ASSUME pc \in {"publish", "unpublish"}, NEW bytes, NEW y \in Footprint(This), Accounted(y, bytes)
      PROVE  Accounted(y, bytes)'
  <2>1. y \in Path
    BY <1>6, <1>8, FootprintIs
  <2>. QED BY <1>1, <1>4, <1>8, <2>1 DEF Accounted
<1>9. ASSUME pc = "publish", This.op \notin {"mkdir", "rmdir"}, NEW y \in Footprint(This)
      PROVE  Accounted(y, Pre(This)[y])'
  <2>1. Accounted(y, Pre(This)[y])
    BY <1>9 DEF AccountInv
  <2>. QED BY <1>3, <1>8, <1>9, <2>1 DEF Accounted
<1>10. ASSUME pc = "unpublish", NEW y \in Footprint(This) PROVE Accounted(y, Post(This)[y])'
  <2>1. Accounted(y, Post(This)[y])
    BY <1>10 DEF AccountInv
  <2>. QED BY <1>3, <1>8, <1>10, <2>1 DEF Accounted
<1>. QED BY <1>1, <1>3, <1>5, <1>7, <1>9, <1>10 DEF AccountInv

\* What is looked at before a system call is what the call replaces.
LEMMA AccountLook ==
    ASSUME IInv, AccountInv, Intend \/ Recheck \/ UndoCheck
    PROVE  AccountInv'
<1>. USE DEF diskVars, journalVars, ghostVars, Goto
<1>1. cur # NoCs /\ at > 0 /\ This \in GoodStep
  BY ThisGood DEF IInv, EngineInv, TypeOK, Intend, Recheck, UndoCheck
<1>2. /\ UNCHANGED <<disk, twin, files, cur, at>>
      /\ \A x \in twin : disk[x] \in Content
  BY DEF Intend, Recheck, UndoCheck, AccountInv
<1>3. This' = This
  BY <1>2 DEF This
<1>4. CASE Intend
  <2>1. pc' = "stage" /\ disk[This.path] = This.before
    BY <1>1, <1>4, FootprintIs DEF Intend, Holds
  <2>. QED BY <1>2, <1>3, <2>1 DEF AccountInv
<1>5. CASE Recheck
  <2>1. pc = "stage" /\ pc' = "publish"
    BY <1>5 DEF Recheck
  <2>2. This.op \notin {"mkdir", "rmdir"} =>
           \A x \in Footprint(This) : disk[x] = Pre(This)[x] /\ x \notin twin
    BY <1>1, <1>5, FootprintIs DEF Recheck, Holds
  <2>3. This.op = "rmdir" => (disk[This.path] \in Dir => disk[This.path] = This.before)
    BY <2>1 DEF AccountInv
  <2>. QED BY <1>2, <1>3, <2>1, <2>2, <2>3 DEF AccountInv, Accounted
<1>6. CASE UndoCheck
  <2>1. pc' = "unpublish" /\ \A x \in Footprint(This) : disk[x] = Post(This)[x] /\ x \notin twin
    BY <1>1, <1>6, FootprintIs DEF UndoCheck, Holds
  <2>. QED BY <1>2, <1>3, <2>1 DEF AccountInv, Accounted
<1>. QED BY <1>4, <1>5, <1>6

\* Every other step of the daemon leaves the files alone.
LEMMA AccountStep ==
    ASSUME IInv, AccountInv, [Next]_vars
    PROVE  AccountInv'
<1>. USE DEF diskVars, journalVars, engineVars, ghostVars
<1>1. ASSUME \/ \E p \in Plan : Preview(p) \/ Apply(p)
             \/ \E c \in Changeset : Rollback(c)
             \/ AbandonCapture \/ \E c \in Changeset : Journal(c)
      PROVE  AccountInv'
  BY <1>1, AccountFrame DEF Preview, Awaiting, Apply, Rollback, Start, AbandonCapture, Journal
<1>2. ASSUME BackUp \/ StartWrites \/ BackupsFail \/ Verify \/ WriteFails \/ FinalCheck
      PROVE  AccountInv'
  BY <1>2, AccountFrame DEF BackUp, StartWrites, BackupsFail, Verify, WriteFails, FinalCheck, Finish, Free, Goto
<1>3. ASSUME FinalDrift \/ Seal \/ SealFails \/ StoreFault \/ Crash PROVE AccountInv'
  BY <1>3, AccountFrame DEF FinalDrift, Seal, SealFails, StoreFault, Crash, Finish, Free
<1>4. ASSUME UndoSkip \/ UndoVerify \/ UndoConflict \/ UndoDone PROVE AccountInv'
  BY <1>4, AccountFrame DEF UndoSkip, UndoVerify, UndoConflict, UndoDone, Finish, Free, Goto
<1>5. ASSUME Intend \/ Recheck \/ UndoCheck PROVE AccountInv'
  BY <1>5, AccountLook
<1>6. ASSUME Publish \/ Unpublish PROVE AccountInv'
  <2>1. This \in GoodStep /\ Inverse(This) \in GoodStep
    BY <1>6, ThisGood, InverseGood DEF IInv, EngineInv, TypeOK, Publish, Unpublish
  <2>2. \A x \in twin' : disk'[x] \in Content
    BY <1>6, <2>1, WriteTwins DEF Publish, Unpublish
  <2>3. pc' \notin {"stage", "publish", "unpublish"}
    BY <1>6 DEF Publish, Unpublish, Goto
  <2>. QED BY <2>2, <2>3 DEF AccountInv
<1>7. ASSUME \/ \E c \in Changeset : ReconcileApplied(c) \/ ReconcileOther(c) \/ Resolve(c)
             \/ Ready
      PROVE  AccountInv'
  <2>1. UNCHANGED <<disk, twin, pc>> /\ pc \in {"idle", "capture"}
    BY <1>7 DEF ReconcileApplied, ReconcileOther, Resolve, Ready, Awaiting, IInv, EngineInv
  <2>. QED BY <2>1, AccountFrame
<1>8. ASSUME NEW x \in Path, NEW v \in Content \cup {Absent}, ExternalEdit(x, v) PROVE AccountInv'
  BY <1>8, AccountEdit
<1>9. ASSUME UNCHANGED vars \/ \E c \in Changeset, i \in Slot : DamageBackup(c, i) PROVE AccountInv'
  <2>1. UNCHANGED <<disk, twin, raced, pc, at, cur, files>>
    BY <1>9 DEF DamageBackup, vars
  <2>. QED BY <2>1 DEF AccountInv, Accounted, This
<1>. QED
  BY <1>1, <1>2, <1>3, <1>4, <1>5, <1>6, <1>7, <1>8, <1>9
     DEF Next, Engine, Phase1, Phase2, Compensation, Boot, Request, Environment

\* The daemon writes files in two places only.
LEMMA WhoWrites ==
    ASSUME IInv, Next, edits' = edits, disk' # disk
    PROVE  Publish \/ Unpublish
<1>. USE DEF diskVars, journalVars, engineVars, ghostVars
<1>1. ASSUME Engine \/ Boot PROVE Publish \/ Unpublish
  <2>1. ASSUME Phase1 PROVE disk' = disk
    BY <2>1 DEF Phase1, AbandonCapture, Journal, BackUp, StartWrites, BackupsFail, Finish
  <2>2. ASSUME Phase2, ~ Publish PROVE disk' = disk
    BY <2>2 DEF Phase2, Intend, Recheck, Verify, WriteFails, FinalCheck, FinalDrift, Seal, SealFails, Finish
  <2>3. ASSUME Compensation, ~ Unpublish PROVE disk' = disk
    BY <2>3 DEF Compensation, UndoSkip, UndoCheck, UndoVerify, UndoConflict, UndoDone, Finish
  <2>4. ASSUME Boot PROVE disk' = disk
    BY <2>4 DEF Boot, ReconcileApplied, ReconcileOther, Ready
  <2>. QED BY <1>1, <2>1, <2>2, <2>3, <2>4 DEF Engine
<1>2. ASSUME Request PROVE disk' = disk
  BY <1>2 DEF Request, Preview, Apply, Rollback, Start, Resolve
<1>3. ASSUME Environment PROVE disk' = disk
  <2>1. ASSUME NEW x \in Path, NEW v \in Content \cup {Absent}, ExternalEdit(x, v) PROVE FALSE
    BY <2>1 DEF ExternalEdit, IInv, TypeOK
  <2>2. ASSUME StoreFault \/ Crash \/ \E c \in Changeset, i \in Slot : DamageBackup(c, i) PROVE disk' = disk
    BY <2>2 DEF StoreFault, Crash, DamageBackup
  <2>. QED BY <1>3, <2>1, <2>2 DEF Environment
<1>. QED BY <1>1, <1>2, <1>3 DEF Next

\* What a write replaces was accounted for.
LEMMA WritesAccounted ==
    ASSUME IInv, AccountInv, Publish \/ Unpublish, NEW x \in Path, disk'[x] # disk[x], x \notin raced
    PROVE  /\ x \in Footprint(This) /\ x \notin twin
           /\ disk[x] = IF pc = "publish" THEN Pre(This)[x] ELSE Post(This)[x]
<1>1. This \in GoodStep
  BY ThisGood DEF IInv, EngineInv, TypeOK, Publish, Unpublish
<1>2. x \in Footprint(This)
  BY <1>1, FootprintIs DEF Publish, Unpublish, Write
<1>3. CASE Unpublish
  BY <1>2, <1>3 DEF Unpublish, AccountInv, Accounted
<1>4. CASE Publish
  <2>1. pc = "publish" /\ Able(This)
    BY <1>4 DEF Publish, Write
  <2>2. CASE This.op \notin {"mkdir", "rmdir"}
    BY <1>2, <2>1, <2>2 DEF AccountInv, Accounted
  <2>3. CASE This.op \in {"mkdir", "rmdir"}
    <3>1. x = This.path /\ Pre(This)[x] = This.before
      BY <1>1, <1>2, <2>3, FootprintIs
    <3>2. disk[x] = This.before
      BY <1>1, <2>1, <2>3, <3>1 DEF Able, AccountInv, GoodStep
    <3>3. disk[x] \notin Content
      BY <2>1, <2>3, <3>1, JournalAssumption DEF Able
    <3>. QED BY <1>2, <2>1, <3>1, <3>2, <3>3 DEF AccountInv
  <2>. QED BY <2>2, <2>3
<1>. QED BY <1>3, <1>4

\* The engine never overwrites bytes it cannot account for: commitPlan and
\* compensateSteps look at a file right before they replace it.
THEOREM ReplacesOnlyAccounted == SafeSpec => OnlyAccountedBytesReplaced
<1>1. Init => AccountInv
  BY DEF Init, AccountInv
<1>2. IInv /\ AccountInv /\ [Next]_vars => AccountInv'
  BY AccountStep
<1>3. ASSUME IInv, AccountInv, Next, EngineWrites, NEW x \in Path, disk'[x] # disk[x]
      PROVE  \/ x \in raced
             \/ /\ x \in Footprint(This)
                /\ disk[x] = IF pc = "publish" THEN Pre(This)[x] ELSE Post(This)[x]
                /\ x \notin twin
  BY <1>3, WhoWrites, WritesAccounted DEF EngineWrites
<1>4. IInv /\ AccountInv /\ [Next]_vars =>
         [EngineWrites =>
            \A x \in Path : disk'[x] # disk[x] =>
               \/ x \in raced
               \/ /\ x \in Footprint(This)
                  /\ disk[x] = IF pc = "publish" THEN Pre(This)[x] ELSE Post(This)[x]
                  /\ x \notin twin]_vars
  BY <1>3
<1>. QED BY <1>1, <1>2, <1>4, Invariance, PTL DEF SafeSpec, OnlyAccountedBytesReplaced

-----------------------------------------------------------------------------
(* What is reported of a change is so.                                     *)

\* The steps of a plan are about different paths.
Apart(p) ==
    /\ \A i \in DOMAIN p : p[i].op = "move" => p[i].dest # p[i].path
    /\ \A i, j \in DOMAIN p : i # j => Footprint(p[i]) \cap Footprint(p[j]) = {}

\* A rollback undoes files only, and its target is settled for good.
Undoing(p, t) ==
    /\ p = RollbackPlan(files[t])
    /\ \A i \in DOMAIN files[t] : files[t][i].op \notin {"mkdir", "rmdir"}

ShapeInv ==
    /\ \A c \in Changeset : Apart(files[c])
    /\ Apart(job.files)
    /\ pc = "capture" /\ job.undoes # NoCs => Undoing(job.files, job.undoes)
    /\ \A c \in Changeset : undoes[c] # NoCs =>
          status[undoes[c]] \in {"committed", "rolled_back"} /\ Undoing(files[c], undoes[c])

\* A file of a step is as it was before the change, or as the step leaves it, or
\* others have edited it since the change was opened.
Before(i) == \A x \in Footprint(files[cur][i]) : x \in touched \/ disk[x] = Pre(files[cur][i])[x]
After(i) == \A x \in Footprint(files[cur][i]) : x \in touched \/ disk[x] = Post(files[cur][i])[x]

\* The steps that are still, or again, as before.
Compensating == {"undo", "unpublish", "unverify"}
Intact(i) ==
    \/ pc \in {"backup", "ready"}
    \/ pc \in {"intent", "stage", "publish"} /\ i >= at
    \/ pc = "verify" /\ i > at
    \/ pc \in Compensating /\ ~stuck /\ i > at

OutcomeInv ==
    /\ cur # NoCs => \A i \in DOMAIN files[cur] : Intact(i) => Before(i)
    /\ pc = "seal" => \A i \in DOMAIN files[cur] : After(i)

\* Two records of the same plan: directory identities apart, the steps agree.
Alike(p, q) ==
    /\ DOMAIN q = DOMAIN p
    /\ \A i \in DOMAIN p : q[i].op = p[i].op /\ q[i].path = p[i].path /\ q[i].dest = p[i].dest

FilesOnly(p) == \A i \in DOMAIN p : p[i].op \notin {"mkdir", "rmdir"}

\* Paths do not depend on what was learnt of a directory.
LEMMA AlikeApart == ASSUME NEW p, NEW q, Alike(p, q), Apart(p) PROVE Apart(q)
BY DEF Alike, Apart, Footprint

\* What the planner accepts is about different paths.
LEMMA PlanApart == ASSUME NEW p \in Plan PROVE Apart(p)
<1>1. PlanOK(p)
  BY JournalAssumption
<1>2. DOMAIN p = 1..Len(p)
  BY <1>1 DEF PlanOK
<1>. QED BY <1>1, <1>2 DEF PlanOK, Apart, WellFormed

\* The plan that undoes a plan is about the same paths, step for step.
LEMMA RollbackApart ==
    ASSUME NEW p \in Seq(GoodStep), Apart(p)
    PROVE  Apart(RollbackPlan(p))
<1>. DEFINE r == RollbackPlan(p)
<1>1. DOMAIN r = 1..Len(p) /\ DOMAIN p = 1..Len(p) /\ Len(p) \in Nat
  BY DEF RollbackPlan
<1>2. ASSUME NEW i \in 1..Len(p)
      PROVE  /\ Len(p) + 1 - i \in 1..Len(p) /\ p[Len(p) + 1 - i] \in GoodStep
             /\ r[i] = Inverse(p[Len(p) + 1 - i])
             /\ Footprint(r[i]) = Footprint(p[Len(p) + 1 - i])
  <2>1. Len(p) + 1 - i \in 1..Len(p)
    BY <1>1
  <2>2. p[Len(p) + 1 - i] \in GoodStep /\ r[i] = Inverse(p[Len(p) + 1 - i])
    BY <2>1 DEF RollbackPlan
  <2>. QED BY <2>1, <2>2, FootprintIs
<1>3. ASSUME NEW i \in 1..Len(p), r[i].op = "move" PROVE r[i].dest # r[i].path
  <2>1. p[Len(p) + 1 - i].op = "move"
    <3>1. r[i].op = Opposite(p[Len(p) + 1 - i].op) /\ p[Len(p) + 1 - i].op \in Ops
      <4>1. \A f \in GoodStep : f.op \in Ops /\ Inverse(f).op = Opposite(f.op)
        BY DEF Inverse, GoodStep, Step
      <4>2. p[Len(p) + 1 - i] \in GoodStep /\ r[i] = Inverse(p[Len(p) + 1 - i])
        BY <1>2
      <4>. HIDE DEF r
      <4>. QED BY <4>1, <4>2
    <3>. QED BY <1>3, <3>1 DEF Opposite, Ops
  <2>2. /\ r[i].dest = p[Len(p) + 1 - i].path /\ r[i].path = p[Len(p) + 1 - i].dest
        /\ Len(p) + 1 - i \in DOMAIN p
    BY <1>1, <1>2, <2>1 DEF Inverse
  <2>. QED BY <2>1, <2>2 DEF Apart
<1>4. ASSUME NEW i \in 1..Len(p), NEW j \in 1..Len(p), i # j
      PROVE  Footprint(r[i]) \cap Footprint(r[j]) = {}
  <2>1. Len(p) + 1 - i # Len(p) + 1 - j
    BY <1>1, <1>4
  <2>. QED BY <1>1, <1>2, <2>1 DEF Apart
<1>5. Apart(r)
  <2>. HIDE DEF r
  <2>. QED BY <1>1, <1>3, <1>4 DEF Apart
<1>. QED BY <1>5

\* Once its row is written, the steps of a change differ by what the engine
\* learns or forgets of directories, and only while it works on them.
StepKept(c) ==
    /\ Alike(files[c], files'[c])
    /\ c # cur \/ FilesOnly(files[c]) => files'[c] = files[c]
    /\ undoes'[c] = undoes[c]

LEMMA StepsKept ==
    ASSUME IInv, [Next]_vars, NEW c \in Changeset, ~ Journal(c)
    PROVE  StepKept(c)
<1>. USE DEF StepKept, diskVars, journalVars, engineVars, ghostVars
<1>0. files \in [Changeset -> Seq(Step)] /\ undoes \in [Changeset -> Changeset \cup {NoCs}]
  BY DEF IInv, TypeOK
<1>1. ASSUME UNCHANGED <<files, undoes>> PROVE StepKept(c)
  BY <1>1 DEF Alike
<1>2. ASSUME \/ \E p \in Plan : Preview(p) \/ Apply(p)
             \/ \E d \in Changeset : Rollback(d) \/ Resolve(d)
             \/ AbandonCapture \/ BackUp \/ StartWrites \/ BackupsFail
      PROVE  UNCHANGED <<files, undoes>>
  BY <1>2 DEF Preview, Apply, Rollback, Start, Resolve, AbandonCapture, BackUp, StartWrites, BackupsFail, Finish
<1>3. ASSUME Intend \/ Recheck \/ Verify \/ WriteFails \/ FinalCheck \/ FinalDrift \/ Seal \/ SealFails
      PROVE  UNCHANGED <<files, undoes>>
  BY <1>3 DEF Intend, Recheck, Verify, WriteFails, FinalCheck, FinalDrift, Seal, SealFails, Finish
<1>4. ASSUME UndoSkip \/ UndoCheck \/ UndoVerify \/ UndoConflict \/ UndoDone \/ StoreFault \/ Ready
      PROVE  UNCHANGED <<files, undoes>>
  BY <1>4 DEF UndoSkip, UndoCheck, UndoVerify, UndoConflict, UndoDone, StoreFault, Ready, Finish
<1>5. ASSUME \/ \E d \in Changeset : ReconcileApplied(d) \/ ReconcileOther(d)
             \/ \E x \in Path, v \in Content \cup {Absent} : ExternalEdit(x, v)
             \/ \E d \in Changeset, i \in Slot : DamageBackup(d, i)
             \/ UNCHANGED vars
      PROVE  UNCHANGED <<files, undoes>>
  BY <1>5 DEF ReconcileApplied, ReconcileOther, ExternalEdit, DamageBackup, vars
<1>6. ASSUME NEW d \in Changeset, Journal(d) PROVE StepKept(c)
  <2>1. files'[c] = files[c] /\ undoes'[c] = undoes[c]
    BY <1>0, <1>6 DEF Journal
  <2>. QED BY <2>1 DEF Alike
<1>7. ASSUME Publish \/ Unpublish PROVE StepKept(c)
  <2>1. at \in DOMAIN files[cur] /\ undoes' = undoes /\ cur \in Changeset
    BY <1>7, ThisGood DEF Publish, Unpublish, IInv, EngineInv, TypeOK
  <2>2. \/ files' = files
        \/ \E d \in Dir : /\ This.op \in {"mkdir", "rmdir"}
                          /\ \/ files' = [files EXCEPT ![cur][at].after = d]
                             \/ files' = [files EXCEPT ![cur][at].before = d]
    BY <1>7 DEF Publish, Unpublish
  <2>3. ASSUME NEW d \in Dir, This.op \in {"mkdir", "rmdir"},
               \/ files' = [files EXCEPT ![cur][at].after = d]
               \/ files' = [files EXCEPT ![cur][at].before = d]
        PROVE  StepKept(c)
    <3>. DEFINE p == files[cur]
                g == files'[cur]
    <3>1. ~ FilesOnly(files[cur]) /\ \A e \in Changeset : e # cur => files'[e] = files[e]
      BY <1>0, <2>1, <2>3 DEF FilesOnly, This
    <3>2. \/ g = [p EXCEPT ![at].after = d]
          \/ g = [p EXCEPT ![at].before = d]
      BY <1>0, <2>1, <2>3
    <3>3. p \in Seq(Step) /\ at \in DOMAIN p
      BY <1>0, <2>1
    <3>4. Alike(p, g)
      <4>. HIDE DEF p, g
      <4>1. DOMAIN g = DOMAIN p
        BY <3>2
      <4>2. \A i \in DOMAIN p : i # at => g[i] = p[i]
        BY <3>2
      <4>3. p[at] \in Step
        BY <3>3
      <4>4. g[at] = [p[at] EXCEPT !.after = d] \/ g[at] = [p[at] EXCEPT !.before = d]
        BY <3>2, <3>3
      <4>5. g[at].op = p[at].op /\ g[at].path = p[at].path /\ g[at].dest = p[at].dest
        BY <4>3, <4>4 DEF Step
      <4>. QED BY <4>1, <4>2, <4>5 DEF Alike
    <3>5. c # cur => Alike(files[c], files'[c])
      BY <3>1 DEF Alike
    <3>. QED BY <2>1, <3>1, <3>4, <3>5
  <2>. QED BY <1>1, <2>1, <2>2, <2>3
<1>8. ASSUME Crash PROVE StepKept(c)
  <2>1. CASE cur = NoCs
    BY <1>1, <1>8, <2>1 DEF Crash
  <2>2. CASE cur # NoCs
    <3>0. cur \in Changeset /\ undoes' = undoes
      BY <1>8, <2>2 DEF Crash, IInv, TypeOK
    <3>1. files' = [files EXCEPT ![cur] = [i \in DOMAIN files[cur] |->
                        IF i \in unsaved THEN Forgotten(files[cur][i]) ELSE files[cur][i]]]
      BY <1>8, <2>2 DEF Crash
    <3>2. /\ \A e \in Changeset : e # cur => files'[e] = files[e]
          /\ files'[cur] = [i \in DOMAIN files[cur] |->
                        IF i \in unsaved THEN Forgotten(files[cur][i]) ELSE files[cur][i]]
      BY <1>0, <3>0, <3>1
    <3>3. Alike(files[cur], files'[cur])
      BY <3>2 DEF Alike, Forgotten
    <3>4. ASSUME FilesOnly(files[cur]) PROVE files'[cur] = files[cur]
      <4>1. ASSUME NEW i \in DOMAIN files[cur] PROVE Forgotten(files[cur][i]) = files[cur][i]
        <5>1. files[cur][i] \in Step
          BY <1>0, <3>0
        <5>. QED BY <3>4, <5>1 DEF Forgotten, FilesOnly, Step
      <4>2. files[cur] = [i \in DOMAIN files[cur] |-> files[cur][i]]
        BY <1>0, <3>0
      <4>. QED BY <3>2, <4>1, <4>2
    <3>5. c # cur => Alike(files[c], files'[c])
      BY <3>2 DEF Alike
    <3>. QED BY <3>0, <3>2, <3>3, <3>4, <3>5
  <2>. QED BY <2>1, <2>2
<1>. QED
  BY <1>1, <1>2, <1>3, <1>4, <1>5, <1>6, <1>7, <1>8
     DEF Next, Engine, Phase1, Phase2, Compensation, Boot, Request, Environment

\* A change that was committed never gets another final status than rolled back.
LEMMA CommittedStays ==
    ASSUME IInv, [Next]_vars, NEW t \in Changeset, status[t] \in {"committed", "rolled_back"}
    PROVE  status'[t] \in {"committed", "rolled_back"}
<1>. USE DEF diskVars, journalVars, engineVars, ghostVars
<1>0. status \in [Changeset -> Status] /\ (cur # NoCs => cur \in Changeset /\ status[cur] = "committing")
  BY DEF IInv, TypeOK, EngineInv
<1>1. ASSUME NEW s, Finish(s), pc \notin {"idle", "capture"} PROVE status'[t] \in {"committed", "rolled_back"}
  <2>1. cur # NoCs
    BY <1>1 DEF IInv, EngineInv
  <2>. QED BY <1>0, <1>1, <2>1 DEF Finish
<1>2. ASSUME BackupsFail \/ FinalDrift \/ SealFails \/ UndoDone PROVE status'[t] \in {"committed", "rolled_back"}
  BY <1>1, <1>2 DEF BackupsFail, FinalDrift, SealFails, UndoDone
<1>3. ASSUME NEW c \in Changeset, Retire(c) PROVE status'[t] \in {"committed", "rolled_back"}
  BY <1>0, <1>3 DEF Retire
<1>4. ASSUME Seal PROVE status'[t] \in {"committed", "rolled_back"}
  <2>1. cur \in Changeset
    BY <1>4 DEF Seal, IInv, EngineInv, TypeOK
  <2>. QED BY <1>3, <1>4, <2>1 DEF Seal
<1>5. ASSUME NEW c \in Changeset,
             Journal(c) \/ ReconcileApplied(c) \/ ReconcileOther(c) \/ Resolve(c)
      PROVE  status'[t] \in {"committed", "rolled_back"}
  BY <1>0, <1>3, <1>5 DEF Journal, ReconcileApplied, ReconcileOther, Resolve
<1>6. ASSUME \/ \E p \in Plan : Preview(p) \/ Apply(p)
             \/ \E c \in Changeset : Rollback(c)
             \/ AbandonCapture \/ BackUp \/ StartWrites
             \/ Intend \/ Recheck \/ Verify \/ WriteFails \/ FinalCheck
      PROVE  status' = status
  BY <1>6 DEF Preview, Apply, Rollback, Start, AbandonCapture, BackUp, StartWrites, Intend, Recheck, Verify,
              WriteFails, FinalCheck
<1>7. ASSUME \/ UndoSkip \/ UndoCheck \/ UndoVerify \/ UndoConflict \/ StoreFault \/ Ready \/ Crash
             \/ Publish \/ Unpublish \/ UNCHANGED vars
             \/ \E x \in Path, v \in Content \cup {Absent} : ExternalEdit(x, v)
             \/ \E d \in Changeset, i \in Slot : DamageBackup(d, i)
      PROVE  status' = status
  BY <1>7 DEF UndoSkip, UndoCheck, UndoVerify, UndoConflict, StoreFault, Ready, Crash, Publish, Unpublish,
              ExternalEdit, DamageBackup, vars
<1>. QED
  BY <1>0, <1>2, <1>4, <1>5, <1>6, <1>7
     DEF Next, Engine, Phase1, Phase2, Compensation, Boot, Request, Environment

\* Requests come with a plan about different paths, and the plan of a rollback
\* is the one that undoes its target.
JobShaped ==
    /\ Apart(job'.files)
    /\ pc' = "capture" /\ job'.undoes # NoCs => Undoing(job.files, job.undoes)'

LEMMA JobShape == ASSUME IInv, IInv', ShapeInv, [Next]_vars PROVE JobShaped
<1>. USE DEF JobShaped, diskVars, journalVars, engineVars, ghostVars
<1>0. Apart(NoJob.files) /\ NoJob.undoes = NoCs
  BY DEF NoJob, Apart
<1>1. ASSUME NEW p \in Plan, Apply(p) PROVE JobShaped
  BY <1>1, PlanApart DEF Apply, Start
<1>2. ASSUME NEW t \in Changeset, Rollback(t) PROVE JobShaped
  <2>1. Apart(files[t]) /\ files[t] \in Seq(GoodStep) /\ job' = [files |-> RollbackPlan(files[t]), undoes |-> t]
        /\ files' = files /\ FilesOnly(files[t])
    BY <1>2 DEF Rollback, Start, ShapeInv, IInv, JournalTyped, FilesOnly
  <2>. QED BY <2>1, RollbackApart DEF Undoing, FilesOnly
<1>3. ASSUME job' = NoJob PROVE JobShaped
  BY <1>0, <1>3
<1>4. ASSUME job' = job, pc' = "capture" => pc = "capture", NEW c \in Changeset, Journal(c) PROVE JobShaped
  BY <1>4 DEF Journal, ShapeInv
<1>5. ASSUME job' = job, pc' = "capture" => pc = "capture", \A c \in Changeset : ~ Journal(c) PROVE JobShaped
  <2>1. ASSUME pc = "capture", pc' = "capture", job.undoes # NoCs PROVE Undoing(job.files, job.undoes)'
    <3>. DEFINE t == job.undoes
    <3>1. t \in Changeset /\ Undoing(job.files, t) /\ FilesOnly(files[t])
      BY <2>1 DEF IInv, TypeOK, ShapeInv, Undoing, FilesOnly
    <3>2. files'[t] = files[t]
      BY <1>5, <3>1, StepsKept DEF StepKept
    <3>. QED BY <1>5, <3>1, <3>2 DEF Undoing
  <2>. QED BY <1>5, <2>1 DEF ShapeInv
<1>6. ASSUME AbandonCapture \/ BackupsFail \/ FinalDrift \/ Seal \/ SealFails \/ StoreFault \/ Crash \/ UndoDone
      PROVE  job' = NoJob
  BY <1>6 DEF AbandonCapture, BackupsFail, FinalDrift, Seal, SealFails, StoreFault, Crash, UndoDone, Finish, Free
<1>7. ASSUME \/ \E p \in Plan : Preview(p)
             \/ \E c \in Changeset : Journal(c) \/ Resolve(c) \/ ReconcileApplied(c) \/ ReconcileOther(c)
             \/ BackUp \/ StartWrites \/ Intend \/ Recheck \/ Verify \/ WriteFails \/ FinalCheck
      PROVE  job' = job /\ (pc' = "capture" => pc = "capture")
  BY <1>7 DEF Preview, Journal, Resolve, ReconcileApplied, ReconcileOther, BackUp, StartWrites, Intend, Recheck,
              Verify, WriteFails, FinalCheck, Goto
<1>8. ASSUME \/ UndoSkip \/ UndoCheck \/ UndoVerify \/ UndoConflict \/ Ready
             \/ Publish \/ Unpublish \/ UNCHANGED vars
             \/ \E x \in Path, v \in Content \cup {Absent} : ExternalEdit(x, v)
             \/ \E d \in Changeset, i \in Slot : DamageBackup(d, i)
      PROVE  job' = job /\ (pc' = "capture" => pc = "capture")
  BY <1>8 DEF UndoSkip, UndoCheck, UndoVerify, UndoConflict, Ready, Publish, Unpublish,
              ExternalEdit, DamageBackup, vars, Goto
<1>. QED
  BY <1>1, <1>2, <1>3, <1>4, <1>5, <1>6, <1>7, <1>8
     DEF Next, Engine, Phase1, Phase2, Compensation, Boot, Request, Environment

\* The plans on record stay about different paths, and a rollback stays the
\* plan that undoes a settled change.
LEMMA ShapeStep ==
    ASSUME IInv, IInv', ShapeInv, [Next]_vars
    PROVE  ShapeInv'
<1>1. ASSUME NEW c \in Changeset, Journal(c), NEW e \in Changeset
      PROVE  /\ Apart(files'[e])
             /\ undoes'[e] # NoCs => /\ status'[undoes'[e]] \in {"committed", "rolled_back"}
                                     /\ Undoing(files[e], undoes[e])'
  <2>0. /\ status \in [Changeset -> Status] /\ undoes \in [Changeset -> Changeset \cup {NoCs}]
        /\ files \in [Changeset -> Seq(Step)] /\ job.undoes \in Changeset \cup {NoCs}
    BY DEF IInv, TypeOK
  <2>1. /\ status[c] = "none" /\ undoes' = [undoes EXCEPT ![c] = job.undoes]
        /\ files' = [files EXCEPT ![c] = job.files] /\ status' = [status EXCEPT ![c] = "committing"]
        /\ pc = "capture"
    BY <1>1 DEF Journal
  <2>2. CASE e = c
    <3>1. files'[e] = job.files /\ undoes'[e] = job.undoes
      BY <2>0, <2>1, <2>2
    <3>2. ASSUME job.undoes # NoCs
          PROVE  /\ status'[job.undoes] = "committed" /\ files'[job.undoes] = files[job.undoes]
                 /\ Undoing(job.files, job.undoes)
      <4>1. status[job.undoes] = "committed" /\ job.undoes # c
        BY <2>1, <3>2 DEF IInv, EngineInv
      <4>. QED BY <2>0, <2>1, <3>2, <4>1 DEF ShapeInv
    <3>. QED BY <3>1, <3>2 DEF ShapeInv, Undoing
  <2>3. CASE e # c
    <3>1. files'[e] = files[e] /\ undoes'[e] = undoes[e]
      BY <2>0, <2>1, <2>3
    <3>2. ASSUME undoes[e] # NoCs
          PROVE  /\ status'[undoes[e]] = status[undoes[e]] /\ files'[undoes[e]] = files[undoes[e]]
      <4>1. undoes[e] # c
        BY <2>1, <3>2 DEF IInv, EngineInv
      <4>. QED BY <2>0, <2>1, <3>2, <4>1
    <3>. QED BY <3>1, <3>2 DEF ShapeInv, Undoing
  <2>. QED BY <2>2, <2>3
<1>2. ASSUME \A c \in Changeset : ~ Journal(c), NEW e \in Changeset
      PROVE  /\ Apart(files'[e])
             /\ undoes'[e] # NoCs => /\ status'[undoes'[e]] \in {"committed", "rolled_back"}
                                     /\ Undoing(files[e], undoes[e])'
  <2>1. Alike(files[e], files'[e]) /\ undoes'[e] = undoes[e]
    BY <1>2, StepsKept DEF StepKept
  <2>2. Apart(files'[e])
    BY <2>1, AlikeApart DEF ShapeInv
  <2>3. ASSUME undoes[e] # NoCs
        PROVE  status'[undoes[e]] \in {"committed", "rolled_back"} /\ Undoing(files[e], undoes[e])'
    <3>. DEFINE t == undoes[e]
    <3>1. t \in Changeset /\ status[t] \in {"committed", "rolled_back"} /\ Undoing(files[e], t) /\ FilesOnly(files[t])
      BY <2>3 DEF IInv, TypeOK, ShapeInv, Undoing, FilesOnly
    <3>2. status'[t] \in {"committed", "rolled_back"} /\ files'[t] = files[t]
      BY <1>2, <3>1, StepsKept, CommittedStays DEF StepKept
    <3>3. FilesOnly(files[e])
      <4>1. files[t] \in Seq(GoodStep)
        BY <3>1 DEF IInv, JournalTyped
      <4>2. \A i \in 1..Len(files[t]) : Len(files[t]) + 1 - i \in 1..Len(files[t])
        BY <4>1
      <4>3. \A i \in 1..Len(files[t]) : files[t][i].op \notin {"mkdir", "rmdir"} /\ files[t][i] \in GoodStep
        BY <3>1, <4>1 DEF FilesOnly
      <4>4. \A f \in GoodStep : f.op \notin {"mkdir", "rmdir"} => Inverse(f).op \notin {"mkdir", "rmdir"}
        BY DEF Inverse, Opposite, GoodStep, Step, Ops
      <4>5. DOMAIN files[e] = 1..Len(files[t])
            /\ \A i \in 1..Len(files[t]) : files[e][i] = Inverse(files[t][Len(files[t]) + 1 - i])
        BY <3>1, <4>1 DEF Undoing, RollbackPlan
      <4>. QED BY <4>2, <4>3, <4>4, <4>5 DEF FilesOnly
    <3>4. files'[e] = files[e]
      BY <1>2, <3>3, StepsKept DEF StepKept
    <3>. QED BY <2>1, <3>1, <3>2, <3>4 DEF Undoing
  <2>. QED BY <2>1, <2>2, <2>3
<1>. QED BY <1>1, <1>2, JobShape DEF ShapeInv, JobShaped

\* A step that moves the engine on keeps what is known of the files, if it
\* claims no more of them, or has just looked.
LEMMA OutcomeFrame ==
    ASSUME OutcomeInv, UNCHANGED <<disk, files, cur, touched>>, pc' # "seal",
           cur # NoCs => \A i \in DOMAIN files[cur] : Intact(i)' => Intact(i) \/ Before(i)
    PROVE  OutcomeInv'
BY DEF OutcomeInv, Before

\* A step of another path is as it was before.
LEMMA OthersKept ==
    ASSUME IInv, ShapeInv, OutcomeInv, Publish \/ Unpublish
    PROVE  OutcomeInv'
<1>0. /\ cur \in Changeset /\ at \in DOMAIN files[cur] /\ This \in GoodStep
      /\ cur' = cur /\ at' = at /\ touched' = touched /\ stuck' = stuck
      /\ pc' = IF pc = "publish" THEN "verify" ELSE "unverify"
      /\ pc \in {"publish", "unpublish"}
  BY ThisGood DEF Publish, Unpublish, Goto, ghostVars, IInv, EngineInv, TypeOK
<1>1. \E f \in GoodStep, d \in Dir : Footprint(f) = Footprint(This) /\ Write(f, d)
  BY <1>0, FootprintIs, InverseGood DEF Publish, Unpublish
<1>2. \A x \in Path : x \notin Footprint(This) => disk'[x] = disk[x]
  BY <1>1 DEF Write
<1>3. DOMAIN files'[cur] = DOMAIN files[cur] /\ \A i \in DOMAIN files[cur] : i # at => files'[cur][i] = files[cur][i]
  <2>1. files \in [Changeset -> Seq(Step)]
    BY DEF IInv, TypeOK
  <2>2. \/ files' = files
        \/ \E d \in Dir : \/ files' = [files EXCEPT ![cur][at].after = d]
                          \/ files' = [files EXCEPT ![cur][at].before = d]
    BY <1>0 DEF Publish, Unpublish
  <2>. QED BY <1>0, <2>1, <2>2
<1>4. ASSUME NEW i \in DOMAIN files[cur], Intact(i)' PROVE Before(i)'
  <2>1. i # at /\ Intact(i)
    BY <1>0, <1>4 DEF Intact, Compensating, IInv, TypeOK
  <2>2. /\ Before(i) /\ files'[cur][i] = files[cur][i]
        /\ Footprint(files[cur][i]) \cap Footprint(This) = {}
        /\ Footprint(files[cur][i]) \subseteq Path
    <3>1. files[cur][i] \in GoodStep
      BY <1>0 DEF IInv, JournalTyped
    <3>. QED BY <1>0, <1>3, <2>1, <3>1, FootprintIs, ZenonT(40) DEF OutcomeInv, ShapeInv, Apart, This, IInv, EngineInv
  <2>3. \A x \in Footprint(files[cur][i]) : disk'[x] = disk[x]
    BY <1>2, <2>2
  <2>. QED BY <1>0, <2>2, <2>3 DEF Before
<1>. QED BY <1>0, <1>3, <1>4 DEF OutcomeInv

\* The engine knows of the files of its change what it has seen.
LEMMA OutcomeStep ==
    ASSUME IInv, IInv', ShapeInv, OutcomeInv, [Next]_vars
    PROVE  OutcomeInv'
<1>. USE DEF diskVars, journalVars, engineVars, ghostVars
<1>1. ASSUME cur' = NoCs, pc' # "seal" PROVE OutcomeInv'
  BY <1>1 DEF OutcomeInv
<1>2. ASSUME \/ \E p \in Plan : Preview(p) \/ Apply(p)
             \/ \E c \in Changeset : Rollback(c) \/ Resolve(c) \/ ReconcileApplied(c) \/ ReconcileOther(c)
             \/ AbandonCapture \/ Ready
      PROVE  cur' = NoCs /\ pc' # "seal"
  <2>1. cur = NoCs /\ pc \in {"idle", "capture"}
    BY <1>2 DEF Preview, Apply, Rollback, Start, Resolve, ReconcileApplied, ReconcileOther, AbandonCapture,
                Ready, Awaiting, IInv, EngineInv
  <2>. QED BY <1>2, <2>1 DEF Preview, Apply, Rollback, Start, Resolve, ReconcileApplied, ReconcileOther,
                             AbandonCapture, Ready
<1>3. ASSUME BackupsFail \/ FinalDrift \/ Seal \/ SealFails \/ StoreFault \/ Crash \/ UndoDone
      PROVE  cur' = NoCs /\ pc' # "seal"
  BY <1>3 DEF BackupsFail, FinalDrift, Seal, SealFails, StoreFault, Crash, UndoDone, Finish, Free
<1>4. ASSUME NEW c \in Changeset, Journal(c) PROVE OutcomeInv'
  <2>1. files'[c] = job.files /\ cur' = c /\ disk' = disk /\ AllPre(job.files) /\ pc' = "backup"
    BY <1>4 DEF Journal, IInv, TypeOK
  <2>2. \A i \in DOMAIN job.files : \A x \in Footprint(job.files[i]) : disk[x] = Pre(job.files[i])[x]
    BY <2>1 DEF AllPre, Holds, Pre
  <2>. QED BY <2>1, <2>2 DEF OutcomeInv, Before
<1>5. ASSUME BackUp \/ StartWrites \/ Intend \/ Recheck \/ UndoCheck PROVE OutcomeInv'
  <2>1. UNCHANGED <<disk, files, cur, touched>> /\ pc' # "seal"
    BY <1>5 DEF BackUp, StartWrites, Intend, Recheck, UndoCheck, Goto
  <2>2. \A i \in DOMAIN files[cur] : Intact(i)' => Intact(i)
    BY <1>5 DEF Intact, Compensating, BackUp, StartWrites, Intend, Recheck, UndoCheck, Goto
  <2>. QED BY <2>1, <2>2, OutcomeFrame
<1>6. ASSUME Verify \/ WriteFails \/ UndoConflict PROVE OutcomeInv'
  <2>1. UNCHANGED <<disk, files, cur, touched>> /\ pc' # "seal"
    BY <1>6 DEF Verify, WriteFails, UndoConflict, Goto
  <2>2. cur # NoCs => \A i \in DOMAIN files[cur] : i \in Nat
    BY SMTT(30) DEF IInv, TypeOK
  <2>3. cur # NoCs => \A i \in DOMAIN files[cur] : Intact(i)' => Intact(i)
    BY <1>6, <2>2 DEF Intact, Compensating, Verify, WriteFails, UndoConflict, Goto, IInv, TypeOK
  <2>. QED BY <2>1, <2>3, OutcomeFrame
<1>7. ASSUME FinalCheck PROVE OutcomeInv'
  <2>1. /\ cur' = cur /\ disk' = disk /\ AllPost(files[cur]) /\ pc' = "seal" /\ files' = files
    BY <1>7 DEF FinalCheck, Goto
  <2>2. \A i \in DOMAIN files[cur] : \A x \in Footprint(files[cur][i]) : disk[x] = Post(files[cur][i])[x]
    BY <2>1 DEF AllPost, Holds, Post
  <2>. QED BY <2>1, <2>2 DEF OutcomeInv, After, Intact, Compensating
<1>8. ASSUME UndoSkip \/ UndoVerify PROVE OutcomeInv'
  <2>1. UNCHANGED <<disk, files, cur, touched, stuck>> /\ pc' = "undo" /\ at' = at - 1 /\ pc \in {"undo", "unverify"}
    BY <1>8 DEF UndoSkip, UndoVerify, Goto
  <2>2. \A x \in Footprint(This) : disk[x] = Pre(This)[x]
    BY <1>8 DEF UndoSkip, UndoVerify, Holds, Pre
  <2>3. Before(at)
    BY <2>2 DEF Before, This
  <2>4. cur # NoCs => \A i \in DOMAIN files[cur] : i \in Nat
    BY SMTT(30) DEF IInv, TypeOK
  <2>5. cur # NoCs => \A i \in DOMAIN files[cur] : Intact(i)' => Intact(i) \/ i = at
    BY <2>1, <2>4 DEF Intact, Compensating, IInv, TypeOK
  <2>. QED BY <2>1, <2>3, <2>5, OutcomeFrame
<1>9. ASSUME Publish \/ Unpublish PROVE OutcomeInv'
  BY <1>9, OthersKept
<1>10. ASSUME NEW x \in Path, NEW v \in Content \cup {Absent}, ExternalEdit(x, v) PROVE OutcomeInv'
  <2>1. /\ UNCHANGED <<files, cur, pc, at, stuck>> /\ touched' = touched \cup {x}
        /\ \A y : y # x => disk'[y] = disk[y]
    BY <1>10 DEF ExternalEdit, IInv, TypeOK
  <2>2. \A i : Intact(i)' => Intact(i)
    BY <2>1 DEF Intact
  <2>3. \A i : Before(i) => Before(i)'
    BY <2>1 DEF Before
  <2>4. \A i : After(i) => After(i)'
    BY <2>1 DEF After
  <2>. QED BY <2>1, <2>2, <2>3, <2>4 DEF OutcomeInv
<1>11. ASSUME UNCHANGED vars \/ \E c \in Changeset, i \in Slot : DamageBackup(c, i) PROVE OutcomeInv'
  <2>1. UNCHANGED <<disk, files, cur, touched, pc, at, stuck>>
    BY <1>11 DEF DamageBackup, vars
  <2>. QED BY <2>1 DEF OutcomeInv, Intact, Before, After
<1>. QED
  BY <1>1, <1>2, <1>3, <1>4, <1>5, <1>6, <1>7, <1>8, <1>9, <1>10, <1>11
     DEF Next, Engine, Phase1, Phase2, Compensation, Boot, Request, Environment

\* A change gets its final status from the engine or at boot, and failed is
\* the status of one whose files are as before.
LEMMA FailedRestored ==
    ASSUME IInv, OutcomeInv, Next, NEW c \in Changeset,
           status[c] = "committing", status'[c] = "failed"
    PROVE  \A i \in DOMAIN files[c] : \A x \in Footprint(files[c][i]) :
              x \in touched \/ disk[x] = Pre(files[c][i])[x]
<1>. USE DEF diskVars, journalVars, engineVars, ghostVars
<1>0. status \in [Changeset -> Status] /\ (cur # NoCs => cur \in Changeset)
  BY DEF IInv, TypeOK
<1>1. ASSUME BackupsFail PROVE c = cur /\ \A i \in DOMAIN files[c] : Before(i)
  BY <1>0, <1>1 DEF BackupsFail, Finish, OutcomeInv, Intact, IInv, EngineInv
<1>2. ASSUME UndoDone PROVE c = cur /\ \A i \in DOMAIN files[c] : Before(i)
  <2>1. c = cur /\ ~ stuck /\ pc = "undo" /\ at = 0
    BY <1>0, <1>2 DEF UndoDone, Finish, IInv, EngineInv
  <2>2. \A i \in DOMAIN files[cur] : i > 0
    BY <2>1 DEF IInv, TypeOK
  <2>. QED BY <1>0, <2>1, <2>2 DEF OutcomeInv, Intact, Compensating, IInv, EngineInv
<1>3. ASSUME NEW d \in Changeset, ReconcileOther(d) PROVE AllPre(files[c])
  BY <1>0, <1>3 DEF ReconcileOther
<1>4. ASSUME FinalDrift \/ SealFails PROVE FALSE
  BY <1>0, <1>4 DEF FinalDrift, SealFails, Finish
<1>5. ASSUME Seal \/ \E d \in Changeset : ReconcileApplied(d) PROVE FALSE
  BY <1>0, <1>5 DEF Seal, ReconcileApplied, Retire
<1>6. ASSUME NEW d \in Changeset, Journal(d) \/ Resolve(d) PROVE FALSE
  BY <1>0, <1>6 DEF Journal, Resolve
<1>7. ASSUME \/ \E p \in Plan : Preview(p) \/ Apply(p)
             \/ \E d \in Changeset : Rollback(d)
             \/ AbandonCapture \/ BackUp \/ StartWrites
             \/ Intend \/ Recheck \/ Verify \/ WriteFails \/ FinalCheck
      PROVE  FALSE
  BY <1>7 DEF Preview, Apply, Rollback, Start, AbandonCapture, BackUp, StartWrites, Intend, Recheck, Verify,
              WriteFails, FinalCheck
<1>8. ASSUME \/ UndoSkip \/ UndoCheck \/ UndoVerify \/ UndoConflict \/ StoreFault \/ Ready \/ Crash
             \/ Publish \/ Unpublish
             \/ \E x \in Path, v \in Content \cup {Absent} : ExternalEdit(x, v)
             \/ \E d \in Changeset, i \in Slot : DamageBackup(d, i)
      PROVE  FALSE
  BY <1>8 DEF UndoSkip, UndoCheck, UndoVerify, UndoConflict, StoreFault, Ready, Crash, Publish, Unpublish,
              ExternalEdit, DamageBackup
<1>9. AllPre(files[c]) =>
         \A i \in DOMAIN files[c] : \A x \in Footprint(files[c][i]) : disk[x] = Pre(files[c][i])[x]
  BY DEF AllPre, Holds, Pre
<1>10. c = cur => \A i \in DOMAIN files[c] : Before(i) =>
                    \A x \in Footprint(files[c][i]) : x \in touched \/ disk[x] = Pre(files[c][i])[x]
  BY DEF Before
<1>. QED
  BY <1>1, <1>2, <1>3, <1>4, <1>5, <1>6, <1>7, <1>8, <1>9, <1>10
     DEF Next, Engine, Phase1, Phase2, Compensation, Boot, Request, Environment

\* Committed is the status of one whose files are as it leaves them.
LEMMA CommittedApplied ==
    ASSUME IInv, OutcomeInv, Next, NEW c \in Changeset,
           status[c] = "committing", status'[c] = "committed"
    PROVE  \A i \in DOMAIN files[c] : \A x \in Footprint(files[c][i]) :
              x \in touched \/ disk[x] = Post(files[c][i])[x]
<1>. USE DEF diskVars, journalVars, engineVars, ghostVars
<1>0. status \in [Changeset -> Status] /\ (cur # NoCs => cur \in Changeset)
  BY DEF IInv, TypeOK
<1>1. ASSUME Seal PROVE c = cur /\ \A i \in DOMAIN files[c] : After(i)
  BY <1>0, <1>1 DEF Seal, Retire, OutcomeInv, IInv, EngineInv
<1>2. ASSUME NEW d \in Changeset, ReconcileApplied(d) PROVE AllPost(files[c])
  BY <1>0, <1>2 DEF ReconcileApplied, Retire, ProvenApplied
<1>3. ASSUME NEW d \in Changeset, ReconcileOther(d) \/ Journal(d) \/ Resolve(d) PROVE FALSE
  BY <1>0, <1>3 DEF ReconcileOther, Journal, Resolve
<1>4. ASSUME BackupsFail \/ FinalDrift \/ SealFails \/ UndoDone PROVE FALSE
  BY <1>0, <1>4 DEF BackupsFail, FinalDrift, SealFails, UndoDone, Finish
<1>7. ASSUME \/ \E p \in Plan : Preview(p) \/ Apply(p)
             \/ \E d \in Changeset : Rollback(d)
             \/ AbandonCapture \/ BackUp \/ StartWrites
             \/ Intend \/ Recheck \/ Verify \/ WriteFails \/ FinalCheck
      PROVE  FALSE
  BY <1>7 DEF Preview, Apply, Rollback, Start, AbandonCapture, BackUp, StartWrites, Intend, Recheck, Verify,
              WriteFails, FinalCheck
<1>8. ASSUME \/ UndoSkip \/ UndoCheck \/ UndoVerify \/ UndoConflict \/ StoreFault \/ Ready \/ Crash
             \/ Publish \/ Unpublish
             \/ \E x \in Path, v \in Content \cup {Absent} : ExternalEdit(x, v)
             \/ \E d \in Changeset, i \in Slot : DamageBackup(d, i)
      PROVE  FALSE
  BY <1>8 DEF UndoSkip, UndoCheck, UndoVerify, UndoConflict, StoreFault, Ready, Crash, Publish, Unpublish,
              ExternalEdit, DamageBackup
<1>9. AllPost(files[c]) =>
         \A i \in DOMAIN files[c] : \A x \in Footprint(files[c][i]) : disk[x] = Post(files[c][i])[x]
  BY DEF AllPost, Holds, Post
<1>10. c = cur => \A i \in DOMAIN files[c] : After(i) =>
                    \A x \in Footprint(files[c][i]) : x \in touched \/ disk[x] = Post(files[c][i])[x]
  BY DEF After
<1>. QED
  BY <1>1, <1>2, <1>3, <1>4, <1>7, <1>8, <1>9, <1>10
     DEF Next, Engine, Phase1, Phase2, Compensation, Boot, Request, Environment

\* What the step that undoes f leaves is what f found, path by path.
LEMMA UndoLeaves ==
    ASSUME NEW f \in GoodStep, f.op \notin {"mkdir", "rmdir"}, f.op = "move" => f.dest # f.path,
           NEW x \in Footprint(f)
    PROVE  x \in Footprint(Inverse(f)) /\ Post(Inverse(f))[x] = Pre(f)[x]
BY DEF GoodStep, Step, Footprint, Inverse, Opposite, Pre, Post, Ops

\* A rollback that is on disk in full has put its target's files back.
LEMMA RollbackRestores ==
    ASSUME IInv, ShapeInv, NEW c \in Changeset, undoes[c] # NoCs,
           \A i \in DOMAIN files[c] : \A x \in Footprint(files[c][i]) :
              x \in touched \/ disk[x] = Post(files[c][i])[x]
    PROVE  \A i \in DOMAIN files[undoes[c]] : \A x \in Footprint(files[undoes[c]][i]) :
              x \in touched \/ disk[x] = Pre(files[undoes[c]][i])[x]
<1>. DEFINE p == files[undoes[c]]
<1>1. /\ p \in Seq(GoodStep) /\ Apart(p) /\ files[c] = RollbackPlan(p)
      /\ \A i \in DOMAIN p : p[i].op \notin {"mkdir", "rmdir"}
  BY DEF IInv, TypeOK, JournalTyped, ShapeInv, Undoing
<1>2. ASSUME NEW i \in DOMAIN p, NEW x \in Footprint(p[i]) PROVE x \in touched \/ disk[x] = Pre(p[i])[x]
  <2>. HIDE DEF p
  <2>1. /\ Len(p) + 1 - i \in 1..Len(p) /\ Len(p) + 1 - (Len(p) + 1 - i) = i
        /\ DOMAIN p = 1..Len(p)
    BY <1>1
  <2>2. Len(p) + 1 - i \in DOMAIN files[c] /\ files[c][Len(p) + 1 - i] = Inverse(p[i])
    BY <1>1, <2>1 DEF RollbackPlan
  <2>3. /\ p[i] \in GoodStep /\ p[i].op \notin {"mkdir", "rmdir"}
        /\ p[i].op = "move" => p[i].dest # p[i].path
    BY <1>1 DEF Apart
  <2>. QED BY <1>2, <2>2, <2>3, UndoLeaves
<1>. QED BY <1>2

\* What the engine knows holds in every history.
LEMMA OutcomeKnown == SafeSpec => [](IInv /\ ShapeInv /\ OutcomeInv)
<1>1. Init => ShapeInv /\ OutcomeInv
  BY DEF Init, ShapeInv, OutcomeInv, Apart, NoJob
<1>2. IInv /\ IInv' /\ ShapeInv /\ OutcomeInv /\ [Next]_vars => ShapeInv' /\ OutcomeInv'
  BY ShapeStep, OutcomeStep
<1>. QED BY <1>1, <1>2, Invariance, PTL DEF SafeSpec

\* A change reported as committed is on disk in full and, when it is a
\* rollback, has put the files of its target back: commitPlan's final check
\* and the reconciliation at boot.
THEOREM CommittedCorrect == SafeSpec => CommittedMeansApplied
<1>. DEFINE Applied ==
       \A c \in Changeset :
         (status[c] = "committing" /\ status'[c] = "committed")
         => /\ \A i \in DOMAIN files[c] : \A x \in Footprint(files[c][i]) :
                  x \in touched \/ disk[x] = Post(files[c][i])[x]
            /\ undoes[c] # NoCs =>
                  \A i \in DOMAIN files[undoes[c]] :
                     \A x \in Footprint(files[undoes[c]][i]) :
                        x \in touched \/ disk[x] = Pre(files[undoes[c]][i])[x]
<1>1. ASSUME IInv, ShapeInv, OutcomeInv, Next PROVE Applied
  BY <1>1, CommittedApplied, RollbackRestores
<1>2. IInv /\ ShapeInv /\ OutcomeInv /\ [Next]_vars => [Applied]_vars
  BY <1>1
<1>. QED BY <1>2, OutcomeKnown, PTL DEF SafeSpec, CommittedMeansApplied

\* A change reported as failed left nothing behind, whichever of the three
\* places settled it: the backups, the compensation or the boot.
THEOREM FailedCorrect == SafeSpec => FailedMeansRestored
<1>. DEFINE Restored ==
       \A c \in Changeset :
         (status[c] = "committing" /\ status'[c] = "failed")
         => \A i \in DOMAIN files[c] : \A x \in Footprint(files[c][i]) :
               x \in touched \/ disk[x] = Pre(files[c][i])[x]
<1>1. ASSUME IInv, OutcomeInv, Next PROVE Restored
  BY <1>1, FailedRestored
<1>2. IInv /\ OutcomeInv /\ [Next]_vars => [Restored]_vars
  BY <1>1
<1>. QED BY <1>2, OutcomeKnown, PTL DEF SafeSpec, FailedMeansRestored

\* What is reported of a change is so.
THEOREM OutcomesCorrect == SafeSpec => OutcomesTrue
BY FailedCorrect, CommittedCorrect DEF OutcomesTrue
=============================================================================
