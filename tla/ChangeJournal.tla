--------------------------- MODULE ChangeJournal ---------------------------
(***************************************************************************)
(* The commit engine of services/changes/applier.ts: apply and rollback of *)
(* reviewed plans under the mutation lock, the durable journal and its     *)
(* backups, compensation after a failure, boot reconciliation after a      *)
(* crash, and the owner's manual resolution, while other programs edit the *)
(* same files.                                                             *)
(*                                                                         *)
(* After the checkpoint of beforeMutation the engine runs without an       *)
(* await, so nothing else in the daemon interleaves with it; what can fall *)
(* between two of its system calls is a crash or another program's edit.   *)
(* Every step below therefore ends where the code makes a system call or a *)
(* journal write that a crash could separate from the next one.            *)
(***************************************************************************)
EXTENDS Naturals, Sequences, FiniteSets

CONSTANTS
    Path,          \* paths a plan can touch
    Content,       \* file contents (mode included), identified by their hash
    Dir,           \* directory identities (device, inode)
    Absent,        \* nothing at the path
    Unknown,       \* a directory identity nobody has recorded
    Changeset,     \* identities for changeset rows
    NoCs,          \* "no changeset"
    Plan,          \* the plans a client may preview: sequences of steps
    StartDisk,     \* the workspace when the history begins
    MaxFiles,      \* bound: steps of a plan
    MaxEdits,      \* bound: edits by other programs
    MaxCrashes,    \* bound: daemon crashes
    MaxStoreFaults,\* bound: status writes that fail for good
    MaxDamage      \* bound: backups lost to damage of the state directory

Bytes  == Content \cup Dir \cup {Absent}
Hash   == Bytes \cup {Unknown}
Slot   == 1..MaxFiles
Ops    == {"create", "modify", "delete", "move", "mkdir", "rmdir"}

\* One planned file change.  For a move, after is what arrives at dest.
Step == [op : Ops, path : Path, dest : Path, before : Hash, after : Hash]

Footprint(f) == IF f.op = "move" THEN {f.path, f.dest} ELSE {f.path}

\* What the step expects to find and what it leaves, path by path.
Pre(f)  == [x \in Footprint(f) |-> IF x = f.path THEN f.before ELSE Absent]
Post(f) == [x \in Footprint(f) |->
               IF f.op = "move" /\ x = f.path THEN Absent ELSE f.after]

WellFormed(f) ==
    /\ f.op \in {"create", "mkdir"} <=> f.before = Absent
    /\ f.op \in {"delete", "rmdir"} <=> f.after = Absent
    /\ f.op \in {"modify", "delete", "move"} => f.before \in Content
    /\ f.op \in {"create", "modify"} => f.after \in Content
    /\ f.op = "move" => f.after = f.before /\ f.dest # f.path
    /\ f.op = "mkdir" => f.after = Unknown
    /\ f.op = "rmdir" => f.before \in Dir

\* The planner refuses two operations on one path, and a plan over its limits.
PlanOK(p) ==
    /\ p \in Seq(Step)
    /\ Len(p) \in Slot
    /\ \A i \in 1..Len(p) : WellFormed(p[i])
    /\ \A i, j \in 1..Len(p) :
          i # j => Footprint(p[i]) \cap Footprint(p[j]) = {}

ASSUME JournalAssumption ==
    /\ MaxFiles \in Nat
    /\ Absent \notin Content \cup Dir
    /\ Unknown \notin Content \cup Dir \cup {Absent}
    /\ Content \cap Dir = {}
    /\ NoCs \notin Changeset
    /\ StartDisk \in [Path -> Bytes]
    /\ \A p \in Plan : PlanOK(p)

ASSUME BoundAssumption ==
    /\ MaxEdits \in Nat
    /\ MaxCrashes \in Nat
    /\ MaxStoreFaults \in Nat
    /\ MaxDamage \in Nat

VARIABLES
    \* the workspace
    disk,      \* what is at each path
    twin,      \* paths whose file still shares its inode with a temp name
    \* the durable journal (SQLite rows and the private backups directory)
    status,    \* changesets.status, "none" before the row exists
    undoes,    \* the journal-v2 marker: the change a rollback undoes
    files,     \* the steps of the change
    jstate,    \* journal_steps.state
    backup,    \* the bytes of each backup file, Absent if there is none
    \* the daemon
    mode,      \* "booting" until reconciliation is complete, then "up"
    live,      \* stored plans that are still applicable
    pc,        \* where the engine is; "idle" means the lock is free
    job,       \* the request being served
    cur,       \* its changeset
    at,        \* the step being worked on
    stuck,     \* compensation met a conflict
    unsaved,   \* steps whose new directory identity is in memory only
    \* history variables
    touched,   \* paths edited by others since the last changeset opened
    raced,     \* paths edited by others since the engine's last recheck
    damaged,   \* backups lost to damage
    edits, crashes, faults

diskVars    == <<disk, twin>>
journalVars == <<status, undoes, files, jstate, backup>>
engineVars  == <<pc, job, cur, at, stuck, unsaved>>
ghostVars   == <<touched, raced, damaged, edits, crashes, faults>>
vars == <<diskVars, journalVars, mode, live, engineVars, ghostVars>>

Status == {"none", "committing", "committed", "failed", "recovery_required",
           "rolled_back"}
JState == {"pending", "backed_up", "written", "done", "reverted"}
Phase  == {"idle", "capture", "backup", "ready", "intent", "stage", "publish",
           "verify", "final", "seal", "undo", "unpublish", "unverify"}

NoJob == [files |-> <<>>, undoes |-> NoCs]

Init ==
    /\ disk = StartDisk
    /\ twin = {}
    /\ status = [c \in Changeset |-> "none"]
    /\ undoes = [c \in Changeset |-> NoCs]
    /\ files = [c \in Changeset |-> <<>>]
    /\ jstate = [c \in Changeset |-> [i \in Slot |-> "pending"]]
    /\ backup = [c \in Changeset |-> [i \in Slot |-> Absent]]
    /\ mode = "up"
    /\ live = {}
    /\ pc = "idle"
    /\ job = NoJob
    /\ cur = NoCs
    /\ at = 0
    /\ stuck = FALSE
    /\ unsaved = {}
    /\ touched = {}
    /\ raced = {}
    /\ damaged = {}
    /\ edits = 0 /\ crashes = 0 /\ faults = 0

-----------------------------------------------------------------------------
(* Reading the workspace and the backups.                                  *)

\* A guarded read refuses a file with a second name, so a hash only matches
\* where the file is not a twin.
Holds(fp) == \A x \in DOMAIN fp : disk[x] = fp[x] /\ x \notin twin

AllPre(p)  == \A i \in DOMAIN p : Holds(Pre(p[i]))
AllPost(p) == \A i \in DOMAIN p : Holds(Post(p[i]))

NeedsBackup(f) == f.before \in Content

BackupOK(c, i) ==
    NeedsBackup(files[c][i]) => backup[c][i] = files[c][i].before

AllBackedUp(c) == \A i \in DOMAIN files[c] : BackupOK(c, i)

Blocked == \E c \in Changeset : status[c] = "recovery_required"

Opposite(op) == CASE op = "create" -> "delete"
                  [] op = "delete" -> "create"
                  [] op = "mkdir"  -> "rmdir"
                  [] op = "rmdir"  -> "mkdir"
                  [] OTHER         -> op

\* The step that undoes f, both in compensation and in a rollback plan.  A
\* directory made again gets a new identity.
Inverse(f) == [op     |-> Opposite(f.op),
               path   |-> IF f.op = "move" THEN f.dest ELSE f.path,
               dest   |-> IF f.op = "move" THEN f.path ELSE f.dest,
               before |-> f.after,
               after  |-> IF f.op = "rmdir" THEN Unknown ELSE f.before]

RollbackPlan(p) == [i \in DOMAIN p |-> Inverse(p[Len(p) + 1 - i])]

\* The step being worked on.
This == files[cur][at]

-----------------------------------------------------------------------------
(* The system call that publishes a step, on whatever is at its paths now. *)

\* link, mkdir and rmdir are exclusive; unlink and rename are not.
Able(f) ==
    /\ f.op \in {"create", "mkdir"} => disk[f.path] = Absent
    /\ f.op = "modify" => disk[f.path] \notin Dir
    /\ f.op \in {"delete", "move"} => disk[f.path] \in Content
    /\ f.op = "rmdir" => disk[f.path] \in Dir
    /\ f.op = "move" => disk[f.dest] \notin Dir

\* mkdir leaves a directory of some identity d; a rename carries what it finds.
Result(f, d) ==
    [x \in Footprint(f) |->
        IF f.op = "mkdir" THEN d
        ELSE IF f.op = "move" /\ x = f.dest THEN disk[f.path]
        ELSE Post(f)[x]]

\* A create is published by linking its temp file: two names until the unlink.
Write(f, d) ==
    /\ Able(f)
    /\ disk' = [x \in Path |-> IF x \in Footprint(f) THEN Result(f, d)[x]
                                                     ELSE disk[x]]
    /\ twin' = (twin \ Footprint(f))
                  \cup (IF f.op = "create" THEN {f.path} ELSE {})

-----------------------------------------------------------------------------
(* Requests.                                                               *)

Awaiting == mode = "up" /\ pc \in {"idle", "capture"}

\* preview_changes reads the files and stores a plan about them.  It is not
\* serialised with the engine, but only runs where the engine awaits.
Preview(p) ==
    /\ Awaiting
    /\ p \notin live
    /\ AllPre(p)
    /\ live' = live \cup {p}
    /\ UNCHANGED <<diskVars, journalVars, mode, engineVars, ghostVars>>

\* Broken variant: a request is served although a change needs recovery.
StartUnblocked(p, t) ==
    /\ mode = "up"
    /\ pc = "idle"
    /\ AllPre(p)
    /\ pc' = "capture"
    /\ job' = [files |-> p, undoes |-> t]
    /\ UNCHANGED <<diskVars, journalVars, mode, live, cur, at, stuck, unsaved,
                   ghostVars>>

Start(p, t) ==
    /\ mode = "up"
    /\ pc = "idle"
    /\ ~Blocked
    /\ AllPre(p)
    /\ pc' = "capture"
    /\ job' = [files |-> p, undoes |-> t]
    /\ UNCHANGED <<diskVars, journalVars, mode, live, cur, at, stuck, unsaved,
                   ghostVars>>

Apply(p) == p \in live /\ Start(p, NoCs)

\* A rollback first verifies every after-state and every backup, then is an
\* apply of the inverse plan, which its own files are checked against again.
Rollback(t) ==
    /\ status[t] = "committed"
    /\ undoes[t] = NoCs
    /\ \A i \in DOMAIN files[t] : files[t][i].op \notin {"mkdir", "rmdir"}
    /\ AllPost(files[t])
    /\ AllBackedUp(t)
    /\ Start(RollbackPlan(files[t]), t)

\* The checkpoint fails, or a file changed while it was taken.
AbandonCapture ==
    /\ pc = "capture"
    /\ pc' = "idle"
    /\ job' = NoJob
    /\ UNCHANGED <<diskVars, journalVars, mode, live, cur, at, stuck, unsaved,
                   ghostVars>>

\* The row, its marker and its steps are one transaction.
Journal(c) ==
    /\ pc = "capture"
    /\ status[c] = "none"
    /\ AllPre(job.files)
    /\ status' = [status EXCEPT ![c] = "committing"]
    /\ undoes' = [undoes EXCEPT ![c] = job.undoes]
    /\ files' = [files EXCEPT ![c] = job.files]
    /\ pc' = "backup"
    /\ cur' = c
    /\ at' = 1
    /\ stuck' = FALSE
    /\ touched' = {}
    /\ UNCHANGED <<diskVars, jstate, backup, mode, live, job, unsaved, raced,
                   damaged, edits, crashes, faults>>

-----------------------------------------------------------------------------
(* Phase 1: backups.                                                       *)

Free == /\ pc' = "idle"
        /\ cur' = NoCs
        /\ at' = 0
        /\ stuck' = FALSE
        /\ unsaved' = {}
        /\ job' = NoJob

\* The engine writes a final status and gives the lock back.
Finish(s) ==
    /\ status' = [status EXCEPT ![cur] = s]
    /\ Free
    /\ UNCHANGED <<diskVars, undoes, files, jstate, backup, mode, live,
                   ghostVars>>

\* Broken variant: the step counter is not reset after the last backup.
BackUpNoReset ==
    /\ pc = "backup"
    /\ NeedsBackup(This) => /\ disk[This.path] = This.before
                            /\ This.path \notin twin
    /\ backup' = IF NeedsBackup(This)
                 THEN [backup EXCEPT ![cur][at] = disk[This.path]]
                 ELSE backup
    /\ jstate' = [jstate EXCEPT ![cur][at] = "backed_up"]
    /\ pc' = IF at < Len(files[cur]) THEN pc ELSE "ready"
    /\ at' = at + 1
    /\ UNCHANGED <<diskVars, status, undoes, files, mode, live, job, cur, stuck,
                   unsaved, ghostVars>>

BackUp ==
    /\ pc = "backup"
    /\ NeedsBackup(This) => /\ disk[This.path] = This.before
                            /\ This.path \notin twin
    /\ backup' = IF NeedsBackup(This)
                 THEN [backup EXCEPT ![cur][at] = disk[This.path]]
                 ELSE backup
    /\ jstate' = [jstate EXCEPT ![cur][at] = "backed_up"]
    /\ IF at < Len(files[cur]) THEN pc' = pc /\ at' = at + 1
                               ELSE pc' = "ready" /\ at' = 1
    /\ UNCHANGED <<diskVars, status, undoes, files, mode, live, job, cur, stuck,
                   unsaved, ghostVars>>

\* All backups are read again, then every file is verified before the first
\* source write.
StartWrites ==
    /\ pc = "ready"
    /\ AllBackedUp(cur)
    /\ AllPre(files[cur])
    /\ pc' = "intent"
    /\ UNCHANGED <<diskVars, journalVars, mode, live, job, cur, at, stuck,
                   unsaved, ghostVars>>

\* A read, a write or a check failed and no source was written.
BackupsFail ==
    /\ pc \in {"backup", "ready"}
    /\ Finish("failed")

-----------------------------------------------------------------------------
(* Phase 2: one step at a time.                                            *)

Goto(phase, i) ==
    /\ pc' = phase
    /\ at' = i
    /\ UNCHANGED <<job, cur>>

Intend ==
    /\ pc = "intent"
    /\ Holds(Pre(This))
    /\ BackupOK(cur, at)
    /\ jstate' = [jstate EXCEPT ![cur][at] = "written"]
    /\ Goto("stage", at)
    /\ UNCHANGED <<diskVars, status, undoes, files, backup, mode, live, stuck,
                   unsaved, ghostVars>>

\* Broken variant: the file is not looked at again before it is replaced.
RecheckNothing ==
    /\ pc = "stage"
    /\ raced' = {}
    /\ Goto("publish", at)
    /\ UNCHANGED <<diskVars, journalVars, mode, live, stuck, unsaved, touched,
                   damaged, edits, crashes, faults>>

\* The recheck inside beforeReplace, after the temp file is on disk.  There is
\* none for directories: mkdir and rmdir follow the intent at once.
Recheck ==
    /\ pc = "stage"
    /\ This.op \notin {"mkdir", "rmdir"} => Holds(Pre(This))
    /\ raced' = {}
    /\ Goto("publish", at)
    /\ UNCHANGED <<diskVars, journalVars, mode, live, stuck, unsaved, touched,
                   damaged, edits, crashes, faults>>

Publish ==
    /\ pc = "publish"
    /\ \E d \in Dir :
          /\ Write(This, d)
          /\ files' = IF This.op = "mkdir"
                      THEN [files EXCEPT ![cur][at].after = d] ELSE files
    /\ unsaved' = IF This.op = "mkdir" THEN unsaved \cup {at} ELSE unsaved
    /\ Goto("verify", at)
    /\ UNCHANGED <<status, undoes, jstate, backup, mode, live, stuck, ghostVars>>

\* The temp name is gone, a new directory's identity is on record.
Verify ==
    /\ pc = "verify"
    /\ twin' = twin \ {This.path}
    /\ unsaved' = unsaved \ {at}
    /\ \A x \in Footprint(This) : disk[x] = Post(This)[x]
    /\ jstate' = [jstate EXCEPT ![cur][at] = "done"]
    /\ IF at < Len(files[cur]) THEN Goto("intent", at + 1) ELSE Goto("final", at)
    /\ UNCHANGED <<disk, status, undoes, files, backup, mode, live, stuck,
                   ghostVars>>

\* Broken variant: a step counts as attempted only once it was verified.
WriteFailsLate ==
    /\ pc \in {"intent", "stage", "publish", "verify"}
    /\ Goto("undo", at - 1)
    /\ twin' = twin \ {This.path}
    /\ UNCHANGED <<disk, unsaved, journalVars, mode, live, stuck, ghostVars>>

\* A check or a system call fails: compensate the attempted steps, the one
\* being worked on included once its intent is journaled.
WriteFails ==
    /\ \/ /\ pc = "intent"
          /\ Goto("undo", at - 1)
          /\ UNCHANGED <<twin, unsaved>>
       \/ /\ pc \in {"stage", "publish"}
          /\ Goto("undo", at)
          /\ UNCHANGED <<twin, unsaved>>
       \/ /\ pc = "verify"
          /\ Goto("undo", at)
          /\ twin' = twin \ {This.path}
          /\ unsaved' \in {unsaved, unsaved \ {at}}
    /\ UNCHANGED <<disk, journalVars, mode, live, stuck, ghostVars>>

FinalCheck ==
    /\ pc = "final"
    /\ AllPost(files[cur])
    /\ Goto("seal", at)
    /\ UNCHANGED <<diskVars, journalVars, mode, live, stuck, unsaved, ghostVars>>

FinalDrift ==
    /\ pc = "final"
    /\ ~AllPost(files[cur])
    /\ Finish("recovery_required")

-----------------------------------------------------------------------------
(* Settling a change: one transaction, in the engine or at boot.           *)

\* Broken variant: committing a rollback leaves its target committed.
RetireAlone(c) == status' = [status EXCEPT ![c] = "committed"]

Retire(c) ==
    status' = [d \in Changeset |->
                 IF d = c THEN "committed"
                 ELSE IF d = undoes[c] THEN "rolled_back" ELSE status[d]]

AllDone(c) ==
    jstate' = [jstate EXCEPT ![c] =
                 [i \in Slot |-> IF i \in DOMAIN files[c] THEN "done"
                                                          ELSE jstate[c][i]]]

Seal ==
    /\ pc = "seal"
    /\ Retire(cur)
    /\ AllDone(cur)
    /\ live' = live \ {job.files}
    /\ Free
    /\ UNCHANGED <<diskVars, undoes, files, backup, mode, ghostVars>>

\* The final transaction is refused and the row is marked instead.
SealFails == pc = "seal" /\ Finish("recovery_required")

\* The store refuses the status write as well: the row stays committing.
StoreFault ==
    /\ faults < MaxStoreFaults
    /\ \/ pc \in {"backup", "ready", "final", "seal"}
       \/ pc = "undo" /\ at = 0
    /\ faults' = faults + 1
    /\ Free
    /\ UNCHANGED <<diskVars, journalVars, mode, live, touched, raced, damaged,
                   edits, crashes>>

-----------------------------------------------------------------------------
(* Compensation, in reverse order.                                         *)

UndoSkip ==
    /\ pc = "undo" /\ at > 0
    /\ Holds(Pre(This))
    /\ jstate' = [jstate EXCEPT ![cur][at] = "reverted"]
    /\ Goto("undo", at - 1)
    /\ UNCHANGED <<diskVars, status, undoes, files, backup, mode, live, stuck,
                   unsaved, ghostVars>>

\* The step's own bytes are on disk; a restore also reads its backup.
UndoCheck ==
    /\ pc = "undo" /\ at > 0
    /\ ~Holds(Pre(This))
    /\ Holds(Post(This))
    /\ This.op \in {"modify", "delete"} => BackupOK(cur, at)
    /\ raced' = {}
    /\ Goto("unpublish", at)
    /\ UNCHANGED <<diskVars, journalVars, mode, live, stuck, unsaved, touched,
                   damaged, edits, crashes, faults>>

Unpublish ==
    /\ pc = "unpublish"
    /\ \E d \in Dir :
          /\ Write(Inverse(This), d)
          /\ files' = IF This.op = "rmdir"
                      THEN [files EXCEPT ![cur][at].before = d] ELSE files
    /\ unsaved' = IF This.op = "rmdir" THEN unsaved \cup {at} ELSE unsaved
    /\ Goto("unverify", at)
    /\ UNCHANGED <<status, undoes, jstate, backup, mode, live, stuck, ghostVars>>

\* Broken variant: the backup of a step is discarded once it is reverted.
UndoVerifyDiscard ==
    /\ pc = "unverify"
    /\ twin' = twin \ {This.path}
    /\ unsaved' = unsaved \ {at}
    /\ \A x \in Footprint(This) : disk[x] = Pre(This)[x]
    /\ jstate' = [jstate EXCEPT ![cur][at] = "reverted"]
    /\ backup' = [backup EXCEPT ![cur][at] = Absent]
    /\ Goto("undo", at - 1)
    /\ UNCHANGED <<disk, status, undoes, files, mode, live, stuck, ghostVars>>

UndoVerify ==
    /\ pc = "unverify"
    /\ twin' = twin \ {This.path}
    /\ unsaved' = unsaved \ {at}
    /\ \A x \in Footprint(This) : disk[x] = Pre(This)[x]
    /\ jstate' = [jstate EXCEPT ![cur][at] = "reverted"]
    /\ Goto("undo", at - 1)
    /\ UNCHANGED <<disk, status, undoes, files, backup, mode, live, stuck,
                   ghostVars>>

\* Bytes the journal cannot account for, or an operation that failed: they
\* are left as they are and the change will need recovery.
UndoConflict ==
    /\ \/ pc = "undo" /\ at > 0 /\ ~Holds(Pre(This)) /\ UNCHANGED twin
       \/ pc = "unpublish" /\ UNCHANGED twin
       \/ pc = "unverify" /\ twin' = twin \ {This.path}
    /\ stuck' = TRUE
    /\ Goto("undo", at - 1)
    /\ UNCHANGED <<disk, journalVars, mode, live, unsaved, ghostVars>>

UndoDone ==
    /\ pc = "undo" /\ at = 0
    /\ Finish(IF stuck THEN "recovery_required" ELSE "failed")

-----------------------------------------------------------------------------
(* Crash, boot and the owner.                                              *)

Forgotten(f) ==
    [op |-> f.op, path |-> f.path, dest |-> f.dest,
     before |-> IF f.op = "rmdir" THEN Unknown ELSE f.before,
     after  |-> IF f.op = "mkdir" THEN Unknown ELSE f.after]

\* Plans carry the epoch of the process that stored them and die with it; so
\* does a directory identity that was not journaled yet.
Crash ==
    /\ crashes < MaxCrashes
    /\ crashes' = crashes + 1
    /\ mode' = "booting"
    /\ live' = {}
    /\ files' = IF cur = NoCs THEN files
                ELSE [files EXCEPT ![cur] = [i \in DOMAIN files[cur] |->
                        IF i \in unsaved THEN Forgotten(files[cur][i])
                                        ELSE files[cur][i]]]
    /\ Free
    /\ UNCHANGED <<diskVars, status, undoes, jstate, backup, touched, raced,
                   damaged, edits, faults>>

\* Broken variant: the journal's word is taken for what is on disk.
ProvenByJournal(c) ==
    /\ \A i \in DOMAIN files[c] : jstate[c][i] \in {"written", "done"}
    /\ AllBackedUp(c)

ProvenApplied(c) ==
    /\ \A i \in DOMAIN files[c] : jstate[c][i] \in {"written", "done"}
    /\ AllPost(files[c])
    /\ AllBackedUp(c)

ReconcileApplied(c) ==
    /\ mode = "booting" /\ status[c] = "committing"
    /\ ProvenApplied(c)
    /\ Retire(c)
    /\ AllDone(c)
    /\ UNCHANGED <<diskVars, undoes, files, backup, mode, live, engineVars,
                   ghostVars>>

ReconcileOther(c) ==
    /\ mode = "booting" /\ status[c] = "committing"
    /\ ~ProvenApplied(c)
    /\ status' = [status EXCEPT ![c] = IF AllPre(files[c]) THEN "failed"
                                       ELSE "recovery_required"]
    /\ UNCHANGED <<diskVars, undoes, files, jstate, backup, mode, live,
                   engineVars, ghostVars>>

\* Broken variant: the daemon serves requests before it has reconciled.
ReadyAtOnce ==
    /\ mode = "booting"
    /\ mode' = "up"
    /\ UNCHANGED <<diskVars, journalVars, live, engineVars, ghostVars>>

\* Mutations are accepted once no row of this workspace is committing.
Ready ==
    /\ mode = "booting"
    /\ \A c \in Changeset : status[c] # "committing"
    /\ mode' = "up"
    /\ UNCHANGED <<diskVars, journalVars, live, engineVars, ghostVars>>

\* Broken variant: a change resolved by hand counts as committed.
ResolveAsCommitted(c) ==
    /\ Awaiting
    /\ status[c] = "recovery_required"
    /\ status' = [status EXCEPT ![c] = "committed"]
    /\ UNCHANGED <<diskVars, undoes, files, jstate, backup, mode, live,
                   engineVars, ghostVars>>

\* dodo recover: the owner's resolution reaches the daemon where it awaits.
Resolve(c) ==
    /\ Awaiting
    /\ status[c] = "recovery_required"
    /\ status' = [status EXCEPT ![c] = "failed"]
    /\ UNCHANGED <<diskVars, undoes, files, jstate, backup, mode, live,
                   engineVars, ghostVars>>

-----------------------------------------------------------------------------
(* The environment.                                                        *)

\* Another program puts its own file at a path, or removes what is there.
ExternalEdit(x, v) ==
    /\ edits < MaxEdits
    /\ disk[x] # v \/ x \in twin
    /\ disk' = [disk EXCEPT ![x] = v]
    /\ twin' = twin \ {x}
    /\ edits' = edits + 1
    /\ touched' = touched \cup {x}
    /\ raced' = IF pc \in {"publish", "unpublish"} THEN raced \cup {x} ELSE raced
    /\ UNCHANGED <<journalVars, mode, live, engineVars, damaged, crashes, faults>>

DamageBackup(c, i) ==
    /\ Cardinality(damaged) < MaxDamage
    /\ backup[c][i] # Absent
    /\ backup' = [backup EXCEPT ![c][i] = Absent]
    /\ damaged' = damaged \cup {<<c, i>>}
    /\ UNCHANGED <<diskVars, status, undoes, files, jstate, mode, live,
                   engineVars, touched, raced, edits, crashes, faults>>

-----------------------------------------------------------------------------
Phase1 == \/ AbandonCapture
          \/ \E c \in Changeset : Journal(c)
          \/ BackUp
          \/ StartWrites
          \/ BackupsFail

Phase2 == Intend \/ Recheck \/ Publish \/ Verify \/ WriteFails
             \/ FinalCheck \/ FinalDrift \/ Seal \/ SealFails

Compensation == UndoSkip \/ UndoCheck \/ Unpublish \/ UndoVerify
                   \/ UndoConflict \/ UndoDone

Engine == Phase1 \/ Phase2 \/ Compensation

Boot == \/ \E c \in Changeset : ReconcileApplied(c) \/ ReconcileOther(c)
        \/ Ready

Request == \/ \E p \in Plan : Preview(p) \/ Apply(p)
           \/ \E c \in Changeset : Rollback(c) \/ Resolve(c)

Environment == \/ StoreFault
               \/ Crash
               \/ \E x \in Path, v \in Content \cup {Absent} : ExternalEdit(x, v)
               \/ \E c \in Changeset, i \in Slot : DamageBackup(c, i)

Next == Engine \/ Boot \/ Request \/ Environment

SafeSpec == Init /\ [][Next]_vars

\* The engine is synchronous code that runs to its end once the checkpoint
\* answered, and the supervisor restarts a daemon that died: neither stops
\* for ever with work to do.  Requests, faults and other programs get nothing.
Spec == SafeSpec /\ WF_vars(Engine) /\ WF_vars(Boot)
-----------------------------------------------------------------------------
(* Properties.                                                             *)

\* Type invariant: every row, file and engine register holds a value of its
\* kind, and the engine never points outside the steps of its change.
TypeOK ==
    /\ disk \in [Path -> Bytes]
    /\ twin \subseteq Path
    /\ status \in [Changeset -> Status]
    /\ undoes \in [Changeset -> Changeset \cup {NoCs}]
    /\ files \in [Changeset -> Seq(Step)]
    /\ \A c \in Changeset : Len(files[c]) \in 0..MaxFiles
    /\ jstate \in [Changeset -> [Slot -> JState]]
    /\ backup \in [Changeset -> [Slot -> Bytes]]
    /\ mode \in {"booting", "up"}
    /\ live \subseteq Plan
    /\ pc \in Phase
    /\ job \in [files : Seq(Step), undoes : Changeset \cup {NoCs}]
    /\ Len(job.files) \in 0..MaxFiles
    /\ cur \in Changeset \cup {NoCs}
    /\ at \in 0..MaxFiles
    /\ stuck \in BOOLEAN
    /\ unsaved \subseteq Slot
    /\ touched \subseteq Path
    /\ raced \subseteq Path
    /\ damaged \subseteq Changeset \X Slot
    /\ edits \in Nat /\ crashes \in Nat /\ faults \in Nat

Unsettled(c) == status[c] \in {"committing", "recovery_required"}

\* Before the first source write of a change, every file it will replace or
\* remove is in a private backup, and stays there while the change is open or
\* waits for the owner: whatever fails or crashes, the original bytes of every
\* step are recoverable.
OriginalsRecoverable ==
    \A c \in Changeset :
       (/\ Unsettled(c)
        /\ \E i \in DOMAIN files[c] : jstate[c][i] \in {"written", "done", "reverted"})
       => \A i \in DOMAIN files[c] :
             \/ ~NeedsBackup(files[c][i])
             \/ backup[c][i] = files[c][i].before
             \/ <<c, i>> \in damaged

EngineWrites == pc \in {"publish", "unpublish"} /\ edits' = edits /\ disk' # disk

\* The engine never overwrites bytes it cannot account for: what it replaces
\* is the journaled before-state (or, when it compensates, its own
\* after-state), except where another program slipped in between the last
\* recheck and the system call.
OnlyAccountedBytesReplaced ==
    [][EngineWrites =>
         \A x \in Path : disk'[x] # disk[x] =>
            \/ x \in raced
            \/ /\ x \in Footprint(This)
               /\ disk[x] = IF pc = "publish" THEN Pre(This)[x] ELSE Post(This)[x]
               /\ x \notin twin]_vars

\* A change reported as failed left nothing behind: whichever path settled it
\* (backups, compensation, boot), each file nobody else edited since it was
\* opened is in its original state.
FailedMeansRestored ==
    [][\A c \in Changeset :
         (status[c] = "committing" /\ status'[c] = "failed")
         => \A i \in DOMAIN files[c] : \A x \in Footprint(files[c][i]) :
               x \in touched \/ disk[x] = Pre(files[c][i])[x]]_vars

\* A change reported as committed is on disk in full, and when it is a
\* rollback every file of its target is back where it was before the target.
CommittedMeansApplied ==
    [][\A c \in Changeset :
         (status[c] = "committing" /\ status'[c] = "committed")
         => /\ \A i \in DOMAIN files[c] : \A x \in Footprint(files[c][i]) :
                  x \in touched \/ disk[x] = Post(files[c][i])[x]
            /\ undoes[c] # NoCs =>
                  \A i \in DOMAIN files[undoes[c]] :
                     \A x \in Footprint(files[undoes[c]][i]) :
                        x \in touched \/ disk[x] = Pre(files[undoes[c]][i])[x]]_vars

\* What is reported of a change is so: failed is undone, committed is done.
OutcomesTrue == FailedMeansRestored /\ CommittedMeansApplied

\* A change counts as rolled back exactly when a rollback of it committed,
\* crashes and reconciliation included.
RolledBackIffUndone ==
    \A t \in Changeset :
       status[t] = "rolled_back"
         <=> \E c \in Changeset : undoes[c] = t /\ status[c] = "committed"

\* While a change waits for recovery the engine works on nothing, so no source
\* file is written until the owner resolved it.
NoWorkWhileBlocked == Blocked => pc = "idle"

\* At most one change is open, and it is the one the engine holds: a change
\* left behind by a crash is settled before another one may begin.
OneOpenChange ==
    \A c \in Changeset :
       status[c] = "committing" => mode = "booting" \/ c = cur

\* The comment on the catch of the final transaction: "a committing row also
\* blocks further writes until reconciliation".
CommittingRowBlocksWrites ==
    \A c \in Changeset :
       (/\ status[c] = "committing"
        /\ c # cur
        /\ \A i \in DOMAIN files[c] : jstate[c][i] = "done")
       => pc \notin {"publish", "verify"}

\* The journal implements the ledger: every step is a step of the ledger or
\* leaves the rows alone, and an open change always settles.
Ledger == INSTANCE ChangeLedger WITH Changeset <- Changeset, NoCs <- NoCs,
                                    status <- status, undoes <- undoes
LedgerSafe == Ledger!SafeSpec
LedgerSpec == Ledger!Spec
=============================================================================
