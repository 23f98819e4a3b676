------------------------------ MODULE Dispatch ------------------------------
(***************************************************************************)
(* The pipeline of a mutating tool call of a remote client                 *)
(* (invokeToolDefinition in src/src/tools/context.ts and the handlers      *)
(* apply_changes and exec_command): authority at admission, a turn in the  *)
(* mutation queue, authority again, the trust-mode gate with its local     *)
(* approvals, the idempotency reservation, the source backup, authority    *)
(* once more, the effect, the receipt, and a last look at the authority    *)
(* before the answer.                                                      *)
(*                                                                         *)
(* The awaits are where the owner, other calls and time get in between:    *)
(* the wait for the turn, the backup, and the writing of a change; the     *)
(* code between two awaits is one action.  The queue itself is JobQueue's  *)
(* and what an apply does to the files is ChangeJournal's: here a turn is  *)
(* held by at most one call, and an apply ends in one of the ways that     *)
(* ChangeJournal gives it.                                                 *)
(***************************************************************************)
EXTENDS Authority

CONSTANTS
  Call,      \* invocations
  Request,   \* what each one asks: [grant, key, action, class]
  None,      \* no call
  MaxEpoch,  \* bound: starts of the daemon
  MaxTrust   \* bound: trust mode changes

Class == {"mutate-files", "exec"}
Trust == {"inspect", "edit", "trusted"}

ASSUME CallAssumption ==
  /\ \A c \in Call : /\ Request[c].grant \in Flow
                     /\ Request[c].class \in Class
  /\ None \notin Call
  /\ MaxEpoch \in Nat /\ MaxTrust \in Nat

VARIABLES
  epoch,    \* the daemon's start
  trust,    \* workspaces.trust_mode, the saved one
  version,  \* rows of policy_versions, a part of every action's digest
  stage,    \* per call: where it is
  told,     \* per call: its answer
  atStart,  \* per call: trustAtStart
  spent,    \* per call: the approval it consumed, or 0
  did,      \* per call: what it did to the workspace (history)
  turn,     \* the call that holds the mutation turn
  keys      \* idempotency_keys: reservations and receipts

callVars == <<stage, told, atStart, spent, did, turn, keys>>
vars == <<approvals, authVars, epoch, trust, version, callVars>>

(* A key belongs to its principal and its tool.                            *)
KeyOf(c) == [grant |-> Request[c].grant, key |-> Request[c].key, class |-> Request[c].class]
Key == {KeyOf(c) : c \in Call}
Action == {Request[c].action : c \in Call}
NoReceipt == [state |-> "free"]
Held(state, action) == [state |-> state, action |-> action]
Receipt == {NoReceipt} \cup [state : {"reserved", "completed"}, action : Action]

Stage == {"idle", "queued", "backup", "running", "over"}
Answer == {"none", "ok", "replayed", "forbidden", "approval", "expired",
           "conflict", "uncertain", "blocked", "failed", "unrecorded", "partial"}
(* "begun" writes are under way, "done" they took hold, "undone" they were *)
(* restored, "unknown" the journal or the owner must tell.                 *)
Effect == {"none", "begun", "done", "undone", "unknown"}

Init ==
  /\ approvals = << >>
  /\ AuthInit
  /\ epoch = 1
  /\ trust \in {"inspect", "edit"}
  /\ version = 0
  /\ stage = [c \in Call |-> "idle"]
  /\ told = [c \in Call |-> "none"]
  /\ atStart = [c \in Call |-> "inspect"]
  /\ spent = [c \in Call |-> 0]
  /\ did = [c \in Call |-> "none"]
  /\ turn = None
  /\ keys = [k \in Key |-> NoReceipt]

-----------------------------------------------------------------------------
(* services.trustMode(): personal mode does not gate on the saved mode.    *)
TrustMode == IF personal THEN "trusted" ELSE trust

(* The matrix of policy.ts.                                                *)
Allows(class, mode) ==
  \/ class = "mutate-files" /\ mode # "inspect"
  \/ class = "exec" /\ mode = "trusted"

Needs(c) == IF Request[c].class = "exec" THEN "exec" ELSE "write"
Scoped(c) == Needs(c) \in Effective(Request[c].grant)

(* What the owner approves: the principal and the digest, which covers the *)
(* tool, the arguments and the policy version.                             *)
Subject(c) == [grant |-> Request[c].grant, action |-> Request[c].action,
               class |-> Request[c].class, version |-> version]

Answered(c, answer) ==
  /\ stage' = [stage EXCEPT ![c] = "over"]
  /\ told' = [told EXCEPT ![c] = answer]

SetKey(c, receipt) == keys' = [keys EXCEPT ![KeyOf(c)] = receipt]
Reserved(c) == Held("reserved", Request[c].action)
Completed(c) == Held("completed", Request[c].action)

-----------------------------------------------------------------------------
(* The call arrives: token and scope are checked before it queues.         *)
Submit(c) ==
  /\ stage[c] = "idle"
  /\ \/ /\ Scoped(c)
        /\ stage' = [stage EXCEPT ![c] = "queued"]
        /\ UNCHANGED told
     \/ ~Scoped(c) /\ Answered(c, "forbidden")
  /\ UNCHANGED <<approvals, authVars, epoch, trust, version, atStart, spent, did, turn, keys>>

MyTurn(c) == stage[c] = "queued" /\ turn = None

(* execute(): the authority may have gone while the call was queued.       *)
RefusedQueued(c) ==
  /\ MyTurn(c) /\ ~Scoped(c)
  /\ Answered(c, "forbidden")
  /\ UNCHANGED <<approvals, authVars, epoch, trust, version, atStart, spent, did, turn, keys>>

(* policyGate: a row the gate finds may be of an earlier start, consumable *)
(* now, approved too long ago, or still waiting for the owner; with none,  *)
(* or with one of an earlier start, the owner is asked.                    *)
Found == [c \in Call |-> FindAction(Subject(c))]
Stale(c) == Found[c] > 0 /\ approvals[Found[c]].epoch # epoch
Consumable(c) == Found[c] > 0 /\ ~Stale(c) /\ CanConsume(Found[c])
TooLate(c) == /\ Found[c] > 0 /\ ~Stale(c)
              /\ approvals[Found[c]].status = "approved" /\ ~CanConsume(Found[c])

AskOwner(c) ==
  /\ RoomForRow
  /\ approvals' = Append(IF Stale(c) THEN WithStatus(Found[c], "denied") ELSE approvals,
                         NewApproval("action", Subject(c), epoch))

GateStops(c) ==
  /\ MyTurn(c) /\ Scoped(c)
  /\ ~Allows(Request[c].class, TrustMode)
  /\ \/ Found[c] = 0 /\ AskOwner(c) /\ Answered(c, "approval")
     \/ Stale(c) /\ AskOwner(c) /\ Answered(c, "approval")
     \/ TooLate(c) /\ Answered(c, "expired") /\ UNCHANGED approvals
     \/ /\ Found[c] > 0 /\ ~Stale(c)
        /\ approvals[Found[c]].status = "pending"
        /\ Answered(c, "approval") /\ UNCHANGED approvals
  /\ UNCHANGED <<authVars, epoch, trust, version, atStart, spent, did, turn, keys>>

(* Broken: the approval it used stays approved.                            *)
PassGateUnspent(c) ==
  /\ MyTurn(c) /\ Scoped(c)
  /\ \/ Allows(Request[c].class, TrustMode) /\ UNCHANGED <<approvals, spent>>
     \/ /\ ~Allows(Request[c].class, TrustMode)
        /\ Consumable(c)
        /\ spent' = [spent EXCEPT ![c] = Found[c]]
        /\ UNCHANGED approvals
  /\ atStart' = [atStart EXCEPT ![c] = TrustMode]

(* The gate lets the call through, and consumes the approval it needed.    *)
PassGate(c) ==
  /\ MyTurn(c) /\ Scoped(c)
  /\ \/ Allows(Request[c].class, TrustMode) /\ UNCHANGED <<approvals, spent>>
     \/ /\ ~Allows(Request[c].class, TrustMode)
        /\ Consumable(c)
        /\ approvals' = WithStatus(Found[c], "consumed")
        /\ spent' = [spent EXCEPT ![c] = Found[c]]
  /\ atStart' = [atStart EXCEPT ![c] = TrustMode]

(* withIdempotency finds the key in use, after the gate.                   *)
Duplicate(c) ==
  /\ PassGate(c)
  /\ keys[KeyOf(c)] # NoReceipt
  /\ Answered(c, CASE keys[KeyOf(c)].action # Request[c].action -> "conflict"
                   [] keys[KeyOf(c)] = Completed(c) -> "replayed"
                   [] OTHER -> "uncertain")
  /\ UNCHANGED <<authVars, epoch, trust, version, did, turn, keys>>

Reserve(c) ==
  /\ PassGate(c)
  /\ keys[KeyOf(c)] = NoReceipt
  /\ SetKey(c, Reserved(c))
  /\ stage' = [stage EXCEPT ![c] = "backup"]
  /\ turn' = c
  /\ UNCHANGED <<authVars, epoch, trust, version, told, did>>

-----------------------------------------------------------------------------
(* Broken: only the trust mode is looked at again.                         *)
UnchangedMode(c) == TrustMode = atStart[c]

(* revalidate(), which the backup ends with.                               *)
Unchanged(c) == Scoped(c) /\ TrustMode = atStart[c]

AfterBackup(c) == stage[c] = "backup"

Withdrawn(c) ==
  /\ AfterBackup(c) /\ ~Unchanged(c)
  /\ Answered(c, "forbidden")
  /\ SetKey(c, NoReceipt) /\ turn' = None
  /\ UNCHANGED <<approvals, authVars, epoch, trust, version, atStart, spent, did>>

(* RECOVERY_REQUIRED before anything was written, by a strict backup or an *)
(* earlier change that waits for the owner: the key stays reserved.        *)
Blocked(c) ==
  /\ AfterBackup(c)
  /\ Answered(c, "blocked")
  /\ turn' = None
  /\ UNCHANGED <<approvals, authVars, epoch, trust, version, atStart, spent, did, keys>>

(* Any other refusal before the effect (FILE_CHANGED, a bad program, ...). *)
FailsEarly(c) ==
  /\ AfterBackup(c)
  /\ Answered(c, "failed")
  /\ SetKey(c, NoReceipt) /\ turn' = None
  /\ UNCHANGED <<approvals, authVars, epoch, trust, version, atStart, spent, did>>

(* Broken: the receipt is written before the effect.                       *)
StartWritesReceipted(c) ==
  /\ AfterBackup(c) /\ Request[c].class = "mutate-files" /\ Unchanged(c)
  /\ did' = [did EXCEPT ![c] = "begun"]
  /\ SetKey(c, Completed(c))
  /\ stage' = [stage EXCEPT ![c] = "running"]
  /\ UNCHANGED <<approvals, authVars, epoch, trust, version, told, atStart, spent, turn>>

(* apply_changes: the first write follows the check.                       *)
StartWrites(c) ==
  /\ AfterBackup(c) /\ Request[c].class = "mutate-files" /\ Unchanged(c)
  /\ did' = [did EXCEPT ![c] = "begun"]
  /\ stage' = [stage EXCEPT ![c] = "running"]
  /\ UNCHANGED <<approvals, authVars, epoch, trust, version, told, atStart, spent, turn, keys>>

(* The receipt, then revalidate() once more: a caller whose authority went *)
(* meanwhile is told FORBIDDEN of an effect that took hold.                *)
Reply(c) == IF Unchanged(c) THEN "ok" ELSE "forbidden"

(* exec_command: check, spawn, receipt and answer with nothing in between. *)
SpawnJob(c) ==
  /\ AfterBackup(c) /\ Request[c].class = "exec" /\ Unchanged(c)
  /\ did' = [did EXCEPT ![c] = "done"]
  /\ SetKey(c, Completed(c)) /\ turn' = None
  /\ Answered(c, "ok")
  /\ UNCHANGED <<approvals, authVars, epoch, trust, version, atStart, spent>>

Applied(c) ==
  /\ stage[c] = "running"
  /\ did' = [did EXCEPT ![c] = "done"]
  /\ SetKey(c, Completed(c)) /\ turn' = None
  /\ Answered(c, Reply(c))
  /\ UNCHANGED <<approvals, authVars, epoch, trust, version, atStart, spent>>

(* The store refuses the receipt, then accepts the release in the catch.   *)
Unrecorded(c) ==
  /\ stage[c] = "running"
  /\ did' = [did EXCEPT ![c] = "done"]
  /\ SetKey(c, NoReceipt) /\ turn' = None
  /\ Answered(c, "unrecorded")
  /\ UNCHANGED <<approvals, authVars, epoch, trust, version, atStart, spent>>

Restored(c) ==
  /\ stage[c] = "running"
  /\ did' = [did EXCEPT ![c] = "undone"]
  /\ SetKey(c, NoReceipt) /\ turn' = None
  /\ Answered(c, "failed")
  /\ UNCHANGED <<approvals, authVars, epoch, trust, version, atStart, spent>>

(* Broken: every error releases the key.                                   *)
PartialReleases(c) ==
  /\ stage[c] = "running"
  /\ did' = [did EXCEPT ![c] = "unknown"]
  /\ SetKey(c, NoReceipt) /\ turn' = None
  /\ Answered(c, "partial")
  /\ UNCHANGED <<approvals, authVars, epoch, trust, version, atStart, spent>>

(* PARTIAL_RECOVERY_REQUIRED: the key stays reserved.                      *)
Partial(c) ==
  /\ stage[c] = "running"
  /\ did' = [did EXCEPT ![c] = "unknown"]
  /\ turn' = None
  /\ Answered(c, "partial")
  /\ UNCHANGED <<approvals, authVars, epoch, trust, version, atStart, spent, keys>>

-----------------------------------------------------------------------------
(* The owner's part, and time.                                             *)
SetTrust(m) ==
  /\ version < MaxTrust
  /\ trust' = m
  /\ version' = version + 1
  /\ UNCHANGED <<approvals, authVars, epoch, callVars>>

Row(Op(_)) ==
  /\ \E i \in DOMAIN approvals : Op(i)
  /\ UNCHANGED <<authVars, epoch, trust, version, callVars>>

Policy == /\ \/ \E f \in Flow : Revoke(f) \/ TokenExpires(f)
             \/ \E c \in Client : DeleteClient(c) \/ \E s \in Lists : SetAccess(c, s)
             \/ \E l \in Levels : SetLevel(l)
             \/ \E p \in BOOLEAN : SetAccessMode(p)
          /\ UNCHANGED <<epoch, trust, version, callVars>>

Connect == /\ \E f \in Flow : Visit(f) \/ Complete(f) \/ GrantSaved(f) \/ IssueToken(f)
           /\ UNCHANGED <<epoch, trust, version, callVars>>

(* Broken: the interrupted call is left where it was.                      *)
RestartResumes ==
  /\ epoch < MaxEpoch
  /\ epoch' = epoch + 1
  /\ stage' = [c \in Call |-> IF stage[c] = "idle" THEN "idle" ELSE "interrupted"]
  /\ did' = [c \in Call |-> IF did[c] = "begun" THEN "unknown" ELSE did[c]]
  /\ turn' = None
  /\ ForgetCompletions
  /\ UNCHANGED <<approvals, clients, granted, revoked, token, access, level, personal,
                 policies, trust, version, told, atStart, spent, keys>>

(* The daemon dies and starts again: what was in memory is gone, the rows  *)
(* stay as they are.  Boot settles the change that was being written.      *)
Restart ==
  /\ epoch < MaxEpoch
  /\ epoch' = epoch + 1
  /\ stage' = [c \in Call |-> IF stage[c] = "idle" THEN "idle" ELSE "over"]
  /\ did' = [c \in Call |-> IF did[c] = "begun" THEN "unknown" ELSE did[c]]
  /\ turn' = None
  /\ ForgetCompletions
  /\ UNCHANGED <<approvals, clients, granted, revoked, token, access, level, personal,
                 policies, trust, version, told, atStart, spent, keys>>

Step(c) ==
  \/ RefusedQueued(c) \/ GateStops(c) \/ Duplicate(c) \/ Reserve(c)
  \/ Withdrawn(c) \/ Blocked(c) \/ FailsEarly(c) \/ StartWrites(c) \/ SpawnJob(c)
  \/ Applied(c) \/ Unrecorded(c) \/ Restored(c) \/ Partial(c)

Next ==
  \/ \E c \in Call : Submit(c) \/ Step(c)
  \/ \E m \in Trust : SetTrust(m)
  \/ Row(OwnerApproves) \/ Row(OwnerDenies) \/ Row(ApprovalExpires)
  \/ Policy \/ Connect
  \/ Restart

(* The daemon keeps running the calls it admitted.                         *)
Fairness == \A c \in Call : WF_vars(Step(c))

SafeSpec == Init /\ [][Next]_vars
Spec == SafeSpec /\ Fairness
-----------------------------------------------------------------------------
RowSubject == Flow \cup [grant : Flow, action : Action, class : Class, version : Nat]
ApprovalRow == [kind : {"oauth", "action"}, subject : RowSubject, epoch : Nat,
                status : ApprovalStatus, late : BOOLEAN]

RowsTyped == approvals \in Seq(ApprovalRow) /\ Len(approvals) <= MaxRows

AuthTyped ==
  /\ clients \subseteq Client
  /\ consent \in [Flow -> {"none", "saving", "granted", "refused"}]
  /\ granted \subseteq Flow /\ revoked \subseteq granted
  /\ token \in [Flow -> {"none", "valid", "expired"}]
  /\ access \in [Client -> SUBSET Scope]
  /\ level \in Level /\ personal \in BOOLEAN /\ policies \in 0..MaxPolicy

CallsTyped ==
  /\ epoch \in Nat /\ version \in Nat /\ trust \in Trust
  /\ stage \in [Call -> Stage] /\ told \in [Call -> Answer]
  /\ atStart \in [Call -> Trust] /\ spent \in [Call -> 0..MaxRows]
  /\ did \in [Call -> Effect]
  /\ turn \in Call \cup {None}
  /\ keys \in [Key -> Receipt]

(* The types of the table, of the authority and of the calls' pipeline     *)
(* (context.ts:262-405).                                                   *)
TypeOK == RowsTyped /\ AuthTyped /\ CallsTyped

(* The first effect of a call happens while its caller's grant, client,    *)
(* token, access and project level still allow it, and under a trust mode  *)
(* that allows it or with an approval of its own: whatever the owner took  *)
(* back during the queueing and the backup counts (context.ts:338-351).    *)
EffectAuthorized ==
  [][\A c \in Call : did[c] = "none" /\ did'[c] # "none" =>
       /\ Scoped(c)
       /\ Allows(Request[c].class, TrustMode) \/ spent[c] # 0]_vars

(* The approval a call went through with was the owner's answer to exactly *)
(* this principal, tool and arguments, given in this start of the daemon,  *)
(* and no other call used it (approvals.ts:5-11).                          *)
ApprovalFits ==
  \A c \in Call : spent[c] # 0 =>
    LET row == approvals[spent[c]] IN
      /\ spent[c] \in DOMAIN approvals
      /\ row.kind = "action" /\ row.status = "consumed"
      /\ row.subject.grant = Request[c].grant
      /\ row.subject.action = Request[c].action
      /\ row.subject.class = Request[c].class
      /\ stage[c] # "over" => row.epoch = epoch
      /\ \A d \in Call \ {c} : spent[d] # spent[c]

(* Changes that took hold, or may have.                                    *)
TookHold(c) == did[c] \in {"begun", "done", "unknown"}

(* One idempotency key lets at most one call change the workspace, across  *)
(* restarts, partial failures and withdrawn authority, as long as the      *)
(* store accepts the receipt (changeTools.ts:75-80).                       *)
KeyRunsOnce ==
  \A c, d \in Call :
    c # d /\ KeyOf(c) = KeyOf(d) /\ TookHold(c) /\ TookHold(d)
      => "unrecorded" \in {told[c], told[d]}

(* What a caller is told is true: "ok" and a replayed receipt mean that    *)
(* the operation took hold, a refusal that it did not, and a FORBIDDEN     *)
(* that comes after the effect leaves the receipt for the retry.           *)
AnswersTrue ==
  \A c \in Call :
    /\ told[c] = "ok" => did[c] = "done"
    /\ told[c] = "replayed" =>
         \E d \in Call : /\ KeyOf(d) = KeyOf(c) /\ did[d] = "done"
                         /\ Request[d].action = Request[c].action
    /\ told[c] = "forbidden" /\ did[c] # "none" => did[c] = "done" /\ keys[KeyOf(c)] = Completed(c)
    /\ told[c] \in {"failed", "blocked", "approval", "expired", "conflict"}
         => did[c] \in {"none", "undone"}

(* A deleted client has nothing left it could use: no live grant, even if  *)
(* the deletion ran while one was being saved, and no open request         *)
(* (interactions.ts:142-144, clientDeletion.ts:26-45).                     *)
DeletedClientGone ==
  \A c \in Client \ clients :
    /\ GrantsOf(c) \subseteq revoked
    /\ \A i \in DOMAIN approvals :
         RowBelongsTo(approvals[i], c) => approvals[i].status \in {"denied", "consumed"}

(* approvals.ts:48 answers "approval expired before use; request again":   *)
(* asking again is about another request then, so a second such answer     *)
(* needs a second row.                                                     *)
RequestAgain ==
  [][\A c, d \in Call :
       told[c] = "expired" /\ Request[c] = Request[d] /\ told[d] = "none" /\ told'[d] = "expired"
         => \E i, j \in DOMAIN approvals :
              i # j /\ approvals[i].subject = Subject(d) /\ approvals[j].subject = Subject(d)]_vars
=============================================================================
