------------------------------- MODULE AgentRuns -------------------------------
(***************************************************************************)
(* The coordination of services/agent/agentService.ts and of the managed   *)
(* operations of tools/agentRuntimeTools.ts: runs with a status and an     *)
(* expiry, hypotheses that hold intents on paths, operations that begin    *)
(* under an intent and land later, when the target tool had its turn.      *)
(*                                                                         *)
(* Expiry is lazy: expire() runs inside some calls.  complete and judge    *)
(* wait for evidence to be validated and write afterwards.  Plans, quotas  *)
(* but the actions', capabilities, snapshots and skills are left out; an   *)
(* operation writes one path (or, as a command, none).                     *)
(***************************************************************************)
EXTENDS Naturals, FiniteSets, Sequences

CONSTANTS
    Hyp,           \* hypotheses
    AgentRun,
    RunOf,         \* the run of each hypothesis
    Root,          \* the path "."
    Dir,           \* paths below it, apart from each other
    Command,       \* what an operation without paths has for one
    MaxActions,    \* capabilities.maxActions
    Wall,          \* capabilities.maxWallMinutes: when runs expire
    MaxTime,       \* bound: the clock
    MaxRestarts    \* bound: restarts

AgentRunsAssumption ==
    /\ RunOf \in [Hyp -> AgentRun]
    /\ Root \notin Dir /\ Command \notin Dir \cup {Root}
    /\ MaxActions \in Nat /\ Wall \in Nat /\ MaxTime \in Nat /\ MaxRestarts \in Nat

IntentPath == Dir \cup {Root}
Action == [hyp : Hyp, path : IntentPath \cup {Command}, status : {"RUNNING", "DONE", "INTERRUPTED"}]
Open == {"ACTIVE", "PAUSED", "RECOVERY_REQUIRED"}
Final == {"COMPLETED", "CANCELED", "EXPIRED"}

Within(p, q) == q = Root \/ p = q
Overlap(p, q) == Within(p, q) \/ Within(q, p)

VARIABLES
    run,        \* the status of each run
    own,        \* runs opened or recovered under this process's epoch
    hyp,        \* hypotheses that are ACTIVE
    intents,    \* ACTIVE path intents
    action,     \* rows of agent_actions
    inflight,   \* operations this process works on: ids of rows
    checking,   \* controls that validate evidence: [run, what]
    now, restarts

runVars == <<run, own, hyp, intents, action, inflight, checking, now, restarts>>

AgentRunsTypeOK ==
    /\ run \in [AgentRun -> {"none"} \cup Open \cup Final]
    /\ own \subseteq AgentRun /\ hyp \subseteq Hyp
    /\ intents \subseteq [hyp : Hyp, path : IntentPath, until : 0 .. Wall]
    /\ action \in Seq(Action)
    /\ inflight \subseteq DOMAIN action
    /\ checking \subseteq [run : AgentRun, what : {"complete"} \cup Hyp]
    /\ now \in 0 .. MaxTime /\ restarts \in 0 .. MaxRestarts

AgentRunsInit ==
    /\ run = [r \in AgentRun |-> "none"]
    /\ own = {} /\ hyp = {} /\ intents = {} /\ inflight = {} /\ checking = {}
    /\ action = <<>>
    /\ now = 0 /\ restarts = 0

-----------------------------------------------------------------------------
(* What calls share.                                                         *)

\* expire(): first the intents, then the runs; open, acquireIntent, control,
\* status and the check of held intents run it.
Unexpired == {i \in intents : i.until > now}
Expired == [r \in AgentRun |-> IF run[r] \in Open /\ now >= Wall THEN "EXPIRED" ELSE run[r]]

\* requireActiveRun and requireActiveHypothesis look at statuses only.
ActiveRun(r) == run[r] = "ACTIVE" /\ r \in own
ActiveHyp(h) == ActiveRun(RunOf[h]) /\ h \in hyp

\* Broken: an intent on a directory is compared with the same directory only.
ConflictsExact(h, p) == {i \in Unexpired : i.hyp # h /\ i.path = p}

Conflicts(h, p) == {i \in Unexpired : i.hyp # h /\ Overlap(i.path, p)}

Covered(h, p) == \E i \in Unexpired : i.hyp = h /\ Within(p, i.path)

Released(r) == {i \in intents : RunOf[i.hyp] # r}

-----------------------------------------------------------------------------
(* Runs, hypotheses and intents.                                             *)

OpenRun(r) ==
    /\ run[r] = "none" /\ now < Wall
    /\ run' = [Expired EXCEPT ![r] = "ACTIVE"]
    /\ own' = own \cup {r}
    /\ intents' = Unexpired
    /\ UNCHANGED <<hyp, action, inflight, checking, now, restarts>>

OpenHypothesis(h) ==
    /\ ActiveRun(RunOf[h]) /\ h \notin hyp
    /\ \A c \in checking : c.what # h
    /\ hyp' = hyp \cup {h}
    /\ UNCHANGED <<run, own, intents, action, inflight, checking, now, restarts>>

\* The conflict with another hypothesis, of any run of the workspace.
AcquireIntent(h, p, ttl) ==
    /\ ActiveHyp(h) /\ Expired[RunOf[h]] = "ACTIVE" /\ Conflicts(h, p) = {}
    /\ run' = Expired
    /\ intents' = IF \E i \in Unexpired : i.hyp = h /\ i.path = p THEN Unexpired
                  ELSE Unexpired \cup {[hyp |-> h, path |-> p,
                                        until |-> IF now + ttl < Wall THEN now + ttl ELSE Wall]}
    /\ UNCHANGED <<own, hyp, action, inflight, checking, now, restarts>>

ReleaseIntent(i) ==
    /\ i \in intents
    /\ intents' = intents \ {i}
    /\ UNCHANGED <<run, own, hyp, action, inflight, checking, now, restarts>>

-----------------------------------------------------------------------------
(* Managed operations.                                                       *)

Spent(r) == Cardinality({i \in DOMAIN action : RunOf[action[i].hyp] = r})

\* beginOperation: a write needs a covering intent, and looking for one expires
\* runs and intents; a command asks for neither.
Begin(h, p) ==
    /\ ActiveHyp(h) /\ Spent(RunOf[h]) < MaxActions
    /\ IF p = Command THEN UNCHANGED <<run, intents>>
       ELSE Covered(h, p) /\ run' = Expired /\ intents' = Unexpired
    /\ action' = Append(action, [hyp |-> h, path |-> p, status |-> "RUNNING"])
    /\ inflight' = inflight \cup {Len(action) + 1}
    /\ UNCHANGED <<own, hyp, checking, now, restarts>>

\* The target tool had its turn and wrote, or failed; finishOperation.
Finish(i) ==
    /\ i \in inflight
    /\ action' = [action EXCEPT ![i].status = IF @ = "RUNNING" THEN "DONE" ELSE @]
    /\ inflight' = inflight \ {i}
    /\ UNCHANGED <<run, own, hyp, intents, checking, now, restarts>>

-----------------------------------------------------------------------------
(* Controls.                                                                 *)

Controlled(r, from, to) ==
    /\ Expired[r] \in from
    /\ run' = [Expired EXCEPT ![r] = to]
    /\ UNCHANGED <<hyp, action, inflight, checking, now, restarts>>

Pause(r) == Controlled(r, {"ACTIVE"}, "PAUSED") /\ intents' = Unexpired /\ UNCHANGED own
Resume(r) == Controlled(r, {"PAUSED"}, "ACTIVE") /\ intents' = Unexpired /\ UNCHANGED own
Recover(r) == Controlled(r, {"RECOVERY_REQUIRED"}, "ACTIVE") /\ intents' = Unexpired
                /\ own' = own \cup {r}
Cancel(r) == Controlled(r, Open, "CANCELED") /\ intents' = Released(r) /\ UNCHANGED own

\* complete: its criteria's evidence is validated between the check and the write.
Complete(r) ==
    /\ Expired[r] \in {"ACTIVE", "PAUSED"}
    /\ checking' = checking \cup {[run |-> r, what |-> "complete"]}
    /\ run' = Expired /\ intents' = Unexpired
    /\ UNCHANGED <<own, hyp, action, inflight, now, restarts>>

Completed(c) ==
    /\ c \in checking /\ c.what = "complete"
    /\ run' = [run EXCEPT ![c.run] = "COMPLETED"]
    /\ intents' = Released(c.run)
    /\ checking' = checking \ {c}
    /\ UNCHANGED <<own, hyp, action, inflight, now, restarts>>

Judge(h) ==
    /\ ActiveHyp(h)
    /\ checking' = checking \cup {[run |-> RunOf[h], what |-> h]}
    /\ UNCHANGED <<run, own, hyp, intents, action, inflight, now, restarts>>

\* A judged hypothesis keeps its intents.
Judged(c) ==
    /\ c \in checking /\ c.what # "complete"
    /\ hyp' = hyp \ {c.what}
    /\ checking' = checking \ {c}
    /\ UNCHANGED <<run, own, intents, action, inflight, now, restarts>>

\* The evidence is not CURRENT.
NotCurrent(c) ==
    /\ c \in checking
    /\ checking' = checking \ {c}
    /\ UNCHANGED <<run, own, hyp, intents, action, inflight, now, restarts>>

-----------------------------------------------------------------------------
(* Time and restarts.                                                        *)

Tick ==
    /\ now < MaxTime
    /\ now' = now + 1
    /\ UNCHANGED <<run, own, hyp, intents, action, inflight, checking, restarts>>

\* Broken: the actions of the process that died stay as they are.
BootRuns ==
    /\ run' = [r \in AgentRun |-> IF Expired[r] = "ACTIVE" THEN "RECOVERY_REQUIRED" ELSE Expired[r]]
    /\ UNCHANGED action

\* recoverOnBoot.
Boot ==
    /\ run' = [r \in AgentRun |-> IF Expired[r] = "ACTIVE" THEN "RECOVERY_REQUIRED" ELSE Expired[r]]
    /\ action' = [i \in DOMAIN action |-> IF action[i].status = "RUNNING"
                                         THEN [action[i] EXCEPT !.status = "INTERRUPTED"]
                                         ELSE action[i]]

Restart ==
    /\ restarts < MaxRestarts
    /\ Boot
    /\ own' = {} /\ inflight' = {} /\ checking' = {}
    /\ intents' = Unexpired
    /\ restarts' = restarts + 1
    /\ UNCHANGED <<hyp, now>>

AgentRunsNext ==
    \/ Tick \/ Restart
    \/ \E r \in AgentRun : OpenRun(r) \/ Pause(r) \/ Resume(r) \/ Recover(r) \/ Cancel(r) \/ Complete(r)
    \/ \E h \in Hyp : \/ OpenHypothesis(h) \/ Judge(h)
                      \/ \E p \in IntentPath \cup {Command} : Begin(h, p)
                      \/ \E p \in IntentPath, ttl \in 1 .. Wall : AcquireIntent(h, p, ttl)
    \/ \E i \in intents : ReleaseIntent(i)
    \/ \E i \in inflight : Finish(i)
    \/ \E c \in checking : Completed(c) \/ Judged(c) \/ NotCurrent(c)

AgentRunsSpec == AgentRunsInit /\ [][AgentRunsNext]_runVars

-----------------------------------------------------------------------------
(* Properties.                                                               *)

\* No two hypotheses of the workspace hold intents that overlap and last.
IntentsExclusive ==
    \A i, j \in Unexpired : i.hyp # j.hyp => ~Overlap(i.path, j.path)

\* An action's row says RUNNING exactly while this process works on it.
ActionsTellTheTruth ==
    \A i \in DOMAIN action : action[i].status = "RUNNING" <=> i \in inflight

\* A write in flight touches nothing another hypothesis holds.
WritesAlone ==
    \A i \in inflight : action[i].path # Command =>
        \A j \in Unexpired : j.hyp # action[i].hyp => ~Overlap(j.path, action[i].path)

\* What was canceled or has expired never becomes anything else.
FinalStays ==
    [][\A r \in AgentRun : run[r] \in Final => run'[r] = run[r]]_runVars

\* No operation begins when the run's wall time is over.
WallTimeKept ==
    [][Len(action') > Len(action) => now < Wall]_runVars
=============================================================================
