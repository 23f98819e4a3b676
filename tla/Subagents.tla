------------------------------ MODULE Subagents ------------------------------
(***************************************************************************)
(* The agent runs of services/ai/subagents.ts: durable rows, the executor  *)
(* that works on a copy of a row's payload, and the owner's and caller's   *)
(* controls, which write the same row.                                     *)
(*                                                                         *)
(* A run alternates model calls (even steps) and tool calls (odd ones).    *)
(* Payload: `at' outcomes are recorded, `unknown' is the UNCERTAIN mark    *)
(* saved before a step leaves the process, `job' says it lists a job of    *)
(* its own.  A control that needs the project's runtime waits while it     *)
(* opens and then writes the payload it read before.  What the runtime's   *)
(* opening releases runs before any timer or other event, as promise       *)
(* continuations do.  One tool call per reply; projects, profiles, and     *)
(* the budgets of time are left out.                                       *)
(***************************************************************************)
EXTENDS Naturals, FiniteSets

CONSTANTS
    Run,
    None,
    GlobalLimit,  \* settings.limits().global
    MaxSteps,     \* the profile's budgets: steps of a run
    MaxControls,  \* bound: controls given
    MaxCrashes    \* bound: ends of the process

Step == 0 .. MaxSteps
IsTool(n) == n % 2 = 1
Terminal == {"completed", "failed", "canceled"}
Parked == {"waiting_approval", "waiting_auth", "paused", "interrupted"}

\* A row and an execution of it; a control that waits.
Pay == [at : Step, unknown : BOOLEAN, job : BOOLEAN]
Row == [status : Terminal \cup Parked \cup {"queued", "running"}, pay : Pay]
Working == [pc : {"lease", "loop", "asked"}, pay : Pay, aborted : BOOLEAN,
            requested : {None, "paused", "canceled"}]
Wait == [run : Run, act : {"resume", "cancel"}, pay : Pay]

SubagentsAssumption ==
    /\ GlobalLimit \in Nat \ {0} /\ MaxSteps \in Nat /\ MaxControls \in Nat /\ MaxCrashes \in Nat
    /\ None \notin Row \cup Working

VARIABLES
    row,        \* ai_runs: the status and payload of each run
    live,       \* the executions: active, and the payload each works on
    waiting,    \* controls that wait for the runtime, with the payload they read
    runtime,    \* of the project: "closed", "opening", "open"
    daemon,     \* "up", "closing", "down"
    jobs,       \* runs a job started for is still running
    flying,     \* steps that left and have not landed
    effects,    \* how often each step took effect outside
    stopped,    \* history: runs paused or canceled and not resumed since
    controls, crashes

agentVars == <<row, live, waiting, runtime, daemon, jobs, flying, effects, stopped,
               controls, crashes>>

Payload(n) == [at |-> n, unknown |-> FALSE, job |-> FALSE]

SubagentsTypeOK ==
    /\ row \in [Run -> {None} \cup Row] /\ live \in [Run -> {None} \cup Working]
    /\ waiting \subseteq Wait
    /\ runtime \in {"closed", "opening", "open"}
    /\ daemon \in {"up", "closing", "down"}
    /\ jobs \subseteq Run
    /\ flying \subseteq Run \X Step
    /\ effects \in [Run \X Step -> Nat]
    /\ stopped \subseteq Run

SubagentsInit ==
    /\ row = [r \in Run |-> None]
    /\ live = [r \in Run |-> None]
    /\ waiting = {}
    /\ runtime = "closed"
    /\ daemon = "up"
    /\ jobs = {}
    /\ flying = {}
    /\ effects = [s \in Run \X Step |-> 0]
    /\ stopped = {}
    /\ controls = 0
    /\ crashes = 0

Active == {r \in Run : live[r] # None}

\* Continuations of a runtime that has just opened come first.
Settled == runtime # "open" \/ waiting = {}

Saved(r, status, pay) == [row EXCEPT ![r] = IF @ = None THEN None
                                           ELSE [status |-> status, pay |-> pay]]

Outside == <<jobs, flying, effects>>
Bounds == <<stopped, controls, crashes>>

-----------------------------------------------------------------------------
(* The project's runtime: acquire waits for it to open.                      *)

Opening == IF runtime = "closed" THEN "opening" ELSE runtime

RuntimeOpens ==
    /\ runtime = "opening" /\ daemon # "down"
    /\ runtime' = "open"
    /\ UNCHANGED <<row, live, waiting, daemon, Outside, Bounds>>

\* The owner closes an idle runtime.
RuntimeCloses ==
    /\ Settled /\ runtime = "open" /\ Active = {} /\ jobs = {} /\ daemon = "up"
    /\ runtime' = "closed"
    /\ UNCHANGED <<row, live, waiting, daemon, Outside, Bounds>>

-----------------------------------------------------------------------------
(* Callers.                                                                  *)

Spawn(r) ==
    /\ Settled /\ daemon = "up" /\ runtime = "open" /\ row[r] = None
    /\ row' = [row EXCEPT ![r] = [status |-> "queued", pay |-> Payload(0)]]
    /\ UNCHANGED <<live, waiting, runtime, daemon, Outside, Bounds>>

Control == controls < MaxControls /\ controls' = controls + 1 /\ Settled /\ daemon = "up"

\* The row is read, the lease awaited, and what was read is then written.
Resume(r) ==
    /\ Control /\ row[r] # None /\ live[r] = None
    /\ row[r].status \notin Terminal /\ ~row[r].pay.unknown
    /\ waiting' = waiting \cup {[run |-> r, act |-> "resume", pay |-> row[r].pay]}
    /\ runtime' = Opening
    /\ stopped' = stopped \ {r}
    /\ UNCHANGED <<row, live, daemon, Outside, crashes>>

Resumed(w) ==
    /\ runtime = "open" /\ w \in waiting /\ w.act = "resume" /\ daemon # "down"
    /\ row' = Saved(w.run, "queued", w.pay)
    /\ waiting' = waiting \ {w}
    /\ UNCHANGED <<live, runtime, daemon, Outside, Bounds>>

\* The state is written with the payload read; an execution is told to stop.
Halt(r, state) ==
    /\ Control /\ row[r] # None /\ row[r].status \notin Terminal
    /\ row' = Saved(r, state, row[r].pay)
    /\ live' = [live EXCEPT ![r] = IF @ = None THEN None
                                   ELSE [@ EXCEPT !.requested = state, !.aborted = TRUE]]
    /\ stopped' = stopped \cup {r}
    /\ UNCHANGED <<daemon, Outside, crashes>>

Pause(r) == Halt(r, "paused") /\ UNCHANGED <<waiting, runtime>>

Cancel(r) ==
    /\ Halt(r, "canceled")
    /\ runtime' = Opening
    /\ waiting' = waiting \cup {[run |-> r, act |-> "cancel", pay |-> row[r].pay]}

\* cancelJobs: the jobs the payload lists.
Canceled(w) ==
    /\ runtime = "open" /\ w \in waiting /\ w.act = "cancel" /\ daemon # "down"
    /\ jobs' = IF w.pay.job THEN jobs \ {w.run} ELSE jobs
    /\ waiting' = waiting \ {w}
    /\ UNCHANGED <<row, live, runtime, daemon, flying, effects, Bounds>>

\* control('delete') and pruneHistory.
Delete(r) ==
    /\ Control /\ row[r] # None /\ live[r] = None
    /\ row[r].status \in Terminal \cup {"interrupted"}
    /\ row' = [row EXCEPT ![r] = None]
    /\ effects' = [s \in Run \X Step |-> IF s[1] = r THEN 0 ELSE effects[s]]
    /\ flying' = {s \in flying : s[1] # r}
    /\ jobs' = jobs \ {r}
    /\ stopped' = stopped \ {r}
    /\ UNCHANGED <<live, waiting, runtime, daemon, crashes>>

-----------------------------------------------------------------------------
(* The executor.                                                             *)

\* Broken: the limit counts the run about to start.
PumpBelowLimit(r) ==
    /\ Settled /\ daemon = "up" /\ row[r] # None /\ row[r].status = "queued"
    /\ live[r] = None /\ Cardinality(Active) + 1 < GlobalLimit
    /\ row' = Saved(r, "running", row[r].pay)
    /\ live' = [live EXCEPT ![r] = [pc |-> "lease", pay |-> row[r].pay,
                                    aborted |-> FALSE, requested |-> None]]
    /\ runtime' = Opening
    /\ UNCHANGED <<waiting, daemon, Outside, Bounds>>

\* pump: a queued row is taken and saved as running; a refused configuration
\* leaves it to wait for authorization.
Pump(r) ==
    /\ Settled /\ daemon = "up" /\ row[r] # None /\ row[r].status = "queued"
    /\ live[r] = None /\ Cardinality(Active) < GlobalLimit
    /\ \/ /\ row' = Saved(r, "running", row[r].pay)
          /\ live' = [live EXCEPT ![r] = [pc |-> "lease", pay |-> row[r].pay,
                                          aborted |-> FALSE, requested |-> None]]
          /\ runtime' = Opening
       \/ /\ row' = Saved(r, "waiting_auth", row[r].pay)
          /\ UNCHANGED <<live, runtime>>
    /\ UNCHANGED <<waiting, daemon, Outside, Bounds>>

\* Broken: a failed execution leaves its jobs to themselves.
EndLeavingJobs(r, status, pay) ==
    /\ row' = Saved(r, status, pay)
    /\ live' = [live EXCEPT ![r] = None]
    /\ jobs' = jobs

\* The last save, and what the finally block does with the run's jobs.
End(r, status, pay) ==
    /\ row' = Saved(r, status, pay)
    /\ live' = [live EXCEPT ![r] = None]
    /\ jobs' = IF status \in {"canceled", "failed", "waiting_auth"} /\ pay.job
                THEN jobs \ {r} ELSE jobs

\* What the end of a stopped or failing execution writes.
AfterStop(r, otherwise) ==
    IF live[r].requested # None THEN live[r].requested
    ELSE IF row[r] # None /\ row[r].status = "canceled" THEN "canceled" ELSE otherwise

\* The lease, and the epoch, which a runtime opened since the row's spawn or
\* resume does not have.
Lease(r) ==
    /\ Settled /\ live[r] # None /\ live[r].pc = "lease" /\ runtime = "open"
    /\ \/ /\ live' = [live EXCEPT ![r].pc = "loop"]
          /\ UNCHANGED <<row, jobs>>
       \/ End(r, AfterStop(r, "failed"), live[r].pay)
    /\ UNCHANGED <<waiting, runtime, daemon, flying, effects, Bounds>>

InLoop(r) == Settled /\ live[r] # None /\ live[r].pc = "loop"

\* The loop's end when it was told to stop.
Stopped(r) ==
    /\ InLoop(r) /\ live[r].aborted
    /\ End(r, AfterStop(r, "paused"), live[r].pay)
    /\ UNCHANGED <<waiting, runtime, daemon, flying, effects, Bounds>>

\* waitJobs: the run's job has exited, or is waited for no more.
JobSeen(r) ==
    /\ InLoop(r) /\ ~live[r].aborted /\ live[r].pay.job /\ r \notin jobs
    /\ LET pay == [live[r].pay EXCEPT !.job = FALSE]
       IN  live' = [live EXCEPT ![r].pay = pay] /\ row' = Saved(r, "running", pay)
    /\ UNCHANGED <<waiting, runtime, daemon, Outside, Bounds>>

Ready(r) == InLoop(r) /\ ~live[r].aborted /\ ~live[r].pay.job

\* Broken: the step leaves and only its answer is saved.
LeaveUnmarked(r) ==
    /\ Ready(r) /\ live[r].pay.at < MaxSteps
    /\ live' = [live EXCEPT ![r].pc = "asked"]
    /\ flying' = flying \cup {<<r, live[r].pay.at>>}
    /\ UNCHANGED <<row, waiting, runtime, daemon, jobs, effects, Bounds>>

\* UNCERTAIN is saved, and the step leaves.
Leave(r) ==
    /\ Ready(r) /\ live[r].pay.at < MaxSteps
    /\ LET pay == [live[r].pay EXCEPT !.unknown = TRUE]
       IN  /\ live' = [live EXCEPT ![r].pay = pay, ![r].pc = "asked"]
           /\ row' = Saved(r, "running", pay)
    /\ flying' = flying \cup {<<r, live[r].pay.at>>}
    /\ UNCHANGED <<waiting, runtime, daemon, jobs, effects, Bounds>>

\* A budget is spent, the profile changed, or authority is gone.
Refused(r) ==
    /\ Ready(r)
    /\ \E s \in {"failed", "waiting_auth"} : End(r, AfterStop(r, s), live[r].pay)
    /\ UNCHANGED <<waiting, runtime, daemon, flying, effects, Bounds>>

Asked(r) == Settled /\ live[r] # None /\ live[r].pc = "asked"
Flying(r) == <<r, live[r].pay.at>> \in flying
Here(r) == flying \ {<<r, live[r].pay.at>>}

\* A step that left takes effect outside, whoever still waits for it.
Land(s) ==
    /\ s \in flying
    /\ flying' = flying \ {s}
    /\ effects' = [effects EXCEPT ![s] = @ + 1]
    /\ UNCHANGED <<row, live, waiting, runtime, daemon, jobs, Bounds>>

Recorded(p, job) == [at |-> p.at + 1, unknown |-> FALSE, job |-> job]

\* The reply or the result is recorded.  A reply without calls ends the run
\* unless it was told to stop; a command may have started a job.
Answer(r) ==
    /\ Asked(r) /\ ~Flying(r)
    /\ \E job \in (IF IsTool(live[r].pay.at) THEN BOOLEAN ELSE {FALSE}),
          last \in (IF IsTool(live[r].pay.at) \/ live[r].aborted THEN {FALSE} ELSE BOOLEAN) :
         LET pay == Recorded(live[r].pay, job)
         IN  IF last
             THEN End(r, "completed", pay)
             ELSE /\ row' = Saved(r, "running", pay)
                  /\ live' = [live EXCEPT ![r].pay = pay, ![r].pc = "loop"]
                  /\ jobs' = IF job THEN jobs \cup {r} ELSE jobs
    /\ UNCHANGED <<waiting, runtime, daemon, flying, effects, Bounds>>

\* The principal was refused when the tool began, or the tool answered with an
\* error that says nothing happened: the model is told.
Declined(r) ==
    /\ Asked(r) /\ IsTool(live[r].pay.at) /\ Flying(r)
    /\ LET pay == Recorded(live[r].pay, FALSE)
       IN  live' = [live EXCEPT ![r].pay = pay, ![r].pc = "loop"] /\ row' = Saved(r, "running", pay)
    /\ flying' = Here(r)
    /\ UNCHANGED <<waiting, runtime, daemon, jobs, effects, Bounds>>

\* The call needs an approval first; the step stays to be made.
NeedsApproval(r) ==
    /\ Asked(r) /\ IsTool(live[r].pay.at) /\ Flying(r)
    /\ End(r, "waiting_approval", [live[r].pay EXCEPT !.unknown = FALSE])
    /\ flying' = Here(r)
    /\ UNCHANGED <<waiting, runtime, daemon, effects, Bounds>>

\* The provider or the tool refused: known not to have happened.
Rejected(r) ==
    /\ Asked(r) /\ Flying(r)
    /\ \E s \in {"failed", "waiting_auth"} :
         End(r, AfterStop(r, s), [live[r].pay EXCEPT !.unknown = FALSE])
    /\ flying' = Here(r)
    /\ UNCHANGED <<waiting, runtime, daemon, effects, Bounds>>

\* Aborted, timed out or broken off: nobody knows.
Unknown(r) ==
    /\ Asked(r)
    /\ End(r, AfterStop(r, IF row[r] # None /\ row[r].status = "paused" THEN "paused" ELSE "failed"),
           live[r].pay)
    /\ UNCHANGED <<waiting, runtime, daemon, flying, effects, Bounds>>

JobExits(r) ==
    /\ r \in jobs
    /\ jobs' = jobs \ {r}
    /\ UNCHANGED <<row, live, waiting, runtime, daemon, flying, effects, Bounds>>

-----------------------------------------------------------------------------
(* The process.                                                              *)

\* stop(): every execution is told to stop.
Close ==
    /\ daemon = "up" /\ Settled /\ crashes < MaxCrashes
    /\ daemon' = "closing"
    /\ crashes' = crashes + 1
    /\ live' = [r \in Run |-> IF live[r] = None THEN None ELSE [live[r] EXCEPT !.aborted = TRUE]]
    /\ UNCHANGED <<row, waiting, runtime, Outside, stopped, controls>>

Interrupted(which) ==
    [r \in Run |-> IF row[r] # None /\ r \in which
                   THEN [row[r] EXCEPT !.status = "interrupted"] ELSE row[r]]

\* When the last execution has ended, the executor's rows are closed.
Closed ==
    /\ daemon = "closing" /\ Active = {}
    /\ daemon' = "down"
    /\ row' = Interrupted({r \in Run : row[r] # None /\ (row[r].status \notin Terminal \/ row[r].pay.unknown)})
    /\ waiting' = {}
    /\ runtime' = "closed"
    /\ jobs' = {}
    /\ UNCHANGED <<live, flying, effects, Bounds>>

Crash ==
    /\ daemon # "down" /\ crashes < MaxCrashes
    /\ daemon' = "down"
    /\ crashes' = crashes + 1
    /\ live' = [r \in Run |-> None]
    /\ waiting' = {}
    /\ runtime' = "closed"
    /\ jobs' = {}
    /\ UNCHANGED <<row, flying, effects, stopped, controls>>

\* The constructor: rows whose executor is gone.
Restart ==
    /\ daemon = "down"
    /\ daemon' = "up"
    /\ row' = Interrupted({r \in Run : row[r] # None
                             /\ row[r].status \in {"queued", "running", "waiting_approval", "waiting_auth", "paused"}})
    /\ UNCHANGED <<live, waiting, runtime, Outside, Bounds>>

\* Other calls open the runtime too.
OpenRuntime ==
    /\ daemon = "up" /\ runtime = "closed"
    /\ runtime' = "opening"
    /\ UNCHANGED <<row, live, waiting, daemon, Outside, Bounds>>

Execution(r) ==
    Lease(r) \/ Stopped(r) \/ JobSeen(r) \/ Leave(r) \/ Refused(r) \/ Answer(r)
      \/ Declined(r) \/ NeedsApproval(r) \/ Rejected(r) \/ Unknown(r)

SubagentsNext ==
    \/ RuntimeOpens \/ RuntimeCloses \/ OpenRuntime \/ Close \/ Closed \/ Crash \/ Restart
    \/ \E r \in Run : \/ Spawn(r) \/ Resume(r) \/ Pause(r) \/ Cancel(r) \/ Delete(r)
                      \/ Pump(r) \/ JobExits(r) \/ Execution(r)
    \/ \E w \in waiting : Resumed(w) \/ Canceled(w)
    \/ \E s \in flying : Land(s)

\* The timers of pump, of a run's time and of close, and what a promise awaits.
Controlled == \E w \in waiting : Resumed(w) \/ Canceled(w)

SubagentsFairness ==
    /\ WF_agentVars(RuntimeOpens) /\ WF_agentVars(Closed) /\ WF_agentVars(Restart)
    /\ WF_agentVars(Controlled)
    /\ \A r \in Run : WF_agentVars(JobExits(r)) /\ WF_agentVars(Pump(r)) /\ WF_agentVars(Execution(r))

SubagentsSpec == SubagentsInit /\ [][SubagentsNext]_agentVars /\ SubagentsFairness

-----------------------------------------------------------------------------
(* Properties.                                                               *)

\* No model call and no tool call of a run takes effect twice, whatever is
\* paused, resumed, refused, interrupted or lost in between.
EffectsOnce == \A s \in Run \X Step : effects[s] <= 1

\* A run that ended canceled or failed, or waits for authorization, has left no
\* job running that nobody is about to cancel.
JobsStopped ==
    \A r \in Run : (row[r] # None /\ row[r].status \in {"canceled", "failed"}
                      /\ live[r] = None /\ \A w \in waiting : w.run # r) => r \notin jobs

\* A queued run leaves the queue: it starts, is told to stop, or waits again.
QueueMoves == \A r \in Run : (row[r] # None /\ row[r].status = "queued") ~>
                              ~(row[r] # None /\ row[r].status = "queued")

\* A paused or canceled run that nobody resumed makes no further step.
PauseStops ==
    [][\A r \in Run : r \in stopped /\ r \in stopped' => 
         \A n \in Step : <<r, n>> \in flying' => <<r, n>> \in flying]_agentVars
=============================================================================
