------------------------------ MODULE Projects ------------------------------
(***************************************************************************)
(* The projects one daemon serves: the default workspace and its switch    *)
(* (server/workspaceHost.ts), the runtimes opened for calls that name a    *)
(* project (server/installationRuntime.ts), their boot, teardown and lease *)
(* (server/bootstrap.ts, projectLease.ts), the request gate and the order  *)
(* of a shutdown (server/appServer.ts).  Calls, clients that hang up, the  *)
(* owner's switch and close, scheduled commands and another daemon on the  *)
(* same machine interleave at every await.                                 *)
(*                                                                         *)
(* A runtime is an Instance: booted under its project's lease, it is half  *)
(* until its control socket is up, then up, then stopping until its jobs   *)
(* and its store are closed.                                               *)
(***************************************************************************)
EXTENDS Naturals, FiniteSets

CONSTANTS
    Project, Instance, Call, None,
    Default,       \* the project the daemon starts with
    First,         \* and its instance
    MaxRuntimes,   \* the code has 16
    MaxFaults      \* bound: control sockets that do not close

ASSUME ProjectsAssumption ==
    /\ Default \in Project
    /\ First \in Instance
    /\ None \notin Project \cup Instance
    /\ "other" \notin Instance \cup {None}
    /\ MaxRuntimes \in Nat /\ MaxFaults \in Nat

VARIABLES
    \* runtimes
    of,         \* the project of an instance
    ws,         \* "none", "half", "up" or "stopping"
    holder,     \* who holds a project's lease file: an instance of this
                \* daemon or "other", a live process; the file of a process
                \* that died is as good as none
    job,        \* a job that runs in it: a "call" or the "timer" started it
    tick,       \* a scheduled command waits for its backup
    barred,     \* its job manager was shut down
    \* the host of the default workspace
    host,       \* "ready", "switching" or "closed"
    cur,        \* its instance
    sw,         \* the switch: "none", "draining", "probing", "readying",
                \* "swapped" or "tearing"
    target,     \* the project to switch to
    other,      \* the switch's second instance: the next, later the previous
    \* the runtimes of named projects
    runtimes, opening, closing,
    \* calls
    at,         \* "out", "body" (read), "open" (past the gate), "tool"; and
                \* "waiting" for a runtime or "held" when a project is named
    inst,       \* the instance it is bound to
    names,      \* the project it names
    conn,       \* calls whose connection is counted
    \* the shutdown
    stop,       \* "up", "closing", "closed", "ending", "projects", "host",
                \* "done"
    shutting,   \* the project the shutdown is closing
    aborted,    \* the shutdown gave up on the way
    faults

wsVars   == <<of, ws, holder>>
workVars == <<job, tick, barred>>
hostVars == <<host, cur, sw, target, other>>
openVars == <<runtimes, opening, closing>>
callVars == <<at, inst, names, conn>>
stopVars == <<stop, shutting, aborted, faults>>
vars == <<wsVars, workVars, hostVars, openVars, callVars, stopVars>>

Init ==
    /\ cur = First
    /\ of = [i \in Instance |-> IF i = cur THEN Default ELSE None]
    /\ ws = [i \in Instance |-> IF i = cur THEN "up" ELSE "none"]
    /\ holder = [p \in Project |-> IF p = Default THEN cur ELSE None]
    /\ job = [i \in Instance |-> "none"]
    /\ tick = {} /\ barred = {}
    /\ host = "ready" /\ sw = "none" /\ target = None /\ other = None
    /\ runtimes = [p \in Project |-> None]
    /\ opening = [p \in Project |-> None]
    /\ closing = {}
    /\ at = [c \in Call |-> "out"]
    /\ inst = [c \in Call |-> None]
    /\ names = [c \in Call |-> None]
    /\ conn = {}
    /\ stop = "up" /\ shutting = None /\ aborted = FALSE /\ faults = 0

Running == stop # "done"

\* host.inflight: connections and, apart from them, calls in their tool.
Inflight == conn # {} \/ \E c \in Call : at[c] = "tool"

\* busy: calls that hold the project by name.
Users(p) == {c \in Call : at[c] = "held" /\ names[c] = p}

-----------------------------------------------------------------------------
(* Boot and teardown.                                                      *)

\* Broken: two runtimes may have one root.
BootedUnleased(i, p) ==
    /\ ws[i] = "none"
    /\ \A c \in Call : inst[c] # i
    /\ holder' = [holder EXCEPT ![p] = i]
    /\ of' = [of EXCEPT ![i] = p]
    /\ ws' = [ws EXCEPT ![i] = "half"]

\* bootstrapWorkspace: under the lease, or not at all.
Booted(i, p) ==
    /\ ws[i] = "none"
    /\ \A c \in Call : inst[c] # i
    /\ holder[p] = None
    /\ holder' = [holder EXCEPT ![p] = i]
    /\ of' = [of EXCEPT ![i] = p]
    /\ ws' = [ws EXCEPT ![i] = "half"]

\* Broken: the lease file stays.
DownKeepsLease(i) ==
    /\ ws[i] = "stopping"
    /\ ws' = [ws EXCEPT ![i] = "none"]
    /\ of' = [of EXCEPT ![i] = None]
    /\ job' = [job EXCEPT ![i] = "none"]
    /\ tick' = tick \ {i}
    /\ barred' = barred \ {i}
    /\ UNCHANGED holder

\* The end of shutdownServices: jobs are killed, the store is closed and the
\* lease given back.
Down(i) ==
    /\ ws[i] = "stopping"
    /\ ws' = [ws EXCEPT ![i] = "none"]
    /\ of' = [of EXCEPT ![i] = None]
    /\ holder' = [p \in Project |-> IF holder[p] = i THEN None ELSE holder[p]]
    /\ job' = [job EXCEPT ![i] = "none"]
    /\ tick' = tick \ {i}
    /\ barred' = barred \ {i}

\* The other daemon opens a project, closes it or dies with it.
Other(p) ==
    /\ Running
    /\ \/ holder[p] = None /\ holder' = [holder EXCEPT ![p] = "other"]
       \/ holder[p] = "other" /\ holder' = [holder EXCEPT ![p] = None]
    /\ UNCHANGED <<of, ws, workVars, hostVars, openVars, callVars, stopVars>>

-----------------------------------------------------------------------------
(* Calls.                                                                  *)

Connect(c) ==
    /\ stop = "up"
    /\ at[c] = "out" /\ c \notin conn
    /\ at' = [at EXCEPT ![c] = "body"]
    /\ conn' = conn \cup {c}
    /\ UNCHANGED <<wsVars, workVars, hostVars, openVars, inst, names, stopVars>>

\* The client hangs up; what its call does goes on.
HangUp(c) ==
    /\ Running
    /\ c \in conn
    /\ conn' = conn \ {c}
    /\ UNCHANGED <<wsVars, workVars, hostVars, openVars, at, inst, names, stopVars>>

Over(c) == /\ at' = [at EXCEPT ![c] = "out"]
           /\ inst' = [inst EXCEPT ![c] = None]
           /\ names' = [names EXCEPT ![c] = None]
           /\ conn' = conn \ {c}

\* The gate: a call of the default workspace is turned away during a switch
\* (503) and bound to the workspace of the moment otherwise; its connection
\* stays counted.
Gate(c) ==
    /\ Running
    /\ at[c] = "body"
    /\ \/ /\ stop = "up" /\ host = "ready"
          /\ at' = [at EXCEPT ![c] = "open"]
          /\ inst' = [inst EXCEPT ![c] = cur]
          /\ UNCHANGED <<names, conn>>
       \/ /\ stop # "up" \/ host # "ready"
          /\ Over(c)
    /\ UNCHANGED <<wsVars, workVars, hostVars, openVars, stopVars>>

\* Broken: a call that passed the gate is taken to be in the right workspace.
BeginToolLate(c) ==
    /\ Running
    /\ at[c] = "open"
    /\ at' = [at EXCEPT ![c] = "tool"]
    /\ UNCHANGED <<wsVars, workVars, hostVars, openVars, inst, names, conn, stopVars>>

\* beginTool: the workspace of the gate may be gone by now.
BeginTool(c) ==
    /\ Running
    /\ at[c] = "open"
    /\ \/ /\ stop = "up" /\ host = "ready" /\ cur = inst[c]
          /\ at' = [at EXCEPT ![c] = "tool"]
          /\ UNCHANGED <<inst, names, conn>>
       \/ /\ stop # "up" \/ host # "ready" \/ cur # inst[c]
          /\ Over(c)
    /\ UNCHANGED <<wsVars, workVars, hostVars, openVars, stopVars>>

\* A call that names a project is no longer counted with the default workspace,
\* and acquires the project's runtime.
May(p) == stop \in {"up", "closing"} /\ p \notin closing

Bind(c, i, p) == /\ at' = [at EXCEPT ![c] = "held"]
                 /\ inst' = [inst EXCEPT ![c] = i]
                 /\ names' = [names EXCEPT ![c] = p]
                 /\ conn' = conn \ {c}

AcquireDefault(c, p) ==
    /\ at[c] = "body"
    /\ May(p) /\ of[cur] = p
    /\ host = "ready"
    /\ Bind(c, cur, p)
    /\ UNCHANGED <<wsVars, workVars, hostVars, openVars, stopVars>>

AcquireOpen(c, p) ==
    /\ at[c] = "body"
    /\ May(p) /\ of[cur] # p
    /\ runtimes[p] # None
    /\ Bind(c, runtimes[p], p)
    /\ UNCHANGED <<wsVars, workVars, hostVars, openVars, stopVars>>

Waits(c, p) == /\ at' = [at EXCEPT ![c] = "waiting"]
               /\ names' = [names EXCEPT ![c] = p]
               /\ conn' = conn \ {c}

AcquireOpening(c, p) ==
    /\ at[c] = "body"
    /\ May(p) /\ of[cur] # p
    /\ opening[p] # None
    /\ Waits(c, p)
    /\ UNCHANGED <<wsVars, workVars, hostVars, openVars, inst, stopVars>>

AcquireClosed(c, p, i) ==
    /\ at[c] = "body"
    /\ May(p) /\ of[cur] # p
    /\ runtimes[p] = None /\ opening[p] = None
    /\ Cardinality({q \in Project : runtimes[q] # None})
       + Cardinality({q \in Project : opening[q] # None}) < MaxRuntimes
    /\ Booted(i, p)
    /\ opening' = [opening EXCEPT ![p] = i]
    /\ Waits(c, p)
    /\ UNCHANGED <<workVars, hostVars, runtimes, closing, inst, stopVars>>

\* Refused: closing, switching, no authority, no lease, too many.
Refused(c) ==
    /\ Running
    /\ at[c] = "body"
    /\ Over(c)
    /\ UNCHANGED <<wsVars, workVars, hostVars, openVars, stopVars>>

\* The runtime's control socket is up.  Everybody who waited looks again: the
\* daemon may be closing, the authority gone.
Opened(p) ==
    /\ opening[p] # None /\ ws[opening[p]] = "half"
    /\ Running
    /\ LET i == opening[p]
           waiting == {c \in Call : at[c] = "waiting" /\ names[c] = p} IN
          /\ runtimes' = [runtimes EXCEPT ![p] = i]
          /\ opening' = [opening EXCEPT ![p] = None]
          /\ ws' = [ws EXCEPT ![i] = "up"]
          /\ \E in \in SUBSET waiting :
                /\ stop \notin {"up", "closing"} => in = {}
                /\ at' = [c \in Call |-> IF c \in in THEN "held"
                                         ELSE IF c \in waiting THEN "out" ELSE at[c]]
                /\ inst' = [c \in Call |-> IF c \in in THEN i ELSE inst[c]]
                /\ names' = [c \in Call |-> IF c \in waiting \ in THEN None ELSE names[c]]
    /\ UNCHANGED <<of, holder, workVars, hostVars, closing, conn, stopVars>>

\* It could not be started: the half-built runtime is shut down, and only then
\* those who waited hear of it.
OpenFails(p) ==
    /\ opening[p] # None /\ ws[opening[p]] = "half"
    /\ Running
    /\ ws' = [ws EXCEPT ![opening[p]] = "stopping"]
    /\ UNCHANGED <<of, holder, workVars, hostVars, openVars, callVars, stopVars>>

OpeningDown(p) ==
    /\ opening[p] # None
    /\ Running
    /\ Down(opening[p])
    /\ opening' = [opening EXCEPT ![p] = None]
    /\ LET waiting == {c \in Call : at[c] = "waiting" /\ names[c] = p} IN
          /\ at' = [c \in Call |-> IF c \in waiting THEN "out" ELSE at[c]]
          /\ names' = [c \in Call |-> IF c \in waiting THEN None ELSE names[c]]
    /\ UNCHANGED <<hostVars, runtimes, closing, inst, conn, stopVars>>

Return(c) ==
    /\ Running
    /\ at[c] \in {"tool", "held"}
    /\ Over(c)
    /\ UNCHANGED <<wsVars, workVars, hostVars, openVars, stopVars>>

-----------------------------------------------------------------------------
(* Jobs.  The mutation queue admits one writer (module JobQueue).          *)

StartJob(c) ==
    /\ at[c] \in {"tool", "held"}
    /\ inst[c] \notin barred
    /\ job[inst[c]] = "none" /\ inst[c] \notin tick
    /\ job' = [job EXCEPT ![inst[c]] = "call"]
    /\ UNCHANGED <<wsVars, tick, barred, hostVars, openVars, callVars, stopVars>>

JobEnds(i) ==
    /\ Running
    /\ job[i] # "none"
    /\ job' = [job EXCEPT ![i] = "none"]
    /\ UNCHANGED <<wsVars, tick, barred, hostVars, openVars, callVars, stopVars>>

\* A scheduled command is claimed.  What a timer asks before it looks is
\* whether its workspace is the current one of a ready host, or, of a named
\* project, whether the installation is not closed.
Tick(i) ==
    /\ ws[i] = "up" /\ job[i] = "none" /\ i \notin tick
    /\ \/ i = cur /\ stop = "up" /\ host = "ready"
       \/ runtimes[of[i]] = i /\ stop \in {"up", "closing"}
    /\ tick' = tick \cup {i}
    /\ UNCHANGED <<wsVars, job, barred, hostVars, openVars, callVars, stopVars>>

\* Its backup is done.  Nobody asks again whether the workspace is current.
Launch(i) ==
    /\ Running
    /\ i \in tick
    /\ tick' = tick \ {i}
    /\ \/ i \notin barred /\ job' = [job EXCEPT ![i] = "timer"]
       \/ UNCHANGED job
    /\ UNCHANGED <<wsVars, barred, hostVars, openVars, callVars, stopVars>>

-----------------------------------------------------------------------------
(* The owner switches the default workspace.                               *)

SwitchTo(p) ==
    /\ stop = "up" /\ host = "ready"
    /\ p # of[cur]
    /\ Users(of[cur]) = {} /\ job[cur] = "none"
    /\ host' = "switching"
    /\ sw' = "draining"
    /\ target' = p
    /\ UNCHANGED <<wsVars, workVars, cur, other, openVars, callVars, stopVars>>

\* Broken: current moves to a workspace that was never built.
SwitchOffSwaps == /\ host' = "ready" /\ sw' = "none" /\ target' = None
                  /\ cur' = other /\ UNCHANGED other

\* Refused, or failed before anything was built: the old workspace goes on.
SwitchOff == /\ host' = "ready" /\ sw' = "none" /\ target' = None
             /\ UNCHANGED <<cur, other>>

\* Broken: jobs are looked for before the calls are drained, not after.
DrainedOnce ==
    /\ sw = "draining" /\ Running
    /\ \/ ~Inflight /\ sw' = "probing" /\ UNCHANGED <<host, cur, target, other>>
       \/ Inflight /\ SwitchOff
    /\ UNCHANGED <<wsVars, workVars, openVars, callVars, stopVars>>

\* Broken: the calls in flight are waited for without a limit.
DrainedPatiently ==
    /\ sw = "draining" /\ Running /\ ~Inflight
    /\ \/ /\ job[cur] = "none" /\ Users(of[cur]) = {}
          /\ sw' = "probing"
          /\ UNCHANGED <<host, cur, target, other>>
       \/ (job[cur] # "none" \/ Users(of[cur]) # {}) /\ SwitchOff
    /\ UNCHANGED <<wsVars, workVars, openVars, callVars, stopVars>>

\* No call is left, or the wait is over.  One of them may have left a job.
Drained ==
    /\ sw = "draining" /\ Running
    /\ \/ /\ ~Inflight /\ job[cur] = "none" /\ Users(of[cur]) = {}
          /\ sw' = "probing"
          /\ UNCHANGED <<host, cur, target, other>>
       \/ (Inflight \/ job[cur] # "none" \/ Users(of[cur]) # {}) /\ SwitchOff
    /\ UNCHANGED <<wsVars, workVars, openVars, callVars, stopVars>>

\* Broken: the old workspace makes room before the new one is known to work.
ProbedRetires(i) ==
    /\ sw = "probing" /\ Running
    /\ ws[i] = "none" /\ holder[target] = None
    /\ holder' = [holder EXCEPT ![target] = i]
    /\ of' = [of EXCEPT ![i] = target]
    /\ ws' = [ws EXCEPT ![i] = "half", ![cur] = "stopping"]
    /\ sw' = "readying"
    /\ other' = i
    /\ UNCHANGED <<workVars, host, cur, target, openVars, callVars, stopVars>>

\* The target's socket was asked who serves it; nobody, so it is booted.
Probed(i) ==
    /\ sw = "probing" /\ Running
    /\ Booted(i, target)
    /\ sw' = "readying"
    /\ other' = i
    /\ UNCHANGED <<workVars, host, cur, target, openVars, callVars, stopVars>>

ProbeFails ==
    /\ sw = "probing" /\ Running
    /\ SwitchOff
    /\ UNCHANGED <<wsVars, workVars, openVars, callVars, stopVars>>

\* The new control socket is up: from here on every reader sees the new one.
Swap ==
    /\ sw = "readying" /\ Running
    /\ cur' = other /\ other' = cur
    /\ ws' = [ws EXCEPT ![other] = "up"]
    /\ sw' = "swapped"
    /\ UNCHANGED <<of, holder, workVars, host, target, openVars, callVars, stopVars>>

\* Broken: a failed switch leaves the gate shut.
SwapFailsGated ==
    /\ sw = "readying" /\ Running
    /\ ws' = [ws EXCEPT ![other] = "stopping"]
    /\ sw' = "none" /\ target' = None /\ other' = None
    /\ UNCHANGED <<of, holder, workVars, host, cur, openVars, callVars, stopVars>>

\* It did not come up: the host is ready at once, and the half-built workspace
\* is shut down behind it.
SwapFails ==
    /\ sw = "readying" /\ Running
    /\ ws' = [ws EXCEPT ![other] = "stopping"]
    /\ host' = "ready" /\ sw' = "none" /\ target' = None /\ other' = None
    /\ UNCHANGED <<of, holder, workVars, cur, openVars, callVars, stopVars>>

\* The old control socket is closed; the old services are shut down.
Retire ==
    /\ sw = "swapped" /\ Running
    /\ ws' = [ws EXCEPT ![other] = "stopping"]
    /\ sw' = "tearing"
    /\ UNCHANGED <<of, holder, workVars, host, cur, target, other, openVars, callVars, stopVars>>

Retired ==
    /\ sw = "tearing" /\ Running
    /\ Down(other)
    /\ host' = "ready" /\ sw' = "none" /\ target' = None /\ other' = None
    /\ UNCHANGED <<cur, openVars, callVars, stopVars>>

\* The end of a shutdown nobody waits for: of a workspace that failed to come
\* up in a switch.
Orphan(i) == /\ ws[i] = "stopping" /\ i # cur /\ i # other
             /\ \A p \in Project : opening[p] # i /\ runtimes[p] # i

OrphanDown(i) ==
    /\ Running
    /\ Orphan(i)
    /\ Down(i)
    /\ UNCHANGED <<hostVars, openVars, callVars, stopVars>>

-----------------------------------------------------------------------------
(* A named project's runtime is closed.                                    *)

Idle(p) == /\ Users(p) = {}
           /\ job[runtimes[p]] = "none" /\ runtimes[p] \notin tick

CloseProject(p) ==
    /\ stop = "up"
    /\ runtimes[p] # None /\ opening[p] = None /\ p \notin closing
    /\ Idle(p)
    /\ closing' = closing \cup {p}
    /\ UNCHANGED <<wsVars, workVars, hostVars, runtimes, opening, callVars, stopVars>>

\* Its control socket is closed.
StopProject(p) ==
    /\ Running
    /\ p \in closing /\ ws[runtimes[p]] = "up"
    /\ ws' = [ws EXCEPT ![runtimes[p]] = "stopping"]
    /\ UNCHANGED <<of, holder, workVars, hostVars, openVars, callVars, stopVars>>

\* It does not close: the project stays closing, for good.
StopProjectFails(p) ==
    /\ Running
    /\ p \in closing /\ ws[runtimes[p]] = "up"
    /\ faults < MaxFaults
    /\ faults' = faults + 1
    /\ IF shutting = p THEN aborted' = TRUE /\ stop' = "done" /\ shutting' = None
                       ELSE UNCHANGED <<aborted, stop, shutting>>
    /\ UNCHANGED <<wsVars, workVars, hostVars, openVars, callVars>>

ProjectDown(p) ==
    /\ Running
    /\ p \in closing
    /\ Down(runtimes[p])
    /\ runtimes' = [runtimes EXCEPT ![p] = None]
    /\ closing' = closing \ {p}
    /\ shutting' = IF shutting = p THEN None ELSE shutting
    /\ UNCHANGED <<hostVars, opening, callVars, stop, aborted, faults>>

-----------------------------------------------------------------------------
(* The daemon stops.                                                       *)

\* jobs.shutdown: what runs is ended, what comes later refused.
EndJobs(I) == /\ job' = [i \in Instance |-> IF i \in I THEN "none" ELSE job[i]]
              /\ barred' = barred \cup I

\* The current jobs are ended, connections closed, nobody new let in.
Shutdown ==
    /\ stop = "up"
    /\ stop' = "closing"
    /\ EndJobs({cur})
    /\ conn' = {}
    /\ UNCHANGED <<wsVars, tick, hostVars, openVars, at, inst, names, shutting, aborted, faults>>

\* installation.close: nothing is acquired any more,
CloseInstallation ==
    /\ stop = "closing"
    /\ stop' = "closed"
    /\ UNCHANGED <<wsVars, workVars, hostVars, openVars, callVars, shutting, aborted, faults>>

\* what is being opened is waited for and all jobs are ended,
CloseJobs ==
    /\ stop = "closed"
    /\ \A p \in Project : opening[p] = None
    /\ stop' = "ending"
    /\ EndJobs({cur} \cup {i \in Instance : \E p \in Project : runtimes[p] = i})
    /\ UNCHANGED <<wsVars, tick, hostVars, openVars, callVars, shutting, aborted, faults>>

\* the calls that hold a project are waited for.
CallsOver ==
    /\ stop = "ending"
    /\ \A p \in Project : Users(p) = {}
    /\ stop' = "projects"
    /\ UNCHANGED <<wsVars, workVars, hostVars, openVars, callVars, shutting, aborted, faults>>

\* One project after the other is closed as the owner closes it; a refusal ends
\* the whole shutdown where it is.
CloseNext(p) ==
    /\ stop = "projects" /\ shutting = None
    /\ runtimes[p] # None
    /\ \/ /\ p \notin closing /\ Idle(p)
          /\ closing' = closing \cup {p}
          /\ shutting' = p
          /\ UNCHANGED <<stop, aborted>>
       \/ /\ p \in closing \/ ~Idle(p)
          /\ stop' = "done" /\ aborted' = TRUE
          /\ UNCHANGED <<closing, shutting>>
    /\ UNCHANGED <<wsVars, workVars, hostVars, runtimes, opening, callVars, faults>>

\* theHost.close: after the switch in progress and the calls in their tools.
CloseHost ==
    /\ stop = "projects" /\ shutting = None
    /\ \A p \in Project : runtimes[p] = None
    /\ host = "ready"
    /\ host' = "closed"
    /\ stop' = "host"
    /\ UNCHANGED <<wsVars, workVars, cur, sw, target, other, openVars, callVars, shutting, aborted, faults>>

StopDefault ==
    /\ stop = "host" /\ ws[cur] = "up"
    /\ ~Inflight
    /\ ws' = [ws EXCEPT ![cur] = "stopping"]
    /\ UNCHANGED <<of, holder, workVars, hostVars, openVars, callVars, stopVars>>

Stopped ==
    /\ stop = "host"
    /\ Down(cur)
    /\ stop' = "done"
    /\ UNCHANGED <<hostVars, openVars, callVars, shutting, aborted, faults>>

-----------------------------------------------------------------------------
Acquire(c, p) == \/ AcquireDefault(c, p)
                 \/ AcquireOpen(c, p)
                 \/ AcquireOpening(c, p)
                 \/ \E i \in Instance : AcquireClosed(c, p, i)

CallStep(c) == Gate(c) \/ BeginTool(c) \/ Return(c)

SwitchStep == \/ Drained
              \/ \E i \in Instance : Probed(i)
              \/ ProbeFails
              \/ Swap
              \/ SwapFails
              \/ Retire
              \/ Retired

ProjectStep(p) == \/ Opened(p)
                  \/ OpenFails(p)
                  \/ OpeningDown(p)
                  \/ StopProject(p)
                  \/ ProjectDown(p)

StopStep == \/ CloseInstallation
            \/ CloseJobs
            \/ CallsOver
            \/ \E p \in Project : CloseNext(p)
            \/ CloseHost
            \/ StopDefault
            \/ Stopped

Next == \/ \E c \in Call : \/ Connect(c) \/ HangUp(c) \/ CallStep(c) \/ Refused(c)
                           \/ StartJob(c)
                           \/ \E p \in Project : Acquire(c, p)
        \/ \E i \in Instance : JobEnds(i) \/ Tick(i) \/ Launch(i) \/ OrphanDown(i)
        \/ \E p \in Project : \/ Other(p) \/ SwitchTo(p) \/ CloseProject(p)
                              \/ StopProjectFails(p) \/ ProjectStep(p)
        \/ SwitchStep
        \/ Shutdown
        \/ StopStep

SafeSpec == Init /\ [][Next]_vars

\* Calls return (their waits are bounded), the waits and awaits of a switch, a
\* close and a shutdown end.
Fairness ==
    /\ \A c \in Call : WF_vars(CallStep(c))
    /\ WF_vars(SwitchStep)
    /\ \A p \in Project : WF_vars(ProjectStep(p))
    /\ WF_vars(StopStep)
    /\ \A i \in Instance : WF_vars(OrphanDown(i)) /\ WF_vars(Launch(i))

Spec == SafeSpec /\ Fairness
-----------------------------------------------------------------------------
(* Properties.                                                             *)

\* Type invariant.
TypeOK ==
    /\ of \in [Instance -> Project \cup {None}]
    /\ ws \in [Instance -> {"none", "half", "up", "stopping"}]
    /\ holder \in [Project -> Instance \cup {None, "other"}]
    /\ job \in [Instance -> {"none", "call", "timer"}]
    /\ tick \subseteq Instance /\ barred \subseteq Instance
    /\ host \in {"ready", "switching", "closed"}
    /\ cur \in Instance
    /\ sw \in {"none", "draining", "probing", "readying", "swapped", "tearing"}
    /\ target \in Project \cup {None}
    /\ other \in Instance \cup {None}
    /\ runtimes \in [Project -> Instance \cup {None}]
    /\ opening \in [Project -> Instance \cup {None}]
    /\ closing \subseteq Project
    /\ at \in [Call -> {"out", "body", "open", "tool", "waiting", "held"}]
    /\ inst \in [Call -> Instance \cup {None}]
    /\ names \in [Call -> Project \cup {None}]
    /\ conn \subseteq Call
    /\ stop \in {"up", "closing", "closed", "ending", "projects", "host", "done"}
    /\ shutting \in Project \cup {None}
    /\ aborted \in BOOLEAN
    /\ faults \in Nat

\* "No request ever sees a half-closed service": a call in its tool works in a
\* runtime that is up, and the one it asked for.
CallsSeeWholeRuntimes ==
    \A c \in Call : at[c] \in {"tool", "held"} =>
       /\ ws[inst[c]] = "up"
       /\ names[c] # None => of[inst[c]] = names[c]

\* A project has one runtime at most, in this daemon and on this machine: every
\* runtime that is not gone holds its project's lease.
OneRuntimePerProject ==
    \A i \in Instance : ws[i] # "none" => of[i] # None /\ holder[of[i]] = i

\* "Never killing anything silently": neither a switch nor a close ends a job
\* some call started, however late the call started it.
CallJobsSurvive ==
    \A i \in Instance : ws[i] = "stopping" /\ stop = "up" => job[i] # "call"

\* "Any failure leaves the old workspace untouched and serving": as long as the
\* host has not swapped, the current workspace is up.
DefaultServes == host # "closed" /\ ~aborted => ws[cur] = "up"

\* A shutdown that ran to its end gave every lease back, except of a workspace
\* that was still being cleared away after a failed switch.
LeasesReturned ==
    stop = "done" /\ ~aborted =>
       \A p \in Project : holder[p] \in Instance => Orphan(holder[p])

\* A switch ends, in the new workspace or the old one, unless the daemon does.
SwitchEnds == host = "switching" ~> host # "switching" \/ stop = "done"

\* A daemon that is told to stop stops.
StopEnds == stop # "up" ~> stop = "done"

\* Neither leaves the daemon half way.
TransitionsEnd == SwitchEnds /\ StopEnds

\* "Never killing anything silently", of every job: when the old workspace of a
\* switch is torn down, nothing runs in it.
JobsSurvive == sw = "tearing" /\ stop = "up" => job[other] = "none"
=============================================================================
