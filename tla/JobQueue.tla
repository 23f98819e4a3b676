------------------------------ MODULE JobQueue ------------------------------
(***************************************************************************)
(* One workspace's mutation queue (security/mutationQueue.ts) and the jobs *)
(* of its JobManager (services/jobs/jobManager.ts).  A tool call that may  *)
(* change the workspace runs under the queue's ticket; a process it starts *)
(* keeps the ticket until it closed and the workspace was looked over, so  *)
(* whoever comes next finds nobody writing.  Processes, timers, tool calls *)
(* and the owner's cancellations interleave; the daemon may stop or die.   *)
(*                                                                         *)
(* The daemon is one Node.js thread: an action is what one of its callbacks *)
(* does before it returns.  Termination is that of POSIX: SIGTERM, then    *)
(* SIGKILL to the process group after a grace period.                      *)
(***************************************************************************)
EXTENDS Naturals, Sequences, FiniteSets

CONSTANTS
    Caller,       \* tool calls, schedule ticks and owner commands
    Job,          \* identities for job rows
    Ticket,       \* identities for tickets; a released one may come back
    None,         \* no ticket, no job
    MaxWaiters,   \* mutationQueue.ts: 32
    MaxJobs,      \* limits.jobsConcurrentMax
    MaxStops,     \* bound: crashes and shutdowns
    MaxFaults     \* bound: store writes that fail between a row and its process

ASSUME QueueAssumption ==
    /\ None \notin Ticket \cup Job
    /\ IsFiniteSet(Caller) /\ IsFiniteSet(Job)
    /\ MaxWaiters \in Nat
    /\ MaxJobs \in Nat
    /\ MaxStops \in Nat
    /\ MaxFaults \in Nat

VARIABLES
    \* the queue
    active,    \* the ticket whose work may run
    refs,      \* how many hold each ticket
    open,      \* tickets whose call has not returned
    waiters,   \* calls waiting for a ticket
    \* the calls
    at,        \* "out", "queued" or "in" its body
    ctx,       \* the ticket in the call's asynchronous context
    closes,    \* the job a media_close call is to cancel
    \* the jobs
    row,       \* jobs.status, "none" before the row exists
    proc,      \* the process: none, failed (its spawn error is on the way),
               \* alive, exited, drained (its pipes are shut), closed
    live,      \* jobs the manager holds a handle for
    lease,     \* the ticket a job retains
    watched,   \* closed jobs whose afterFinished is running
    asked,     \* jobs that were sent a signal
    \* the daemon
    mode,      \* "up", "stopping" or "down"
    stops, faults

queueVars  == <<active, refs, open, waiters>>
callVars   == <<at, ctx, closes>>
jobVars    == <<row, proc, live, lease, watched, asked>>
daemonVars == <<mode, stops, faults>>
vars == <<queueVars, callVars, jobVars, daemonVars>>

RowStatus == {"none", "running", "exited", "failed_to_start", "timed_out",
              "canceled", "interrupted_on_restart"}

Idle == /\ active = None
        /\ refs = [t \in Ticket |-> 0]
        /\ open = {}
        /\ waiters = <<>>
        /\ at = [c \in Caller |-> "out"]
        /\ ctx = [c \in Caller |-> None]
        /\ closes = [c \in Caller |-> None]

Init ==
    /\ Idle
    /\ row = [j \in Job |-> "none"]
    /\ proc = [j \in Job |-> "none"]
    /\ live = {}
    /\ lease = [j \in Job |-> None]
    /\ watched = {}
    /\ asked = {}
    /\ mode = "up"
    /\ stops = 0 /\ faults = 0

Running == mode # "down"

-----------------------------------------------------------------------------
(* The queue.                                                              *)

\* Some call or job gives ticket t back; at1, ctx1 and open1 are the calls and
\* open tickets after it.  The last holder lets the first waiter in.
Release(t, at1, ctx1, open1) ==
    \/ /\ refs[t] # 1
       /\ refs' = [refs EXCEPT ![t] = @ - 1]
       /\ at' = at1 /\ ctx' = ctx1 /\ open' = open1
       /\ UNCHANGED <<active, waiters>>
    \/ /\ refs[t] = 1
       /\ waiters = <<>>
       /\ refs' = [refs EXCEPT ![t] = 0]
       /\ active' = IF active = t THEN None ELSE active
       /\ at' = at1 /\ ctx' = ctx1 /\ open' = open1
       /\ UNCHANGED waiters
    \/ /\ refs[t] = 1
       /\ waiters # <<>>
       /\ \E n \in Ticket \ {t} :
             /\ refs[n] = 0
             /\ refs' = [refs EXCEPT ![t] = 0, ![n] = 1]
             /\ active' = n
             /\ open' = open1 \cup {n}
             /\ at' = [at1 EXCEPT ![Head(waiters)] = "in"]
             /\ ctx' = [ctx1 EXCEPT ![Head(waiters)] = n]
       /\ waiters' = Tail(waiters)

\* Broken: the line has no limit.
RequestUnbounded(c, target) ==
    /\ Running
    /\ at[c] = "out"
    /\ target # None => row[target] = "running"
    /\ \/ /\ active = None
          /\ \E n \in Ticket :
                /\ refs[n] = 0
                /\ active' = n
                /\ refs' = [refs EXCEPT ![n] = 1]
                /\ open' = open \cup {n}
                /\ ctx' = [ctx EXCEPT ![c] = n]
          /\ at' = [at EXCEPT ![c] = "in"]
          /\ UNCHANGED waiters
       \/ /\ active # None
          /\ waiters' = Append(waiters, c)
          /\ at' = [at EXCEPT ![c] = "queued"]
          /\ UNCHANGED <<active, refs, open, ctx>>
    /\ closes' = [closes EXCEPT ![c] = target]
    /\ UNCHANGED <<jobVars, daemonVars>>

\* run: a free queue gives a ticket at once, a busy one a place in the line.
\* What a full line refuses changes nothing.  target is the job a media_close
\* is about.
Request(c, target) ==
    /\ Running
    /\ at[c] = "out"
    /\ target # None => row[target] = "running"
    /\ \/ /\ active = None
          /\ \E n \in Ticket :
                /\ refs[n] = 0
                /\ active' = n
                /\ refs' = [refs EXCEPT ![n] = 1]
                /\ open' = open \cup {n}
                /\ ctx' = [ctx EXCEPT ![c] = n]
          /\ at' = [at EXCEPT ![c] = "in"]
          /\ UNCHANGED waiters
       \/ /\ active # None
          /\ Len(waiters) < MaxWaiters
          /\ waiters' = Append(waiters, c)
          /\ at' = [at EXCEPT ![c] = "queued"]
          /\ UNCHANGED <<active, refs, open, ctx>>
    /\ closes' = [closes EXCEPT ![c] = target]
    /\ UNCHANGED <<jobVars, daemonVars>>

\* Broken: an aborted call stays in the line and is handed a ticket.
AbortInLine(c) ==
    /\ at[c] = "queued"
    /\ at' = [at EXCEPT ![c] = "out"]
    /\ closes' = [closes EXCEPT ![c] = None]
    /\ UNCHANGED <<queueVars, ctx, jobVars, daemonVars>>

\* The caller's request is aborted while it waits.
Abort(c) ==
    /\ at[c] = "queued"
    /\ \E i \in DOMAIN waiters :
          /\ waiters[i] = c
          /\ waiters' = SubSeq(waiters, 1, i - 1) \o SubSeq(waiters, i + 1, Len(waiters))
    /\ at' = [at EXCEPT ![c] = "out"]
    /\ closes' = [closes EXCEPT ![c] = None]
    /\ UNCHANGED <<active, refs, open, ctx, jobVars, daemonVars>>

\* The body returns or throws.
Leave(c) ==
    /\ at[c] = "in"
    /\ closes[c] = None
    /\ Release(ctx[c], [at EXCEPT ![c] = "out"], [ctx EXCEPT ![c] = None],
               open \ {ctx[c]})
    /\ UNCHANGED <<closes, jobVars, daemonVars>>

-----------------------------------------------------------------------------
(* Jobs.  A call starts one in its own body, under its own ticket.         *)

MaySpawn(c) ==
    /\ at[c] = "in"
    /\ mode = "up"
    /\ ctx[c] = active /\ active \in open
    /\ Cardinality(live) < MaxJobs

\* Broken: the job shares the ticket of its call and is not counted.
SpawnUncounted(c, j) ==
    /\ MaySpawn(c)
    /\ row[j] = "none"
    /\ row' = [row EXCEPT ![j] = "running"]
    /\ proc' \in {[proc EXCEPT ![j] = p] : p \in {"alive", "failed"}}
    /\ live' = live \cup {j}
    /\ lease' = [lease EXCEPT ![j] = ctx[c]]
    /\ UNCHANGED <<queueVars, callVars, watched, asked, daemonVars>>

\* The row is written before the process exists; a program that is not there
\* reports its error later, with the child object already in hand.
Spawn(c, j) ==
    /\ MaySpawn(c)
    /\ row[j] = "none"
    /\ row' = [row EXCEPT ![j] = "running"]
    /\ proc' \in {[proc EXCEPT ![j] = p] : p \in {"alive", "failed"}}
    /\ live' = live \cup {j}
    /\ lease' = [lease EXCEPT ![j] = ctx[c]]
    /\ refs' = [refs EXCEPT ![ctx[c]] = @ + 1]
    /\ UNCHANGED <<active, open, waiters, callVars, watched, asked, daemonVars>>

\* spawn throws: the lease is given back at once.
SpawnThrows(c, j) ==
    /\ MaySpawn(c)
    /\ row[j] = "none"
    /\ row' = [row EXCEPT ![j] = "failed_to_start"]
    /\ UNCHANGED <<queueVars, callVars, proc, live, lease, watched, asked, daemonVars>>

\* The store fails between the row and the lease (setMeta, onRecorded): the
\* call throws and nothing takes the row back.
SpawnUnrecorded(c, j) ==
    /\ MaySpawn(c)
    /\ faults < MaxFaults
    /\ row[j] = "none"
    /\ row' = [row EXCEPT ![j] = "running"]
    /\ faults' = faults + 1
    /\ UNCHANGED <<queueVars, callVars, proc, live, lease, watched, asked, mode, stops>>

EndRow(j, s) == row' = [row EXCEPT ![j] = IF @ = "running" THEN s ELSE @]

\* 'exit': the parent is gone, descendants may hold its pipes open.
ProcessExits(j) ==
    /\ proc[j] = "alive"
    /\ proc' = [proc EXCEPT ![j] = IF j \in live THEN "exited" ELSE "closed"]
    /\ UNCHANGED <<queueVars, callVars, row, live, lease, watched, asked, daemonVars>>

\* The pipes outlived the parent by two seconds: they are shut.
Drain(j) ==
    /\ Running
    /\ proc[j] = "exited" /\ j \in live
    /\ proc' = [proc EXCEPT ![j] = "drained"]
    /\ EndRow(j, "exited")
    /\ live' = live \ {j}
    /\ UNCHANGED <<queueVars, callVars, lease, watched, asked, daemonVars>>

\* Broken: the exit is written over a cancellation or a timeout.
CloseOverwrites(j) ==
    /\ Running
    /\ proc[j] \in {"exited", "drained"}
    /\ proc' = [proc EXCEPT ![j] = "closed"]
    /\ IF j \in live THEN row' = [row EXCEPT ![j] = "exited"] ELSE UNCHANGED row
    /\ live' = live \ {j}
    /\ watched' = watched \cup {j}
    /\ UNCHANGED <<queueVars, callVars, lease, asked, daemonVars>>

\* 'close': the row ends unless something ended it before, and afterFinished
\* is called.
Close(j) ==
    /\ Running
    /\ proc[j] \in {"exited", "drained"}
    /\ proc' = [proc EXCEPT ![j] = "closed"]
    /\ IF j \in live THEN EndRow(j, "exited") ELSE UNCHANGED row
    /\ live' = live \ {j}
    /\ watched' = watched \cup {j}
    /\ UNCHANGED <<queueVars, callVars, lease, asked, daemonVars>>

\* 'error': the program could not be started.
SpawnError(j) ==
    /\ Running
    /\ proc[j] = "failed" /\ j \in live
    /\ proc' = [proc EXCEPT ![j] = "closed"]
    /\ row' = [row EXCEPT ![j] = "failed_to_start"]
    /\ live' = live \ {j}
    /\ watched' = watched \cup {j}
    /\ UNCHANGED <<queueVars, callVars, lease, asked, daemonVars>>

\* Broken: a scan that fails keeps the job's lease.
ObservedIfClean(j) ==
    /\ Running
    /\ j \in watched
    /\ watched' = watched \ {j}
    /\ \/ lease' = [lease EXCEPT ![j] = None] /\ Release(lease[j], at, ctx, open)
       \/ UNCHANGED <<queueVars, at, ctx, lease>>
    /\ UNCHANGED <<closes, row, proc, live, asked, daemonVars>>

\* The drift scan is over, however it ended: the job's lease goes, once.
Observed(j) ==
    /\ Running
    /\ j \in watched
    /\ watched' = watched \ {j}
    /\ lease' = [lease EXCEPT ![j] = None]
    /\ Release(lease[j], at, ctx, open)
    /\ UNCHANGED <<closes, row, proc, live, asked, daemonVars>>

\* cancel: a job with no live handle is only marked; the others are signalled.
Cancelled(j) ==
    \/ /\ row[j] # "running"
       /\ UNCHANGED <<row, asked>>
    \/ /\ row[j] = "running"
       /\ j \notin live \/ proc[j] = "failed"
       /\ row' = [row EXCEPT ![j] = "interrupted_on_restart"]
       /\ UNCHANGED asked
    \/ /\ row[j] = "running"
       /\ j \in live /\ proc[j] # "failed"
       /\ row' = [row EXCEPT ![j] = "canceled"]
       /\ asked' = asked \cup {j}

\* job_cancel and the owner's revocations do not queue.
Cancel(j) ==
    /\ Running
    /\ row[j] = "running"
    /\ Cancelled(j)
    /\ UNCHANGED <<queueVars, callVars, proc, live, lease, watched, daemonVars>>

\* media_close does: it cancels its job once it holds a ticket.
CloseMedia(c) ==
    /\ at[c] = "in"
    /\ closes[c] # None
    /\ Cancelled(closes[c])
    /\ closes' = [closes EXCEPT ![c] = None]
    /\ UNCHANGED <<queueVars, at, ctx, proc, live, lease, watched, daemonVars>>

WallTimeout(j) ==
    /\ Running
    /\ j \in live
    /\ row[j] = "running" /\ proc[j] # "failed"
    /\ row' = [row EXCEPT ![j] = "timed_out"]
    /\ asked' = asked \cup {j}
    /\ UNCHANGED <<queueVars, callVars, proc, live, lease, watched, daemonVars>>

-----------------------------------------------------------------------------
(* The daemon stops, dies and comes back.                                  *)

\* shutdown: every live job is terminated as canceled, whatever its row said.
Shutdown ==
    /\ mode = "up"
    /\ stops < MaxStops
    /\ stops' = stops + 1
    /\ mode' = "stopping"
    /\ LET signalled == {j \in live : proc[j] # "failed"} IN
          /\ row' = [j \in Job |-> IF j \in signalled THEN "canceled" ELSE row[j]]
          /\ asked' = asked \cup signalled
    /\ UNCHANGED <<queueVars, callVars, proc, live, lease, watched, faults>>

\* The memory of the daemon goes; its processes do not, and nobody signals
\* them again.
Gone ==
    /\ mode' = "down"
    /\ active' = None
    /\ refs' = [t \in Ticket |-> 0]
    /\ open' = {}
    /\ waiters' = <<>>
    /\ at' = [c \in Caller |-> "out"]
    /\ ctx' = [c \in Caller |-> None]
    /\ closes' = [c \in Caller |-> None]
    /\ live' = {}
    /\ lease' = [j \in Job |-> None]
    /\ watched' = {}
    /\ asked' = {}
    /\ proc' = [j \in Job |-> IF proc[j] \in {"none", "alive"} THEN proc[j] ELSE "closed"]
    /\ UNCHANGED <<row, faults>>

\* After the jobs closed, or three seconds.
Exit == mode = "stopping" /\ Gone /\ UNCHANGED stops

Crash ==
    /\ Running
    /\ stops < MaxStops
    /\ stops' = stops + 1
    /\ Gone

\* Broken: rows are left as the last daemon wrote them.
BootForgets ==
    /\ mode = "down"
    /\ mode' = "up"
    /\ UNCHANGED <<queueVars, callVars, jobVars, stops, faults>>

\* Rows of the epochs before this one cannot be running.
Boot ==
    /\ mode = "down"
    /\ mode' = "up"
    /\ row' = [j \in Job |-> IF row[j] = "running" THEN "interrupted_on_restart"
                                                  ELSE row[j]]
    /\ UNCHANGED <<queueVars, callVars, proc, live, lease, watched, asked, stops, faults>>

-----------------------------------------------------------------------------
Call(c) == \/ \E target \in Job \cup {None} : Request(c, target)
           \/ Abort(c)
           \/ Leave(c)
           \/ CloseMedia(c)
           \/ \E j \in Job : Spawn(c, j) \/ SpawnThrows(c, j) \/ SpawnUnrecorded(c, j)

JobEvent(j) == \/ ProcessExits(j)
               \/ Drain(j)
               \/ Close(j)
               \/ SpawnError(j)
               \/ Observed(j)
               \/ WallTimeout(j)
               \/ Cancel(j)

Daemon == Shutdown \/ Exit \/ Crash \/ Boot

Next == \/ \E c \in Caller : Call(c)
        \/ \E j \in Job : JobEvent(j)
        \/ Daemon

SafeSpec == Init /\ [][Next]_vars

\* A body ends (every wait in a handler is bounded), the wall timer and the
\* drain timer fire, a process that was sent SIGKILL dies, Node reports what
\* happened to it, the scan has a time budget, and the daemon is restarted.
\* No process need end by itself, and pipes need not close before they are
\* shut.
Fairness ==
    /\ \A c \in Caller : WF_vars(CloseMedia(c)) /\ WF_vars(Leave(c))
    /\ \A j \in Job : /\ WF_vars(WallTimeout(j))
                      /\ WF_vars(j \in asked /\ ProcessExits(j))
                      /\ WF_vars(Drain(j))
                      /\ WF_vars(proc[j] = "drained" /\ Close(j))
                      /\ WF_vars(SpawnError(j))
                      /\ WF_vars(Observed(j))
    /\ WF_vars(Exit) /\ WF_vars(Boot)

Spec == SafeSpec /\ Fairness
-----------------------------------------------------------------------------
(* Properties.                                                             *)

\* Type invariant: tickets, calls and jobs hold values of their kind, and the
\* limits on waiting calls and concurrent jobs are kept.
TypeOK ==
    /\ active \in Ticket \cup {None}
    /\ refs \in [Ticket -> Nat]
    /\ open \subseteq Ticket
    /\ waiters \in Seq(Caller) /\ Len(waiters) <= MaxWaiters
    /\ at \in [Caller -> {"out", "queued", "in"}]
    /\ ctx \in [Caller -> Ticket \cup {None}]
    /\ closes \in [Caller -> Job \cup {None}]
    /\ row \in [Job -> RowStatus]
    /\ proc \in [Job -> {"none", "failed", "alive", "exited", "drained", "closed"}]
    /\ live \subseteq Job
    /\ lease \in [Job -> Ticket \cup {None}]
    /\ watched \subseteq Job
    /\ asked \subseteq Job
    /\ mode \in {"up", "stopping", "down"}
    /\ stops \in Nat /\ faults \in Nat

\* A job of this daemon that can still write, or is being looked over.
Unfinished(j) == j \in live \cup watched \/ proc[j] = "drained"

\* All who work at one time do so under one ticket: never two calls in their
\* bodies, and never a call beside a process some earlier call left behind,
\* nor beside the scan that follows it.
OneWriter ==
    /\ \A c, d \in Caller : at[c] = "in" /\ at[d] = "in" => c = d
    /\ \A c \in Caller : at[c] = "in" => ctx[c] = active /\ active \in open
    /\ \A j \in Job : Running /\ Unfinished(j) => lease[j] = active /\ active # None

\* Who holds ticket t: the call in its body, and the jobs that retain it.
CallHolders(t) == {c \in Caller : at[c] = "in" /\ ctx[c] = t}
JobHolders(t)  == {j \in Job : lease[j] = t}

\* Nobody waits for a free queue, and the active ticket counts exactly the
\* holders it has: no release is lost and none happens twice.
NoLostTurn ==
    /\ waiters # <<>> => active # None
    /\ \A t \in Ticket :
          refs[t] = Cardinality(CallHolders(t)) + Cardinality(JobHolders(t))
    /\ \A c \in Caller :
          at[c] = "queued" <=> \E i \in DOMAIN waiters : waiters[i] = c

\* A row tells the truth about its process: it says exited or failed_to_start
\* of no process that runs, and every process a daemon lost in a stop or crash
\* is marked as such or was already ended, never left running for good.
RowsTellTheTruth ==
    \A j \in Job :
       /\ row[j] \in {"exited", "failed_to_start"} => proc[j] # "alive"
       /\ (row[j] = "running" /\ mode = "up" /\ faults = 0) => j \in live

\* A row that ended stays as it ended.  Two exceptions: a shutdown writes
\* canceled over a timed_out row whose process is still there, and a program
\* that could not be started becomes failed_to_start though a cancel before its
\* error event had marked it interrupted_on_restart.
EndsOnce ==
    [][\A j \in Job :
         row[j] \notin {"none", "running"} /\ row'[j] # row[j] =>
            \/ row[j] = "timed_out" /\ row'[j] = "canceled" /\ mode' = "stopping"
            \/ row[j] = "interrupted_on_restart" /\ row'[j] = "failed_to_start"]_vars

\* Every call that waits gets its turn, or gave up waiting: no job, timer or
\* failure can hold the queue for ever.
TurnComes == \A c \in Caller : at[c] = "queued" ~> at[c] # "queued"

\* Jobs end, once, and their turns with them.
JobsSettle == EndsOnce /\ TurnComes

\* media_close: "Close one owned mediaId, cancel its associated owned media
\* jobs".  A job somebody is closing is not left to run into its timeout.
CloseCancels ==
    [][\A j \in Job : row[j] = "running" /\ row'[j] = "timed_out" =>
          \A c \in Caller : closes[c] # j]_vars
=============================================================================
