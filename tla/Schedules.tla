------------------------------ MODULE Schedules ------------------------------
(***************************************************************************)
(* The scheduler of one workspace (services/schedules/scheduleService.ts). *)
(* The owner approves a command and the times it may run; a timer looks    *)
(* every second for what is due.  An occurrence is claimed in the store,   *)
(* the source is backed up, the consent is looked at again, and only then  *)
(* the command starts.  The backup is awaited, so ticks overlap, and the   *)
(* owner, other calls and the clock go on meanwhile; the daemon may die at *)
(* any write and come back.                                                *)
(*                                                                         *)
(* Time is counted in minutes: what happens within the minute m has time   *)
(* m, and an occurrence of minute m is due at its start.  Every schedule   *)
(* runs every minute.  The daemon is one Node.js thread: while a tick is   *)
(* between two awaits (loop) no other callback runs.                       *)
(***************************************************************************)
EXTENDS Naturals, FiniteSets

CONSTANTS
    Schedule,
    Tick,          \* ticks that may overlap
    None,
    MaxPending,    \* proposeable at one time; the code has 64
    MaxNow,        \* bound: the clock stops here
    MaxTroubles    \* bound: crashes, failed writes of a tick, and changes of
                   \* policy, trust, root or grant, taken together

ASSUME SchedulesAssumption ==
    /\ MaxPending \in Nat /\ MaxTroubles \in Nat
    /\ MaxNow \in Nat \ {0}
    /\ None \notin Schedule \cup Tick \cup (Schedule \X Nat)
    /\ "call" \notin Schedule \cup Tick /\ "call" # None
    /\ Schedule \cap Tick = {}

VARIABLES
    now,
    \* the store
    status,    \* schedules.status, "none" before the row exists
    expires,   \* schedules.expires_at
    next,      \* schedules.next_at, 0 for null
    run,       \* schedule_runs.status of each occurrence
    \* what checked() looks at: root, policy, trust, grant and client access
    fits,
    \* the ticks of this daemon
    loop,      \* the tick whose callback runs, if any
    at,        \* the time a tick began with, 0 when there is no such tick
    todo,      \* the copies of rows it still has to look at
    doing,     \* the occurrence it claimed
    stage,     \* how far it is with that
    \* the daemon
    up, timer, bootedAt,
    turn,      \* who holds the workspace's mutation queue
    job,       \* the process of a schedule: running, or ending (cancelled, or
               \* looked over after its end), both holding the turn
    \* history and bounds
    started,   \* how often an occurrence was started
    crashes, faults, changes

storeVars  == <<status, expires, next, run>>
tickVars   == <<loop, at, todo, doing, stage>>
daemonVars == <<up, timer, bootedAt>>
workVars   == <<turn, job, started>>
boundVars  == <<crashes, faults, changes>>
vars == <<now, storeVars, fits, tickVars, daemonVars, workVars, boundVars>>

Minute == 1..(MaxNow + 1)
Copies == Schedule \X Minute

Init ==
    /\ now = 1
    /\ status = [s \in Schedule |-> "none"]
    /\ expires = [s \in Schedule |-> 0]
    /\ next = [s \in Schedule |-> 0]
    /\ run = [o \in Copies |-> "none"]
    /\ fits = [s \in Schedule |-> TRUE]
    /\ loop = None
    /\ at = [t \in Tick |-> 0]
    /\ todo = [t \in Tick |-> {}]
    /\ doing = [t \in Tick |-> None]
    /\ stage = [t \in Tick |-> "idle"]
    /\ up = TRUE /\ timer = TRUE /\ bootedAt = 0
    /\ turn = None
    /\ job = [s \in Schedule |-> "none"]
    /\ started = [o \in Copies |-> 0]
    /\ crashes = 0 /\ faults = 0 /\ changes = 0

\* Broken: the minute after the next one.
NextAfterSkips(k) == k + 2

\* The next time a schedule is due, seen from minute k.
NextAfter(k) == k + 1

Trouble == crashes + faults + changes < MaxTroubles

\* A callback other than a tick's runs.
Free == up /\ loop = None

-----------------------------------------------------------------------------
(* The owner.                                                              *)

Live(s) == status[s] \in {"pending", "approved"} /\ expires[s] > now

Propose(s, e) ==
    /\ Free
    /\ status[s] = "none"
    /\ NextAfter(now) < e
    /\ Cardinality({r \in Schedule : Live(r)}) < MaxPending
    /\ fits[s]
    /\ status' = [status EXCEPT ![s] = "pending"]
    /\ expires' = [expires EXCEPT ![s] = e]
    /\ UNCHANGED <<now, next, run, fits, tickVars, daemonVars, workVars, boundVars>>

Approve(s) ==
    /\ Free
    /\ status[s] = "pending"
    /\ expires[s] > NextAfter(now)
    /\ fits[s]
    /\ status' = [status EXCEPT ![s] = "approved"]
    /\ next' = [next EXCEPT ![s] = NextAfter(now)]
    /\ UNCHANGED <<now, expires, run, fits, tickVars, daemonVars, workVars, boundVars>>

\* Broken: what runs already is left to end by itself.
RevokeRowOnly(s) ==
    /\ status' = [status EXCEPT ![s] = "revoked"]
    /\ next' = [next EXCEPT ![s] = 0]
    /\ UNCHANGED job

\* revoke: the row, and every job of it that runs.
Revoked(s) ==
    /\ status' = [status EXCEPT ![s] = "revoked"]
    /\ next' = [next EXCEPT ![s] = 0]
    /\ job' = [job EXCEPT ![s] = IF @ = "running" THEN "ending" ELSE @]

Revoke(s) ==
    /\ Free
    /\ status[s] \notin {"none", "revoked"}
    /\ Revoked(s)
    /\ UNCHANGED <<now, expires, run, fits, tickVars, daemonVars, turn, started, boundVars>>

\* The policy, the trust, the root or the proposer's grant changes.
Change(s) ==
    /\ Free
    /\ Trouble
    /\ changes' = changes + 1
    /\ fits' = [fits EXCEPT ![s] = ~@]
    /\ UNCHANGED <<now, storeVars, tickVars, daemonVars, workVars, crashes, faults>>

-----------------------------------------------------------------------------
(* A tick.                                                                 *)

\* setInterval: the approved rows are read once.  Those not due are passed
\* over, whatever happens later, since it is the copy that is looked at.
Begin(t) ==
    /\ Free
    /\ timer
    /\ stage[t] = "idle"
    /\ LET rows == {o \in Copies : /\ status[o[1]] = "approved"
                                   /\ next[o[1]] = o[2]
                                   /\ expires[o[1]] <= now \/ o[2] <= now} IN
          /\ rows # {}
          /\ todo' = [todo EXCEPT ![t] = rows]
    /\ at' = [at EXCEPT ![t] = now]
    /\ stage' = [stage EXCEPT ![t] = "rows"]
    /\ loop' = t
    /\ UNCHANGED <<now, storeVars, fits, doing, daemonVars, workVars, boundVars>>

\* The copy at hand: the one due first.
AtHand(t, o) == /\ loop = t
                /\ stage[t] = "rows"
                /\ o \in todo[t]
                /\ \A p \in todo[t] : o[2] <= p[2]

Passed(t, o) == todo' = [todo EXCEPT ![t] = @ \ {o}]

\* The consent has run out.
Expire(t, o) ==
    /\ AtHand(t, o)
    /\ expires[o[1]] <= at[t]
    /\ Passed(t, o)
    /\ Revoked(o[1])
    /\ UNCHANGED <<now, expires, run, fits, loop, at, doing, stage, daemonVars,
                   turn, started, boundVars>>

\* What was approved is not what there is: paused, even if the owner revoked it
\* since the copy was made.
Pause(t, o) ==
    /\ AtHand(t, o)
    /\ expires[o[1]] > at[t]
    /\ ~fits[o[1]]
    /\ Passed(t, o)
    /\ status' = [status EXCEPT ![o[1]] = "paused"]
    /\ next' = [next EXCEPT ![o[1]] = 0]
    /\ UNCHANGED <<now, expires, run, fits, loop, at, doing, stage, daemonVars,
                   workVars, boundVars>>

Fitting(t, o) == AtHand(t, o) /\ expires[o[1]] > at[t] /\ fits[o[1]]

\* Others write in the workspace: this tick leaves the occurrence unclaimed.
Defer(t, o) ==
    /\ Fitting(t, o)
    /\ turn # None /\ job[o[1]] # "running"
    /\ Passed(t, o)
    /\ UNCHANGED <<now, storeVars, fits, loop, at, doing, stage, daemonVars,
                   workVars, boundVars>>

\* One transaction: the row still says what the copy says, its next occurrence
\* is set, and this one gets its receipt unless it has one.
Claim(t, o) ==
    /\ Fitting(t, o)
    /\ turn = None \/ job[o[1]] = "running"
    /\ Passed(t, o)
    /\ \/ /\ status[o[1]] = "approved" /\ next[o[1]] = o[2]
          /\ next' = [next EXCEPT ![o[1]] = NextAfter(at[t])]
          /\ \/ /\ run[o] = "none"
                /\ run' = [run EXCEPT ![o] = "claimed"]
                /\ stage' = [stage EXCEPT ![t] = "claimed"]
                /\ doing' = [doing EXCEPT ![t] = o]
             \/ /\ run[o] # "none"
                /\ UNCHANGED <<run, stage, doing>>
       \/ /\ status[o[1]] # "approved" \/ next[o[1]] # o[2]
          /\ UNCHANGED <<next, run, stage, doing>>
    /\ UNCHANGED <<now, status, expires, fits, loop, at, daemonVars, workVars, boundVars>>

\* Missed, by the time this tick began with.
Missed(t, d) == d <= bootedAt \/ at[t] > d

\* The receipt r is written and the tick goes on with the next row.
Receipt(t, r) ==
    /\ run' = [run EXCEPT ![doing[t]] = r]
    /\ doing' = [doing EXCEPT ![t] = None]
    /\ stage' = [stage EXCEPT ![t] = "rows"]

Skip(t) ==
    /\ loop = t
    /\ stage[t] = "claimed"
    /\ LET s == doing[t][1]
           d == doing[t][2] IN
          \/ Missed(t, d) /\ Receipt(t, "skipped_missed")
          \/ ~Missed(t, d) /\ job[s] = "running" /\ Receipt(t, "skipped_overlap")
    /\ UNCHANGED <<now, status, expires, next, fits, loop, at, todo, daemonVars,
                   workVars, boundVars>>

\* startProtected takes the turn and waits for the backup.
BackUp(t) ==
    /\ loop = t
    /\ stage[t] = "claimed"
    /\ ~Missed(t, doing[t][2])
    /\ job[doing[t][1]] # "running"
    /\ stage' = [stage EXCEPT ![t] = "backup"]
    /\ turn' = t
    /\ loop' = None
    /\ UNCHANGED <<now, storeVars, fits, at, todo, doing, daemonVars, job, started, boundVars>>

\* Whoever is next in line has the turn before its last holder goes on.
GiveTurn == turn' \in {None, "call"}

\* Broken: of the consent only its revocation is looked at again.
StartUnseen(t) ==
    /\ Free
    /\ stage[t] = "backup"
    /\ loop' = t
    /\ LET s == doing[t][1] IN
          /\ status[s] # "revoked"
          /\ stage' = [stage EXCEPT ![t] = "started"]
          /\ job' = [job EXCEPT ![s] = "running"]
          /\ turn' = s
          /\ started' = [started EXCEPT ![doing[t]] = @ + 1]
    /\ UNCHANGED <<now, storeVars, fits, at, todo, doing, daemonVars, boundVars>>

\* The backup is done: the row is read again, and the job starts or the limits
\* and the sandbox refuse it.
Start(t) ==
    /\ Free
    /\ stage[t] = "backup"
    /\ loop' = t
    /\ LET s == doing[t][1] IN
          /\ status[s] = "approved" /\ expires[s] > now /\ fits[s]
          /\ stage' = [stage EXCEPT ![t] = "started"]
          /\ job' = [job EXCEPT ![s] = "running"]
          /\ turn' = s
          /\ started' = [started EXCEPT ![doing[t]] = @ + 1]
    /\ UNCHANGED <<now, storeVars, fits, at, todo, doing, daemonVars, boundVars>>

\* Broken: a launch that is refused keeps the turn.
RefuseKeeps(t) ==
    /\ Free
    /\ stage[t] = "backup"
    /\ stage' = [stage EXCEPT ![t] = "failed"]
    /\ loop' = t
    /\ UNCHANGED <<now, storeVars, fits, at, todo, doing, daemonVars, workVars, boundVars>>

Refuse(t) ==
    /\ Free
    /\ stage[t] = "backup"
    /\ stage' = [stage EXCEPT ![t] = "failed"]
    /\ loop' = t
    /\ GiveTurn
    /\ UNCHANGED <<now, storeVars, fits, at, todo, doing, daemonVars, job, started, boundVars>>

\* Broken: whatever came of it is recorded as a launch.
RecordHopeful(t) ==
    /\ loop = t
    /\ stage[t] \in {"started", "failed"}
    /\ Receipt(t, "launched")
    /\ UNCHANGED <<now, status, expires, next, fits, loop, at, todo, daemonVars,
                   workVars, boundVars>>

\* A write of 'launched' that fails is caught like a failed launch.
Record(t) ==
    /\ loop = t
    /\ \/ stage[t] = "started" /\ Receipt(t, "launched") /\ UNCHANGED faults
       \/ /\ stage[t] = "started" /\ Trouble
          /\ faults' = faults + 1
          /\ Receipt(t, "launch_failed")
       \/ stage[t] = "failed" /\ Receipt(t, "launch_failed") /\ UNCHANGED faults
    /\ UNCHANGED <<now, status, expires, next, fits, loop, at, todo, daemonVars,
                   workVars, crashes, changes>>

Ended(t) ==
    /\ loop' = None
    /\ at' = [at EXCEPT ![t] = 0]
    /\ todo' = [todo EXCEPT ![t] = {}]
    /\ doing' = [doing EXCEPT ![t] = None]
    /\ stage' = [stage EXCEPT ![t] = "idle"]

Done(t) ==
    /\ loop = t
    /\ stage[t] = "rows" /\ todo[t] = {}
    /\ Ended(t)
    /\ UNCHANGED <<now, storeVars, fits, daemonVars, workVars, boundVars>>

\* Any other write that fails ends the tick, and with it the timer.
Fail(t) ==
    /\ loop = t
    /\ Trouble
    /\ stage[t] \in {"rows", "claimed", "failed"}
    /\ stage[t] = "rows" => todo[t] # {}
    /\ stage[t] = "claimed" => Missed(t, doing[t][2]) \/ job[doing[t][1]] = "running"
    /\ faults' = faults + 1
    /\ Ended(t)
    /\ timer' = FALSE
    /\ UNCHANGED <<now, storeVars, fits, up, bootedAt, workVars, crashes, changes>>

-----------------------------------------------------------------------------
(* Everything else.                                                        *)

\* Calls that write and jobs that are nobody's schedule hold the turn too.
CallTakes ==
    /\ Free
    /\ turn = None
    /\ turn' = "call"
    /\ UNCHANGED <<now, storeVars, fits, tickVars, daemonVars, job, started, boundVars>>

CallEnds ==
    /\ Free
    /\ turn = "call"
    /\ turn' = None
    /\ UNCHANGED <<now, storeVars, fits, tickVars, daemonVars, job, started, boundVars>>

\* The process ends, or its timeout ends it.
JobCloses(s) ==
    /\ Free
    /\ job[s] = "running"
    /\ job' = [job EXCEPT ![s] = "ending"]
    /\ UNCHANGED <<now, storeVars, fits, tickVars, daemonVars, turn, started, boundVars>>

JobOver(s) ==
    /\ Free
    /\ job[s] = "ending"
    /\ job' = [job EXCEPT ![s] = "none"]
    /\ GiveTurn
    /\ UNCHANGED <<now, storeVars, fits, tickVars, daemonVars, started, boundVars>>

\* What a callback does without waiting takes no time to speak of.
Clock ==
    /\ loop = None
    /\ now < MaxNow
    /\ now' = now + 1
    /\ UNCHANGED <<storeVars, fits, tickVars, daemonVars, workVars, boundVars>>

\* The daemon dies, in the middle of a callback or not.  Its processes live on,
\* but no daemon knows them as its own.
Crash ==
    /\ up
    /\ Trouble
    /\ crashes' = crashes + 1
    /\ up' = FALSE /\ timer' = FALSE
    /\ loop' = None
    /\ at' = [t \in Tick |-> 0]
    /\ todo' = [t \in Tick |-> {}]
    /\ doing' = [t \in Tick |-> None]
    /\ stage' = [t \in Tick |-> "idle"]
    /\ turn' = None
    /\ job' = [s \in Schedule |-> "none"]
    /\ UNCHANGED <<now, storeVars, fits, bootedAt, started, faults, changes>>

\* Broken: a claim nobody finished is taken back and offered again.
BootReplays ==
    /\ ~up
    /\ up' = TRUE /\ timer' = TRUE
    /\ bootedAt' = bootedAt
    /\ run' = [o \in Copies |-> IF run[o] = "claimed" THEN "none" ELSE run[o]]
    /\ next' = [s \in Schedule |->
                  IF \E d \in Minute : run[<<s, d>>] = "claimed"
                  THEN CHOOSE d \in Minute : run[<<s, d>>] = "claimed" ELSE next[s]]
    /\ UNCHANGED <<now, status, expires, fits, tickVars, workVars, boundVars>>

\* start: claims stay as they are; what was due before now is missed.
Boot ==
    /\ ~up
    /\ up' = TRUE /\ timer' = TRUE
    /\ bootedAt' = now
    /\ UNCHANGED <<now, storeVars, fits, tickVars, workVars, boundVars>>

-----------------------------------------------------------------------------
Owner(s) == \/ \E e \in Minute : Propose(s, e)
            \/ Approve(s)
            \/ Revoke(s)
            \/ Change(s)

TickRow(t) == \E o \in todo[t] : \/ Expire(t, o)
                                 \/ Pause(t, o)
                                 \/ Defer(t, o)
                                 \/ Claim(t, o)

TickStep(t) == \/ TickRow(t)
               \/ Skip(t)
               \/ BackUp(t)
               \/ Start(t)
               \/ Refuse(t)
               \/ Record(t)
               \/ Done(t)

Next == \/ \E s \in Schedule : Owner(s) \/ JobCloses(s) \/ JobOver(s)
        \/ \E t \in Tick : Begin(t) \/ TickStep(t) \/ Fail(t)
        \/ CallTakes \/ CallEnds
        \/ Clock \/ Crash \/ Boot

SafeSpec == Init /\ [][Next]_vars

\* The timer fires, a tick goes on, the backup has a time budget, a job has a
\* timeout, a call ends, and the daemon is started again.  What may only happen
\* between two callbacks of ticks is ready again and again, and the event loop
\* does not pass it over for ever.
Fairness ==
    /\ SF_vars(\E t \in Tick : Begin(t))
    /\ \A t \in Tick : SF_vars(TickStep(t))
    /\ SF_vars(CallEnds \/ \E s \in Schedule : JobCloses(s) \/ JobOver(s))
    /\ WF_vars(Boot)

Spec == SafeSpec /\ Fairness
-----------------------------------------------------------------------------
(* Properties.                                                             *)

\* Type invariant.
TypeOK ==
    /\ now \in 1..MaxNow
    /\ status \in [Schedule -> {"none", "pending", "approved", "revoked", "paused"}]
    /\ expires \in [Schedule -> Minute \cup {0}]
    /\ next \in [Schedule -> Minute \cup {0}]
    /\ run \in [Copies -> {"none", "claimed", "skipped_missed", "skipped_overlap",
                           "launched", "launch_failed"}]
    /\ fits \in [Schedule -> BOOLEAN]
    /\ loop \in Tick \cup {None}
    /\ at \in [Tick -> 0..MaxNow]
    /\ todo \in [Tick -> SUBSET Copies]
    /\ doing \in [Tick -> Copies \cup {None}]
    /\ stage \in [Tick -> {"idle", "rows", "claimed", "backup", "started", "failed"}]
    /\ up \in BOOLEAN /\ timer \in BOOLEAN
    /\ bootedAt \in 0..MaxNow
    /\ turn \in Schedule \cup Tick \cup {None, "call"}
    /\ job \in [Schedule -> {"none", "running", "ending"}]
    /\ started \in [Copies -> Nat]
    /\ crashes \in Nat /\ faults \in Nat /\ changes \in Nat

\* "Claimed/uncertain ticks are never replayed": whatever ticks overlap and
\* wherever the daemon dies, the command starts at most once per occurrence.
OccurrenceOnce == \A o \in Copies : started[o] <= 1

\* history() does not lie.  launched: it was started; skipped: it was not;
\* launch_failed: it was not, but for a receipt that could not be written;
\* claimed: a tick has it in hand, or one died or failed with it in hand.
ReceiptsTrue ==
    \A o \in Copies :
       /\ run[o] = "launched" => started[o] = 1
       /\ run[o] \in {"none", "skipped_missed", "skipped_overlap"} => started[o] = 0
       /\ run[o] = "launch_failed" /\ faults = 0 => started[o] = 0
       /\ run[o] = "claimed" => \/ crashes + faults > 0
                                \/ \E t \in Tick : doing[t] = o

\* After a revocation nothing of the schedule is left running unsignalled: no
\* launch that was waiting for its backup slips through.
RevokedIsQuiet == \A s \in Schedule : status[s] = "revoked" => job[s] # "running"

\* A command starts under a consent that is in force at that moment, not one
\* that was in force when the occurrence was claimed, and in nobody else's
\* turn.
StartsUnderConsent ==
    [][\A s \in Schedule :
         job[s] # "running" /\ job'[s] = "running" =>
            /\ status[s] = "approved" /\ expires[s] > now /\ fits[s]
            /\ \A r \in Schedule \ {s} : job[r] = "none"
            /\ turn \in Tick]_vars

\* A consent is asked for when it counts, at the start and while the job runs.
ConsentObeyed == []RevokedIsQuiet /\ StartsUnderConsent

\* If calls leave the workspace alone from some time on, what is due gets its
\* receipt or its schedule stops, unless a failed write stopped the timer.
DueIsSettled ==
    \A s \in Schedule :
       <>[](turn # "call") =>
          (status[s] = "approved" /\ next[s] <= now
              ~> status[s] # "approved" \/ next[s] > now \/ faults > 0)

\* "Missed ticks, including downtime, are skipped": nothing is launched a
\* minute or more after it was due.
MissedAreSkipped ==
    [][\A t \in Tick : stage[t] = "claimed" /\ stage'[t] = "backup" =>
          doing[t][2] = now]_vars
=============================================================================
