----------------------------- MODULE Verification -----------------------------
(* One verification of the project's source (services/assistance/            *)
(* verification.ts) from the plan to its reports, and the evidence of it     *)
(* that the recovery service keeps (services/recovery/evidence.ts).  The     *)
(* run takes a baseline, has a checkpoint made of the same source, records   *)
(* the verification, and starts its checks one after the other; reports and  *)
(* inspections look at the source, the jobs and the record while it is still *)
(* at it, and while the source changes and changes back.                     *)
EXTENDS Naturals, FiniteSets

CONSTANTS
    Check,        \* the checks, 1 .. n, in the order they are started
    Observer,     \* inspections that may be under way at once
    None,
    MaxEdits,     \* bound: changes of the source
    MaxRestarts   \* bound: restarts of the daemon

\* What the store keeps of a verification.
Record == [drift : BOOLEAN, started : SUBSET Check]

VerificationAssumption ==
    /\ MaxEdits \in Nat /\ MaxRestarts \in Nat
    /\ IsFiniteSet(Check) /\ Check = 1 .. Cardinality(Check)
    /\ None \notin Record

VARIABLES
    source,     \* the source files, 0 or 1
    edits,
    restarts,
    recovery,   \* BOOLEAN: the project has a recovery service
    stage,      \* of the run: idle, checkpoint, capture, binding, starting, waiting, over
    base,       \* the baseline the run took
    point,      \* the source its checkpoint holds, None before
    memory,     \* the record the run has at hand, or None
    record,     \* the record in the store, the same
    bound,      \* the evidence row is there
    stale,      \* its column
    job,        \* of each check: none, running, ok, bad
    inspection, \* of each observer: [stage, stale, matches]
    toldStale,  \* an answer said that the source is not what was verified
    turned      \* a later one said that it is

runVars == <<stage, base, point, memory>>
verificationVars == <<source, edits, restarts, recovery, runVars, record, bound, stale, job,
                      inspection, toldStale, turned>>

NoInspection == [stage |-> "idle", stale |-> FALSE, matches |-> FALSE]

VerificationInit ==
    /\ source = 0 /\ edits = 0 /\ restarts = 0 /\ recovery \in BOOLEAN
    /\ stage = "idle" /\ base = 0 /\ point = None /\ memory = None /\ record = None
    /\ bound = FALSE /\ stale = FALSE
    /\ job = [c \in Check |-> "none"]
    /\ inspection = [o \in Observer |-> NoInspection]
    /\ toldStale = FALSE /\ turned = FALSE

-----------------------------------------------------------------------------
(* The run.  Between its steps it waits for the recovery service or for its  *)
(* turn among the mutations.                                                 *)

Edit ==
    /\ edits < MaxEdits
    /\ edits' = edits + 1 /\ source' = 1 - source
    /\ UNCHANGED <<restarts, recovery, runVars, record, bound, stale, job, inspection, toldStale, turned>>

\* The source is that of the plan the caller has seen.
Begin ==
    /\ stage = "idle" /\ restarts = 0 /\ source = 0
    /\ base' = source
    /\ stage' = IF recovery THEN "checkpoint" ELSE "capture"
    /\ UNCHANGED <<source, edits, restarts, recovery, point, memory, record, bound, stale, job, inspection, toldStale, turned>>

Checkpoint ==
    /\ stage = "checkpoint"
    /\ \/ point' = source /\ stage' = "capture"
       \/ point' = None /\ stage' = "over"
    /\ UNCHANGED <<source, edits, restarts, recovery, base, memory, record, bound, stale, job, inspection, toldStale, turned>>

\* FILE_CHANGED, or the record is saved before anything is launched.
Capture ==
    /\ stage = "capture"
    /\ IF source # base THEN stage' = "over" /\ UNCHANGED <<memory, record>>
       ELSE /\ stage' = IF recovery THEN "binding" ELSE "starting"
            /\ record' = [drift |-> FALSE, started |-> {}]
            /\ memory' = record'
    /\ UNCHANGED <<source, edits, restarts, recovery, base, point, bound, stale, job, inspection, toldStale, turned>>

Bind ==
    /\ stage = "binding"
    /\ bound' = (point = source)
    /\ stage' = IF point = source THEN "starting" ELSE "over"
    /\ UNCHANGED <<source, edits, restarts, recovery, base, point, memory, record, stale, job, inspection, toldStale, turned>>

Next(c) == stage = "starting" /\ job[c] = "none" /\ \A d \in Check : d < c => job[d] # "none"

\* The record at hand is saved over the one in the store, or the save fails
\* and the run ends with RECOVERY_REQUIRED.
Start(c) ==
    /\ Next(c)
    /\ job' = [job EXCEPT ![c] = "running"]
    /\ \/ /\ memory' = [memory EXCEPT !.started = @ \cup {c}]
          /\ record' = memory'
          /\ stage' = IF \E d \in Check : d > c THEN "starting" ELSE "waiting"
       \/ stage' = "over" /\ UNCHANGED <<memory, record>>
    /\ UNCHANGED <<source, edits, restarts, recovery, base, point, bound, stale, inspection, toldStale, turned>>

\* This one and those after it are recorded as not started.
StartFails(c) ==
    /\ Next(c)
    /\ record' = memory /\ stage' = "waiting"
    /\ UNCHANGED <<source, edits, restarts, recovery, base, point, memory, bound, stale, job, inspection, toldStale, turned>>

\* What became of a job that was running is settled at the next start.
Restart ==
    /\ restarts < MaxRestarts
    /\ restarts' = restarts + 1
    /\ stage' = IF stage = "idle" THEN "idle" ELSE "over"
    /\ job' = [c \in Check |-> IF job[c] = "running" THEN "bad" ELSE job[c]]
    /\ inspection' = [o \in Observer |-> NoInspection]
    /\ UNCHANGED <<source, edits, recovery, base, point, memory, record, bound, stale, toldStale, turned>>

-----------------------------------------------------------------------------
(* A look at a record: what it is worth now, and what is written to it.      *)

Drifted(r) == r.drift \/ source # base \/ restarts > 0
Seen(r) == [r EXCEPT !.drift = Drifted(r)]
Worth(r) ==
    IF \E c \in r.started : job[c] = "running" THEN "running"
    ELSE IF r.started # Check \/ \E c \in Check : job[c] # "ok" THEN "failed"
    ELSE IF Drifted(r) THEN "stale" ELSE "passed"

Told(answer) ==
    /\ toldStale' = (toldStale \/ answer = "stale")
    /\ turned' = (turned \/ (toldStale /\ answer = "passed"))

\* Without recovery a report is one look, the run's own at its end too.
Report ==
    /\ ~recovery /\ record # None /\ stage \in {"waiting", "over"}
    /\ record' = Seen(record)
    /\ Told(Worth(record))
    /\ stage' = "over"
    /\ UNCHANGED <<source, edits, restarts, recovery, base, point, memory, bound, stale, job, inspection>>

JobEnds(c) ==
    /\ job[c] = "running"
    /\ \E result \in {"ok", "bad"} : job' = [job EXCEPT ![c] = result]
    /\ UNCHANGED <<source, edits, restarts, recovery, runVars, record, bound, stale, inspection, toldStale, turned>>

\* An inspection of the evidence, by the owner, the deployments or a report,
\* looks, compares the checkpoint with the source, and looks again.
Inspect(o) ==
    /\ bound /\ inspection[o].stage = "idle"
    /\ record' = Seen(record)
    /\ inspection' = [inspection EXCEPT ![o] = [stage |-> "reading", stale |-> stale, matches |-> FALSE]]
    /\ UNCHANGED <<source, edits, restarts, recovery, runVars, bound, stale, job, toldStale, turned>>

Compare(o) ==
    /\ inspection[o].stage = "reading"
    /\ inspection' = [inspection EXCEPT ![o].stage = "compared", ![o].matches = (point = source)]
    /\ UNCHANGED <<source, edits, restarts, recovery, runVars, record, bound, stale, job, toldStale, turned>>

Verdict(o) ==
    LET worth == Worth(record) IN
    IF worth = "failed" THEN "failed"
    ELSE IF inspection[o].stale \/ ~inspection[o].matches \/ worth = "stale" THEN "stale"
    ELSE worth

Concluded(o, verdict) ==
    /\ inspection[o].stage = "compared"
    /\ record' = Seen(record)
    /\ Told(verdict)
    /\ stale' = (stale \/ verdict = "stale")
    /\ inspection' = [inspection EXCEPT ![o] = NoInspection]
    /\ UNCHANGED <<source, edits, restarts, recovery, runVars, bound, job>>

Conclude(o) == Concluded(o, IF Verdict(o) = "passed" /\ stale THEN "stale" ELSE Verdict(o))

VerificationNext ==
    \/ Edit \/ Begin \/ Checkpoint \/ Capture \/ Bind \/ Restart \/ Report
    \/ \E c \in Check : Start(c) \/ StartFails(c) \/ JobEnds(c)
    \/ \E o \in Observer : Inspect(o) \/ Compare(o) \/ Conclude(o)

VerificationSpec == VerificationInit /\ [][VerificationNext]_verificationVars

-----------------------------------------------------------------------------
VerificationTypeOK ==
    /\ source \in 0 .. 1 /\ base \in 0 .. 1 /\ point \in {None, 0, 1}
    /\ stage \in {"idle", "checkpoint", "capture", "binding", "starting", "waiting", "over"}
    /\ memory \in {None} \cup Record /\ record \in {None} \cup Record
    /\ {recovery, bound, stale, toldStale, turned} \subseteq BOOLEAN
    /\ job \in [Check -> {"none", "running", "ok", "bad"}]
    /\ inspection \in [Observer -> [stage : {"idle", "reading", "compared"},
                                    stale : BOOLEAN, matches : BOOLEAN]]
    /\ restarts \in 0 .. MaxRestarts

\* Evidence that was once told to be stale is never told to hold again: not by
\* an inspection that began before, not after the source was changed back, and
\* though the run saves the record it has at hand over the one another has
\* marked.  (verification.ts:226 observedDrift; evidence.ts `stale=MAX(stale,?)`.)
StaleForGood == ~turned

\* No check runs without the record of its verification.
\* (verification.ts:231 "Never launch an unrecorded verification".)
ChecksRecorded == \A c \in Check : job[c] # "none" => record # None

\* What does not hold: a drift that was seen stays in the record.
DriftStays == [][record # None /\ record.drift => record'.drift]_verificationVars

VerificationSound == StaleForGood /\ ChecksRecorded
=============================================================================
