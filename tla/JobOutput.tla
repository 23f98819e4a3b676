------------------------------ MODULE JobOutput ------------------------------
(* What a job writes and how it is read: the spool of one of its streams       *)
(* (services/jobs/spool.ts), the calls that start jobs and wait for them        *)
(* (run_command, run_commands and job_wait of tools/jobTools.ts), those that    *)
(* read on from an offset (job_output) and the reading of private output.  A    *)
(* byte is its offset in the stream.  The queue and the rows are in JobQueue,   *)
(* approvals in Dispatch; stdin and the spool of stderr are left out.           *)
EXTENDS Naturals, Sequences, FiniteSets, FiniteSetsExt

CONSTANTS
    None,
    Job,
    Waiter,         \* calls that start jobs or wait for them
    Reader,         \* clients that poll job_output
    Slots,          \* jobsConcurrentMax
    Segment,        \* SEGMENT_BYTES: a segment that is as long is followed by another
    Chunk,          \* how much the operating system hands over at once
    Keep, Total,    \* jobLogBytesPerJob and jobLogBytesTotal
    Page,           \* bytes of one answer
    MaxBytes,       \* how much a job writes
    Lead            \* the bytes that begin a character

\* The limits as they are shipped: an answer is shorter than what a spool keeps.
JobOutputAssumption ==
    /\ Slots \in Nat /\ MaxBytes \in Nat /\ Total \in Nat /\ Keep \in Nat
    /\ Segment \in Nat \ {0} /\ Chunk \in Nat \ {0} /\ Page \in Nat \ {0}
    /\ Segment + Chunk + Page <= Keep
    /\ None \notin Job

Byte == 0 .. MaxBytes

VARIABLES
    jobStatus,       \* a job's status: "running" until it ends or is stopped
    alive,           \* jobs whose process has not closed
    spooled,         \* writtenTotal
    segments,        \* startOffset of the segments that are on disk,
    oldest, newest,  \* of the oldest of them (truncatedBeforeOffset), of the newest
    finished,        \* finishedSpools, oldest first
    waiting, mine, rest,  \* of a call: where it is, its jobs, how many are to come,
    woken,           \* those that have ended while it waits,
    replies,         \* and what it was last answered about each
    polled, offset, pages  \* of a reader: the job, nextOffset, and the bytes it has

spoolVars == <<spooled, segments, oldest, newest>>
waiterVars == <<waiting, mine, rest, woken, replies>>
readerVars == <<polled, offset, pages>>
outputVars == <<jobStatus, alive, spoolVars, finished, waiterVars, readerVars>>

Answer == [exited : BOOLEAN, part : {"gone", "head", "all", "raw"},
           bytes : Byte, text : SUBSET Byte]

JobOutputTypeOK ==
    /\ jobStatus \in [Job -> {"none", "running", "stopped", "exited"}]
    /\ alive \subseteq Job
    /\ spooled \in [Job -> Byte] /\ segments \in [Job -> SUBSET Byte]
    /\ oldest \in [Job -> Byte] /\ newest \in [Job -> Byte]
    /\ finished \in Seq(Job)
    /\ waiting \in [Waiter -> {"idle", "starting", "waiting"}]
    /\ mine \in [Waiter -> SUBSET Job]
    /\ rest \in [Waiter -> 0 .. Slots]
    /\ woken \in [Waiter -> SUBSET Job]
    /\ replies \in [Waiter -> [Job -> Answer \cup {None}]]
    /\ polled \in [Reader -> Job \cup {None}]
    /\ offset \in [Reader -> Byte] /\ pages \in [Reader -> SUBSET Byte]

Unanswered == [j \in Job |-> None]

JobOutputInit ==
    /\ jobStatus = [j \in Job |-> "none"]
    /\ alive = {}
    /\ spooled = [j \in Job |-> 0] /\ segments = [j \in Job |-> {}]
    /\ oldest = [j \in Job |-> 0] /\ newest = [j \in Job |-> 0]
    /\ finished = <<>>
    /\ waiting = [c \in Waiter |-> "idle"]
    /\ mine = [c \in Waiter |-> {}]
    /\ rest = [c \in Waiter |-> 0]
    /\ woken = [c \in Waiter |-> {}]
    /\ replies = [c \in Waiter |-> Unanswered]
    /\ polled = [r \in Reader |-> None]
    /\ offset = [r \in Reader |-> 0] /\ pages = [r \in Reader |-> {}]

\* spoolsOf: after a restart, or when the budget of all jobs is used up, there is none.
Holds(j) == j \in alive \/ \E i \in DOMAIN finished : finished[i] = j

--------------------------------------------------------------------------------
(* The process and its spool.                                                   *)

\* The newest segment takes the bytes, or one that is begun behind it.
Current(j) ==
    IF segments[j] # {} /\ spooled[j] < newest[j] + Segment THEN newest[j]
    ELSE spooled[j]

\* The oldest segments go while what is left exceeds the limit; the newest stays.
Write(j, n) ==
    /\ j \in alive /\ spooled[j] + n <= MaxBytes
    /\ spooled' = [spooled EXCEPT ![j] = @ + n]
    /\ newest' = [newest EXCEPT ![j] = Current(j)]
    /\ segments' = [segments EXCEPT ![j] = {s \in @ \cup {Current(j)} :
           s = Current(j) \/ spooled[j] + n <= s + Keep}]
    /\ \E low \in segments'[j] :
          /\ \A s \in segments'[j] : low <= s
          /\ oldest' = [oldest EXCEPT ![j] = low]
    /\ UNCHANGED <<jobStatus, alive, finished, waiterVars, readerVars>>

\* job_cancel and the wall timeout: the row says so at once, the process may write on.
Terminate(j) ==
    /\ j \in alive /\ jobStatus[j] = "running"
    /\ jobStatus' = [jobStatus EXCEPT ![j] = "stopped"]
    /\ UNCHANGED <<alive, spoolVars, finished, waiterVars, readerVars>>

\* Finished spools count with all that was ever written to them.
Counted(spools) == MapThenSumSet(LAMBDA i : spooled[spools[i]], DOMAIN spools)
After(spools, i) == SubSeq(spools, i + 1, Len(spools))

\* The process closed, or its pipes stayed open for too long: its spool is closed, the
\* oldest finished ones make room, and whoever waits for the job is told.
Finish(j) ==
    /\ j \in alive
    /\ jobStatus' = [jobStatus EXCEPT ![j] = IF @ = "running" THEN "exited" ELSE @]
    /\ alive' = alive \ {j}
    /\ LET all == Append(finished, j)
       IN \E i \in 0 .. Len(all) :
             /\ Counted(After(all, i)) <= Total
             /\ \A k \in 0 .. i : k < i => Counted(After(all, k)) > Total
             /\ finished' = After(all, i)
    /\ woken' = [c \in Waiter |-> woken[c] \cup
                    (IF waiting[c] = "waiting" THEN mine[c] \cap {j} ELSE {})]
    /\ UNCHANGED <<spoolVars, waiting, mine, rest, replies, readerVars>>

--------------------------------------------------------------------------------
(* Calls that start jobs and wait for them.                                     *)

\* run_command starts one job, run_commands several if as many slots are free.
Begin(c, n) ==
    /\ waiting[c] = "idle" /\ (n > 1 => n + Cardinality(alive) <= Slots)
    /\ waiting' = [waiting EXCEPT ![c] = "starting"]
    /\ rest' = [rest EXCEPT ![c] = n]
    /\ mine' = [mine EXCEPT ![c] = {}]
    /\ woken' = [woken EXCEPT ![c] = {}]
    /\ replies' = [replies EXCEPT ![c] = Unanswered]
    /\ UNCHANGED <<jobStatus, alive, spoolVars, finished, readerVars>>

\* Each start awaits a backup and its turn, and looks for a free slot again.
StartOne(c, j) ==
    /\ waiting[c] = "starting" /\ rest[c] > 0
    /\ jobStatus[j] = "none" /\ Cardinality(alive) < Slots
    /\ jobStatus' = [jobStatus EXCEPT ![j] = "running"]
    /\ alive' = alive \cup {j}
    /\ mine' = [mine EXCEPT ![c] = @ \cup {j}]
    /\ rest' = [rest EXCEPT ![c] = @ - 1]
    /\ UNCHANGED <<spoolVars, finished, waiting, woken, replies, readerVars>>

\* One start fails, and the call with it: the jobs it has started go on.
StartFails(c) ==
    /\ waiting[c] = "starting" /\ rest[c] > 0
    /\ waiting' = [waiting EXCEPT ![c] = "idle"]
    /\ UNCHANGED <<jobStatus, alive, spoolVars, finished, mine, rest, woken, replies,
                   readerVars>>

\* waitForExit is true at once of a job that is not live.
Wait(c) ==
    /\ waiting[c] = "starting" /\ rest[c] = 0
    /\ waiting' = [waiting EXCEPT ![c] = "waiting"]
    /\ woken' = [woken EXCEPT ![c] = mine[c] \ alive]
    /\ UNCHANGED <<jobStatus, alive, spoolVars, finished, mine, rest, replies,
                   readerVars>>

\* With `background` the job's name is all the answer of run_command.
Background(c) ==
    /\ waiting[c] = "starting" /\ rest[c] = 0 /\ Cardinality(mine[c]) = 1
    /\ waiting' = [waiting EXCEPT ![c] = "idle"]
    /\ UNCHANGED <<jobStatus, alive, spoolVars, finished, mine, rest, woken, replies,
                   readerVars>>

\* job_wait.
Ask(c, j) ==
    /\ waiting[c] = "idle" /\ jobStatus[j] # "none"
    /\ waiting' = [waiting EXCEPT ![c] = "waiting"]
    /\ mine' = [mine EXCEPT ![c] = {j}]
    /\ woken' = [woken EXCEPT ![c] = {j} \ alive]
    /\ replies' = [replies EXCEPT ![c] = Unanswered]
    /\ UNCHANGED <<jobStatus, alive, spoolVars, finished, rest, readerVars>>

\* The bytes from an offset on that a page has; one that begins within a character
\* leaves out the rest of it.
PageEnd(j, from) == IF from + Page < spooled[j] THEN from + Page ELSE spooled[j]
Decoded(from, to) == {b \in Byte : b < to /\ \E s \in Lead : from <= s /\ s <= b}

\* The head of what the spool has; the tail that goes with it is left out.
Inline(j, exited) ==
    IF ~Holds(j) THEN [exited |-> exited, part |-> "gone", bytes |-> 0, text |-> {}]
    ELSE [exited |-> exited,
          part |-> IF PageEnd(j, oldest[j]) < spooled[j] THEN "head" ELSE "all",
          bytes |-> spooled[j],
          text |-> Decoded(oldest[j], PageEnd(j, oldest[j]))]

\* All have ended, or waitMs is over: rows and outputs are read and answered.
Reply(c) ==
    /\ waiting[c] = "waiting"
    /\ waiting' = [waiting EXCEPT ![c] = "idle"]
    /\ replies' = [replies EXCEPT ![c] =
           [j \in Job |-> IF j \in mine[c] THEN Inline(j, j \in woken[c]) ELSE None]]
    /\ UNCHANGED <<jobStatus, alive, spoolVars, finished, mine, rest, woken,
                   readerVars>>

\* binaryOutput: the output of a private job, if it has ended well, the spool has all
\* of it and it is within the caller's budget.
Whole(c, j) ==
    /\ waiting[c] = "idle" /\ jobStatus[j] = "exited" /\ Holds(j) /\ oldest[j] = 0
    /\ replies' = [replies EXCEPT ![c] = [Unanswered EXCEPT ![j] =
           [exited |-> TRUE, part |-> "raw", bytes |-> spooled[j],
            text |-> {b \in Byte : oldest[j] <= b /\ b < spooled[j]}]]]
    /\ UNCHANGED <<jobStatus, alive, spoolVars, finished, waiting, mine, rest, woken,
                   readerVars>>

--------------------------------------------------------------------------------
(* Clients that poll job_output, and a restart.                                 *)

Poll(r, j) ==
    /\ jobStatus[j] # "none" /\ polled[r] = None
    /\ polled' = [polled EXCEPT ![r] = j]
    /\ offset' = [offset EXCEPT ![r] = 0]
    /\ pages' = [pages EXCEPT ![r] = {}]
    /\ UNCHANGED <<jobStatus, alive, spoolVars, finished, waiterVars>>

From(r, j) == IF offset[r] < oldest[j] THEN oldest[j] ELSE offset[r]

\* job_output with the nextOffset of the answer before.
ReadOn(r) ==
    /\ polled[r] # None /\ Holds(polled[r])
    /\ LET j == polled[r] IN
       /\ pages' = [pages EXCEPT ![r] = @ \cup Decoded(From(r, j), PageEnd(j, From(r, j)))]
       /\ offset' = [offset EXCEPT ![r] = PageEnd(j, From(r, j))]
    /\ UNCHANGED <<jobStatus, alive, spoolVars, finished, waiterVars, polled>>

\* The daemon starts again: spools and calls are gone, the rows of running jobs settled.
Restart ==
    /\ jobStatus' = [j \in Job |->
                       IF jobStatus[j] = "running" THEN "stopped" ELSE jobStatus[j]]
    /\ alive' = {} /\ finished' = <<>>
    /\ waiting' = [c \in Waiter |-> "idle"]
    /\ UNCHANGED <<spoolVars, mine, rest, woken, replies, readerVars>>

JobOutputNext ==
    \/ \E j \in Job :
          \/ \E n \in 1 .. Chunk : Write(j, n)
          \/ Terminate(j) \/ Finish(j)
          \/ \E c \in Waiter : StartOne(c, j) \/ Ask(c, j) \/ Whole(c, j)
          \/ \E r \in Reader : Poll(r, j)
    \/ \E c \in Waiter :
          \/ \E n \in 1 .. Slots : Begin(c, n)
          \/ StartFails(c) \/ Wait(c) \/ Background(c) \/ Reply(c)
    \/ \E r \in Reader : ReadOn(r)
    \/ Restart

JobOutputSpec == JobOutputInit /\ [][JobOutputNext]_outputVars

--------------------------------------------------------------------------------
\* A spool keeps to its limit, and of a longer output the more than a page that is
\* newest.
SpoolsBounded == \A j \in Job :
    /\ spooled[j] <= oldest[j] + Keep
    /\ oldest[j] = 0 \/ oldest[j] + Page < spooled[j]

\* Whoever follows nextOffset has seen the beginning of every character, but for those
\* the spool has dropped.
PagesComplete == \A r \in Reader : polled[r] # None =>
    \A b \in Lead \cap Byte : b < offset[r] => (b \in pages[r] \/ b < oldest[polled[r]])

\* Who waits for a job waits for one that will wake it.
WaitersKnown == \A c \in Waiter : waiting[c] = "waiting" =>
    mine[c] \ woken[c] \subseteq alive /\ woken[c] \cap alive = {}

\* Of a job that is said to have exited nothing more is to come, what is not called
\* truncated lacks no character, and private output is given whole or not at all.
AnswersWhole == \A c \in Waiter, j \in Job : replies[c][j] # None =>
    LET a == replies[c][j] IN
    /\ a.exited => j \notin alive /\ jobStatus[j] \notin {"none", "running"}
    /\ a.exited /\ a.part # "gone" => a.bytes = spooled[j]
    /\ a.part = "all" => {b \in Lead \cap Byte : b < a.bytes} \subseteq a.text
    /\ a.part = "raw" => a.text = {b \in Byte : b < spooled[j]}

OutputTrue == SpoolsBounded /\ PagesComplete /\ WaitersKnown /\ AnswersWhole
=============================================================================
