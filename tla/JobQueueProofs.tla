--------------------------- MODULE JobQueueProofs ---------------------------
(***************************************************************************)
(* The mutation queue lets one writer in at a time, counts the holders of  *)
(* its ticket exactly and never leaves a waiter beside a free queue, for   *)
(* every number of calls, jobs and tickets.  The counting is what the      *)
(* rest hangs on: a ticket with one reference left has no other holder, so *)
(* whoever gives it back leaves nobody behind.                             *)
(***************************************************************************)
EXTENDS JobQueue, FiniteSetTheorems, SequenceTheorems, TLAPS

\* Calls in their body work under the active, open ticket, one at a time.
Calls ==
    /\ \A c \in Caller : at[c] # "in" => ctx[c] = None
    /\ \A c \in Caller : at[c] = "in" => ctx[c] = active /\ active \in open
    /\ \A c, d \in Caller : at[c] = "in" /\ at[d] = "in" => c = d

\* A job keeps the active ticket from its row to the end of its scan.
Leases ==
    /\ \A j \in Job : lease[j] \in {None, active}
    /\ \A j \in Job : Unfinished(j) => lease[j] # None
    /\ \A j \in live : proc[j] \in {"failed", "alive", "exited"}
    /\ \A j \in Job : proc[j] = "exited" => j \in live
    /\ \A j \in watched : proc[j] = "closed" /\ j \notin live
    /\ \A j \in Job : row[j] = "none" => proc[j] = "none" /\ lease[j] = None

\* References are holders.
Counts == \A t \in Ticket :
             refs[t] = Cardinality(CallHolders(t)) + Cardinality(JobHolders(t))

\* The line holds the queued calls, each once, and nobody waits for nothing.
Line ==
    /\ waiters # <<>> => active # None
    /\ \A c \in Caller :
          at[c] = "queued" <=> \E i \in DOMAIN waiters : waiters[i] = c
    /\ \A i, k \in DOMAIN waiters : waiters[i] = waiters[k] => i = k

IInv == TypeOK /\ Calls /\ Leases /\ Counts /\ Line /\ RowsTellTheTruth

-----------------------------------------------------------------------------
(* Holders and references.                                                 *)

\* Sets of calls and sets of jobs are finite.
LEMMA Finite ==
    /\ \A S \in SUBSET Caller : IsFiniteSet(S) /\ Cardinality(S) \in Nat
    /\ \A S \in SUBSET Job : IsFiniteSet(S) /\ Cardinality(S) \in Nat
BY QueueAssumption, FS_Subset, FS_CardinalityType

\* A ticket nobody refers to has no holders.
LEMMA NoHolder ==
    ASSUME Counts, NEW t \in Ticket, refs[t] = 0
    PROVE  CallHolders(t) = {} /\ JobHolders(t) = {}
<1>1. CallHolders(t) \in SUBSET Caller /\ JobHolders(t) \in SUBSET Job
  BY DEF CallHolders, JobHolders
<1>2. Cardinality(CallHolders(t)) = 0 /\ Cardinality(JobHolders(t)) = 0
  BY <1>1, Finite DEF Counts
<1>. QED BY <1>1, <1>2, Finite, FS_EmptySet

\* A call that holds the only reference is the only holder.
LEMMA LastCall ==
    ASSUME Counts, NEW t \in Ticket, NEW c \in CallHolders(t), refs[t] = 1
    PROVE  CallHolders(t) = {c} /\ JobHolders(t) = {}
<1>1. CallHolders(t) \in SUBSET Caller /\ JobHolders(t) \in SUBSET Job
      /\ CallHolders(t) \ {c} \in SUBSET Caller
  BY DEF CallHolders, JobHolders
<1>2. Cardinality(CallHolders(t) \ {c}) = Cardinality(CallHolders(t)) - 1
  BY <1>1, Finite, FS_RemoveElement
<1>3. Cardinality(CallHolders(t) \ {c}) = 0 /\ Cardinality(JobHolders(t)) = 0
  BY <1>1, <1>2, Finite DEF Counts
<1>4. CallHolders(t) \ {c} = {} /\ JobHolders(t) = {}
  BY <1>1, <1>3, Finite, FS_EmptySet
<1>. QED BY <1>4

\* The same of a job.
LEMMA LastJob ==
    ASSUME Counts, NEW t \in Ticket, NEW j \in JobHolders(t), refs[t] = 1
    PROVE  CallHolders(t) = {} /\ JobHolders(t) = {j}
<1>1. CallHolders(t) \in SUBSET Caller /\ JobHolders(t) \in SUBSET Job
      /\ JobHolders(t) \ {j} \in SUBSET Job
  BY DEF CallHolders, JobHolders
<1>2. Cardinality(JobHolders(t) \ {j}) = Cardinality(JobHolders(t)) - 1
  BY <1>1, Finite, FS_RemoveElement
<1>3. Cardinality(JobHolders(t) \ {j}) = 0 /\ Cardinality(CallHolders(t)) = 0
  BY <1>1, <1>2, Finite DEF Counts
<1>4. JobHolders(t) \ {j} = {} /\ CallHolders(t) = {}
  BY <1>1, <1>3, Finite, FS_EmptySet
<1>. QED BY <1>4

\* A ticket with a holder has a reference.
LEMMA SomeHolder ==
    ASSUME TypeOK, Counts, NEW t \in Ticket,
           CallHolders(t) # {} \/ JobHolders(t) # {}
    PROVE  refs[t] > 0
<1>1. CallHolders(t) \in SUBSET Caller /\ JobHolders(t) \in SUBSET Job
  BY DEF CallHolders, JobHolders
<1>2. Cardinality(CallHolders(t)) # 0 \/ Cardinality(JobHolders(t)) # 0
  BY <1>1, Finite, FS_EmptySet
<1>. QED BY <1>1, <1>2, Finite DEF Counts, TypeOK

\* One holder more, one reference more; one less, one less.
LEMMA CountChange ==
    /\ \A S \in SUBSET Caller, c \in Caller :
          /\ c \notin S => Cardinality(S \cup {c}) = Cardinality(S) + 1
          /\ c \in S => Cardinality(S \ {c}) = Cardinality(S) - 1
    /\ \A S \in SUBSET Job, j \in Job :
          /\ j \notin S => Cardinality(S \cup {j}) = Cardinality(S) + 1
          /\ j \in S => Cardinality(S \ {j}) = Cardinality(S) - 1
BY Finite, FS_AddElement, FS_RemoveElement

-----------------------------------------------------------------------------
(* The invariant is inductive.                                             *)

LEMMA InitInv == Init => IInv
<1>. SUFFICES ASSUME Init PROVE IInv
  OBVIOUS
<1>. USE QueueAssumption DEF Init, Idle
<1>1. TypeOK
  BY DEF TypeOK, RowStatus
<1>2. Calls /\ Leases /\ Line /\ RowsTellTheTruth
  BY DEF Calls, Leases, Line, RowsTellTheTruth, Unfinished
<1>3. Counts
  <2>1. \A t \in Ticket : refs[t] = 0 /\ CallHolders(t) = {} /\ JobHolders(t) = {}
    BY DEF CallHolders, JobHolders
  <2>2. Cardinality({}) = 0
    BY FS_EmptySet
  <2>. QED BY ONLY <2>1, <2>2 DEF Counts
<1>. QED BY <1>1, <1>2, <1>3 DEF IInv

\* Steps that leave queue, calls and leases alone.
LEMMA QueueFrame ==
    ASSUME IInv, UNCHANGED <<queueVars, at, ctx, lease>>
    PROVE  Calls' /\ Counts' /\ Line'
<1>0. /\ active' = active /\ refs' = refs /\ open' = open /\ waiters' = waiters
      /\ at' = at /\ ctx' = ctx /\ lease' = lease
  BY DEF queueVars
<1>1. Calls'
  BY <1>0 DEF IInv, Calls
<1>2. Line'
  BY <1>0 DEF IInv, Line
<1>3. \A t \in Ticket : CallHolders(t)' = CallHolders(t) /\ JobHolders(t)' = JobHolders(t)
  BY <1>0 DEF CallHolders, JobHolders
<1>. QED BY <1>0, <1>1, <1>2, <1>3 DEF IInv, Counts

\* What happens to a job while it keeps its lease.
LEMMA JobSteps ==
    ASSUME IInv, NEW j \in Job,
           \/ \E c \in Caller : SpawnThrows(c, j) \/ SpawnUnrecorded(c, j)
           \/ ProcessExits(j) \/ Drain(j) \/ Close(j) \/ SpawnError(j)
           \/ WallTimeout(j) \/ Cancel(j)
    PROVE  IInv'
<1>. USE DEF IInv
<1>1. Calls' /\ Counts' /\ Line'
  BY QueueFrame DEF SpawnThrows, SpawnUnrecorded, ProcessExits, Drain, Close,
                    SpawnError, WallTimeout, Cancel, callVars
<1>2. CASE \E c \in Caller : SpawnThrows(c, j) \/ SpawnUnrecorded(c, j)
  <2>. USE <1>2 DEF SpawnThrows, SpawnUnrecorded, MaySpawn, queueVars, callVars, daemonVars
  <2>1. TypeOK'
    BY DEF TypeOK, RowStatus
  <2>2. Leases' /\ RowsTellTheTruth'
    BY DEF TypeOK, Leases, RowsTellTheTruth, Unfinished
  <2>. QED BY <1>1, <2>1, <2>2
<1>3. CASE ProcessExits(j)
  <2>. USE <1>3 DEF ProcessExits, queueVars, callVars, daemonVars
  <2>1. TypeOK'
    BY DEF TypeOK
  <2>2. Leases' /\ RowsTellTheTruth'
    BY DEF TypeOK, Leases, RowsTellTheTruth, Unfinished
  <2>. QED BY <1>1, <2>1, <2>2
<1>4. CASE Drain(j)
  <2>. USE <1>4 DEF Drain, EndRow, queueVars, callVars, daemonVars
  <2>1. TypeOK'
    BY DEF TypeOK, RowStatus
  <2>2. Leases' /\ RowsTellTheTruth'
    BY DEF TypeOK, Leases, RowsTellTheTruth, Unfinished
  <2>. QED BY <1>1, <2>1, <2>2
<1>5. CASE Close(j)
  <2>. USE <1>5 DEF Close, EndRow, queueVars, callVars, daemonVars
  <2>1. TypeOK'
    BY DEF TypeOK, RowStatus
  <2>2. Leases' /\ RowsTellTheTruth'
    BY DEF TypeOK, Leases, RowsTellTheTruth, Unfinished
  <2>. QED BY <1>1, <2>1, <2>2
<1>6. CASE SpawnError(j)
  <2>. USE <1>6 DEF SpawnError, queueVars, callVars, daemonVars
  <2>1. TypeOK'
    BY DEF TypeOK, RowStatus
  <2>2. Leases' /\ RowsTellTheTruth'
    BY DEF TypeOK, Leases, RowsTellTheTruth, Unfinished
  <2>. QED BY <1>1, <2>1, <2>2
<1>7. CASE WallTimeout(j) \/ Cancel(j)
  <2>. USE <1>7 DEF WallTimeout, Cancel, Cancelled, queueVars, callVars, daemonVars
  <2>1. TypeOK'
    BY DEF TypeOK, RowStatus
  <2>2. Leases' /\ RowsTellTheTruth'
    BY DEF TypeOK, Leases, RowsTellTheTruth, Unfinished
  <2>. QED BY <1>1, <2>1, <2>2
<1>. QED BY <1>2, <1>3, <1>4, <1>5, <1>6, <1>7

\* A media_close that reached its turn, the stop and the start of the daemon.
LEMMA CloseMediaStep ==
    ASSUME IInv, NEW c \in Caller, CloseMedia(c)
    PROVE  IInv'
<1>. USE DEF IInv, CloseMedia, Cancelled
<1>1. Calls' /\ Counts' /\ Line'
  BY QueueFrame
<1>2. closes[c] \in Job
  BY DEF TypeOK
<1>3. TypeOK'
  BY <1>2, QueueAssumption DEF TypeOK, RowStatus, queueVars, daemonVars
<1>4. Leases' /\ RowsTellTheTruth'
  BY <1>2 DEF TypeOK, Leases, RowsTellTheTruth, Unfinished, queueVars, daemonVars
<1>. QED BY <1>1, <1>3, <1>4

LEMMA StopSteps ==
    ASSUME IInv, Shutdown \/ Boot
    PROVE  IInv'
<1>. USE DEF IInv
<1>1. Calls' /\ Counts' /\ Line'
  BY QueueFrame DEF Shutdown, Boot, callVars
<1>2. CASE Shutdown
  <2>. USE <1>2 DEF Shutdown, queueVars, callVars
  <2>1. TypeOK'
    BY DEF TypeOK, RowStatus
  <2>2. Leases'
    BY DEF TypeOK, Leases, Unfinished
  <2>3. RowsTellTheTruth'
    BY DEF TypeOK, Leases, RowsTellTheTruth
  <2>. QED BY <1>1, <2>1, <2>2, <2>3
<1>3. CASE Boot
  <2>. USE <1>3 DEF Boot, queueVars, callVars
  <2>1. TypeOK'
    BY DEF TypeOK, RowStatus
  <2>2. Leases'
    BY DEF TypeOK, Leases, Unfinished
  <2>3. RowsTellTheTruth'
    BY DEF TypeOK, RowsTellTheTruth
  <2>. QED BY <1>1, <2>1, <2>2, <2>3
<1>. QED BY <1>2, <1>3

LEMMA GoneStep ==
    ASSUME IInv, Exit \/ Crash
    PROVE  IInv'
<1>. USE DEF IInv, Exit, Crash, Gone
<1>1. TypeOK'
  <2>0. waiters' = <<>>
    OBVIOUS
  <2>1. waiters' \in Seq(Caller) /\ Len(waiters') <= MaxWaiters
    BY ONLY <2>0, QueueAssumption
  <2>2. proc' \in [Job -> {"none", "failed", "alive", "exited", "drained", "closed"}]
    BY DEF TypeOK
  <2>3. stops' \in Nat /\ faults' \in Nat /\ row' \in [Job -> RowStatus]
    BY DEF TypeOK
  <2>. QED BY <2>1, <2>2, <2>3 DEF TypeOK
<1>2. Calls' /\ Line'
  <2>1. Calls'
    BY DEF Calls
  <2>2. waiters' = <<>> /\ \A c \in Caller : at'[c] = "out"
    OBVIOUS
  <2>. QED BY <2>1, <2>2 DEF Line
<1>3. Leases' /\ RowsTellTheTruth'
  <2>1. live' = {} /\ watched' = {} /\ mode' = "down" /\ row' = row
        /\ \A j \in Job : /\ lease'[j] = None
                          /\ proc'[j] = IF proc[j] \in {"none", "alive"} THEN proc[j] ELSE "closed"
    OBVIOUS
  <2>2. Leases'
    BY <2>1 DEF Leases, Unfinished
  <2>3. RowsTellTheTruth'
    BY <2>1 DEF RowsTellTheTruth
  <2>. QED BY <2>2, <2>3
<1>4. Counts'
  <2>1. \A t \in Ticket : refs'[t] = 0 /\ CallHolders(t)' = {} /\ JobHolders(t)' = {}
    BY QueueAssumption DEF CallHolders, JobHolders
  <2>2. Cardinality({}) = 0
    BY FS_EmptySet
  <2>. QED BY ONLY <2>1, <2>2 DEF Counts
<1>. QED BY <1>1, <1>2, <1>3, <1>4

-----------------------------------------------------------------------------
(* The line.                                                               *)

\* The types of what the queue keeps.
QueueOK ==
    /\ active \in Ticket \cup {None}
    /\ refs \in [Ticket -> Nat]
    /\ open \subseteq Ticket
    /\ waiters \in Seq(Caller) /\ Len(waiters) <= MaxWaiters
    /\ at \in [Caller -> {"out", "queued", "in"}]
    /\ ctx \in [Caller -> Ticket \cup {None}]

\* What Tail leaves of a line.
LEMMA TailLine ==
    ASSUME NEW s \in Seq(Caller), s # <<>>
    PROVE  /\ Head(s) \in Caller /\ Head(s) = s[1]
           /\ Tail(s) \in Seq(Caller)
           /\ Len(s) \in Nat /\ Len(s) >= 1 /\ Len(Tail(s)) = Len(s) - 1
           /\ DOMAIN s = 1..Len(s) /\ DOMAIN Tail(s) = 1..(Len(s) - 1)
           /\ \A i \in 1..(Len(s) - 1) : Tail(s)[i] = s[i + 1]
<1>1. Len(s) \in Nat /\ Len(s) >= 1 /\ DOMAIN s = 1..Len(s)
  BY EmptySeq, LenProperties
<1>2. Head(s) \in Caller /\ Head(s) = s[1] /\ Tail(s) \in Seq(Caller)
      /\ Len(Tail(s)) = Len(s) - 1 /\ \A i \in 1..Len(Tail(s)) : Tail(s)[i] = s[i + 1]
  BY HeadTailProperties, <1>1
<1>3. DOMAIN Tail(s) = 1..Len(Tail(s))
  BY <1>2, LenProperties
<1>. QED BY <1>1, <1>2, <1>3

\* What Append makes of a line.
LEMMA AppendLine ==
    ASSUME NEW s \in Seq(Caller), NEW c \in Caller
    PROVE  /\ Append(s, c) \in Seq(Caller)
           /\ Len(s) \in Nat /\ Len(Append(s, c)) = Len(s) + 1
           /\ DOMAIN s = 1..Len(s) /\ DOMAIN Append(s, c) = 1..(Len(s) + 1)
           /\ \A i \in 1..Len(s) : Append(s, c)[i] = s[i]
           /\ Append(s, c)[Len(s) + 1] = c
<1>1. Append(s, c) \in Seq(Caller) /\ Len(Append(s, c)) = Len(s) + 1
      /\ \A i \in 1..Len(s) : Append(s, c)[i] = s[i]
      /\ Append(s, c)[Len(s) + 1] = c
  BY AppendProperties
<1>2. Len(s) \in Nat /\ DOMAIN s = 1..Len(s)
      /\ DOMAIN Append(s, c) = 1..Len(Append(s, c))
  BY <1>1, LenProperties
<1>. QED BY <1>1, <1>2

\* What is left of a line when the i-th gives up.
Cut(s, i) == SubSeq(s, 1, i - 1) \o SubSeq(s, i + 1, Len(s))

\* Whoever stood behind the one who left moves up by one.
LEMMA CutLine ==
    ASSUME NEW s \in Seq(Caller), NEW i \in DOMAIN s
    PROVE  /\ Cut(s, i) \in Seq(Caller)
           /\ Len(s) \in Nat /\ Len(Cut(s, i)) = Len(s) - 1
           /\ DOMAIN s = 1..Len(s) /\ DOMAIN Cut(s, i) = 1..(Len(s) - 1)
           /\ i \in Nat /\ i >= 1 /\ i <= Len(s)
           /\ \A k \in 1..(Len(s) - 1) : Cut(s, i)[k] = IF k < i THEN s[k] ELSE s[k + 1]
<1>0. Len(s) \in Nat /\ DOMAIN s = 1..Len(s)
  BY LenProperties
<1>1. i \in Nat /\ i >= 1 /\ i <= Len(s)
  BY <1>0
<1>. DEFINE a == SubSeq(s, 1, i - 1)
            b == SubSeq(s, i + 1, Len(s))
            r == Cut(s, i)
<1>2. \A k \in 1..Len(s) : s[k] \in Caller
  BY <1>0, ElementOfSeq
<1>3. a \in Seq(Caller) /\ Len(a) = i - 1 /\ \A k \in 1..(i - 1) : a[k] = s[k]
  <2>1. 1 \in Int /\ i - 1 \in Int /\ \A k \in 1..(i - 1) : s[k] \in Caller
    BY <1>0, <1>1, <1>2
  <2>2. /\ a \in Seq(Caller)
        /\ Len(a) = IF 1 <= i - 1 THEN (i - 1) - 1 + 1 ELSE 0
        /\ \A k \in 1..((i - 1) - 1 + 1) : a[k] = s[1 + k - 1]
    BY ONLY <2>1, SubSeqProperties
  <2>. HIDE DEF a
  <2>3. Len(a) = i - 1
    BY <1>1, <2>2
  <2>4. (i - 1) - 1 + 1 = i - 1 /\ \A k \in 1..(i - 1) : 1 + k - 1 = k
    BY <1>1
  <2>. QED BY <2>2, <2>3, <2>4
<1>4. b \in Seq(Caller) /\ Len(b) = Len(s) - i /\ \A k \in 1..(Len(s) - i) : b[k] = s[i + k]
  <2>1. i + 1 \in Int /\ Len(s) \in Int /\ \A k \in (i + 1)..Len(s) : s[k] \in Caller
    BY <1>0, <1>1, <1>2
  <2>2. /\ b \in Seq(Caller)
        /\ Len(b) = (IF i + 1 <= Len(s) THEN Len(s) - (i + 1) + 1 ELSE 0)
        /\ \A k \in 1..(Len(s) - (i + 1) + 1) : b[k] = s[(i + 1) + k - 1]
    BY ONLY <2>1, SubSeqProperties
  <2>. HIDE DEF b
  <2>3. Len(b) = Len(s) - i
    BY <1>0, <1>1, <2>2
  <2>4. Len(s) - (i + 1) + 1 = Len(s) - i
        /\ \A k \in 1..(Len(s) - i) : (i + 1) + k - 1 = i + k
    BY <1>0, <1>1
  <2>. QED BY <2>2, <2>3, <2>4
<1>6. r = a \o b
  BY DEF Cut
<1>. HIDE DEF a, b, r
<1>5. r \in Seq(Caller) /\ Len(r) = Len(a) + Len(b)
      /\ \A k \in 1..(Len(a) + Len(b)) :
            r[k] = IF k <= Len(a) THEN a[k] ELSE b[k - Len(a)]
  BY <1>3, <1>4, <1>6, ConcatProperties
<1>7. Len(r) = Len(s) - 1 /\ DOMAIN r = 1..(Len(s) - 1)
  <2>1. Len(r) = Len(s) - 1
    BY <1>0, <1>1, <1>3, <1>4, <1>5
  <2>2. DOMAIN r = 1..Len(r)
    BY <1>5, LenProperties
  <2>. QED BY <2>1, <2>2
<1>8. ASSUME NEW k \in 1..(Len(s) - 1) PROVE r[k] = IF k < i THEN s[k] ELSE s[k + 1]
  <2>0. r[k] = IF k <= i - 1 THEN a[k] ELSE b[k - (i - 1)]
    <3>1. k \in 1..(Len(a) + Len(b))
      BY <1>0, <1>1, <1>3, <1>4
    <3>. QED BY <1>3, <1>5, <3>1
  <2>1. CASE k < i
    BY <2>0, <2>1, <1>1, <1>3
  <2>2. CASE ~(k < i)
    <3>1. k - (i - 1) \in 1..(Len(s) - i) /\ i + (k - (i - 1)) = k + 1 /\ ~(k <= i - 1)
      BY <2>2, <1>0, <1>1
    <3>. QED BY <2>0, <2>2, <3>1, <1>3, <1>4
  <2>. QED BY <2>1, <2>2
<1>. QED BY <1>0, <1>1, <1>5, <1>7, <1>8 DEF r

-----------------------------------------------------------------------------
(* Giving a ticket back.                                                   *)

\* Only the active ticket is referred to.
LEMMA OthersAreFree ==
    ASSUME IInv, NEW t \in Ticket, t # active
    PROVE  refs[t] = 0 /\ CallHolders(t) = {} /\ JobHolders(t) = {}
<1>1. CallHolders(t) = {}
  BY DEF IInv, Calls, CallHolders
<1>2. JobHolders(t) = {}
  BY QueueAssumption DEF IInv, Leases, JobHolders
<1>3. Cardinality({}) = 0
  BY FS_EmptySet
<1>4. refs[t] = Cardinality(CallHolders(t)) + Cardinality(JobHolders(t))
  BY DEF IInv, Counts
<1>. QED BY <1>1, <1>2, <1>3, <1>4

\* The last holder of the active ticket is gone: nobody works, and whoever is
\* first in line gets a fresh ticket.
LEMMA HandOver ==
    ASSUME IInv, active \in Ticket, refs[active] = 1,
           NEW at1 \in [Caller -> {"out", "queued"}],
           NEW ctx1 \in [Caller -> {None}],
           NEW open1 \in SUBSET Ticket,
           \A c \in Caller : at1[c] = "queued" <=> at[c] = "queued",
           Release(active, at1, ctx1, open1),
           \A j \in Job : lease'[j] = None
    PROVE  QueueOK' /\ Calls' /\ Counts' /\ Line'
<1>. USE QueueAssumption
<1>0. /\ waiters \in Seq(Caller) /\ Len(waiters) <= MaxWaiters
      /\ refs \in [Ticket -> Nat]
      /\ \A t \in Ticket : t # active => refs[t] = 0
      /\ \A c \in Caller : at[c] = "queued" <=> \E i \in DOMAIN waiters : waiters[i] = c
      /\ \A i, k \in DOMAIN waiters : waiters[i] = waiters[k] => i = k
  BY OthersAreFree DEF IInv, TypeOK, Line
<1>e. Cardinality({}) = 0 /\ \A c \in Caller : Cardinality({c}) = 1
  BY FS_EmptySet, FS_Singleton
<1>j. \A t \in Ticket : JobHolders(t)' = {}
  BY DEF JobHolders
<1>1. CASE waiters = <<>>
  <2>1. /\ refs' = [refs EXCEPT ![active] = 0] /\ active' = None
        /\ at' = at1 /\ ctx' = ctx1 /\ open' = open1 /\ waiters' = <<>>
    BY <1>1 DEF Release
  <2>2. QueueOK'
    BY <1>0, <1>1, <2>1 DEF QueueOK
  <2>3. Calls'
    BY <2>1 DEF Calls
  <2>4. Line'
    BY <1>0, <1>1, <2>1 DEF Line
  <2>5. \A t \in Ticket : refs'[t] = 0 /\ CallHolders(t)' = {}
    BY <1>0, <2>1 DEF CallHolders
  <2>6. Counts'
    BY ONLY <1>e, <1>j, <2>5 DEF Counts
  <2>. QED BY <2>2, <2>3, <2>4, <2>6
<1>2. CASE waiters # <<>>
  <2>1. PICK n \in Ticket \ {active} :
           /\ refs[n] = 0
           /\ refs' = [refs EXCEPT ![active] = 0, ![n] = 1]
           /\ active' = n
           /\ open' = open1 \cup {n}
           /\ at' = [at1 EXCEPT ![Head(waiters)] = "in"]
           /\ ctx' = [ctx1 EXCEPT ![Head(waiters)] = n]
    BY <1>2 DEF Release
  <2>2. waiters' = Tail(waiters)
    BY <1>2 DEF Release
  <2>. DEFINE h == Head(waiters)
  <2>3. /\ h \in Caller /\ h = waiters[1]
        /\ Tail(waiters) \in Seq(Caller)
        /\ Len(waiters) \in Nat /\ Len(waiters) >= 1
        /\ Len(Tail(waiters)) = Len(waiters) - 1
        /\ DOMAIN waiters = 1..Len(waiters)
        /\ DOMAIN Tail(waiters) = 1..(Len(waiters) - 1)
        /\ \A i \in 1..(Len(waiters) - 1) : Tail(waiters)[i] = waiters[i + 1]
    BY <1>0, <1>2, TailLine
  <2>. HIDE DEF h
  <2>4. /\ at' = [at1 EXCEPT ![h] = "in"] /\ ctx' = [ctx1 EXCEPT ![h] = n]
    BY <2>1 DEF h
  <2>5. /\ \A c \in Caller : at'[c] = "in" <=> c = h
        /\ \A c \in Caller : at'[c] = "queued" <=> at1[c] = "queued" /\ c # h
        /\ \A c \in Caller : ctx'[c] = IF c = h THEN n ELSE None
        /\ at' \in [Caller -> {"out", "queued", "in"}]
        /\ ctx' \in [Caller -> Ticket \cup {None}]
    BY <2>1, <2>3, <2>4
  <2>6. QueueOK'
    <3>1. refs' \in [Ticket -> Nat]
      BY <1>0, <2>1
    <3>2. Len(Tail(waiters)) <= MaxWaiters
      BY <1>0, <2>3
    <3>. QED BY <2>1, <2>2, <2>3, <2>5, <3>1, <3>2 DEF QueueOK
  <2>7. Calls'
    BY <2>1, <2>5 DEF Calls
  <2>8. Line'
    <3>1. ASSUME NEW c \in Caller
          PROVE  at'[c] = "queued" <=> \E i \in DOMAIN waiters' : waiters'[i] = c
      <4>1. at'[c] = "queued" <=> c # waiters[1] /\ \E i \in DOMAIN waiters : waiters[i] = c
        BY <1>0, <2>3, <2>5
      <4>2. ASSUME NEW i \in DOMAIN waiters, waiters[i] = c, c # waiters[1]
            PROVE  \E k \in DOMAIN waiters' : waiters'[k] = c
        <5>1. i - 1 \in 1..(Len(waiters) - 1) /\ (i - 1) + 1 = i
          BY <2>3, <4>2
        <5>. QED BY <2>2, <2>3, <4>2, <5>1
      <4>3. ASSUME NEW k \in DOMAIN waiters', waiters'[k] = c
            PROVE  c # waiters[1] /\ \E i \in DOMAIN waiters : waiters[i] = c
        <5>1. k + 1 \in 1..Len(waiters) /\ 1 \in 1..Len(waiters) /\ k + 1 # 1
              /\ k \in 1..(Len(waiters) - 1)
          BY <2>2, <2>3
        <5>. QED BY <1>0, <2>2, <2>3, <4>3, <5>1
      <4>. QED BY <4>1, <4>2, <4>3
    <3>2. ASSUME NEW i \in DOMAIN waiters', NEW k \in DOMAIN waiters',
                 waiters'[i] = waiters'[k]
          PROVE  i = k
      <4>1. i \in 1..(Len(waiters) - 1) /\ k \in 1..(Len(waiters) - 1)
            /\ i + 1 \in 1..Len(waiters) /\ k + 1 \in 1..Len(waiters)
        BY <2>2, <2>3
      <4>2. i + 1 = k + 1
        BY <1>0, <2>2, <2>3, <3>2, <4>1
      <4>. QED BY <4>1, <4>2
    <3>. QED BY <2>1, <3>1, <3>2 DEF Line
  <2>9. Counts'
    <3>1. ASSUME NEW t \in Ticket, t # n
          PROVE  refs'[t] = 0 /\ CallHolders(t)' = {}
      BY <1>0, <2>1, <2>5, <3>1 DEF CallHolders
    <3>2. refs'[n] = 1 /\ CallHolders(n)' = {h}
      BY <1>0, <2>1, <2>3, <2>5 DEF CallHolders
    <3>3. ASSUME NEW t \in Ticket
          PROVE  refs'[t] = Cardinality(CallHolders(t)') + Cardinality(JobHolders(t)')
      <4>1. CASE t = n
        <5>1. Cardinality(CallHolders(n)') = 1
          BY <1>e, <2>3, <3>2
        <5>2. Cardinality(JobHolders(n)') = 0
          BY <1>e, <1>j
        <5>. QED BY ONLY <3>2, <4>1, <5>1, <5>2
      <4>2. CASE t # n
        BY ONLY <3>1, <1>j, <1>e, <4>2, t \in Ticket
      <4>. QED BY <4>1, <4>2
    <3>. QED BY ONLY <3>3 DEF Counts
  <2>. QED BY <2>6, <2>7, <2>8, <2>9
<1>. QED BY <1>1, <1>2

\* A holder that is not the last leaves the queue as it is.
LEMMA OneLess ==
    ASSUME IInv, active \in Ticket, refs[active] # 1, refs[active] > 0,
           NEW at1, NEW ctx1, NEW open1,
           Release(active, at1, ctx1, open1)
    PROVE  /\ refs' = [refs EXCEPT ![active] = @ - 1]
           /\ at' = at1 /\ ctx' = ctx1 /\ open' = open1
           /\ active' = active /\ waiters' = waiters
           /\ refs' \in [Ticket -> Nat]
<1>1. /\ refs' = [refs EXCEPT ![active] = refs[active] - 1]
      /\ at' = at1 /\ ctx' = ctx1 /\ open' = open1
      /\ active' = active /\ waiters' = waiters
  BY DEF Release
<1>2. refs \in [Ticket -> Nat] /\ refs[active] \in Nat /\ refs[active] - 1 \in Nat
  BY DEF IInv, TypeOK
<1>3. refs' \in [Ticket -> Nat]
  BY <1>1, <1>2
<1>. QED BY <1>1, <1>3

\* Steps that change the queue and its calls only.
LEMMA JobFrame ==
    ASSUME IInv, UNCHANGED <<jobVars, daemonVars>>,
           closes' \in [Caller -> Job \cup {None}],
           QueueOK', Calls', Counts', Line',
           active' = active \/ \A j \in Job : lease[j] = None
    PROVE  IInv'
<1>0. /\ row' = row /\ proc' = proc /\ live' = live /\ lease' = lease
      /\ watched' = watched /\ asked' = asked
      /\ mode' = mode /\ stops' = stops /\ faults' = faults
  BY DEF jobVars, daemonVars
<1>1. TypeOK'
  BY <1>0 DEF IInv, TypeOK, QueueOK
<1>2. Leases'
  <2>1. \A j \in Job : lease'[j] \in {None, active'}
    BY <1>0 DEF IInv, Leases
  <2>2. \A j \in Job : Unfinished(j)' <=> Unfinished(j)
    BY <1>0 DEF Unfinished
  <2>. QED BY <1>0, <2>1, <2>2 DEF IInv, Leases
<1>3. RowsTellTheTruth'
  BY <1>0 DEF IInv, RowsTellTheTruth
<1>. QED BY <1>1, <1>2, <1>3 DEF IInv

\* The body of a call returns.
LEMMA LeaveStep ==
    ASSUME IInv, NEW c \in Caller, Leave(c)
    PROVE  IInv'
<1>. DEFINE at1 == [at EXCEPT ![c] = "out"]
            ctx1 == [ctx EXCEPT ![c] = None]
            open1 == open \ {ctx[c]}
<1>1. /\ at[c] = "in" /\ ctx[c] = active /\ active \in Ticket
      /\ Release(active, at1, ctx1, open1)
      /\ UNCHANGED <<jobVars, daemonVars>> /\ lease' = lease
      /\ closes' \in [Caller -> Job \cup {None}]
  BY DEF Leave, IInv, Calls, TypeOK, jobVars
<1>2. /\ \A x \in Caller : x # c => at[x] # "in" /\ ctx[x] = None
      /\ at \in [Caller -> {"out", "queued", "in"}]
      /\ ctx \in [Caller -> Ticket \cup {None}]
      /\ open \in SUBSET Ticket
  BY <1>1 DEF IInv, Calls, TypeOK
<1>3. /\ at1 \in [Caller -> {"out", "queued"}] /\ ctx1 \in [Caller -> {None}]
      /\ open1 \in SUBSET Ticket
      /\ \A x \in Caller : at1[x] = "queued" <=> at[x] = "queued"
      /\ \A x \in Caller : at1[x] # "in" /\ ctx1[x] = None
  BY <1>1, <1>2
<1>4. c \in CallHolders(active)
  BY <1>1 DEF CallHolders
<1>5. refs[active] > 0
  BY <1>1, <1>4, SomeHolder DEF IInv
<1>6. /\ Counts
      /\ CallHolders(active) = {c}
  BY <1>1, <1>2 DEF IInv, CallHolders
<1>. HIDE DEF at1, ctx1, open1
<1>7. CASE refs[active] = 1
  <2>1. JobHolders(active) = {}
    BY <1>1, <1>4, <1>6, <1>7, LastCall
  <2>2. \A j \in Job : lease[j] = None
    BY <2>1 DEF JobHolders, IInv, Leases
  <2>3. QueueOK' /\ Calls' /\ Counts' /\ Line'
    BY <1>1, <1>3, <1>7, <2>2, HandOver
  <2>. QED BY <1>1, <2>2, <2>3, JobFrame
<1>8. CASE refs[active] # 1
  <2>1. /\ refs' = [refs EXCEPT ![active] = @ - 1]
        /\ at' = at1 /\ ctx' = ctx1 /\ open' = open1
        /\ active' = active /\ waiters' = waiters
        /\ refs' \in [Ticket -> Nat]
    BY <1>1, <1>5, <1>8, OneLess
  <2>2. QueueOK'
    BY <1>1, <1>3, <2>1 DEF QueueOK, IInv, TypeOK
  <2>3. Calls'
    BY <1>3, <2>1 DEF Calls
  <2>4. Line'
    BY <1>3, <2>1 DEF IInv, Line
  <2>5. ASSUME NEW t \in Ticket
        PROVE  refs'[t] = Cardinality(CallHolders(t)') + Cardinality(JobHolders(t)')
    <3>1. CallHolders(t)' = {} /\ JobHolders(t)' = JobHolders(t)
      BY <1>1, <1>3, <2>1 DEF CallHolders, JobHolders
    <3>2. Cardinality({}) = 0 /\ Cardinality({c}) = 1
      BY FS_EmptySet, FS_Singleton
    <3>3. CASE t = active
      <4>1. refs[t] = 1 + Cardinality(JobHolders(t)) /\ refs'[t] = refs[t] - 1
        BY <1>1, <1>6, <2>1, <3>2, <3>3 DEF Counts, IInv, TypeOK
      <4>2. Cardinality(JobHolders(t)) \in Nat
        BY Finite DEF JobHolders
      <4>. QED BY <3>1, <3>2, <4>1, <4>2
    <3>4. CASE t # active
      <4>1. refs[t] = 0 /\ JobHolders(t) = {} /\ refs'[t] = refs[t]
        BY <2>1, <3>4, OthersAreFree DEF IInv, TypeOK
      <4>. QED BY <3>1, <3>2, <4>1
    <3>. QED BY <3>3, <3>4
  <2>6. Counts'
    BY ONLY <2>5 DEF Counts
  <2>. QED BY <1>1, <2>1, <2>2, <2>3, <2>4, <2>6, JobFrame
<1>. QED BY <1>7, <1>8

\* The scan after a job is over.
LEMMA ObservedStep ==
    ASSUME IInv, NEW j \in Job, Observed(j)
    PROVE  IInv'
<1>1. /\ j \in watched /\ watched' = watched \ {j}
      /\ lease' = [lease EXCEPT ![j] = None]
      /\ Release(lease[j], at, ctx, open)
      /\ closes' = closes /\ row' = row /\ proc' = proc /\ live' = live /\ asked' = asked
      /\ mode' = mode /\ stops' = stops /\ faults' = faults
  BY DEF Observed, daemonVars
<1>2. lease[j] = active /\ active \in Ticket /\ j \in JobHolders(active)
  BY <1>1 DEF IInv, Leases, Unfinished, JobHolders, TypeOK
<1>3. proc[j] = "closed" /\ j \notin live
  BY <1>1 DEF IInv, Leases
<1>4. refs[active] > 0
  BY <1>2, SomeHolder DEF IInv
<1>5. /\ lease \in [Job -> Ticket \cup {None}]
      /\ lease'[j] = None
      /\ \A k \in Job : k # j => lease'[k] = lease[k]
      /\ \A k \in Job : Unfinished(k)' => Unfinished(k) /\ k # j
  BY <1>1, <1>3 DEF IInv, TypeOK, Unfinished
<1>6. RowsTellTheTruth'
  BY <1>1 DEF IInv, RowsTellTheTruth
<1>7. ASSUME QueueOK', Calls', Counts', Line',
             active' = active \/ \A k \in Job : k # j => lease[k] = None
      PROVE  IInv'
  <2>1. TypeOK'
    BY <1>1, <1>7 DEF IInv, TypeOK, QueueOK
  <2>2. Leases'
    <3>1. \A k \in Job : lease'[k] \in {None, active'}
      BY <1>5, <1>7 DEF IInv, Leases
    <3>2. \A k \in Job : Unfinished(k)' => lease'[k] # None
      BY <1>5 DEF IInv, Leases
    <3>3. \A k \in Job : row'[k] = "none" => proc'[k] = "none" /\ lease'[k] = None
      BY <1>1, <1>5 DEF IInv, Leases
    <3>4. /\ \A k \in live' : proc'[k] \in {"failed", "alive", "exited"}
          /\ \A k \in Job : proc'[k] = "exited" => k \in live'
          /\ \A k \in watched' : proc'[k] = "closed" /\ k \notin live'
      BY <1>1 DEF IInv, Leases
    <3>. QED BY <3>1, <3>2, <3>3, <3>4 DEF Leases
  <2>. QED BY <1>6, <1>7, <2>1, <2>2 DEF IInv
<1>8. CASE refs[active] = 1
  <2>1. CallHolders(active) = {} /\ JobHolders(active) = {j}
    BY <1>2, <1>8, LastJob DEF IInv
  <2>2. \A k \in Job : k # j => lease[k] = None
    BY <2>1 DEF JobHolders, IInv, Leases
  <2>3. \A k \in Job : lease'[k] = None
    BY <1>5, <2>2
  <2>4. \A c \in Caller : at[c] # "in" /\ ctx[c] = None
    BY <2>1 DEF IInv, Calls, CallHolders
  <2>5. at \in [Caller -> {"out", "queued"}] /\ ctx \in [Caller -> {None}]
        /\ open \in SUBSET Ticket
    BY <2>4 DEF IInv, TypeOK
  <2>6. QueueOK' /\ Calls' /\ Counts' /\ Line'
    BY <1>1, <1>2, <1>8, <2>3, <2>5, HandOver
  <2>. QED BY <1>7, <2>2, <2>6
<1>9. CASE refs[active] # 1
  <2>1. /\ refs' = [refs EXCEPT ![active] = @ - 1]
        /\ at' = at /\ ctx' = ctx /\ open' = open
        /\ active' = active /\ waiters' = waiters
        /\ refs' \in [Ticket -> Nat]
    BY <1>1, <1>2, <1>4, <1>9, OneLess
  <2>2. QueueOK'
    BY <2>1 DEF QueueOK, IInv, TypeOK
  <2>3. Calls'
    BY <2>1 DEF IInv, Calls
  <2>4. Line'
    BY <2>1 DEF IInv, Line
  <2>5. ASSUME NEW t \in Ticket
        PROVE  refs'[t] = Cardinality(CallHolders(t)') + Cardinality(JobHolders(t)')
    <3>1. CallHolders(t)' = CallHolders(t)
      BY <2>1 DEF CallHolders
    <3>2. /\ JobHolders(t) \in SUBSET Job /\ CallHolders(t) \in SUBSET Caller
          /\ refs[t] = Cardinality(CallHolders(t)) + Cardinality(JobHolders(t))
      BY DEF JobHolders, CallHolders, IInv, Counts
    <3>3. CASE t = active
      <4>1. JobHolders(t)' = JobHolders(t) \ {j}
        BY <1>2, <1>5, <3>3, QueueAssumption DEF JobHolders
      <4>2. Cardinality(JobHolders(t)') = Cardinality(JobHolders(t)) - 1
        BY <1>2, <3>2, <3>3, <4>1, CountChange
      <4>3. refs'[t] = refs[t] - 1
        BY <1>2, <2>1, <3>3 DEF IInv, TypeOK
      <4>. QED BY <3>1, <3>2, <4>2, <4>3, Finite
    <3>4. CASE t # active
      <4>1. JobHolders(t)' = JobHolders(t)
        BY <1>2, <1>5, <3>4, QueueAssumption DEF JobHolders
      <4>2. refs'[t] = refs[t]
        BY <2>1, <3>4 DEF IInv, TypeOK
      <4>. QED BY <3>1, <3>2, <4>1, <4>2
    <3>. QED BY <3>3, <3>4
  <2>6. Counts'
    BY ONLY <2>5 DEF Counts
  <2>. QED BY <1>7, <2>1, <2>2, <2>3, <2>4, <2>6
<1>. QED BY <1>8, <1>9

\* A call starts a job under its own ticket.
LEMMA SpawnStep ==
    ASSUME IInv, NEW c \in Caller, NEW j \in Job, Spawn(c, j)
    PROVE  IInv'
<1>1. /\ at[c] = "in" /\ mode = "up" /\ ctx[c] = active /\ active \in Ticket
      /\ row[j] = "none" /\ proc[j] = "none" /\ lease[j] = None
  BY DEF Spawn, MaySpawn, IInv, TypeOK, Leases
<1>2. /\ row' = [row EXCEPT ![j] = "running"]
      /\ \E p \in {"alive", "failed"} : proc' = [proc EXCEPT ![j] = p]
      /\ live' = live \cup {j}
      /\ lease' = [lease EXCEPT ![j] = active]
      /\ refs' = [refs EXCEPT ![active] = @ + 1]
      /\ active' = active /\ open' = open /\ waiters' = waiters
      /\ at' = at /\ ctx' = ctx /\ closes' = closes
      /\ watched' = watched /\ asked' = asked
      /\ mode' = mode /\ stops' = stops /\ faults' = faults
  BY <1>1 DEF Spawn, callVars, daemonVars
<1>3. TypeOK'
  BY <1>1, <1>2 DEF IInv, TypeOK, RowStatus
<1>4. Calls' /\ Line'
  <2>1. Calls'
    BY <1>2 DEF IInv, Calls
  <2>2. Line'
    BY <1>2 DEF IInv, Line
  <2>. QED BY <2>1, <2>2
<1>5. Leases'
  BY <1>1, <1>2, QueueAssumption DEF IInv, TypeOK, Leases, Unfinished
<1>6. RowsTellTheTruth'
  BY <1>1, <1>2 DEF IInv, TypeOK, RowsTellTheTruth
<1>7. ASSUME NEW t \in Ticket
      PROVE  refs'[t] = Cardinality(CallHolders(t)') + Cardinality(JobHolders(t)')
  <2>1. CallHolders(t)' = CallHolders(t)
    BY <1>2 DEF CallHolders
  <2>2. /\ JobHolders(t) \in SUBSET Job /\ CallHolders(t) \in SUBSET Caller
        /\ refs[t] = Cardinality(CallHolders(t)) + Cardinality(JobHolders(t))
    BY DEF JobHolders, CallHolders, IInv, Counts
  <2>3. CASE t = active
    <3>1. JobHolders(t)' = JobHolders(t) \cup {j} /\ j \notin JobHolders(t)
      BY <1>1, <1>2, <2>3, QueueAssumption DEF JobHolders, IInv, TypeOK
    <3>2. Cardinality(JobHolders(t)') = Cardinality(JobHolders(t)) + 1
      BY <2>2, <3>1, CountChange
    <3>3. refs'[t] = refs[t] + 1
      BY <1>1, <1>2, <2>3 DEF IInv, TypeOK
    <3>. QED BY <2>1, <2>2, <3>2, <3>3, Finite
  <2>4. CASE t # active
    <3>1. JobHolders(t)' = JobHolders(t)
      BY <1>1, <1>2, <2>4, QueueAssumption DEF JobHolders, IInv, TypeOK
    <3>2. refs'[t] = refs[t]
      BY <1>2, <2>4 DEF IInv, TypeOK
    <3>. QED BY <2>1, <2>2, <3>1, <3>2
  <2>. QED BY <2>3, <2>4
<1>8. Counts'
  BY ONLY <1>7 DEF Counts
<1>. QED BY <1>3, <1>4, <1>5, <1>6, <1>8 DEF IInv

-----------------------------------------------------------------------------
(* Coming to the queue.                                                    *)

\* A call finds the queue free.
LEMMA EnterStep ==
    ASSUME IInv, NEW c \in Caller, NEW n \in Ticket,
           at[c] = "out", active = None, refs[n] = 0,
           active' = n, refs' = [refs EXCEPT ![n] = 1], open' = open \cup {n},
           ctx' = [ctx EXCEPT ![c] = n], at' = [at EXCEPT ![c] = "in"],
           waiters' = waiters, lease' = lease
    PROVE  /\ QueueOK' /\ Calls' /\ Counts' /\ Line'
           /\ \A j \in Job : lease[j] = None
<1>1. waiters = <<>> /\ waiters' = <<>>
  BY DEF IInv, Line
<1>2. \A x \in Caller : at[x] \in {"out", "queued"} /\ ctx[x] = None
  BY QueueAssumption DEF IInv, Calls, TypeOK
<1>3. \A j \in Job : lease[j] = None
  BY DEF IInv, Leases
<1>4. /\ \A x \in Caller : at'[x] = "in" <=> x = c
      /\ \A x \in Caller : at'[x] = "queued" <=> at[x] = "queued"
      /\ \A x \in Caller : ctx'[x] = IF x = c THEN n ELSE None
  BY <1>2 DEF IInv, TypeOK
<1>5. QueueOK'
  BY DEF QueueOK, IInv, TypeOK
<1>6. Calls'
  BY <1>4 DEF Calls
<1>7. Line'
  BY <1>1, <1>4, QueueAssumption DEF IInv, Line
<1>8. ASSUME NEW t \in Ticket
      PROVE  refs'[t] = Cardinality(CallHolders(t)') + Cardinality(JobHolders(t)')
  <2>1. Cardinality({}) = 0 /\ Cardinality({c}) = 1
    BY FS_EmptySet, FS_Singleton
  <2>2. JobHolders(t)' = {}
    BY <1>3, QueueAssumption DEF JobHolders
  <2>3. CASE t = n
    <3>1. CallHolders(t)' = {c} /\ refs'[t] = 1
      BY <1>4, <2>3 DEF CallHolders, IInv, TypeOK
    <3>. QED BY ONLY <2>1, <2>2, <3>1
  <2>4. CASE t # n
    <3>1. CallHolders(t)' = {} /\ refs'[t] = 0
      BY <1>4, <2>4, OthersAreFree, QueueAssumption DEF CallHolders, IInv, TypeOK
    <3>. QED BY ONLY <2>1, <2>2, <3>1
  <2>. QED BY <2>3, <2>4
<1>9. Counts'
  BY ONLY <1>8 DEF Counts
<1>. QED BY <1>3, <1>5, <1>6, <1>7, <1>9

\* A call that is not in its body moves in or out of the line.
LEMMA LineFrame ==
    ASSUME IInv, NEW c \in Caller, NEW p \in {"out", "queued"},
           at[c] # "in", at' = [at EXCEPT ![c] = p],
           active' = active, refs' = refs, open' = open, ctx' = ctx, lease' = lease
    PROVE  Calls' /\ Counts'
<1>1. \A x \in Caller : at'[x] = "in" <=> at[x] = "in"
  BY DEF IInv, TypeOK
<1>2. Calls'
  BY <1>1 DEF IInv, Calls
<1>3. \A t \in Ticket : CallHolders(t)' = CallHolders(t) /\ JobHolders(t)' = JobHolders(t)
  BY <1>1 DEF CallHolders, JobHolders
<1>4. \A t \in Ticket : refs'[t] = Cardinality(CallHolders(t)) + Cardinality(JobHolders(t))
  BY DEF IInv, Counts
<1>5. Counts'
  BY ONLY <1>3, <1>4 DEF Counts
<1>. QED BY <1>2, <1>5

\* A call joins the line.
LEMMA JoinStep ==
    ASSUME IInv, NEW c \in Caller,
           at[c] = "out", active # None, Len(waiters) < MaxWaiters,
           waiters' = Append(waiters, c), at' = [at EXCEPT ![c] = "queued"],
           active' = active, refs' = refs, open' = open, ctx' = ctx, lease' = lease
    PROVE  QueueOK' /\ Calls' /\ Counts' /\ Line'
<1>1. /\ waiters \in Seq(Caller) /\ at \in [Caller -> {"out", "queued", "in"}]
      /\ \A x \in Caller : at[x] = "queued" <=> \E i \in DOMAIN waiters : waiters[i] = x
      /\ \A i, k \in DOMAIN waiters : waiters[i] = waiters[k] => i = k
  BY DEF IInv, TypeOK, Line
<1>. DEFINE w == Append(waiters, c)
<1>2. /\ w \in Seq(Caller)
      /\ Len(waiters) \in Nat /\ Len(w) = Len(waiters) + 1
      /\ DOMAIN waiters = 1..Len(waiters) /\ DOMAIN w = 1..(Len(waiters) + 1)
      /\ \A i \in 1..Len(waiters) : w[i] = waiters[i]
      /\ w[Len(waiters) + 1] = c
  BY <1>1, AppendLine
<1>3. waiters' = w
  OBVIOUS
<1>. HIDE DEF w
<1>4. QueueOK'
  <2>1. Len(w) <= MaxWaiters
    BY <1>2, QueueAssumption
  <2>. QED BY <1>2, <1>3, <2>1 DEF QueueOK, IInv, TypeOK
<1>5. Calls' /\ Counts'
  BY LineFrame
<1>6. \A i \in 1..Len(waiters) : waiters[i] # c
  BY <1>1, <1>2
<1>7. ASSUME NEW x \in Caller
      PROVE  at'[x] = "queued" <=> \E i \in DOMAIN w : w[i] = x
  <2>1. CASE x = c
    <3>1. Len(waiters) + 1 \in DOMAIN w
      BY <1>2
    <3>. QED BY <1>1, <1>2, <2>1, <3>1
  <2>2. CASE x # c
    <3>1. at'[x] = at[x]
      BY <1>1, <2>2
    <3>2. ASSUME NEW i \in DOMAIN w, w[i] = x
          PROVE  \E k \in DOMAIN waiters : waiters[k] = x
      <4>1. i \in 1..Len(waiters)
        BY <1>2, <2>2, <3>2
      <4>. QED BY <1>2, <3>2, <4>1
    <3>3. ASSUME NEW i \in DOMAIN waiters, waiters[i] = x
          PROVE  \E k \in DOMAIN w : w[k] = x
      <4>1. i \in 1..(Len(waiters) + 1) /\ i \in 1..Len(waiters)
        BY <1>2
      <4>. QED BY <1>2, <3>3, <4>1
    <3>. QED BY <1>1, <3>1, <3>2, <3>3
  <2>. QED BY <2>1, <2>2
<1>8. ASSUME NEW i \in DOMAIN w, NEW k \in DOMAIN w, w[i] = w[k]
      PROVE  i = k
  <2>1. i \in 1..Len(waiters) \/ i = Len(waiters) + 1
    BY <1>2
  <2>2. k \in 1..Len(waiters) \/ k = Len(waiters) + 1
    BY <1>2
  <2>. QED BY <1>1, <1>2, <1>6, <1>8, <2>1, <2>2
<1>9. Line'
  BY <1>3, <1>7, <1>8 DEF Line
<1>. QED BY <1>4, <1>5, <1>9

\* run finds the queue free or joins the line.
LEMMA RequestStep ==
    ASSUME IInv, NEW c \in Caller, NEW target \in Job \cup {None}, Request(c, target)
    PROVE  IInv'
<1>1. /\ at[c] = "out" /\ closes' \in [Caller -> Job \cup {None}]
      /\ UNCHANGED <<jobVars, daemonVars>> /\ lease' = lease
  BY DEF Request, IInv, TypeOK, jobVars
<1>2. CASE active = None
  <2>1. PICK n \in Ticket :
           /\ refs[n] = 0 /\ active' = n /\ refs' = [refs EXCEPT ![n] = 1]
           /\ open' = open \cup {n} /\ ctx' = [ctx EXCEPT ![c] = n]
    BY <1>2 DEF Request
  <2>2. at' = [at EXCEPT ![c] = "in"] /\ waiters' = waiters
    BY <1>2 DEF Request
  <2>3. QueueOK' /\ Calls' /\ Counts' /\ Line' /\ \A j \in Job : lease[j] = None
    BY <1>1, <1>2, <2>1, <2>2, EnterStep
  <2>. QED BY <1>1, <2>3, JobFrame
<1>3. CASE active # None
  <2>1. /\ Len(waiters) < MaxWaiters /\ waiters' = Append(waiters, c)
        /\ at' = [at EXCEPT ![c] = "queued"]
        /\ active' = active /\ refs' = refs /\ open' = open /\ ctx' = ctx
    BY <1>3 DEF Request
  <2>2. QueueOK' /\ Calls' /\ Counts' /\ Line'
    BY <1>1, <1>3, <2>1, JoinStep
  <2>. QED BY <1>1, <2>1, <2>2, JobFrame
<1>. QED BY <1>2, <1>3

\* A waiting call gives up.
LEMMA AbortStep ==
    ASSUME IInv, NEW c \in Caller, Abort(c)
    PROVE  IInv'
<1>1. /\ at[c] = "queued" /\ at' = [at EXCEPT ![c] = "out"]
      /\ closes' \in [Caller -> Job \cup {None}]
      /\ active' = active /\ refs' = refs /\ open' = open /\ ctx' = ctx
      /\ UNCHANGED <<jobVars, daemonVars>> /\ lease' = lease
  BY QueueAssumption DEF Abort, IInv, TypeOK, jobVars
<1>2. PICK i \in DOMAIN waiters :
         /\ waiters[i] = c
         /\ waiters' = Cut(waiters, i)
  BY DEF Abort, Cut
<1>3. /\ waiters \in Seq(Caller) /\ Len(waiters) <= MaxWaiters
      /\ at \in [Caller -> {"out", "queued", "in"}]
      /\ (waiters # <<>> => active # None)
      /\ \A x \in Caller : at[x] = "queued" <=> \E k \in DOMAIN waiters : waiters[k] = x
      /\ \A k, l \in DOMAIN waiters : waiters[k] = waiters[l] => k = l
  BY DEF IInv, TypeOK, Line
<1>4. /\ waiters' \in Seq(Caller)
      /\ Len(waiters) \in Nat /\ Len(waiters') = Len(waiters) - 1
      /\ DOMAIN waiters = 1..Len(waiters) /\ DOMAIN waiters' = 1..(Len(waiters) - 1)
      /\ i \in Nat /\ i >= 1 /\ i <= Len(waiters)
      /\ \A k \in 1..(Len(waiters) - 1) :
            waiters'[k] = IF k < i THEN waiters[k] ELSE waiters[k + 1]
  BY <1>2, <1>3, CutLine
<1>5. QueueOK'
  <2>1. Len(waiters') <= MaxWaiters
    BY <1>3, <1>4, QueueAssumption
  <2>. QED BY <1>1, <1>3, <1>4, <2>1 DEF QueueOK, IInv, TypeOK
<1>6. Calls' /\ Counts'
  BY <1>1, LineFrame
<1>7. active # None
  BY <1>2, <1>3, <1>4, EmptySeq
<1>8. \A k \in 1..(Len(waiters) - 1) :
         \E l \in 1..Len(waiters) :
            waiters'[k] = waiters[l] /\ l # i /\ l = IF k < i THEN k ELSE k + 1
  <2>1. ASSUME NEW k \in 1..(Len(waiters) - 1)
        PROVE  \E l \in 1..Len(waiters) :
                  waiters'[k] = waiters[l] /\ l # i /\ l = IF k < i THEN k ELSE k + 1
    <3>1. CASE k < i
      <4>1. k \in 1..Len(waiters) /\ k # i /\ waiters'[k] = waiters[k]
        BY <1>4, <3>1
      <4>. QED BY <3>1, <4>1
    <3>2. CASE ~(k < i)
      <4>1. k + 1 \in 1..Len(waiters) /\ k + 1 # i /\ waiters'[k] = waiters[k + 1]
        BY <1>4, <3>2
      <4>. QED BY <3>2, <4>1
    <3>. QED BY <3>1, <3>2
  <2>. QED BY <2>1
<1>9. ASSUME NEW x \in Caller
      PROVE  at'[x] = "queued" <=> \E k \in DOMAIN waiters' : waiters'[k] = x
  <2>1. at'[x] = "queued" <=> (at[x] = "queued" /\ x # c)
    BY <1>1, <1>3
  <2>2. ASSUME NEW k \in DOMAIN waiters', waiters'[k] = x
        PROVE  at[x] = "queued" /\ x # c
    <3>1. PICK l \in 1..Len(waiters) : waiters'[k] = waiters[l] /\ l # i
      BY <1>4, <1>8
    <3>2. waiters[l] # c
      BY <1>2, <1>3, <1>4, <3>1
    <3>. QED BY <1>3, <1>4, <2>2, <3>1, <3>2
  <2>3. ASSUME NEW l \in DOMAIN waiters, waiters[l] = x, x # c
        PROVE  \E k \in DOMAIN waiters' : waiters'[k] = x
    <3>1. CASE l < i
      <4>1. l \in 1..(Len(waiters) - 1) /\ waiters'[l] = waiters[l]
        BY <1>4, <3>1
      <4>. QED BY <1>4, <2>3, <4>1
    <3>2. CASE ~(l < i)
      <4>1. l # i
        BY <1>2, <2>3
      <4>2. l - 1 \in 1..(Len(waiters) - 1) /\ ~(l - 1 < i) /\ (l - 1) + 1 = l
        BY <1>4, <3>2, <4>1
      <4>3. waiters'[l - 1] = waiters[l]
        BY <1>4, <4>2
      <4>. QED BY <1>4, <2>3, <4>2, <4>3
    <3>. QED BY <3>1, <3>2
  <2>. QED BY <1>3, <2>1, <2>2, <2>3
<1>10. ASSUME NEW k \in DOMAIN waiters', NEW m \in DOMAIN waiters',
              waiters'[k] = waiters'[m]
       PROVE  k = m
  <2>1. PICK a \in 1..Len(waiters) :
           waiters'[k] = waiters[a] /\ a # i /\ a = IF k < i THEN k ELSE k + 1
    BY <1>4, <1>8
  <2>2. PICK b \in 1..Len(waiters) :
           waiters'[m] = waiters[b] /\ b # i /\ b = IF m < i THEN m ELSE m + 1
    BY <1>4, <1>8
  <2>3. a = b
    <3>1. a \in DOMAIN waiters /\ b \in DOMAIN waiters /\ waiters[a] = waiters[b]
      BY <1>4, <1>10, <2>1, <2>2
    <3>. QED BY <1>3, <3>1
  <2>4. k \in Int /\ m \in Int
    BY <1>4
  <2>. QED BY <1>4, <2>1, <2>2, <2>3, <2>4
<1>11. Line'
  BY <1>1, <1>7, <1>9, <1>10 DEF Line
<1>. QED BY <1>1, <1>5, <1>6, <1>11, JobFrame

-----------------------------------------------------------------------------
(* The theorems.                                                           *)

\* Every step keeps the invariant, one lemma per kind of step.
LEMMA StepInv == IInv /\ [Next]_vars => IInv'
<1>. SUFFICES ASSUME IInv, [Next]_vars PROVE IInv'
  OBVIOUS
<1>1. ASSUME NEW c \in Caller, Call(c) PROVE IInv'
  <2>1. CASE \E target \in Job \cup {None} : Request(c, target)
    BY <2>1, RequestStep
  <2>2. CASE Abort(c)
    BY <2>2, AbortStep
  <2>3. CASE Leave(c)
    BY <2>3, LeaveStep
  <2>4. CASE CloseMedia(c)
    BY <2>4, CloseMediaStep
  <2>5. CASE \E j \in Job : Spawn(c, j)
    BY <2>5, SpawnStep
  <2>6. CASE \E j \in Job : SpawnThrows(c, j) \/ SpawnUnrecorded(c, j)
    BY <2>6, JobSteps
  <2>. QED BY <1>1, <2>1, <2>2, <2>3, <2>4, <2>5, <2>6 DEF Call
<1>2. ASSUME NEW j \in Job, JobEvent(j) PROVE IInv'
  BY <1>2, JobSteps, ObservedStep DEF JobEvent
<1>3. CASE Daemon
  BY <1>3, StopSteps, GoneStep DEF Daemon
<1>4. CASE UNCHANGED vars
  <2>1. /\ UNCHANGED <<jobVars, daemonVars>> /\ UNCHANGED <<queueVars, at, ctx, lease>>
        /\ closes' = closes /\ active' = active
    BY <1>4 DEF vars, queueVars, callVars, jobVars
  <2>2. Calls' /\ Counts' /\ Line'
    BY <2>1, QueueFrame
  <2>3. QueueOK' /\ closes' \in [Caller -> Job \cup {None}]
    BY <2>1 DEF IInv, TypeOK, QueueOK, queueVars
  <2>. QED BY <2>1, <2>2, <2>3, JobFrame
<1>. QED BY <1>1, <1>2, <1>3, <1>4 DEF Next

\* The invariant holds in every reachable state.
LEMMA Invariance == SafeSpec => []IInv
BY InitInv, StepInv, PTL DEF SafeSpec

\* Type correctness, with the limit on the line: run refuses what a full
\* line cannot take, however calls, aborts and releases interleave.
THEOREM TypesHold == SafeSpec => []TypeOK
<1>1. IInv => TypeOK
  BY DEF IInv
<1>. QED BY <1>1, Invariance, PTL

\* MutationQueue.run, RequestTicket.retain and JobManager.start together let
\* nobody work beside another ticket's call, process or scan.
THEOREM OneWriterHolds == SafeSpec => []OneWriter
<1>1. IInv => OneWriter
  <2>. SUFFICES ASSUME IInv PROVE OneWriter
    OBVIOUS
  <2>1. \A j \in Job : Unfinished(j) => lease[j] = active /\ active # None
    BY DEF IInv, Leases
  <2>. QED BY <2>1 DEF OneWriter, IInv, Calls
<1>. QED BY <1>1, Invariance, PTL

\* MutationQueue.finish hands the ticket over or frees the queue exactly when
\* its last holder lets go: the count is the number of holders, always.
THEOREM NoLostTurnHolds == SafeSpec => []NoLostTurn
<1>1. IInv => NoLostTurn
  BY DEF IInv, Counts, Line, NoLostTurn
<1>. QED BY <1>1, Invariance, PTL

\* What JobManager writes into a row agrees with the process, across crashes
\* and restarts of the daemon.
THEOREM RowsHold == SafeSpec => []RowsTellTheTruth
<1>1. IInv => RowsTellTheTruth
  BY DEF IInv
<1>. QED BY <1>1, Invariance, PTL
=============================================================================
