------------------------------ MODULE CodeWorkers ------------------------------
(* The two threads that read code for the daemon: the TypeScript worker       *)
(* behind the semantic tools (services/intelligence) and the parser of the    *)
(* project brain (services/brain/brainParser.ts).  A request waits under a    *)
(* timer; a worker answers one at a time, may hang, fail or exit, and is      *)
(* ended with everyone who waits when one of them has waited too long.  The   *)
(* plans the semantic tools make of the answers (tools/semanticTools.ts,      *)
(* assistanceTools.ts) are of the one file that is modelled, which changes    *)
(* under them.                                                                *)
EXTENDS Naturals, Sequences, SequencesExt

CONSTANTS
    Request,
    None,
    MaxText,     \* bound: the file's text goes from 0 to this
    MaxFaults    \* bound: worker failures and exits

Asked == [stage : {"idle", "pending", "answered", "planned", "over"},
          op : {None, "parse", "read", "rename", "refactor"},
          expected : 0 .. MaxText, read : 0 .. MaxText, plan : {None} \cup 0 .. MaxText]

CodeWorkersAssumption == MaxText \in Nat /\ MaxFaults \in Nat /\ None \notin Request

VARIABLES
    host,      \* whose worker this is: intel or brain
    text,      \* the file, by version
    there,     \* BOOLEAN: a worker is known to the host
    inbox,     \* Seq(Request): posted to it and not begun
    busy,      \* Request or None: what it works at
    mail,      \* answers of this worker and of those before it
    failing,   \* BOOLEAN: an ended worker's error may still come
    closed,    \* BOOLEAN: the host was shut down
    request,   \* what became of each
    faults

workersVars == <<host, text, there, inbox, busy, mail, failing, closed, request, faults>>
workerVars == <<there, inbox, busy>>

Fresh == [stage |-> "idle", op |-> None, expected |-> 0, read |-> 0, plan |-> None]
Over == [Fresh EXCEPT !.stage = "over"]

WorkersInit ==
    /\ host \in {"intel", "brain"}
    /\ text = 0
    /\ there = FALSE /\ inbox = <<>> /\ busy = None
    /\ mail = {} /\ failing = FALSE /\ closed = FALSE
    /\ request = [r \in Request |-> Fresh]
    /\ faults = 0

\* Those under their timer.
Pending == {r \in Request : request[r].stage = "pending"}

-----------------------------------------------------------------------------
(* The host's side.                                                           *)

Edit == /\ text < MaxText
        /\ text' = text + 1
        /\ UNCHANGED <<host, workerVars, mail, failing, closed, request, faults>>

Posted(r, op, seen) ==
    /\ request' = [request EXCEPT ![r] = [Fresh EXCEPT !.stage = "pending", !.op = op, !.expected = seen]]
    /\ there' = TRUE /\ inbox' = Append(inbox, r)
    /\ UNCHANGED <<host, text, busy, mail, failing, closed, faults>>

\* The text to parse comes with the request, and the parser may be closed.
Parse(r) ==
    /\ host = "brain" /\ request[r].stage = "idle" /\ ~closed
    /\ Posted(r, "parse", 0)

\* A worker is started when none is known.  The caller of a refactoring gives
\* the hash of a text it has read.
Ask(r) ==
    /\ host = "intel" /\ request[r].stage = "idle"
    /\ \/ \E op \in {"read", "rename"} : Posted(r, op, 0)
       \/ \E seen \in 0 .. text : Posted(r, "refactor", seen)

\* The worker and what was posted to it are given up.
Forgotten == there' = FALSE /\ inbox' = <<>> /\ busy' = None

\* Everyone who waits is answered, and the worker, whichever it is, terminated.
Restarted ==
    /\ Forgotten
    /\ failing' = there
    /\ request' = [r \in Request |-> IF r \in Pending THEN Over ELSE request[r]]

Timeout(r) ==
    /\ r \in Pending
    /\ Restarted
    /\ UNCHANGED <<host, text, mail, closed, faults>>

\* An 'error' event restarts, also one of a worker that was terminated before.
Fails ==
    /\ \/ there /\ faults < MaxFaults /\ faults' = faults + 1
       \/ failing /\ faults' = faults
    /\ Restarted
    /\ UNCHANGED <<host, text, mail, closed>>

\* An 'exit' without one leaves those who wait to their timers.
Exits ==
    /\ there /\ faults < MaxFaults
    /\ faults' = faults + 1
    /\ Forgotten
    /\ UNCHANGED <<host, text, mail, failing, closed, request>>

\* The owner pauses the indexing.
Cancel ==
    /\ host = "brain" /\ Pending # {}
    /\ Restarted
    /\ UNCHANGED <<host, text, mail, closed, faults>>

\* The parser answers everyone; the semantic service only ends its worker, and
\* whoever asks it later has a new one started.
Shutdown ==
    /\ ~closed
    /\ closed' = TRUE
    /\ IF host = "brain" THEN Restarted
       ELSE Forgotten /\ UNCHANGED <<failing, request>>
    /\ UNCHANGED <<host, text, mail, faults>>

-----------------------------------------------------------------------------
(* The worker's side, one message at a time.                                  *)

Take ==
    /\ there /\ busy = None /\ inbox # <<>>
    /\ busy' = Head(inbox) /\ inbox' = Tail(inbox)
    /\ request' = [request EXCEPT ![Head(inbox)].read = IF host = "brain" THEN 0 ELSE text]
    /\ UNCHANGED <<host, text, there, mail, failing, closed, faults>>

Answer(allowed) ==
    /\ busy # None
    /\ \E result \in {"ok", "refused"} :
          /\ result = "ok" => allowed
          /\ mail' = mail \cup {[of |-> busy, result |-> result]}
    /\ busy' = None
    /\ UNCHANGED <<host, text, there, inbox, failing, closed, request, faults>>

\* The handler of the operation, or its error.  A refactoring needs the text
\* whose hash the caller has.
Done == Answer(request[busy].op = "refactor" => request[busy].read = request[busy].expected)

\* An answer nobody waits for any longer is dropped.
Deliver(m) ==
    /\ m \in mail
    /\ mail' = mail \ {m}
    /\ request' = IF m.of \notin Pending THEN request
                  ELSE IF m.result = "ok" THEN [request EXCEPT ![m.of].stage = "answered"]
                  ELSE [request EXCEPT ![m.of] = Over]
    /\ UNCHANGED <<host, text, workerVars, failing, closed, faults>>

-----------------------------------------------------------------------------
(* The tool that asked goes on with the answer.                               *)

Planned(r, op, base) ==
    /\ request[r].stage = "answered" /\ request[r].op = op
    /\ request' = [request EXCEPT ![r].stage = "planned", ![r].plan = base]
    /\ UNCHANGED <<host, text, workerVars, mail, failing, closed, faults>>

\* The replacement is planned against the hash the worker read; the plan of
\* another text is refused.
PlanRefactor(r) == text = request[r].read /\ Planned(r, "refactor", text)

\* The spans of a renaming are planned on what the file is by now.
PlanRename(r) == Planned(r, "rename", text)

WorkersNext ==
    \/ Edit \/ Fails \/ Exits \/ Cancel \/ Shutdown \/ Take \/ Done
    \/ \E r \in Request : Parse(r) \/ Ask(r) \/ Timeout(r) \/ PlanRefactor(r) \/ PlanRename(r)
    \/ \E m \in mail : Deliver(m)

WorkersSpec == WorkersInit /\ [][WorkersNext]_workersVars

-----------------------------------------------------------------------------
WorkersTypeOK ==
    /\ text \in 0 .. MaxText /\ faults \in 0 .. MaxFaults
    /\ {there, failing, closed} \subseteq BOOLEAN
    /\ busy \in Request \cup {None} /\ inbox \in Seq(Request)
    /\ host \in {"intel", "brain"}
    /\ mail \subseteq [of : Request, result : {"ok", "refused"}]
    /\ request \in [Request -> Asked]

\* A worker works only for somebody: whoever stopped waiting, by timeout,
\* failure, cancellation or the end of the service, has taken it away.
\* (intelService.ts:20 "a hung worker is terminated and restarted".)
WorksForSomebody == ToSet(inbox) \cup ({busy} \ {None}) \subseteq Pending

\* The brain's parser stays closed: no worker and nobody waiting, though errors
\* of the worker it had still come in.
ParserStaysClosed == host = "brain" /\ closed => ~there /\ Pending = {}

\* A refactoring that was planned is of the text its caller had read, though
\* the file changed while the request waited, was read and was answered.
RefactoredAsRead ==
    \A r \in Request :
        request[r].op = "refactor" /\ request[r].plan # None => request[r].plan = request[r].expected

\* What does not hold: the spans of a renaming belong to the text they are
\* planned on.  (The planner is given no hash with them, planner.ts:182.)
SpansFit ==
    \A r \in Request : request[r].op = "rename" /\ request[r].plan # None => request[r].plan = request[r].read

WorkersSound == WorksForSomebody /\ ParserStaysClosed /\ RefactoredAsRead
=============================================================================
