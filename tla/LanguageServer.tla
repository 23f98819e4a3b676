---------------------------- MODULE LanguageServer ----------------------------
(***************************************************************************)
(* The client of one language server: lspService.ts starts, queues, drops  *)
(* and stops, jsonrpc.ts correlates requests with answers and notices that *)
(* the process died.                                                       *)
(*                                                                         *)
(* A call awaits the server's start, its turn in the entry's queue, and    *)
(* its answer: a response to a request, or published diagnostics of the    *)
(* version of the document it has just sent.  The process may answer late, *)
(* never, die, or stop reading its input; the idle timer and the service's *)
(* shutdown do not ask who is waiting.  Servers are numbered in the order  *)
(* of their start, a document's text by how often the file changed.  One   *)
(* document stands for all: that the oldest of 32 open ones is closed and  *)
(* opened anew is left out.                                                *)
(***************************************************************************)
EXTENDS Naturals, FiniteSets, Sequences

CONSTANTS
    Call,
    None,
    ClosesInput,   \* whether a server may close its stdin and live on
    MaxServers,    \* bound: processes started
    MaxText        \* bound: changes of the file

LanguageServerAssumption ==
    ClosesInput \in BOOLEAN /\ MaxServers \in Nat /\ MaxText \in Nat
    /\ None \notin Nat \cup {"published"}

Server == 1 .. MaxServers
TextNo == 0 .. MaxText

VARIABLES
    current,     \* servers.get(language)
    phase,       \* of each process
    told,        \* processes that were killed or asked to exit
    input,       \* of each process: "open", "closed", "destroyed"
    queue,       \* entry.queue: the calls that wait or run on it
    version,     \* entry.open: the document's version, 0 when not open
    sent,        \* didOpen and didChange not yet read
    published,   \* diagnostics not yet received
    shown,       \* entry.diagnostics
    call,
    text,        \* the file
    closed,      \* the service was shut down
    daemon       \* "up", or "down" after an exception nobody catches

lspVars == <<current, phase, told, input, queue, version, sent, published, shown,
             call, text, closed, daemon>>
wire == <<version, sent, published, shown>>

NoCall == [pc |-> "none", on |-> None, kind |-> "request", at |-> 0, text |-> 0,
           got |-> None, how |-> None]

LspTypeOK ==
    /\ current \in Server \cup {None}
    /\ phase \in [Server -> {"none", "starting", "ready", "dead"}]
    /\ told \subseteq Server
    /\ input \in [Server -> {"open", "closed", "destroyed"}]
    /\ queue \in [Server -> Seq(Call)]
    /\ version \in [Server -> Nat]
    /\ call \in [Call -> [pc : {"none", "start", "queued", "asked", "answered", "failed"},
                          on : Server \cup {None}, kind : {"request", "publish"},
                          at : Nat, text : TextNo, got : TextNo \cup {None},
                          how : {None, "response", "published", "waited", "dropped"}]]
    /\ text \in TextNo /\ closed \in BOOLEAN /\ daemon \in {"up", "down"}

LspInit ==
    /\ current = None /\ phase = [s \in Server |-> "none"] /\ told = {}
    /\ input = [s \in Server |-> "open"] /\ queue = [s \in Server |-> <<>>]
    /\ version = [s \in Server |-> 0] /\ sent = [s \in Server |-> <<>>]
    /\ published = [s \in Server |-> <<>>] /\ shown = [s \in Server |-> None]
    /\ call = [c \in Call |-> NoCall]
    /\ text = 0 /\ closed = FALSE /\ daemon = "up"

Alive(s) == phase[s] \in {"starting", "ready"}

\* The calls that end leave the queue: only its head has begun.
Without(s, ended) ==
    [queue EXCEPT ![s] = IF @ # <<>> /\ Head(@) \in ended THEN Tail(@) ELSE @]
FailedOf(calls, C) ==
    [c \in Call |-> IF c \in C THEN [calls[c] EXCEPT !.pc = "failed"] ELSE calls[c]]

Result(c, got, how) == [call[c] EXCEPT !.pc = "answered", !.got = got, !.how = how]

\* dropServer: out of the map, and killed.
Dropped(s) == current' = (IF current = s THEN None ELSE current) /\ told' = told \cup {s}

-----------------------------------------------------------------------------
(* The life of a process *)

\* Broken: nobody looks whether a server runs or starts already.
NextServerUnchecked(c, kind) ==
    \E s \in Server :
        /\ phase[s] = "none" /\ \A r \in 1 .. s - 1 : phase[r] # "none"
        /\ phase' = [phase EXCEPT ![s] = "starting"] /\ current' = s
        /\ call' = [call EXCEPT ![c] = [NoCall EXCEPT !.pc = "start", !.on = s, !.kind = kind]]

\* ensureServer starts one when the map has none alive.
NextServer(c, kind) ==
    \E s \in Server :
        /\ current # None => ~Alive(current)
        /\ phase[s] = "none" /\ \A r \in 1 .. s - 1 : phase[r] # "none"
        /\ phase' = [phase EXCEPT ![s] = "starting"] /\ current' = s
        /\ call' = [call EXCEPT ![c] = [NoCall EXCEPT !.pc = "start", !.on = s, !.kind = kind]]

Ask(c) ==
    /\ daemon = "up" /\ call[c].pc = "none"
    /\ \E kind \in {"request", "publish"} :
        \/ closed /\ call' = [call EXCEPT ![c].pc = "failed"] /\ UNCHANGED <<current, phase>>
        \/ ~closed /\ NextServer(c, kind)
        \/ /\ ~closed /\ current # None /\ Alive(current)
           /\ call' = [call EXCEPT ![c] = [NoCall EXCEPT !.pc = "start", !.on = current,
                                                         !.kind = kind]]
           /\ UNCHANGED <<current, phase>>
    /\ UNCHANGED <<told, input, queue, wire, text, closed, daemon>>

Starting(s) == {c \in Call : call[c].pc = "start" /\ call[c].on = s}

Started(s) ==
    /\ daemon = "up" /\ phase[s] = "starting"
    /\ phase' = [phase EXCEPT ![s] = "ready"]
    /\ UNCHANGED <<current, told, input, queue, wire, call, text, closed, daemon>>

\* initialize timed out or was refused: everyone who awaits it fails.
StartFailed(s) ==
    /\ daemon = "up" /\ phase[s] = "starting" /\ input[s] = "open"
    /\ Dropped(s)
    /\ phase' = [phase EXCEPT ![s] = "dead"]
    /\ call' = FailedOf(call, Starting(s))
    /\ UNCHANGED <<input, queue, wire, text, closed, daemon>>

\* The process is gone.  markDead rejects the pending requests; the listener
\* of the current entry drops it, and that ends the wait for diagnostics as
\* if they had come.  The others on the queue will find the process dead.
Exit(s) ==
    /\ daemon = "up" /\ Alive(s)
    /\ phase' = [phase EXCEPT ![s] = "dead"]
    /\ Dropped(s)
    /\ LET asked == {c \in Call : call[c].pc = "asked" /\ call[c].on = s}
           waiting == {c \in asked : call[c].kind = "publish"}
           failed == (asked \ waiting) \cup (IF phase[s] = "starting" THEN Starting(s) ELSE {})
           ended == failed \cup (IF current = s THEN waiting ELSE {})
       IN  /\ call' = [c \in Call |->
                  IF c \in failed THEN [call[c] EXCEPT !.pc = "failed"]
                  ELSE IF c \in ended THEN Result(c, shown[s], "dropped") ELSE call[c]]
           /\ queue' = Without(s, ended)
    /\ UNCHANGED <<input, wire, text, closed, daemon>>

\* Ten minutes after the last call ended, whoever has asked meanwhile.
IdleShutdown(s) ==
    /\ daemon = "up" /\ current = s /\ phase[s] = "ready"
    /\ current' = None /\ told' = told \cup {s}
    /\ UNCHANGED <<phase, input, queue, wire, call, text, closed, daemon>>

Shutdown ==
    /\ daemon = "up" /\ ~closed /\ closed' = TRUE
    /\ current' = None /\ told' = told \cup ({current} \ {None})
    /\ UNCHANGED <<phase, input, queue, wire, call, text, daemon>>

-----------------------------------------------------------------------------
(* One call *)

Enter(c) ==
    LET s == call[c].on IN
    /\ daemon = "up" /\ call[c].pc = "start" /\ phase[s] \in {"ready", "dead"}
    /\ call' = [call EXCEPT ![c].pc = "queued"]
    /\ queue' = [queue EXCEPT ![s] = Append(@, c)]
    /\ UNCHANGED <<current, phase, told, input, wire, text, closed, daemon>>

\* Its turn: the file's current text goes to the server under a new version.
Open(c) ==
    LET s == call[c].on IN
    /\ daemon = "up" /\ call[c].pc = "queued" /\ Head(queue[s]) = c
    /\ Alive(s) /\ input[s] # "destroyed"
    /\ version' = [version EXCEPT ![s] = @ + 1]
    /\ sent' = IF input[s] = "open"
               THEN [sent EXCEPT ![s] = Append(@, <<version[s] + 1, text>>)] ELSE sent
    /\ input' = [input EXCEPT ![s] = IF @ = "closed" THEN "destroyed" ELSE @]
    /\ call' = [call EXCEPT ![c] = [@ EXCEPT !.pc = "asked", !.at = version[s] + 1,
                                             !.text = text]]
    /\ UNCHANGED <<current, phase, told, queue, published, shown, text, closed, daemon>>

\* The write throws: the process is dead or its input is gone.
CannotSend(c) ==
    LET s == call[c].on IN
    /\ daemon = "up" /\ call[c].pc = "queued" /\ Head(queue[s]) = c
    /\ ~Alive(s) \/ input[s] = "destroyed"
    /\ call' = [call EXCEPT ![c].pc = "failed"] /\ queue' = Without(s, {c})
    /\ UNCHANGED <<current, phase, told, input, wire, text, closed, daemon>>

Answered(c, got, how) ==
    /\ call' = [call EXCEPT ![c] = Result(c, got, how)]
    /\ queue' = Without(call[c].on, {c})

\* The server reads the next text and publishes what it finds in it, and it
\* answers requests about the text it has.
Serve(s) ==
    /\ daemon = "up" /\ Alive(s) /\ sent[s] # <<>>
    /\ sent' = [sent EXCEPT ![s] = Tail(@)]
    /\ published' = [published EXCEPT ![s] = Append(@, Head(sent[s]))]
    /\ UNCHANGED <<current, phase, told, input, queue, version, shown, call, text,
                   closed, daemon>>

Respond(c) ==
    LET s == call[c].on IN
    /\ daemon = "up" /\ call[c].pc = "asked" /\ call[c].kind = "request"
    /\ Alive(s) /\ input[s] = "open" /\ sent[s] = <<>>
    /\ Answered(c, call[c].text, "response")
    /\ UNCHANGED <<current, phase, told, input, wire, text, closed, daemon>>

\* Broken: any diagnostics of the document end the wait.
WaitedForAny(s, v) ==
    {c \in Call : call[c].pc = "asked" /\ call[c].kind = "publish" /\ call[c].on = s}

\* The waiters that diagnostics of this version satisfy.
WaitedFor(s, v) ==
    {c \in Call : /\ call[c].pc = "asked" /\ call[c].kind = "publish" /\ call[c].on = s
                  /\ v >= call[c].at}

Receive(s) ==
    /\ daemon = "up" /\ Alive(s) /\ published[s] # <<>>
    /\ published' = [published EXCEPT ![s] = Tail(@)]
    /\ LET d == Head(published[s]) IN
        /\ shown' = [shown EXCEPT ![s] = d[2]]
        /\ IF WaitedFor(s, d[1]) = {}
           THEN UNCHANGED <<call, queue>>
           ELSE \E c \in WaitedFor(s, d[1]) : Answered(c, d[2], "published")
    /\ UNCHANGED <<current, phase, told, input, version, sent, text, closed, daemon>>

\* Three seconds without diagnostics: what is known, marked as degraded.
NoDiagnostics(c) ==
    /\ daemon = "up" /\ call[c].pc = "asked" /\ call[c].kind = "publish"
    /\ Answered(c, shown[call[c].on], "waited")
    /\ UNCHANGED <<current, phase, told, input, wire, text, closed, daemon>>

\* Broken: a request that timed out leaves its server in the map, and itself
\* at the head of the queue.
TimeoutUnreleased(c) ==
    /\ daemon = "up" /\ call[c].pc = "asked" /\ call[c].kind = "request"
    /\ call' = [call EXCEPT ![c].pc = "failed"]
    /\ UNCHANGED <<current, phase, told, input, queue, wire, text, closed, daemon>>

\* The request's timer: $/cancelRequest, then the rejection, then the entry is
\* dropped.  When the input is destroyed the notification throws in the timer.
Timeout(c) ==
    LET s == call[c].on IN
    /\ daemon = "up" /\ call[c].pc = "asked" /\ call[c].kind = "request"
    /\ IF input[s] = "destroyed"
       THEN daemon' = "down" /\ UNCHANGED <<call, queue, current, told>>
       ELSE /\ call' = [call EXCEPT ![c].pc = "failed"] /\ queue' = Without(s, {c})
            /\ Dropped(s) /\ UNCHANGED daemon
    /\ UNCHANGED <<phase, input, wire, text, closed>>

-----------------------------------------------------------------------------
(* The world *)

Edit ==
    /\ text < MaxText /\ text' = text + 1
    /\ UNCHANGED <<current, phase, told, input, queue, wire, call, closed, daemon>>

CloseInput(s) ==
    /\ ClosesInput /\ Alive(s) /\ input[s] = "open"
    /\ input' = [input EXCEPT ![s] = "closed"]
    /\ UNCHANGED <<current, phase, told, queue, wire, call, text, closed, daemon>>

LspNext ==
    \/ \E c \in Call : \/ Ask(c) \/ Enter(c) \/ Open(c) \/ CannotSend(c) \/ Respond(c)
                       \/ NoDiagnostics(c) \/ Timeout(c)
    \/ \E s \in Server : \/ Started(s) \/ StartFailed(s) \/ Exit(s) \/ IdleShutdown(s)
                         \/ Serve(s) \/ Receive(s) \/ CloseInput(s)
    \/ Shutdown \/ Edit

\* Node runs timers and continuations; nothing is assumed of the server but
\* that a process that was killed is gone some time.
CallGoesOn(c) == Enter(c) \/ Open(c) \/ CannotSend(c) \/ NoDiagnostics(c) \/ Timeout(c)
StartEnds(s) == Started(s) \/ StartFailed(s)
Killed(s) == s \in told /\ Exit(s)

LspFairness ==
    /\ \A c \in Call : WF_lspVars(CallGoesOn(c))
    /\ \A s \in Server : WF_lspVars(StartEnds(s)) /\ WF_lspVars(Killed(s))

LspSpec == LspInit /\ [][LspNext]_lspVars /\ LspFairness

-----------------------------------------------------------------------------
(* Properties *)

\* Every call ends, whatever its server does: it is not left at the queue of
\* a process that died, was dropped, or was stopped as idle under it.
CallsAnswered ==
    \A c \in Call : call[c].pc # "none" ~> call[c].pc \in {"answered", "failed"}

\* A process that runs is the one new calls go to, or was told to stop: what
\* happens to an older process never loses the newer one.
NoStrayServer == \A s \in Server : Alive(s) /\ s # current => s \in told

\* Diagnostics that ended a wait are of the text the call sent or of a later
\* one, however late the server publishes.
PublishedInOrder ==
    \A c \in Call : call[c].how = "published" => call[c].got >= call[c].text

\* "arm a diagnostics waiter for exactly this version" (lspService.ts:856):
\* what is not marked as degraded is of the text that was sent.
DiagnosticsFresh ==
    \A c \in Call : call[c].pc = "answered" /\ call[c].how # "waited" =>
        call[c].got # None /\ call[c].got >= call[c].text

\* "Request/response correlation with a per-request timeout" (jsonrpc.ts:14):
\* no request outlives its timer unanswered.
RequestTimesOut == daemon = "down" => \A c \in Call : call[c].pc # "asked"
=============================================================================
