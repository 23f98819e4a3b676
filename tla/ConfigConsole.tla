--------------------------- MODULE ConfigConsole ---------------------------
(* The owner's Config page, in a browser of the machine or of elsewhere: the *)
(* page and what it shows (server/configUi/app.js), the one-hour remote      *)
(* lease with its pairing code and cookie (server/remoteConfig.ts,           *)
(* configSession.ts), and the loopback server that takes each request while  *)
(* the workspace may change under the page (localConfig.ts, aiAdmin.ts).     *)
(* A workspace with its epoch is a number: the host moves from one to the    *)
(* next.  Tokens are the lease they belong to, 0 for the local one.          *)
EXTENDS Naturals, TLC

CONSTANTS
    Request,    \* requests of the page that can be under way, and changes it makes
    None,       \* no request
    MaxOpens,   \* remote leases opened at most
    MaxSwitches

ConsoleAssumption == MaxOpens \in Nat /\ MaxSwitches \in Nat

VARIABLES
    at,         \* the current workspace and epoch
    ready,      \* the host is not switching
    lease,      \* the open remote lease, 0 for none
    opened,     \* remote leases so far
    code,       \* the pairing code can still be used
    known,      \* the lease whose cookie the gateway accepts, 0 for none
    cookie,     \* the lease whose cookie the remote browser holds, 0 for none
    localOpen,  \* the local link has not expired
    shown,      \* what the page last rendered, 0 for nothing
    list,       \* of projects or clients: where it was loaded, and the load that is awaited
    request     \* what became of each request

consoleVars == <<at, ready, lease, opened, code, known, cookie, localOpen, shown, list, request>>
gatewayVars == <<lease, opened, code, known, cookie, localOpen>>

Context == 0 .. (MaxSwitches + 1)
Blank(what, stage) == [kind |-> what, stage |-> stage, of |-> 0, context |-> 0,
                       token |-> 0, capability |-> 0, got |-> 0, live |-> TRUE]
Fresh == Blank("none", "idle")

RequestRow ==
    [kind: {"none", "state", "load", "post", "action"},
     stage: {"idle", "sent", "forwarded", "accepted", "answered", "over"},
     of: Context, context: Context, token: 0 .. MaxOpens, capability: 0 .. MaxOpens,
     got: Context, live: BOOLEAN]

ConsoleInit ==
    /\ at = 1 /\ ready = TRUE
    /\ lease = 0 /\ opened = 0 /\ code = FALSE /\ known = 0 /\ cookie = 0 /\ localOpen = TRUE
    /\ shown = 0
    /\ list = [of |-> 0, load |-> None]
    /\ request = [r \in Request |-> Fresh]

Live(session) == IF session = 0 THEN localOpen ELSE lease = session

-----------------------------------------------------------------------------
(* The remote lease. *)

\* Broken: the cookie of the lease before goes on being accepted.
OpenKeepingCookie ==
    /\ opened < MaxOpens
    /\ opened' = opened + 1
    /\ lease' = opened + 1 /\ code' = TRUE
    /\ UNCHANGED <<at, ready, known, cookie, localOpen, shown, list, request>>

\* `dodo --web`: whatever was open is closed first, its session and its cookie with it.
OpenLease ==
    /\ opened < MaxOpens
    /\ opened' = opened + 1
    /\ lease' = opened + 1 /\ code' = TRUE /\ known' = 0
    /\ UNCHANGED <<at, ready, cookie, localOpen, shown, list, request>>

\* The owner closes it, or its hour is over.
CloseLease ==
    /\ lease # 0
    /\ lease' = 0 /\ code' = FALSE /\ known' = 0
    /\ UNCHANGED <<at, ready, opened, cookie, localOpen, shown, list, request>>

\* The code is worth one exchange; after ten minutes or ten attempts, none.
Pair ==
    /\ lease # 0 /\ code
    /\ code' = FALSE
    /\ \/ known' = lease /\ cookie' = lease
       \/ UNCHANGED <<known, cookie>>
    /\ UNCHANGED <<at, ready, lease, opened, localOpen, shown, list, request>>

LocalExpires ==
    /\ localOpen
    /\ localOpen' = FALSE
    /\ UNCHANGED <<at, ready, lease, opened, code, known, cookie, shown, list, request>>

-----------------------------------------------------------------------------
(* The page. *)

Sent(r, what, token, of, context) ==
    /\ request[r].stage = "idle"
    /\ request' = [request EXCEPT ![r] =
           [kind |-> what, stage |-> "sent", of |-> of, context |-> context, token |-> token,
            capability |-> 0, got |-> 0, live |-> TRUE]]

\* One refresh at a time: a second call joins the first.
Refreshing == \E r \in Request : request[r].kind = "state" /\ request[r].stage # "over"

Refresh(r) ==
    /\ ~Refreshing
    /\ Sent(r, "state", 0, 0, 0)
    /\ UNCHANGED <<at, ready, gatewayVars, shown, list>>

\* The state arrives.  Of another workspace, it ends the load under way; the
\* list of projects is left with what it was loaded with (those of clients are emptied).
Render(r) ==
    /\ request[r].kind = "state" /\ request[r].stage = "answered"
    /\ request' = [request EXCEPT ![r] = Fresh]
    /\ shown' = request[r].got
    /\ \/ shown \in {0, request[r].got} /\ list' = list
       \/ shown \notin {0, request[r].got} /\ \E of \in {0, list.of} : list' = [of |-> of, load |-> None]
    /\ UNCHANGED <<at, ready, gatewayVars>>

Load(r) ==
    /\ shown # 0
    /\ Sent(r, "load", 0, 0, shown)
    /\ \E of \in {0, list.of} : list' = [of |-> of, load |-> r]
    /\ UNCHANGED <<at, ready, gatewayVars, shown>>

\* An answer is shown when no later load began and the page still shows its workspace.
Loaded(r) ==
    /\ request[r].kind = "load" /\ request[r].stage = "answered"
    /\ request' = [request EXCEPT ![r] = Fresh]
    /\ list' = IF list.load = r /\ request[r].got = shown THEN [of |-> request[r].got, load |-> None] ELSE list
    /\ UNCHANGED <<at, ready, gatewayVars, shown>>

\* The owner decides on what a list shows.  The list keeps the context it was
\* loaded in, and that is what the decision is sent with.
Decide(r) ==
    /\ list.of # 0
    /\ \E token \in {0, cookie} : Sent(r, "post", token, list.of, list.of)
    /\ UNCHANGED <<at, ready, gatewayVars, shown, list>>

\* An owner action of the workbench on what the page shows.
Command(r) ==
    /\ shown # 0
    /\ \E token \in {0, cookie} : Sent(r, "action", token, shown, shown)
    /\ UNCHANGED <<at, ready, gatewayVars, shown, list>>

-----------------------------------------------------------------------------
(* The way of a request. *)

\* A read that fails is over, and may be sent again; a change stays refused.
Refused(r) ==
    request' = [request EXCEPT ![r] = IF @.kind \in {"state", "load"} THEN Fresh
                                      ELSE Blank(@.kind, "over")]

Change(r) == request[r].kind \in {"post", "action"}

\* Through the gateway when it is remote: the cookie is checked, and the
\* request goes on under the capability of the lease that is open then.
Forward(r) ==
    /\ Change(r) /\ request[r].stage = "sent"
    /\ IF request[r].token = 0 THEN request' = [request EXCEPT ![r].stage = "forwarded"]
       ELSE IF lease # 0 /\ known = request[r].token
            THEN request' = [request EXCEPT ![r].stage = "forwarded", ![r].capability = lease]
            ELSE Refused(r)
    /\ UNCHANGED <<at, ready, gatewayVars, shown, list>>

\* The local server knows the capability, or answers 401 (or 429, past its rate).
Accept(r) ==
    /\ request[r].stage = "forwarded"
    /\ \/ Live(request[r].capability) /\ request' = [request EXCEPT ![r].stage = "accepted"]
       \/ Refused(r)
    /\ UNCHANGED <<at, ready, gatewayVars, shown, list>>

Reviewed(r) == ready /\ request[r].context = at

Answered(r) ==
    request' = [request EXCEPT ![r] = [@ EXCEPT !.stage = "answered", !.got = at,
                                                !.live = Live(request[r].capability)]]

\* A read is let in the same way, or refused; a list is read only in the
\* workspace the page shows.
Read(r) ==
    /\ request[r].kind \in {"state", "load"} /\ request[r].stage = "sent"
    /\ \/ (request[r].kind = "load" => Reviewed(r)) /\ Answered(r)
       \/ Refused(r)
    /\ UNCHANGED <<at, ready, gatewayVars, shown, list>>

\* The body was read; the handler runs in one go.
Post(r) ==
    /\ request[r].stage = "accepted" /\ request[r].kind = "post"
    /\ IF Reviewed(r) THEN Answered(r) ELSE Refused(r)
    /\ UNCHANGED <<at, ready, gatewayVars, shown, list>>

\* An owner action waits for its project's runtime, and is reviewed again after.
Act(r) ==
    /\ request[r].stage = "accepted" /\ request[r].kind = "action"
    /\ IF Live(request[r].capability) /\ request[r].context = at THEN Answered(r) ELSE Refused(r)
    /\ UNCHANGED <<at, ready, gatewayVars, shown, list>>

-----------------------------------------------------------------------------
(* The host. *)

SwitchStarts ==
    /\ ready /\ at <= MaxSwitches
    /\ ready' = FALSE
    /\ UNCHANGED <<at, gatewayVars, shown, list, request>>

SwitchEnds ==
    /\ ~ready
    /\ ready' = TRUE /\ at' \in {at, at + 1}
    /\ UNCHANGED <<gatewayVars, shown, list, request>>

ConsoleNext ==
    \/ OpenLease \/ CloseLease \/ Pair \/ LocalExpires \/ SwitchStarts \/ SwitchEnds
    \/ \E r \in Request :
          \/ Refresh(r) \/ Render(r) \/ Load(r) \/ Loaded(r) \/ Decide(r) \/ Command(r)
          \/ Forward(r) \/ Accept(r) \/ Read(r) \/ Post(r) \/ Act(r)

ConsoleSpec == ConsoleInit /\ [][ConsoleNext]_consoleVars

-----------------------------------------------------------------------------
ConsoleTypeOK ==
    /\ at \in Context \ {0} /\ ready \in BOOLEAN
    /\ lease \in 0 .. MaxOpens /\ opened \in 0 .. MaxOpens
    /\ known \in 0 .. MaxOpens /\ cookie \in 0 .. MaxOpens
    /\ code \in BOOLEAN /\ localOpen \in BOOLEAN
    /\ shown \in Context
    /\ list \in [of: Context, load: Request \cup {None}]
    /\ request \in [Request -> RequestRow]

\* A decision takes effect only in the workspace, and the epoch of it, whose
\* data the owner was looking at when taking it, however late it arrives and
\* whatever the page has shown meanwhile.  (localConfig.ts:208 "Bind every
\* mutation to the workspace the owner actually reviewed".)
DecidedAsShown ==
    \A r \in Request :
        request[r].kind \in {"post", "action"} /\ request[r].stage = "answered" => request[r].got = request[r].of

\* A request that came with the cookie of one remote lease is never served
\* under another: opening a lease ends whatever the one before had paired.
LeasesApart ==
    \A r \in Request :
        request[r].token # 0 /\ request[r].stage \in {"forwarded", "accepted", "answered"}
            => request[r].capability = request[r].token

\* An owner action takes effect only while the session it came in is open,
\* though it has waited for a runtime since it was let in.
ActedWhileOpen ==
    \A r \in Request : request[r].kind = "action" /\ request[r].stage = "answered" => request[r].live

ConsoleSound == DecidedAsShown /\ LeasesApart /\ ActedWhileOpen
=============================================================================
