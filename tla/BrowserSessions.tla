--------------------------- MODULE BrowserSessions ---------------------------
(* Isolated browsers (multimodal/browserService.ts): a session is launched,  *)
(* loads its page, is observed and acted on by one call at a time, and ends  *)
(* by its client, by the sweep or with the service; and the runs of saved    *)
(* workflows that act in them one step at a time (workflowService.ts).  What *)
(* a page shows is left out: a check of it succeeds or fails.                *)
EXTENDS Naturals, FiniteSets

CONSTANTS
    Session, Run, None,
    Limit,            \* sessions at a time (3 in the code)
    Steps,            \* of the workflow
    MaxObservations

CallRow == [run: Run \cup {None}, what: {"observe", "act"}, on: 0 .. MaxObservations,
            stage: {"checks", "acts", "captures"}]
RunRow == [session: Session, index: 1 .. Steps, busy: BOOLEAN, on: 0 .. MaxObservations,
           status: {"ready", "needs_review", "completed", "stopped"}]

BrowserAssumption ==
    /\ IsFiniteSet(Session) /\ Limit \in Nat /\ Steps \in Nat \ {0}
    /\ MaxObservations \in Nat
    /\ None \notin Run \cup CallRow \cup RunRow

VARIABLES
    service,     \* "open", "closing" or "closed"
    opening,     \* how far open() is with each session: "none", "launching", "loading", "failing", "over"
    listed,      \* the sessions in the service's map
    up,          \* those whose browser runs
    dirs,        \* those with a launcher directory
    ending,      \* those taken from the map, whose browsers are being closed
    current,     \* the observation an action of each session can use, 0 is none
    taken,       \* observations made
    used,        \* actions sent on each observation
    op,          \* the call that has each session
    run,         \* workflow runs
    acted        \* actions sent by each run for each step

browserVars == <<service, opening, listed, up, dirs, ending, current, taken, used, op, run, acted>>
sessionVars == <<service, opening, listed, up, dirs, ending>>
pageVars == <<current, taken, used, op>>
workflowVars == <<run, acted>>

Opening == {s \in Session : opening[s] \in {"launching", "loading", "failing"}}
Free(s) == s \in listed /\ op[s] = None

BrowserInit ==
    /\ service = "open"
    /\ opening = [s \in Session |-> "none"]
    /\ listed = {} /\ up = {} /\ dirs = {} /\ ending = {}
    /\ current = [s \in Session |-> 0] /\ taken = 0
    /\ used = [o \in 1 .. MaxObservations |-> 0]
    /\ op = [s \in Session |-> None]
    /\ run = [r \in Run |-> None] /\ acted = [r \in Run |-> [i \in 1 .. Steps |-> 0]]

-----------------------------------------------------------------------------
(* Opening. *)

\* Broken: only sessions that are open are counted.
TakenListed == Cardinality(listed)
\* One that is loading is counted twice.
Taken == Cardinality(listed) + Cardinality(Opening)

Open(s) ==
    /\ service = "open" /\ opening[s] = "none" /\ Taken < Limit
    /\ opening' = [opening EXCEPT ![s] = "launching"]
    /\ UNCHANGED <<service, listed, up, dirs, ending, pageVars, workflowVars>>

Launch(s) ==
    /\ opening[s] = "launching" /\ s \notin up /\ service = "open"
    /\ up' = up \cup {s}
    /\ dirs' \in {dirs, dirs \cup {s}}
    /\ UNCHANGED <<service, opening, listed, ending, pageVars, workflowVars>>

\* Broken: a service that closed meanwhile is not noticed.
LoadAnyway(s) ==
    /\ opening[s] = "launching" /\ s \in up
    /\ opening' = [opening EXCEPT ![s] = "loading"]
    /\ listed' = listed \cup {s}
    /\ UNCHANGED <<service, up, dirs, ending, pageVars, workflowVars>>

Load(s) ==
    /\ opening[s] = "launching" /\ s \in up /\ service = "open"
    /\ opening' = [opening EXCEPT ![s] = "loading"]
    /\ listed' = listed \cup {s}
    /\ UNCHANGED <<service, up, dirs, ending, pageVars, workflowVars>>

\* The page is there and observed, and the client learns the session's id.
Loaded(s) ==
    /\ opening[s] = "loading" /\ s \in listed /\ s \in up /\ service = "open"
    /\ taken < MaxObservations
    /\ opening' = [opening EXCEPT ![s] = "over"]
    /\ taken' = taken + 1 /\ current' = [current EXCEPT ![s] = taken + 1]
    /\ UNCHANGED <<service, listed, up, dirs, ending, used, op, workflowVars>>

\* The launch or the page fails, the service was closed, or the sweep took the session.
OpenFails(s) ==
    /\ opening[s] \in {"launching", "loading"}
    /\ opening' = [opening EXCEPT ![s] = "failing"]
    /\ listed' = listed \ {s}
    /\ UNCHANGED <<service, up, dirs, ending, pageVars, workflowVars>>

OpenFailed(s) ==
    /\ opening[s] = "failing"
    /\ opening' = [opening EXCEPT ![s] = "over"]
    /\ up' = up \ {s} /\ dirs' = dirs \ {s}
    /\ UNCHANGED <<service, listed, ending, pageVars, workflowVars>>

-----------------------------------------------------------------------------
(* Ending. *)

\* By its client, or by the sweep: expired, or its access was taken away.
End(s) ==
    /\ s \in listed /\ service = "open"
    /\ listed' = listed \ {s} /\ ending' = ending \cup {s}
    /\ UNCHANGED <<service, opening, up, dirs, pageVars, workflowVars>>

Ended(s) ==
    /\ s \in ending
    /\ ending' = ending \ {s} /\ up' = up \ {s} /\ dirs' = dirs \ {s}
    /\ UNCHANGED <<service, opening, listed, pageVars, workflowVars>>

\* What runs in the browser took too long: the browser is closed, and the
\* session stays, to be closed by its client or to expire.
Deadline(s) ==
    /\ op[s] # None /\ s \in up
    /\ up' = up \ {s}
    /\ UNCHANGED <<service, opening, listed, dirs, ending, pageVars, workflowVars>>

Close ==
    /\ service = "open"
    /\ service' = "closing"
    /\ listed' = {} /\ ending' = ending \cup listed
    /\ UNCHANGED <<opening, up, dirs, pageVars, workflowVars>>

\* With the storage go all directories, those of browsers that are launched too.
Closed ==
    /\ service = "closing" /\ ending = {}
    /\ service' = "closed"
    /\ dirs' = {}
    /\ UNCHANGED <<opening, listed, up, ending, pageVars, workflowVars>>

-----------------------------------------------------------------------------
(* Observing and acting. *)

By(r, what, o) == [run |-> r, what |-> what, on |-> o, stage |-> IF what = "act" THEN "checks" ELSE "captures"]

\* A client's call.  An observation's id is all an action names.
Observe(s) ==
    /\ service = "open" /\ Free(s) /\ opening[s] = "over"
    /\ op' = [op EXCEPT ![s] = By(None, "observe", 0)]
    /\ UNCHANGED <<sessionVars, current, taken, used, workflowVars>>

Act(s, o) ==
    /\ service = "open" /\ Free(s) /\ o = current[s] /\ o # 0
    /\ op' = [op EXCEPT ![s] = By(None, "act", o)]
    /\ UNCHANGED <<sessionVars, current, taken, used, workflowVars>>

\* Broken: an observation is used up when the action has been successful.
SpentAfter(s) == current
Spent(s) == [current EXCEPT ![s] = 0]

\* The page is the one observed, the client's access still holds, and the
\* observation is used up before anything is sent.
Send(s) ==
    /\ op[s] # None /\ op[s].stage = "checks" /\ s \in up
    /\ current[s] = op[s].on
    /\ op' = [op EXCEPT ![s].stage = "acts"]
    /\ current' = Spent(s)
    /\ used' = [used EXCEPT ![op[s].on] = @ + 1]
    /\ acted' = IF op[s].run = None THEN acted
                ELSE [acted EXCEPT ![op[s].run][run[op[s].run].index] = @ + 1]
    /\ UNCHANGED <<sessionVars, taken, run>>

\* The run whose step it was goes on with it another time.
CheckFails(s) ==
    /\ op[s] # None /\ op[s].stage = "checks"
    /\ op' = [op EXCEPT ![s] = None]
    /\ run' = IF op[s].run = None THEN run ELSE [run EXCEPT ![op[s].run].busy = FALSE]
    /\ UNCHANGED <<sessionVars, current, taken, used, acted>>

Sent(s) ==
    /\ op[s] # None /\ op[s].stage = "acts" /\ s \in up
    /\ op' = [op EXCEPT ![s].stage = "captures"]
    /\ UNCHANGED <<sessionVars, current, taken, used, workflowVars>>

\* Broken: a run stays ready when it is not known what its action did.
Retriable(r) == [run EXCEPT ![r].busy = FALSE]
\* It may have happened: the run is not continued without a review.
Reviewed(r) == [run EXCEPT ![r].busy = FALSE, ![r].status = "needs_review"]

ActFails(s) ==
    /\ op[s] # None /\ op[s].what = "act" /\ op[s].stage \in {"acts", "captures"}
    /\ op' = [op EXCEPT ![s] = None]
    /\ run' = IF op[s].run = None THEN run ELSE Reviewed(op[s].run)
    /\ UNCHANGED <<sessionVars, current, taken, used, acted>>

ObserveFails(s) ==
    /\ op[s] # None /\ op[s].what = "observe"
    /\ op' = [op EXCEPT ![s] = None]
    /\ run' = IF op[s].run # None /\ run[op[s].run].busy THEN Reviewed(op[s].run) ELSE run
    /\ UNCHANGED <<sessionVars, current, taken, used, acted>>

\* What a run does with what is seen after its step's action: what was expected
\* is there or not, and after the last step it is completed.
After(r, o, matches) ==
    LET row == run[r]
        last == row.index = Steps
    IN  [run EXCEPT ![r] = [session |-> row.session, on |-> o, busy |-> matches /\ ~ last,
            index |-> IF matches /\ ~ last THEN row.index + 1 ELSE row.index,
            status |-> IF ~ matches THEN "needs_review"
                       ELSE IF last THEN "completed" ELSE row.status]]

Captured(s) ==
    /\ op[s] # None /\ op[s].stage = "captures" /\ s \in up
    /\ taken < MaxObservations
    /\ taken' = taken + 1 /\ current' = [current EXCEPT ![s] = taken + 1]
    /\ op' = [op EXCEPT ![s] = None]
    /\ LET r == op[s].run IN
       IF r = None THEN UNCHANGED run
       ELSE IF op[s].what = "act" THEN \E matches \in BOOLEAN : run' = After(r, taken + 1, matches)
       ELSE run' = [run EXCEPT ![r].on = taken + 1, ![r].busy = FALSE]
    /\ UNCHANGED <<sessionVars, used, acted>>

-----------------------------------------------------------------------------
(* Workflow runs. *)

StartRun(r, s) ==
    /\ service = "open" /\ run[r] = None /\ s \in listed /\ current[s] # 0
    /\ run' = [run EXCEPT ![r] = [session |-> s, index |-> 1, status |-> "ready", busy |-> FALSE, on |-> 0]]
    /\ UNCHANGED <<sessionVars, pageVars, acted>>

\* Its first observation, one the client asks for, or the one after a step.
Inspect(r) ==
    /\ service = "open" /\ run[r] # None
    /\ LET s == run[r].session IN
       /\ Free(s)
       /\ op' = [op EXCEPT ![s] = By(r, "observe", 0)]
    /\ UNCHANGED <<sessionVars, current, taken, used, workflowVars>>

\* Another call has the session, so what a step led to is not seen.
AfterUnseen(r) ==
    /\ run[r] # None /\ run[r].busy /\ ~ Free(run[r].session)
    /\ ~ \E s \in Session : op[s] # None /\ op[s].run = r
    /\ run' = Reviewed(r)
    /\ UNCHANGED <<sessionVars, pageVars, acted>>

\* One step: the text before it is checked, then its action is the session's.
NextStep(r) ==
    /\ service = "open" /\ run[r] # None
    /\ ~ run[r].busy /\ run[r].status = "ready" /\ run[r].on # 0
    /\ LET s == run[r].session IN
       \/ /\ run' = [run EXCEPT ![r].status = "needs_review"]
          /\ UNCHANGED op
       \/ /\ Free(s) /\ current[s] = run[r].on
          /\ run' = [run EXCEPT ![r].busy = TRUE]
          /\ op' = [op EXCEPT ![s] = By(r, "act", run[r].on)]
    /\ UNCHANGED <<sessionVars, current, taken, used, acted>>

\* A run can be stopped in the middle of a step, which goes on.
Stop(r) ==
    /\ service = "open" /\ run[r] # None
    /\ run' = [run EXCEPT ![r].status = "stopped"]
    /\ UNCHANGED <<sessionVars, pageVars, acted>>

BrowserNext ==
    \/ \E s \in Session : \/ Open(s) \/ Launch(s) \/ Load(s) \/ Loaded(s) \/ OpenFails(s) \/ OpenFailed(s)
                          \/ End(s) \/ Ended(s) \/ Deadline(s) \/ Observe(s)
                          \/ \E o \in 1 .. MaxObservations : Act(s, o)
                          \/ Send(s) \/ CheckFails(s) \/ Sent(s) \/ ActFails(s) \/ ObserveFails(s) \/ Captured(s)
                          \/ \E r \in Run : StartRun(r, s)
    \/ \E r \in Run : Inspect(r) \/ AfterUnseen(r) \/ NextStep(r) \/ Stop(r)
    \/ Close \/ Closed

BrowserSpec == BrowserInit /\ [][BrowserNext]_browserVars

-----------------------------------------------------------------------------
BrowserTypeOK ==
    /\ service \in {"open", "closing", "closed"}
    /\ opening \in [Session -> {"none", "launching", "loading", "failing", "over"}]
    /\ taken \in 0 .. MaxObservations
    /\ current \in [Session -> 0 .. MaxObservations]
    /\ listed \cup up \cup dirs \cup ending \subseteq Session
    /\ used \in [1 .. MaxObservations -> Nat] /\ acted \in [Run -> [1 .. Steps -> Nat]]
    /\ op \in [Session -> CallRow \cup {None}] /\ run \in [Run -> RunRow \cup {None}]

\* A browser that runs is one that somebody can still end: it is in the map,
\* it is being opened, or it is being closed.  A service that has closed has
\* no session and no directory, though a browser was launched as it closed.
NoStrayBrowser ==
    /\ up \subseteq listed \cup Opening \cup ending
    /\ service = "closed" => listed = {} /\ dirs = {}

\* No more sessions are open and being opened than the service has room for.
WithinLimit == Cardinality(listed \cup Opening) <= Limit

\* One action at most is sent on what was observed, by whichever call, and one
\* for each step of a run, though the action or the look after it fails.
ActsOnce ==
    /\ \A o \in 1 .. MaxObservations : used[o] <= 1
    /\ \A r \in Run, i \in 1 .. Steps : acted[r][i] <= 1

BrowserSafe == NoStrayBrowser /\ WithinLimit /\ ActsOnce
=============================================================================
