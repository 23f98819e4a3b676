----------------------------- MODULE Deployments -----------------------------
(***************************************************************************)
(* Deployments of one registered Docker service: deploymentService.ts      *)
(* prepares, builds, applies and rolls back, deploymentMaintenance.ts      *)
(* deletes old images and settles uncertain outcomes, dockerDeployment.ts  *)
(* sends the commands.                                                     *)
(*                                                                         *)
(* Every operation runs in the project's mutation queue, so there is one   *)
(* at a time; it awaits each Docker command, and the daemon, the person    *)
(* who also uses Docker, the clock and a crash act between two awaits.  A  *)
(* command is in flight until the daemon has carried it out or lost it;    *)
(* one whose job timed out or whose DODO died may still be.  A deployment  *)
(* is numbered by created_at.  What validate() reads (target, policy,      *)
(* manifest, source, verification, grant) may refuse at every call; the    *)
(* model keeps of it the epoch and the expiry.  Source probes and changes  *)
(* of the target's definition are left out.                                *)
(***************************************************************************)
EXTENDS Naturals, FiniteSets

CONSTANTS
    Image,
    None,
    RetainedImages,   \* target.definition.retainedImages
    MaxDeployments,   \* bound: rows of recovery_deployments
    MaxMishaps        \* bound: timeouts, crashes, expiries, pins, acts by hand

DeploymentsAssumption ==
    /\ RetainedImages \in Nat \ {0} /\ MaxDeployments \in Nat /\ MaxMishaps \in Nat
    /\ None \notin Image /\ None \notin Nat

Deployment == 1 .. MaxDeployments
ByHand == 0
\* A container: its image and the deployment whose `compose up` made it.
Container == [image : Image, by : Deployment \cup {ByHand}]
Command == {"build", "up"} \X Deployment

VARIABLES
    \* the database
    state,        \* recovery_deployments.state
    image,        \* .image_digest
    outcomeOf,    \* result_json.containerIds of a known-good deployment
    plan,         \* payload.rollback, None for a plan that builds
    pointer,      \* recovery_production_pointers, its revision is `current`
    pinned, retired, receipt, resolved,   \* recovery_deployment_maintenance
    review,       \* the last row of recovery_deployment_reviews
    \* the daemon
    tag,          \* dodo-recovery:<id>
    running,      \* the container of the service
    flight,       \* commands not yet carried out
    \* memory and time
    op,           \* the operation of the queue
    epoch,        \* plans made since the last start
    unexpired,    \* plans younger than 30 minutes
    mishaps,
    sent          \* history: how often a deployment sent a command

records == <<image, outcomeOf, plan, pointer>>
upkeep == <<pinned, retired, receipt, resolved, review>>
dbase == <<state, records, upkeep>>
daemon == <<tag, running, flight>>
clock == <<epoch, unexpired, mishaps>>
deployVars == <<dbase, daemon, op, clock, sent>>

Idle == [kind |-> "idle"]
Unfinished == {"BUILDING", "DEPLOYING", "HEALTH_CHECKING"}
State == {"none", "PREPARED", "BUILT", "KNOWN_GOOD", "FAILED", "UNKNOWN"} \cup Unfinished

DeploymentsTypeOK ==
    /\ state \in [Deployment -> State]
    /\ image \in [Deployment -> Image \cup {None}]
    /\ outcomeOf \in [Deployment -> Container \cup {None}]
    /\ plan \in [Deployment -> {None} \cup [from : Deployment,
                    seen : Container \cup {None}, revision : Deployment \cup {None}]]
    /\ pointer \in [current : Deployment \cup {None}, previous : Deployment \cup {None}]
    /\ pinned \subseteq Deployment /\ retired \subseteq Deployment
    /\ receipt \in [Deployment -> {"none", "UNKNOWN", "REMOVED"}]
    /\ resolved \subseteq Deployment
    /\ tag \in [Deployment -> Image \cup {None}]
    /\ running \in Container \cup {None}
    /\ flight \subseteq Command
    /\ epoch \subseteq Deployment /\ unexpired \subseteq Deployment
    /\ mishaps \in 0 .. MaxMishaps
    /\ sent \in [Command -> Nat]

DeploymentsInit ==
    /\ state = [d \in Deployment |-> "none"]
    /\ image = [d \in Deployment |-> None] /\ outcomeOf = [d \in Deployment |-> None]
    /\ plan = [d \in Deployment |-> None]
    /\ pointer = [current |-> None, previous |-> None]
    /\ pinned = {} /\ retired = {} /\ resolved = {}
    /\ receipt = [d \in Deployment |-> "none"] /\ review = Idle
    /\ tag = [d \in Deployment |-> None] /\ running = None /\ flight = {}
    /\ op = Idle /\ epoch = {} /\ unexpired = {} /\ mishaps = 0
    /\ sent = [c \in Command |-> 0]

Present(i) == \E d \in Deployment : tag[d] = i
Used(i) == running # None /\ running.image = i
Fresh(d) == d \in epoch /\ d \in unexpired
Moved(d, s) == state' = [state EXCEPT ![d] = s]

-----------------------------------------------------------------------------
(* Plans *)

NextPlan(d) == op = Idle /\ state[d] = "none" /\ \A e \in 1 .. d - 1 : state[e] # "none"

Prepare(d) ==
    /\ NextPlan(d)
    /\ Moved(d, "PREPARED")
    /\ epoch' = epoch \cup {d} /\ unexpired' = unexpired \cup {d}
    /\ UNCHANGED <<records, upkeep, daemon, op, mishaps, sent>>

\* A rollback is a plan already built: the image of a known-good deployment,
\* for the service as it is now.
PrepareRollback(d, good) ==
    /\ NextPlan(d)
    /\ state[good] = "KNOWN_GOOD" /\ image[good] # None /\ good \notin retired
    /\ Moved(d, "BUILT")
    /\ image' = [image EXCEPT ![d] = image[good]]
    /\ plan' = [plan EXCEPT ![d] = [from |-> good, seen |-> running,
                                    revision |-> pointer.current]]
    /\ epoch' = epoch \cup {d} /\ unexpired' = unexpired \cup {d}
    /\ UNCHANGED <<outcomeOf, pointer, upkeep, daemon, op, mishaps, sent>>

-----------------------------------------------------------------------------
(* Commands *)

Send(c) == flight' = flight \cup {c} /\ sent' = [sent EXCEPT ![c] = @ + 1]

\* `docker build` tags what it built.  `compose up` needs the image; it makes
\* a container, or keeps one that already is what it asks for.
Land(d) ==
    /\ \/ /\ <<"build", d>> \in flight
          /\ \E i \in Image : tag' = [tag EXCEPT ![d] = i]
          /\ flight' = flight \ {<<"build", d>>}
          /\ UNCHANGED running
       \/ /\ <<"up", d>> \in flight
          /\ flight' = flight \ {<<"up", d>>}
          /\ Present(image[d])
          /\ \/ running' = [image |-> image[d], by |-> d]
             \/ running # None /\ running.image = image[d] /\ UNCHANGED running
          /\ UNCHANGED tag
    /\ UNCHANGED <<dbase, op, clock, sent>>

\* The daemon refused or lost the command; whoever waits for it sees it fail.
Lost(c) ==
    /\ c \in flight /\ flight' = flight \ {c}
    /\ op' = IF op.kind \in {"build", "apply"} /\ op.d = c[2] /\ op.pc = "wait"
             THEN [op EXCEPT !.pc = "failed"] ELSE op
    /\ UNCHANGED <<dbase, tag, running, clock, sent>>

\* The catch of build and apply: whatever failed, the outcome is unknown.
Uncertain ==
    /\ op.kind \in {"build", "apply"} /\ op.pc # "checked"
    /\ op.pc = "wait" => \A c \in flight : c[2] # op.d
    /\ Moved(op.d, "UNKNOWN")
    /\ op' = Idle
    /\ UNCHANGED <<records, upkeep, daemon, clock, sent>>

\* Broken: a command that timed out may be sent again.
TimeoutRetry ==
    /\ op.kind \in {"build", "apply"} /\ op.pc = "wait" /\ mishaps < MaxMishaps
    /\ \E c \in Command : c[2] = op.d /\ c \in flight
    /\ Moved(op.d, IF op.kind = "build" THEN "PREPARED" ELSE "BUILT")
    /\ op' = Idle /\ mishaps' = mishaps + 1
    /\ UNCHANGED <<records, upkeep, daemon, epoch, unexpired, sent>>

\* The wait for the command's job ended before the command did.
Timeout ==
    /\ op.kind \in {"build", "apply"} /\ op.pc = "wait" /\ mishaps < MaxMishaps
    /\ \E c \in Command : c[2] = op.d /\ c \in flight
    /\ Moved(op.d, "UNKNOWN")
    /\ op' = Idle /\ mishaps' = mishaps + 1
    /\ UNCHANGED <<records, upkeep, daemon, epoch, unexpired, sent>>

-----------------------------------------------------------------------------
(* build *)

Build(d) ==
    /\ op = Idle /\ state[d] = "PREPARED" /\ d \notin retired /\ Fresh(d)
    /\ Moved(d, "BUILDING")
    /\ op' = [kind |-> "build", d |-> d, pc |-> "send"]
    /\ UNCHANGED <<records, upkeep, daemon, clock, sent>>

BuildSend ==
    /\ op.kind = "build" /\ op.pc = "send" /\ Fresh(op.d)
    /\ Send(<<"build", op.d>>) /\ op' = [op EXCEPT !.pc = "wait"]
    /\ UNCHANGED <<dbase, tag, running, clock>>

\* The digest is kept before the source in the image is verified.
BuildReply ==
    /\ op.kind = "build" /\ op.pc = "wait" /\ <<"build", op.d>> \notin flight
    /\ tag[op.d] # None
    /\ image' = [image EXCEPT ![op.d] = tag[op.d]]
    /\ op' = [op EXCEPT !.pc = "verify"]
    /\ UNCHANGED <<state, outcomeOf, plan, pointer, upkeep, daemon, clock,
                   sent>>

Built ==
    /\ op.kind = "build" /\ op.pc = "verify" /\ Fresh(op.d)
    /\ Moved(op.d, "BUILT") /\ op' = Idle
    /\ UNCHANGED <<records, upkeep, daemon, clock, sent>>

-----------------------------------------------------------------------------
(* apply *)

\* What runs is what the records say runs, or what the rollback's plan saw.
Recognised(d) ==
    IF plan[d] # None
    THEN running = plan[d].seen /\ pointer.current = plan[d].revision
    ELSE running = IF pointer.current = None THEN None ELSE outcomeOf[pointer.current]

Apply(d) ==
    /\ op = Idle /\ state[d] = "BUILT" /\ d \notin retired /\ Fresh(d)
    /\ Recognised(d)
    /\ op' = [kind |-> "apply", d |-> d, pc |-> "checked", seen |-> None,
              prior |-> pointer.current]
    /\ UNCHANGED <<dbase, daemon, clock, sent>>

\* Broken: the state is recorded when the command has been answered.
RecordLate ==
    /\ op.kind = "apply" /\ op.pc = "checked"
    /\ IF Fresh(op.d) THEN op' = [op EXCEPT !.pc = "send"] ELSE op' = Idle
    /\ UNCHANGED <<dbase, daemon, clock, sent>>

\* The intent is recorded before the command is sent.
Record ==
    /\ op.kind = "apply" /\ op.pc = "checked"
    /\ IF Fresh(op.d)
       THEN Moved(op.d, "DEPLOYING") /\ op' = [op EXCEPT !.pc = "send"]
       ELSE op' = Idle /\ UNCHANGED state
    /\ UNCHANGED <<records, upkeep, daemon, clock, sent>>

ApplySend ==
    /\ op.kind = "apply" /\ op.pc = "send" /\ Fresh(op.d)
    /\ Send(<<"up", op.d>>) /\ op' = [op EXCEPT !.pc = "wait"]
    /\ UNCHANGED <<dbase, tag, running, clock>>

ApplyReply ==
    /\ op.kind = "apply" /\ op.pc = "wait" /\ <<"up", op.d>> \notin flight
    /\ running # None /\ running.image = image[op.d]
    /\ Moved(op.d, "HEALTH_CHECKING")
    /\ op' = [op EXCEPT !.pc = "health", !.seen = running]
    /\ UNCHANGED <<records, upkeep, daemon, clock, sent>>

Unhealthy ==
    /\ op.kind = "apply" /\ op.pc = "health"
    /\ Moved(op.d, "FAILED") /\ op' = Idle
    /\ UNCHANGED <<records, upkeep, daemon, clock, sent>>

Healthy ==
    /\ op.kind = "apply" /\ op.pc = "health" /\ running = op.seen /\ Fresh(op.d)
    /\ op' = [op EXCEPT !.pc = "commit"]
    /\ UNCHANGED <<dbase, daemon, clock, sent>>

KnownGood ==
    /\ op.kind = "apply" /\ op.pc = "commit" /\ pointer.current = op.prior
    /\ Moved(op.d, "KNOWN_GOOD")
    /\ outcomeOf' = [outcomeOf EXCEPT ![op.d] = op.seen]
    /\ pointer' = [current |-> op.d, previous |-> op.prior]
    /\ op' = Idle
    /\ UNCHANGED <<image, plan, upkeep, daemon, clock, sent>>

-----------------------------------------------------------------------------
(* Maintenance by the owner *)

\* The deployments that hold an image, and the number of images held later.
Group(i) == {d \in Deployment : image[d] = i /\ d \notin retired}
HeldAfter(i) ==
    {j \in Image : \E e \in Group(j) : \A d \in Group(i) : d < e}

\* Broken: only the current deployment protects its image.
ProtectedCurrent(i) ==
    \/ Cardinality(HeldAfter(i)) < RetainedImages
    \/ Used(i)
    \/ \E d \in Deployment : tag[d] = i /\ ~(d \in Group(i) /\ plan[d] = None)
    \/ \E d \in Group(i) :
          \/ d \in pinned \/ receipt[d] # "none" \/ d = pointer.current
          \/ state[d] \in Unfinished \/ (state[d] = "UNKNOWN" /\ d \notin resolved)
          \/ state[d] = "BUILT" /\ d \in unexpired

\* The reasons of cleanup()
Protected(i) ==
    \/ Cardinality(HeldAfter(i)) < RetainedImages
    \/ Used(i)
    \/ \E d \in Deployment : tag[d] = i /\ ~(d \in Group(i) /\ plan[d] = None)
    \/ \E d \in Group(i) :
          \/ d \in pinned \/ receipt[d] # "none"
          \/ d \in {pointer.current, pointer.previous}
          \/ state[d] \in Unfinished \/ (state[d] = "UNKNOWN" /\ d \notin resolved)
          \/ state[d] = "BUILT" /\ d \in unexpired

Observation ==
    [eligible |-> {i \in Image : Group(i) # {} /\ Present(i) /\ ~Protected(i)},
     groups |-> [i \in Image |-> Group(i)], tags |-> tag, revision |-> pointer.current]

Review ==
    /\ op = Idle /\ Observation.eligible # {}
    /\ review' = [kind |-> "cleanup", seen |-> Observation]
    /\ UNCHANGED <<state, records, pinned, retired, receipt, resolved,
                   daemon, op, clock, sent>>

\* The review is used up before the first removal.
Cleanup ==
    /\ op = Idle /\ review.kind = "cleanup" /\ Observation = review.seen
    /\ review' = Idle
    /\ op' = [kind |-> "cleanup", left |-> review.seen.eligible, i |-> None]
    /\ UNCHANGED <<state, records, pinned, retired, receipt, resolved,
                   daemon, clock, sent>>

RemoveNext(i) ==
    /\ op.kind = "cleanup" /\ op.i = None /\ i \in op.left
    /\ receipt' = [d \in Deployment |-> IF d \in Group(i) THEN "UNKNOWN" ELSE receipt[d]]
    /\ op' = IF Present(i) /\ ~Used(i)
             THEN [op EXCEPT !.i = i] ELSE Idle
    /\ UNCHANGED <<state, records, pinned, retired, resolved, review,
                   daemon, clock, sent>>

\* The daemon removes the tags, and with the last one the image, unless a
\* container uses it by now.
Removal ==
    /\ op.kind = "cleanup" /\ op.i \in Image /\ Present(op.i)
    /\ ~Used(op.i)
    /\ tag' = [d \in Deployment |-> IF tag[d] = op.i THEN None ELSE tag[d]]
    /\ UNCHANGED <<dbase, running, flight, op, clock, sent>>

\* Removed and recorded, or an error that leaves the receipt UNKNOWN.
Retire ==
    /\ op.kind = "cleanup" /\ op.i \in Image
    /\ \/ /\ ~Present(op.i)
          /\ retired' = retired \cup Group(op.i)
          /\ receipt' = [d \in Deployment |->
                            IF d \in Group(op.i) THEN "REMOVED" ELSE receipt[d]]
          /\ op' = IF op.left = {op.i} THEN Idle
                   ELSE [op EXCEPT !.i = None, !.left = @ \ {op.i}]
       \/ op' = Idle /\ UNCHANGED <<retired, receipt>>
    /\ UNCHANGED <<state, records, pinned, resolved, review, daemon, clock,
                   sent>>

\* The reviewed observation of an image whose removal left a receipt.
InspectReceipt(d) ==
    /\ op = Idle /\ image[d] # None /\ receipt[d] # "none"
    /\ IF Present(image[d])
       THEN retired' = retired \ {d} /\ receipt' = [receipt EXCEPT ![d] = "none"]
       ELSE retired' = retired \cup {d} /\ receipt' = [receipt EXCEPT ![d] = "REMOVED"]
    /\ UNCHANGED <<state, records, pinned, resolved, review, daemon, op,
                   clock, sent>>

\* The reviewed acknowledgement of an uncertain outcome, without a retry.
Resolve(d) ==
    /\ op = Idle /\ state[d] = "UNKNOWN" /\ d \notin resolved
    /\ resolved' = resolved \cup {d}
    /\ UNCHANGED <<state, records, pinned, retired, receipt, review, daemon,
                   op, clock, sent>>

Pin(d) ==
    /\ op = Idle /\ image[d] # None /\ d \notin retired
    /\ mishaps < MaxMishaps /\ mishaps' = mishaps + 1
    /\ pinned' = IF d \in pinned THEN pinned \ {d} ELSE pinned \cup {d}
    /\ UNCHANGED <<state, records, retired, receipt, resolved, review,
                   daemon, op, epoch, unexpired, sent>>

-----------------------------------------------------------------------------
(* Around the process *)

Reconciled ==
    [d \in Deployment |-> IF state[d] \in Unfinished THEN "UNKNOWN" ELSE state[d]]

\* A crash, and the next start with a new epoch.
Restart ==
    /\ mishaps < MaxMishaps /\ mishaps' = mishaps + 1
    /\ op' = Idle /\ epoch' = {} /\ review' = Idle
    /\ state' = Reconciled
    /\ UNCHANGED <<records, pinned, retired, receipt, resolved, daemon,
                   unexpired, sent>>

Expire(d) ==
    /\ d \in unexpired /\ mishaps < MaxMishaps /\ mishaps' = mishaps + 1
    /\ unexpired' = unexpired \ {d}
    /\ UNCHANGED <<dbase, daemon, op, epoch, sent>>

\* Someone stops the service or runs another of the images by hand.
ByHandAct ==
    /\ mishaps < MaxMishaps /\ mishaps' = mishaps + 1
    /\ \/ running # None /\ running' = None
       \/ \E i \in Image : Present(i) /\ running' = [image |-> i, by |-> ByHand]
    /\ UNCHANGED <<dbase, tag, flight, op, epoch, unexpired, sent>>

DeploymentsNext ==
    \/ \E d \in Deployment :
          \/ Prepare(d) \/ Build(d) \/ Apply(d) \/ Land(d)
          \/ InspectReceipt(d) \/ Resolve(d) \/ Pin(d) \/ Expire(d)
          \/ \E good \in Deployment : PrepareRollback(d, good)
    \/ \E c \in Command : Lost(c)
    \/ Uncertain \/ Timeout \/ BuildSend \/ BuildReply \/ Built
    \/ Record \/ ApplySend \/ ApplyReply \/ Unhealthy \/ Healthy \/ KnownGood
    \/ Review \/ Cleanup \/ Removal \/ Retire \/ (\E i \in Image : RemoveNext(i))
    \/ Restart \/ ByHandAct

DeploymentsSpec == DeploymentsInit /\ [][DeploymentsNext]_deployVars

-----------------------------------------------------------------------------
(* Properties *)

\* The images of the current and of the previous known-good deployment exist
\* and are not recorded as retired, whatever was cleaned up meanwhile: the
\* service can always be brought back by a reviewed rollback.
RollbackReady ==
    \A d \in {pointer.current, pointer.previous} \ {None} :
        Present(image[d]) /\ d \notin retired

\* A deployment sends its build and its `compose up` at most once, across
\* repeated calls, timeouts and crashes.
EffectsOnce == \A c \in Command : sent[c] <= 1

\* The container that runs is the one the records call known good, or some
\* record of a started deployment with its image says so: what DODO did to
\* the service is never unrecorded.
ServiceAccounted ==
    running # None /\ running.by # ByHand =>
        \/ pointer.current # None /\ running = outcomeOf[pointer.current]
        \/ \E d \in Deployment : image[d] = running.image
              /\ state[d] \in {"DEPLOYING", "HEALTH_CHECKING", "FAILED", "UNKNOWN"}
=============================================================================
