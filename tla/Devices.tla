------------------------------ MODULE Devices ------------------------------
(* An Android device and the owner's desktop as tools reach them: the        *)
(* owner's consent (androidPolicy.ts, desktopPolicy.ts), snapshots of the    *)
(* screen, and the operations of every project runtime of the process        *)
(* (androidService.ts, desktopService.ts), each under the idempotency of its *)
(* tool (multimodal/operations.ts, the desktop's own receipts).  `kind` says *)
(* which of the two a behaviour is of.                                       *)
EXTENDS Naturals, FiniteSets

CONSTANTS
    Call, Runtime, Key, None,
    MaxSaves,    \* policies the owner saves
    MaxInputs,   \* inputs a runtime sends
    MaxEffects,  \* times one key takes effect
    MaxCrashes

DevicesAssumption ==
    /\ IsFiniteSet(Call)
    /\ MaxSaves \in Nat /\ MaxInputs \in Nat /\ MaxEffects \in Nat /\ MaxCrashes \in Nat

VARIABLES
    kind,        \* "adb" or "desktop"
    temporary,   \* the policy of each workspace that ends with time or with the process
    installed,   \* the persistent policy of the installation
    saves,
    snapshots,   \* of each runtime: the policy each was taken under, the inputs sent before it
    inputs,      \* inputs each runtime has sent to the device
    call,
    ledger,      \* the receipt of each key
    effects,     \* how often what was asked under each key took effect
    closing,     \* "open", "waits" or "closed", of each runtime
    crashes

deviceVars == <<kind, temporary, installed, saves, snapshots, inputs, call, ledger, effects, closing, crashes>>
consentVars == <<kind, temporary, installed, saves, crashes>>

Idle == [phase |-> "idle"]
Off == [mode |-> "off", rev |-> 0]

Mode == {"off", "view", "control"}
Consent == [mode : Mode, rev : 0 .. MaxSaves]
Snapshot == [rev : 0 .. MaxSaves, seen : 0 .. MaxInputs]
Reading == [phase : {"reading"}, runtime : Runtime, policy : Consent]
Staging == [phase : {"staging"}, runtime : Runtime, key : Key]
Effect == [phase : {"sent", "landed"}, runtime : Runtime, key : Key, mode : Mode, fresh : BOOLEAN]
Operation == {Idle} \cup Reading \cup Staging \cup Effect

\* A workspace's live temporary grant comes before that of the installation.
Policy(w) == IF temporary[w] # None THEN temporary[w]
             ELSE IF installed # None THEN installed ELSE Off

Running == {c \in Call : call[c].phase \in {"staging", "sent", "landed", "reading"}}
\* Broken: every runtime has its own look at what runs.
BusyHere(w) == {c \in Running : call[c].runtime = w}
\* ADB is exclusive for a device in the whole process, the desktop for a runtime.
Busy(w) == {c \in Running : kind = "adb" \/ call[c].runtime = w}

DevicesInit ==
    /\ kind \in {"adb", "desktop"}
    /\ temporary = [w \in Runtime |-> None] /\ installed = None /\ saves = 0
    /\ snapshots = [w \in Runtime |-> {}] /\ inputs = [w \in Runtime |-> 0]
    /\ call = [c \in Call |-> Idle]
    /\ ledger = [k \in Key |-> "none"] /\ effects = [k \in Key |-> 0]
    /\ closing = [w \in Runtime |-> "open"]
    /\ crashes = 0

-----------------------------------------------------------------------------
(* The owner. *)

\* Off and persistent policies replace every other; all snapshots of the
\* runtime it is saved through are dropped.
SavePolicy(w, mode, persistent) ==
    /\ saves < MaxSaves
    /\ saves' = saves + 1
    /\ LET policy == [mode |-> mode, rev |-> saves + 1] IN
       IF mode = "off" \/ persistent
       THEN /\ temporary' = [v \in Runtime |-> None]
            /\ installed' = IF mode = "off" THEN None ELSE policy
       ELSE temporary' = [temporary EXCEPT ![w] = policy] /\ UNCHANGED installed
    /\ snapshots' = [snapshots EXCEPT ![w] = {}]
    /\ UNCHANGED <<kind, inputs, call, ledger, effects, closing, crashes>>

Expire(w) ==
    /\ temporary[w] # None
    /\ temporary' = [temporary EXCEPT ![w] = None]
    /\ UNCHANGED <<kind, installed, saves, snapshots, inputs, call, ledger, effects, closing, crashes>>

-----------------------------------------------------------------------------
(* Reading the screen. *)

Capture(c, w) ==
    /\ call[c] = Idle /\ closing[w] = "open"
    /\ Policy(w).mode # "off" /\ Busy(w) = {}
    /\ call' = [call EXCEPT ![c] = [phase |-> "reading", runtime |-> w, policy |-> Policy(w)]]
    /\ UNCHANGED <<consentVars, snapshots, inputs, ledger, effects, closing>>

\* The permission has to be the one the capture began with.
Captured(c) ==
    /\ call[c].phase = "reading"
    /\ LET w == call[c].runtime IN
       snapshots' = IF closing[w] = "open" /\ Policy(w) = call[c].policy
                    THEN [snapshots EXCEPT ![w] = @ \cup {[rev |-> Policy(w).rev, seen |-> inputs[w]]}]
                    ELSE snapshots
    /\ call' = [call EXCEPT ![c] = Idle]
    /\ UNCHANGED <<consentVars, inputs, ledger, effects, closing>>

\* Half a minute has passed, or 32 newer ones were taken.
Lapse(w, s) ==
    /\ s \in snapshots[w]
    /\ snapshots' = [snapshots EXCEPT ![w] = @ \ {s}]
    /\ UNCHANGED <<consentVars, inputs, call, ledger, effects, closing>>

-----------------------------------------------------------------------------
(* Effects. *)

Dispatched(w, k) ==
    [phase |-> "sent", runtime |-> w, key |-> k, mode |-> Policy(w).mode, fresh |-> TRUE]

\* Broken: an input drops the snapshots when it has been successful, as an app action does.
DroppedAfter(w) == snapshots
\* Before an input is sent, every snapshot of the runtime is dropped.
Dropped(w) == [snapshots EXCEPT ![w] = {}]

\* Broken: the receipt is written with the result.
ReceiptLate(k) == ledger
Receipt(k) == [ledger EXCEPT ![k] = "reserved"]

\* A key that is used is not run again: done is answered from the receipt, and
\* anything else asks for an inspection.
Input(c, w, k, s) ==
    /\ call[c] = Idle /\ ledger[k] = "none"
    /\ closing[w] = "open" /\ Policy(w).mode = "control"
    /\ s \in snapshots[w] /\ s.rev = Policy(w).rev
    /\ Busy(w) = {} /\ inputs[w] < MaxInputs
    /\ ledger' = Receipt(k)
    /\ snapshots' = Dropped(w)
    /\ inputs' = [inputs EXCEPT ![w] = @ + 1]
    /\ call' = [call EXCEPT ![c] = [Dispatched(w, k) EXCEPT !.fresh = (s.seen = inputs[w])]]
    /\ UNCHANGED <<consentVars, effects, closing>>

\* ADB drops the snapshots though another operation is running, and the input is refused.
InputRefused(w, s) ==
    /\ kind = "adb" /\ Policy(w).mode = "control" /\ Busy(w) # {}
    /\ s \in snapshots[w] /\ s.rev = Policy(w).rev
    /\ snapshots' = Dropped(w)
    /\ UNCHANGED <<consentVars, inputs, call, ledger, effects, closing>>

\* Apps, and advanced commands: no snapshot is needed.
App(c, w, k) ==
    /\ kind = "adb" /\ call[c] = Idle /\ ledger[k] = "none"
    /\ closing[w] = "open" /\ Policy(w).mode = "control" /\ Busy(w) = {}
    /\ ledger' = Receipt(k)
    /\ call' = [call EXCEPT ![c] = Dispatched(w, k)]
    /\ UNCHANGED <<consentVars, snapshots, inputs, effects, closing>>

\* Installing or pushing: the file is copied and hashed first.
Stage(c, w, k) ==
    /\ kind = "adb" /\ call[c] = Idle /\ ledger[k] = "none"
    /\ closing[w] = "open" /\ Policy(w).mode = "control" /\ Busy(w) = {}
    /\ ledger' = Receipt(k)
    /\ call' = [call EXCEPT ![c] = [phase |-> "staging", runtime |-> w, key |-> k]]
    /\ UNCHANGED <<consentVars, snapshots, inputs, effects, closing>>

\* Broken: what held before the copy is not looked at again.
StagedUnchecked(c) ==
    /\ call[c].phase = "staging"
    /\ call' = [call EXCEPT ![c] = Dispatched(call[c].runtime, call[c].key)]
    /\ UNCHANGED <<consentVars, snapshots, inputs, ledger, effects, closing>>

\* The consent is looked at again before the device is touched.
Staged(c) ==
    /\ call[c].phase = "staging"
    /\ LET w == call[c].runtime IN
       IF closing[w] = "open" /\ Policy(w).mode = "control"
       THEN call' = [call EXCEPT ![c] = Dispatched(w, call[c].key)] /\ UNCHANGED ledger
       ELSE /\ call' = [call EXCEPT ![c] = Idle]
            /\ ledger' = [ledger EXCEPT ![call[c].key] = "none"]
    /\ UNCHANGED <<consentVars, snapshots, inputs, effects, closing>>

\* The file changed while it was copied.
StageFails(c) ==
    /\ call[c].phase = "staging"
    /\ call' = [call EXCEPT ![c] = Idle]
    /\ ledger' = [ledger EXCEPT ![call[c].key] = "none"]
    /\ UNCHANGED <<consentVars, snapshots, inputs, effects, closing>>

Land(c) ==
    /\ call[c].phase = "sent" /\ effects[call[c].key] < MaxEffects
    /\ call' = [call EXCEPT ![c].phase = "landed"]
    /\ effects' = [effects EXCEPT ![call[c].key] = @ + 1]
    /\ UNCHANGED <<consentVars, snapshots, inputs, ledger, closing>>

\* The receipt is written; after an app action the snapshots are dropped.
Done(c) ==
    /\ call[c].phase = "landed"
    /\ ledger' = [ledger EXCEPT ![call[c].key] = "done"]
    /\ call' = [call EXCEPT ![c] = Idle]
    /\ snapshots' \in {snapshots, [snapshots EXCEPT ![call[c].runtime] = {}]}
    /\ UNCHANGED <<consentVars, inputs, effects, closing>>

\* What was sent timed out.  The key stays used.
Uncertain(c) ==
    /\ call[c].phase \in {"sent", "landed"}
    /\ call' = [call EXCEPT ![c] = Idle]
    /\ UNCHANGED <<consentVars, snapshots, inputs, ledger, effects, closing>>

\* ADB exits with an error, or prints more than is taken: errors the tool's
\* key is released for.  The desktop's receipt stays.
Refused(c) ==
    /\ kind = "adb" /\ call[c].phase \in {"sent", "landed"}
    /\ call' = [call EXCEPT ![c] = Idle]
    /\ ledger' = [ledger EXCEPT ![call[c].key] = "none"]
    /\ UNCHANGED <<consentVars, snapshots, inputs, effects, closing>>

-----------------------------------------------------------------------------
(* The end of a runtime, and of the process. *)

Close(w) ==
    /\ closing[w] = "open"
    /\ closing' = [closing EXCEPT ![w] = "waits"]
    /\ snapshots' = [snapshots EXCEPT ![w] = {}]
    /\ UNCHANGED <<consentVars, inputs, call, ledger, effects>>

Mine(w) == {c \in Running : call[c].runtime = w}
\* Broken: only a call that is at the device is waited for.
Sending(w) == {c \in Mine(w) : call[c].phase \in {"sent", "landed"}}
WaitedFor(w) == Mine(w)

Closed(w) ==
    /\ closing[w] = "waits" /\ WaitedFor(w) = {}
    /\ closing' = [closing EXCEPT ![w] = "closed"]
    /\ UNCHANGED <<consentVars, snapshots, inputs, call, ledger, effects>>

\* The runtimes have new epochs, which end the temporary grants.
Crash ==
    /\ crashes < MaxCrashes
    /\ crashes' = crashes + 1
    /\ call' = [c \in Call |-> Idle]
    /\ temporary' = [w \in Runtime |-> None]
    /\ snapshots' = [w \in Runtime |-> {}] /\ inputs' = [w \in Runtime |-> 0]
    /\ closing' = [w \in Runtime |-> "open"]
    /\ UNCHANGED <<kind, installed, saves, ledger, effects>>

DevicesNext ==
    \/ \E w \in Runtime : \/ \E mode \in Mode, p \in BOOLEAN : SavePolicy(w, mode, p)
                          \/ Expire(w) \/ Close(w) \/ Closed(w)
                          \/ \E s \in snapshots[w] : Lapse(w, s) \/ InputRefused(w, s)
    \/ \E c \in Call : \/ Captured(c) \/ Staged(c) \/ StageFails(c) \/ Land(c)
                       \/ Done(c) \/ Uncertain(c) \/ Refused(c)
                       \/ \E w \in Runtime : \/ Capture(c, w)
                                             \/ \E k \in Key : \/ App(c, w, k) \/ Stage(c, w, k)
                                                               \/ \E s \in snapshots[w] : Input(c, w, k, s)
    \/ Crash

DevicesSpec == DevicesInit /\ [][DevicesNext]_deviceVars

-----------------------------------------------------------------------------
DevicesTypeOK ==
    /\ kind \in {"adb", "desktop"} /\ saves \in 0 .. MaxSaves /\ crashes \in 0 .. MaxCrashes
    /\ temporary \in [Runtime -> Consent \cup {None}] /\ installed \in Consent \cup {None}
    /\ snapshots \in [Runtime -> SUBSET Snapshot] /\ inputs \in [Runtime -> 0 .. MaxInputs]
    /\ call \in [Call -> Operation]
    /\ ledger \in [Key -> {"none", "reserved", "done"}] /\ effects \in [Key -> 0 .. MaxEffects]
    /\ closing \in [Runtime -> {"open", "waits", "closed"}]

Sent == {c \in Call : call[c].phase \in {"sent", "landed"}}

\* Nothing reaches the device but under a consent to control it that holds at
\* that moment, and an input only on the screen its snapshot shows: the runtime
\* has sent no other since.
UnderConsent == \A c \in Sent : call[c].mode = "control" /\ call[c].fresh

\* Whatever runtimes do, one ADB operation runs on a device at a time.
OneAtATime == kind = "adb" => Cardinality(Running) <= 1

\* What is asked of the desktop under one key happens once at most, through
\* time-outs, crashes and repeated calls.
DesktopOnce == kind = "desktop" => \A k \in Key : effects[k] <= 1

\* A runtime that has closed has nothing on its way.
ClosedIsQuiet == \A w \in Runtime : closing[w] = "closed" => Mine(w) = {}

DevicesObeyed == UnderConsent /\ OneAtATime /\ DesktopOnce /\ ClosedIsQuiet

\* An uncertain outcome is not repeated.  It does not hold for ADB: its errors
\* that come after the command release the key.
EffectsOnce == \A k \in Key : effects[k] <= 1
=============================================================================
