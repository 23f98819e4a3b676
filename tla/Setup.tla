-------------------------------- MODULE Setup --------------------------------
(* `dodo setup`: preferences of an older installation are imported into a    *)
(* new state directory, and missing components are installed one by one under *)
(* setup.lock, checked, and written down in a receipt.                        *)
EXTENDS Naturals, FiniteSets

CONSTANTS
    MaxRuns,     \* bound: runs of the command
    Archive,     \* components unpacked below tools/ and entered in managed-tools.json
    Pinned,      \* components that are one pinned file
    Packaged,    \* components that an installer outside brings
    None,
    MaxEdits,    \* bound: saves of the older installation's configuration
    MaxUnlocks,  \* bound: locks that the owner removes
    MaxDeaths    \* bound: setups that die

\* Runs, numbered as they start.
Installer == 1 .. MaxRuns
Component == Archive \cup Pinned \cup Packaged

SetupAssumption ==
    /\ MaxRuns \in Nat /\ None \notin Nat /\ None \notin Component
    /\ Archive \cap Pinned = {} /\ Archive \cap Packaged = {} /\ Pinned \cap Packaged = {}
    /\ MaxEdits \in Nat /\ MaxUnlocks \in Nat /\ MaxDeaths \in Nat

VARIABLES
    source,      \* the older installation: [text, busy]
    target,      \* the state directory: [state, text, sha], of what was imported
    importLock, setupLock,
    ousted,      \* setups whose setup.lock the owner removed
    disk,        \* of a component: none, whole or bad
    manifest,    \* [paths, edition]
    step,        \* of a setup
    plan,        \* the text it planned to import, or None
    inspected,   \* the text it read under the lock
    missing,     \* components it has yet to install
    doing,       \* the component it installs, and what it has of it: [item, has, read]
    failures,    \* components it could not install
    entered,     \* components it entered in the manifest
    report,      \* of a component, when it has ended well
    late,        \* setups whose source was saved after they agreed to it
    slipped,     \* two setups were past their check of the manifest at once
    unlocks, deaths

placeVars == <<source, target, importLock, setupLock, ousted, disk, manifest, late, slipped>>
ownVars == <<step, plan, inspected, missing, doing, failures, entered, report>>
setupVars == <<placeVars, ownVars, unlocks, deaths>>

-----------------------------------------------------------------------------

Made(state) == [state |-> state, text |-> 0, sha |-> 0]
NoPaths == [paths |-> {}, edition |-> 0]
Nothing == [item |-> None, has |-> "nothing", read |-> NoPaths]
Entered(c) == c \in Archive => c \in manifest.paths

\* inspectSetup: it is there.  verifyInstalledComponent: it works.
Present(c) == disk[c] # "none" /\ (c \in Pinned => disk[c] = "whole") /\ Entered(c)
Works(c) == disk[c] = "whole" /\ Entered(c)

Live(s) == step[s] \notin {"start", "ended", "refused", "dead"}
Importing(s) == step[s] \in {"locked", "agreed", "staged"}
Installing(s) == step[s] \in {"installing", "reporting"}

SetupInit ==
    /\ \E b \in BOOLEAN : source = [text |-> 0, busy |-> b]
    /\ target = Made("none") /\ importLock = None /\ setupLock = None /\ ousted = {}
    /\ disk \in [Component -> {"none", "bad"}]
    /\ \A c \in Component \ Pinned : disk[c] = "none"
    /\ manifest = NoPaths /\ late = {} /\ slipped = FALSE
    /\ step = [s \in Installer |-> "start"] /\ plan = [s \in Installer |-> None]
    /\ inspected = [s \in Installer |-> None] /\ missing = [s \in Installer |-> {}]
    /\ doing = [s \in Installer |-> Nothing] /\ failures = [s \in Installer |-> {}]
    /\ entered = [s \in Installer |-> {}]
    /\ report = [s \in Installer |-> [c \in Component |-> None]]
    /\ unlocks = 0 /\ deaths = 0

Goes(s, there) == step' = [step EXCEPT ![s] = there]

\* What a step knew goes with it.
Forget(s) ==
    /\ plan' = [plan EXCEPT ![s] = None] /\ inspected' = [inspected EXCEPT ![s] = None]

-----------------------------------------------------------------------------
(* The import.                                                               *)

\* planStateImport: nothing is merged into a state directory that is there,
\* and nothing is read of an installation that is in use.
Plan(s) ==
    /\ step[s] = "start" /\ \A t \in 1 .. s - 1 : step[t] # "start"
    /\ \E import \in BOOLEAN :
          IF ~import \/ target # Made("none") THEN Goes(s, "inspecting") /\ UNCHANGED plan
          ELSE IF source.busy THEN Goes(s, "refused") /\ UNCHANGED plan
          ELSE Goes(s, "planned") /\ plan' = [plan EXCEPT ![s] = source.text]
    /\ UNCHANGED <<placeVars, inspected, missing, doing, failures, entered, report, unlocks,
                   deaths>>

\* importState, under its lock: what was planned is still so.
LockImport(s) ==
    /\ step[s] = "planned"
    /\ IF importLock = None
       THEN importLock' = s /\ Goes(s, "locked")
       ELSE Goes(s, "refused") /\ UNCHANGED importLock
    /\ UNCHANGED <<source, target, setupLock, ousted, disk, manifest, late, slipped, plan,
                   inspected, missing, doing, failures, entered, report, unlocks, deaths>>

Agree(s) ==
    /\ step[s] = "locked"
    /\ IF target = Made("none") /\ ~source.busy /\ source.text = plan[s]
       THEN Goes(s, "agreed") /\ UNCHANGED importLock
       ELSE Goes(s, "refused") /\ importLock' = None
    /\ UNCHANGED <<source, target, setupLock, ousted, disk, manifest, late, slipped, plan,
                   inspected, missing, doing, failures, entered, report, unlocks, deaths>>

\* The configuration is read once more and written into a directory aside,
\* with the receipt of what was agreed.
Stage(s) ==
    /\ step[s] = "agreed"
    /\ inspected' = [inspected EXCEPT ![s] = source.text]
    /\ Goes(s, "staged")
    /\ UNCHANGED <<placeVars, plan, missing, doing, failures, entered, report, unlocks,
                   deaths>>

\* One rename makes it the state directory; a directory that is in use is not
\* replaced.
Rename(s) ==
    /\ step[s] = "staged"
    /\ importLock' = IF importLock = s THEN None ELSE importLock
    /\ IF target.state \in {"none", "empty"}
       THEN /\ target' = [state |-> "imported", text |-> inspected[s], sha |-> plan[s]]
            /\ Goes(s, "inspecting")
       ELSE Goes(s, "refused") /\ UNCHANGED target
    /\ Forget(s)
    /\ UNCHANGED <<source, setupLock, ousted, disk, manifest, late, slipped, missing, doing,
                   failures, entered, report, unlocks, deaths>>

-----------------------------------------------------------------------------
(* The installation.                                                         *)

\* inspectSetup, and what is missing is installed only if the owner said yes.
Inspect(s) ==
    /\ step[s] = "inspecting"
    /\ \E yes \in BOOLEAN :
          IF yes \/ \A c \in Component : Present(c)
          THEN /\ missing' = [missing EXCEPT ![s] = {c \in Component : ~Present(c)}]
               /\ target' = IF target.state \in {"none", "empty"} THEN Made("used") ELSE target
               /\ Goes(s, "unlocked")
          ELSE Goes(s, "refused") /\ UNCHANGED <<missing, target>>
    /\ UNCHANGED <<source, importLock, setupLock, ousted, disk, manifest, late, slipped,
                   plan, inspected, doing, failures, entered, report, unlocks, deaths>>

LockSetup(s) ==
    /\ step[s] = "unlocked"
    /\ IF setupLock = None
       THEN setupLock' = s /\ Goes(s, "installing")
       ELSE Goes(s, "refused") /\ UNCHANGED setupLock
    /\ UNCHANGED <<source, target, importLock, ousted, disk, manifest, late, slipped, plan,
                   inspected, missing, doing, failures, entered, report, unlocks, deaths>>

\* Components are installed in an order of their own.
Turn(s, c) ==
    /\ step[s] = "installing" /\ doing[s] = Nothing
    /\ missing[s] # {} /\ c = (CHOOSE d \in missing[s] : TRUE)

\* An installer of another makes, leaves a useless one, or fails.
Package(s, c) ==
    /\ Turn(s, c) /\ c \in Packaged
    /\ missing' = [missing EXCEPT ![s] = @ \ {c}]
    /\ \/ \E made \in {"whole", "bad"} : disk' = [disk EXCEPT ![c] = made] /\ UNCHANGED failures
       \/ failures' = [failures EXCEPT ![s] = @ \cup {c}] /\ UNCHANGED disk
    /\ UNCHANGED <<source, target, importLock, setupLock, ousted, manifest, late, slipped,
                   step, plan, inspected, doing, entered, report, unlocks, deaths>>

\* downloadVerified: the bytes of the pin in a file aside, or a failure.  A
\* whole file that is there is kept, any other is not overwritten.
Download(s, c) ==
    /\ Turn(s, c) /\ c \notin Packaged
    /\ missing' = [missing EXCEPT ![s] = @ \ {c}]
    /\ \/ /\ disk[c] = "none" \/ (c \in Archive /\ disk[c] = "whole")
          /\ doing' = [doing EXCEPT ![s] = [Nothing EXCEPT !.item = c, !.has = "bytes"]]
          /\ UNCHANGED failures
       \/ /\ c \in Pinned /\ disk[c] = "whole"
          /\ UNCHANGED <<doing, failures>>
       \/ /\ failures' = [failures EXCEPT ![s] = @ \cup {c}]
          /\ UNCHANGED doing
    /\ UNCHANGED <<placeVars, step, plan, inspected, entered, report, unlocks, deaths>>

\* link(temporary, target) makes the file if there is none.
Link(s) ==
    /\ doing[s].has = "bytes" /\ doing[s].item \in Pinned /\ step[s] = "installing"
    /\ LET c == doing[s].item IN
          IF disk[c] = "none"
          THEN disk' = [disk EXCEPT ![c] = "whole"] /\ UNCHANGED failures
          ELSE failures' = [failures EXCEPT ![s] = @ \cup {c}] /\ UNCHANGED disk
    /\ doing' = [doing EXCEPT ![s] = Nothing]
    /\ UNCHANGED <<source, target, importLock, setupLock, ousted, manifest, late, slipped,
                   step, plan, inspected, missing, entered, report, unlocks, deaths>>

\* installPortable: unpacked aside and renamed, unless the directory is there.
Unpack(s) ==
    /\ doing[s].has = "bytes" /\ doing[s].item \in Archive /\ step[s] = "installing"
    /\ \/ /\ disk' = [disk EXCEPT ![doing[s].item] = "whole"]
          /\ doing' = [doing EXCEPT ![s].has = "tool"]
          /\ UNCHANGED failures
       \/ /\ disk[doing[s].item] = "none"
          /\ failures' = [failures EXCEPT ![s] = @ \cup {doing[s].item}]
          /\ doing' = [doing EXCEPT ![s] = Nothing]
          /\ UNCHANGED disk
    /\ UNCHANGED <<source, target, importLock, setupLock, ousted, manifest, late, slipped,
                   step, plan, inspected, missing, entered, report, unlocks, deaths>>

\* registerManagedPath reads the manifest, looks whether it is still the same
\* and replaces it.
ReadManifest(s) ==
    /\ doing[s].has = "tool" /\ step[s] = "installing"
    /\ doing' = [doing EXCEPT ![s].has = "read", ![s].read = manifest]
    /\ UNCHANGED <<placeVars, step, plan, inspected, missing, failures, entered, report,
                   unlocks, deaths>>

CheckManifest(s) ==
    /\ doing[s].has = "read" /\ step[s] = "installing"
    /\ IF doing[s].read = manifest
       THEN /\ doing' = [doing EXCEPT ![s].has = "checked"]
            /\ slipped' = (slipped \/ \E t \in Installer \ {s} : doing[t].has = "checked")
            /\ UNCHANGED failures
       ELSE /\ doing' = [doing EXCEPT ![s] = Nothing]
            /\ failures' = [failures EXCEPT ![s] = @ \cup {doing[s].item}]
            /\ UNCHANGED slipped
    /\ UNCHANGED <<source, target, importLock, setupLock, ousted, disk, manifest, late,
                   step, plan, inspected, missing, entered, report, unlocks, deaths>>

WriteManifest(s) ==
    /\ doing[s].has = "checked" /\ step[s] = "installing"
    /\ manifest' = [paths |-> doing[s].read.paths \cup {doing[s].item},
                    edition |-> doing[s].read.edition + 1]
    /\ entered' = [entered EXCEPT ![s] = @ \cup {doing[s].item}]
    /\ doing' = [doing EXCEPT ![s] = Nothing]
    /\ UNCHANGED <<source, target, importLock, setupLock, ousted, disk, late, slipped, step,
                   plan, inspected, missing, failures, report, unlocks, deaths>>

\* What is there is inspected and tried: ready is what was not a failure, is
\* there, and works.
Verify(s) ==
    /\ step[s] = "installing" /\ doing[s] = Nothing /\ missing[s] = {}
    /\ report' = [report EXCEPT ![s] =
                    [c \in Component |-> IF c \in failures[s] THEN "failed"
                                         ELSE IF ~Present(c) THEN "missing"
                                         ELSE IF Works(c) THEN "ready" ELSE "failed"]]
    /\ Goes(s, "reporting")
    /\ UNCHANGED <<placeVars, plan, inspected, missing, doing, failures, entered, unlocks,
                   deaths>>

\* The receipt is written, and the lock removed if it is still one's own.
End(s) ==
    /\ step[s] = "reporting"
    /\ setupLock' = IF setupLock = s THEN None ELSE setupLock
    /\ Goes(s, "ended")
    /\ failures' = [failures EXCEPT ![s] = {}]
    /\ report' = [report EXCEPT ![s] = [c \in Component |-> None]]
    /\ UNCHANGED <<source, target, importLock, ousted, disk, manifest, late, slipped, plan,
                   inspected, missing, doing, entered, unlocks, deaths>>

-----------------------------------------------------------------------------
(* The others.                                                               *)

\* Nobody takes a lock from a setup that has died; the owner may remove it,
\* or that of one that has not.
Die(s) ==
    /\ Live(s) /\ deaths < MaxDeaths
    /\ deaths' = deaths + 1
    /\ Goes(s, "dead")
    /\ doing' = [doing EXCEPT ![s] = Nothing] /\ missing' = [missing EXCEPT ![s] = {}]
    /\ failures' = [failures EXCEPT ![s] = {}]
    /\ report' = [report EXCEPT ![s] = [c \in Component |-> None]]
    /\ Forget(s)
    /\ UNCHANGED <<placeVars, entered, unlocks>>
Unlock ==
    /\ setupLock # None /\ unlocks < MaxUnlocks
    /\ unlocks' = unlocks + 1
    /\ ousted' = ousted \cup {setupLock}
    /\ setupLock' = None
    /\ UNCHANGED <<source, target, importLock, disk, manifest, late, slipped, ownVars,
                   deaths>>

\* The older installation is still used (only a save during an import matters),
\* and a daemon may make the state directory and use it.
SourceSaved ==
    /\ source.text < MaxEdits
    /\ \E s \in Installer : step[s] \in {"planned", "locked", "agreed", "staged"}
    /\ \E b \in BOOLEAN : source' = [text |-> source.text + 1, busy |-> b]
    /\ late' = late \cup {s \in Installer : step[s] = "agreed"}
    /\ UNCHANGED <<target, importLock, setupLock, ousted, disk, manifest, slipped, ownVars,
                   unlocks, deaths>>
TargetUsed ==
    /\ target.state \in {"none", "empty"}
    /\ target' = Made(IF target.state = "none" THEN "empty" ELSE "used")
    /\ UNCHANGED <<source, importLock, setupLock, ousted, disk, manifest, late, slipped,
                   ownVars, unlocks, deaths>>

SetupStep(s) ==
    \/ Plan(s) \/ LockImport(s) \/ Agree(s) \/ Stage(s) \/ Rename(s)
    \/ Inspect(s) \/ LockSetup(s) \/ (\E c \in Component : Package(s, c) \/ Download(s, c))
    \/ Link(s) \/ Unpack(s) \/ ReadManifest(s) \/ CheckManifest(s) \/ WriteManifest(s)
    \/ Verify(s) \/ End(s) \/ Die(s)

SetupNext == (\E s \in Installer : SetupStep(s)) \/ Unlock \/ SourceSaved \/ TargetUsed

SetupSpec == SetupInit /\ [][SetupNext]_setupVars

-----------------------------------------------------------------------------
(* Properties.                                                               *)

SetupTypeOK ==
    /\ source \in [text : 0 .. MaxEdits, busy : BOOLEAN]
    /\ target \in [state : {"none", "empty", "used", "imported"}, text : 0 .. MaxEdits,
                    sha : 0 .. MaxEdits]
    /\ importLock \in Installer \cup {None} /\ setupLock \in Installer \cup {None} /\ ousted \subseteq Installer
    /\ disk \in [Component -> {"none", "whole", "bad"}] /\ late \subseteq Installer
    /\ manifest.paths \subseteq Archive
    /\ step \in [Installer -> {"start", "planned", "locked", "agreed", "staged", "inspecting", "unlocked",
                           "installing", "reporting", "ended", "refused", "dead"}]
    /\ plan \in [Installer -> {None} \cup 0 .. MaxEdits]
    /\ missing \in [Installer -> SUBSET Component] /\ failures \in [Installer -> SUBSET Component]
    /\ entered \in [Installer -> SUBSET Archive]
    /\ report \in [Installer -> [Component -> {None, "ready", "missing", "failed"}]]

\* One setup installs at a time, but for those whose lock the owner removed,
\* and those do not take the lock of the one that came after them; imports
\* have theirs to themselves.  A setup that ended by itself leaves no lock.
LocksHeld ==
    \A s \in Installer :
       /\ Installing(s) /\ s \notin ousted => setupLock = s
       /\ Importing(s) => importLock = s
       /\ step[s] \in {"ended", "refused"} => s \notin {importLock, setupLock}

\* What is imported is the configuration that was planned, or one that the older
\* installation saved between the agreement and the reading of it.
ImportAgreed ==
    /\ \A s \in Installer : step[s] = "staged" /\ s \notin late => inspected[s] = plan[s]
    /\ target.state = "imported" /\ late = {} => target.text = target.sha

\* A component that a setup reports as ready is there and works, while it has
\* the lock that nobody was ousted from.  (Later another setup may install it
\* once more: what is missing is inspected before the lock is taken.)
ReportsTrue ==
    ousted = {} => \A s \in Installer, c \in Component :
                      step[s] = "reporting" /\ report[s][c] = "ready" => Works(c)

\* A tool that was entered in the manifest stays in it, even when the owner has
\* let a second setup in, unless both were past their look at it.
ManifestKept == ~slipped => \A s \in Installer : entered[s] \subseteq manifest.paths

SetupSafe == LocksHeld /\ ImportAgreed /\ ReportsTrue /\ ManifestKept
=============================================================================
