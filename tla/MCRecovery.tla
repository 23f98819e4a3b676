------------------------------ MODULE MCRecovery ------------------------------
(* What an owner can go back to: source backups (Recovery), the images of a  *)
(* deployed service (Deployments) and the private configuration file         *)
(* (ConfigVault); and what `dodo setup` brings (Setup).  They share no state *)
(* in the code: a behaviour here is one of theirs, and `part` says whose.    *)
EXTENDS Recovery, TLC

CONSTANTS Image, RetainedImages, MaxDeployments, MaxMishaps,
          Text, Torn, Retention, MaxBackups, MaxRestores, MaxKeys, MaxEdits,
          MaxRuns, Archive, Pinned, Packaged, MaxSaves, MaxUnlocks, MaxDeaths

VARIABLES
    part,
    \* of Deployments; retiredImages is its `retired`
    state, image, outcomeOf, plan, pointer, pinned, retiredImages, receipt, resolved, review,
    tag, running, flight, op, epoch, unexpired, mishaps, sent,
    \* of ConfigVault
    file, backups, restores, target, keys, task, edits, written,
    \* of Setup; imported and importPlan are its `target` and `plan`
    source, imported, importLock, setupLock, ousted, disk, manifest, late, slipped, step,
    importPlan, inspected, missing, doing, failures, entered, report, unlocks, deaths

D == INSTANCE Deployments WITH retired <- retiredImages
V == INSTANCE ConfigVault
S == INSTANCE Setup WITH target <- imported, plan <- importPlan, MaxEdits <- MaxSaves

ASSUME Assumed == D!DeploymentsAssumption /\ V!ConfigVaultAssumption /\ S!SetupAssumption

imageVars == <<state, image, outcomeOf, plan, pointer, pinned, retiredImages, receipt, resolved,
               review, tag, running, flight, op, epoch, unexpired, mishaps, sent>>
vaultVars == <<file, backups, restores, target, keys, task, edits, written>>
setupVars == <<source, imported, importLock, setupLock, ousted, disk, manifest, late, slipped,
               step, importPlan, inspected, missing, doing, failures, entered, report,
               unlocks, deaths>>

partsInit ==
    /\ part \in {"backups", "images", "vault", "setup"}
    /\ Init /\ D!DeploymentsInit /\ V!VaultInit /\ S!SetupInit
    /\ part # "vault" => file = CHOOSE t \in Text : TRUE
    /\ part # "setup" => disk = [c \in S!Component |-> "none"] /\ ~source.busy

partsNext ==
    /\ UNCHANGED part
    /\ \/ part = "backups" /\ Next /\ UNCHANGED <<imageVars, vaultVars, setupVars>>
       \/ part = "images" /\ D!DeploymentsNext /\ UNCHANGED <<vars, vaultVars, setupVars>>
       \/ part = "vault" /\ V!VaultNext /\ UNCHANGED <<vars, imageVars, setupVars>>
       \/ part = "setup" /\ S!SetupNext /\ UNCHANGED <<vars, imageVars, vaultVars>>

RecoverySpec == partsInit /\ [][partsNext]_<<part, vars, imageVars, vaultVars, setupVars>>

\* Images are interchangeable.
Images == Permutations(Image)

\* An owner can go back: a deployed service to an image that is kept, each of
\* its commands was sent once and is on record, and a private file to what any
\* backup of it holds.  Setups import what the owner agreed to, do not undo each
\* other, and report what is there.
ServiceRecoverable ==
    /\ part = "images" => /\ D!DeploymentsTypeOK /\ D!RollbackReady
                          /\ D!EffectsOnce /\ D!ServiceAccounted
    /\ part = "vault" => V!VaultTypeOK /\ V!VaultRecoverable
    /\ part = "setup" => S!SetupTypeOK /\ S!SetupSafe
=============================================================================
