------------------------------ MODULE ConfigVault ------------------------------
(***************************************************************************)
(* The encrypted backups of one private file (services/recovery/           *)
(* configVault.ts): backup, rotation of the key, the reviewed restore that *)
(* writes the file in place, and the pruning of old backups.               *)
(*                                                                         *)
(* The operations run one at a time in the mutation queue, but each awaits *)
(* the operating system's key store, and the owner edits the file, or the  *)
(* process dies, meanwhile; it dies in the middle of the write too.  The   *)
(* file's stat tells an edit from none.  Backups and restores are numbered *)
(* in order of creation; a cipher is its text and the key that opens it.   *)
(***************************************************************************)
EXTENDS Naturals, FiniteSets

CONSTANTS
    Text,          \* contents of the private file
    Torn,          \* the content a broken write leaves
    None,
    Retention,     \* definition.retention
    MaxBackups, MaxRestores, MaxKeys,   \* bounds: rows and keys ever made
    MaxEdits                            \* bound: edits, crashes and expiries

Key == 1 .. MaxKeys
Content == Text \cup {Torn}

\* The row of a backup: what was sealed, and the key that opens it.
Sealed == [content : Content, key : Key]

ConfigVaultAssumption ==
    /\ Retention \in Nat \ {0}
    /\ {MaxBackups, MaxRestores, MaxEdits} \subseteq Nat /\ MaxKeys \in Nat \ {0}
    /\ Torn \notin Text /\ None \notin Text \cup Nat /\ None # Torn
    /\ None \notin Sealed

Backup == 1 .. MaxBackups
Restore == 1 .. MaxRestores

VARIABLES
    file,        \* what the file holds
    backups,     \* recovery_config_backups: content and key_ref
    restores,    \* recovery_config_restores
    target,      \* recovery_config_targets: key_ref and enabled
    keys,        \* the key store
    task,        \* the operation of the queue, between its awaits
    edits,
    written      \* history: the content each restore wrote over

vaultVars == <<file, backups, restores, target, keys, task, edits, written>>

Free == [kind |-> "free"]
NoRestore == [state |-> "none", of |-> None, before |-> None, expected |-> None,
              current |-> FALSE]

VaultTypeOK ==
    /\ file \in Content
    /\ backups \in [Backup -> {None} \cup Sealed]
    /\ restores \in [Restore -> [state : {"none", "PREVIEW", "UNKNOWN", "APPLIED", "EXPIRED"},
                        of : Backup \cup {None}, before : Backup \cup {None},
                        expected : Content \cup {None}, current : BOOLEAN]]
    /\ target \in [key : Key, enabled : BOOLEAN] /\ keys \subseteq Key
    /\ edits \in 0 .. MaxEdits
    /\ written \in [Restore -> Content \cup {None}]

VaultInit ==
    /\ file \in Text
    /\ backups = [b \in Backup |-> None]
    /\ restores = [r \in Restore |-> NoRestore]
    /\ target = [key |-> 1, enabled |-> TRUE] /\ keys = {1}
    /\ task = Free /\ edits = 0 /\ written = [r \in Restore |-> None]

\* Row ids are new: past every id ever used.
Unused(b) == \A c \in Backup : c >= b =>
    backups[c] = None /\ \A r \in Restore : c \notin {restores[r].of, restores[r].before}
\* The target's revision is no longer the one the plans were made for.
Outdated == [r \in Restore |-> [restores[r] EXCEPT !.current = FALSE]]
Next1(r) == restores[r].state = "none" /\ \A s \in 1 .. r - 1 : restores[s].state # "none"

-----------------------------------------------------------------------------
(* backup, configure and rotate *)

\* Broken: only the backup a restore reads from is referenced.
ReferencedSource == {restores[r].of : r \in Restore}

Referenced == {restores[r].of : r \in Restore} \cup {restores[r].before : r \in Restore}

\* The newest backups stay, and those that restores name.
Pruned(rows) ==
    [b \in Backup |->
        IF /\ rows[b] # None /\ b \notin Referenced
           /\ Cardinality({c \in Backup : c > b /\ rows[c] # None}) >= Retention
        THEN None ELSE rows[b]]

\* The bytes are read, then the key is awaited, then the row is inserted.
ReadForBackup ==
    /\ task = Free /\ target.enabled
    /\ task' = [kind |-> "backup", content |-> file]
    /\ UNCHANGED <<file, backups, restores, target, keys, edits, written>>

BackedUp(b) ==
    /\ task.kind = "backup" /\ Unused(b) /\ target.key \in keys
    /\ backups' = Pruned([backups EXCEPT ![b] = [content |-> task.content, key |-> target.key]])
    /\ task' = Free
    /\ UNCHANGED <<file, restores, target, keys, edits, written>>

Configure ==
    /\ task = Free
    /\ target' = [target EXCEPT !.enabled = ~@]
    /\ backups' = Pruned(backups) /\ restores' = Outdated
    /\ UNCHANGED <<file, keys, task, edits, written>>

\* Broken: the key that the new one replaces is deleted.
RotateDeleting(k) ==
    /\ task = Free /\ k \notin keys /\ \A j \in 1 .. k - 1 : j <= target.key
    /\ keys' = (keys \ {target.key}) \cup {k}
    /\ target' = [target EXCEPT !.key = k] /\ restores' = Outdated
    /\ UNCHANGED <<file, backups, task, edits, written>>

\* The old key still opens the old backups.
Rotate(k) ==
    /\ task = Free /\ k \notin keys /\ \A j \in 1 .. k - 1 : j <= target.key
    /\ keys' = keys \cup {k}
    /\ target' = [target EXCEPT !.key = k] /\ restores' = Outdated
    /\ UNCHANGED <<file, backups, task, edits, written>>

-----------------------------------------------------------------------------
(* preview and apply *)

Preview(r, b) ==
    /\ task = Free /\ target.enabled /\ Next1(r)
    /\ backups[b] # None /\ backups[b].key \in keys
    /\ restores' = [restores EXCEPT ![r] = [NoRestore EXCEPT !.state = "PREVIEW",
                        !.of = b, !.expected = file, !.current = TRUE]]
    /\ UNCHANGED <<file, backups, target, keys, task, edits, written>>

\* Compared with what the owner reviewed, read, and then sealed.
Apply(r) ==
    /\ task = Free /\ restores[r].state = "PREVIEW" /\ target.enabled
    /\ restores[r].current
    /\ backups[restores[r].of] # None /\ backups[restores[r].of].key \in keys
    /\ file = restores[r].expected
    /\ task' = [kind |-> "apply", r |-> r, content |-> file, stat |-> edits, before |-> None]
    /\ UNCHANGED <<file, backups, restores, target, keys, edits, written>>

Seal(b) ==
    /\ task.kind = "apply" /\ task.before = None /\ Unused(b)
    /\ backups' = [backups EXCEPT ![b] = [content |-> task.content, key |-> target.key]]
    /\ task' = [task EXCEPT !.before = b]
    /\ UNCHANGED <<file, restores, target, keys, edits, written>>

\* Broken: the intent is not recorded, only the result.
BeginUnrecorded ==
    /\ task.kind = "apply" /\ task.before # None /\ task.stat = edits
    /\ task' = [kind |-> "write", r |-> task.r, before |-> task.before]
    /\ UNCHANGED <<file, backups, restores, target, keys, edits, written>>

\* The receipt names the before-image before the first byte.
Begin ==
    /\ task.kind = "apply" /\ task.before # None /\ task.stat = edits
    /\ restores' = [restores EXCEPT ![task.r].before = task.before,
                                    ![task.r].state = "UNKNOWN"]
    /\ task' = [kind |-> "write", r |-> task.r, before |-> task.before]
    /\ UNCHANGED <<file, backups, target, keys, edits, written>>

Overwrite(content) ==
    /\ file' = content
    /\ written' = [written EXCEPT ![task.r] = IF @ = None THEN file ELSE @]

\* The write and its verification are one step of the process unless it fails
\* in between: the first bytes, then the rest.
Write ==
    /\ task.kind = "write" /\ Overwrite(Torn)
    /\ task' = [task EXCEPT !.kind = "rest"]
    /\ UNCHANGED <<backups, restores, target, keys, edits>>

Written ==
    /\ task.kind = "rest" /\ Overwrite(backups[restores[task.r].of].content)
    /\ restores' = [restores EXCEPT ![task.r].state = "APPLIED",
                                    ![task.r].before = task.before]
    /\ task' = Free
    /\ UNCHANGED <<backups, target, keys, edits>>

\* An error: before the receipt nothing has happened but the sealing, after it
\* the receipt says UNKNOWN already.
Failed ==
    /\ task # Free /\ task' = Free
    /\ UNCHANGED <<file, backups, restores, target, keys, edits, written>>

-----------------------------------------------------------------------------
(* Around the process *)

Edit ==
    /\ task.kind \notin {"write", "rest"} /\ edits < MaxEdits /\ edits' = edits + 1
    /\ \E t \in Text : file' = t
    /\ UNCHANGED <<backups, restores, target, keys, task, written>>

\* A crash and a start: the plans of the old epoch expire.  (A plan that only
\* runs out of its ten minutes is a plan nobody applies.)
Restart ==
    /\ edits < MaxEdits /\ edits' = edits + 1
    /\ task' = Free
    /\ restores' = [r \in Restore |-> IF restores[r].state = "PREVIEW"
                        THEN [restores[r] EXCEPT !.state = "EXPIRED"] ELSE restores[r]]
    /\ UNCHANGED <<file, backups, target, keys, written>>

VaultNext ==
    \/ ReadForBackup \/ (\E b \in Backup : BackedUp(b) \/ Seal(b))
    \/ Configure \/ (\E k \in Key : Rotate(k))
    \/ \E r \in Restore : Apply(r) \/ (\E b \in Backup : Preview(r, b))
    \/ Begin \/ Write \/ Written \/ Failed \/ Edit \/ Restart

VaultSpec == VaultInit /\ [][VaultNext]_vaultVars

-----------------------------------------------------------------------------
(* Properties *)

\* Whatever a restore wrote over is in a backup that is kept and whose key
\* is kept, through rotations, pruning and restarts.
BeforeImageKept ==
    \A r \in Restore : written[r] # None =>
        LET b == restores[r].before
        IN  /\ b # None /\ backups[b] # None
            /\ backups[b].content = written[r] /\ backups[b].key \in keys

\* A file found torn is the work of a restore whose receipt says UNKNOWN.
TornExplained ==
    file = Torn => \E r \in Restore : restores[r].state = "UNKNOWN" /\ written[r] # None

\* Both together: no owner's secret is lost to a restore.
VaultRecoverable == BeforeImageKept /\ TornExplained
=============================================================================
