---------------------------- MODULE ChangeLedger ----------------------------
(***************************************************************************)
(* What the change engine promises, seen only through the status column of *)
(* the changesets table: a change opens while nothing needs recovery, it   *)
(* settles as committed, failed or recovery_required, committing a         *)
(* rollback retires the change it undoes in the same step, and only the    *)
(* owner clears recovery_required.  ChangeJournal implements it.           *)
(***************************************************************************)
EXTENDS Naturals

CONSTANTS Changeset,   \* identities of changeset rows
          NoCs         \* "not a rollback"

VARIABLES status,      \* changesets.status, "none" before the row exists
          undoes       \* the changeset a rollback undoes, NoCs for an apply

ledgerVars == <<status, undoes>>

Status == {"none", "committing", "committed", "failed", "recovery_required",
           "rolled_back"}

Blocked == \E c \in Changeset : status[c] = "recovery_required"

Init == /\ status = [c \in Changeset |-> "none"]
        /\ undoes = [c \in Changeset |-> NoCs]

\* A new row, for a planned change or for the undoing of a committed one.
Open(c, t) ==
    /\ status[c] = "none"
    /\ ~Blocked
    /\ t # NoCs => /\ status[t] = "committed"
                   /\ undoes[t] = NoCs
    /\ status' = [status EXCEPT ![c] = "committing"]
    /\ undoes' = [undoes EXCEPT ![c] = t]

\* Committing a rollback and retiring its target are one step.
Commit(c) ==
    /\ status[c] = "committing"
    /\ status' = [d \in Changeset |->
                    IF d = c THEN "committed"
                    ELSE IF d = undoes[c] THEN "rolled_back" ELSE status[d]]
    /\ UNCHANGED undoes

Fail(c) ==
    /\ status[c] = "committing"
    /\ status' = [status EXCEPT ![c] = "failed"]
    /\ UNCHANGED undoes

Block(c) ==
    /\ status[c] = "committing"
    /\ status' = [status EXCEPT ![c] = "recovery_required"]
    /\ UNCHANGED undoes

\* The owner declares a blocked change resolved by hand.
Resolve(c) ==
    /\ status[c] = "recovery_required"
    /\ status' = [status EXCEPT ![c] = "failed"]
    /\ UNCHANGED undoes

Settle(c) == Commit(c) \/ Fail(c) \/ Block(c)

Next == \E c \in Changeset :
           \/ \E t \in Changeset \cup {NoCs} : Open(c, t)
           \/ Settle(c)
           \/ Resolve(c)

SafeSpec == Init /\ [][Next]_ledgerVars

\* A change counts as rolled back exactly when a rollback of it committed.
RolledBackIffUndone ==
    \A t \in Changeset :
       status[t] = "rolled_back"
         <=> \E c \in Changeset : undoes[c] = t /\ status[c] = "committed"

\* An open change always settles.
Spec == SafeSpec /\ \A c \in Changeset : WF_ledgerVars(Settle(c))
=============================================================================
