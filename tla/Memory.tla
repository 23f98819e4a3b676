------------------------------- MODULE Memory -------------------------------
(***************************************************************************)
(* Project memory (src/services/memory/memoryService.ts).  A caller        *)
(* proposes a claim with evidence of the source as it is; only the owner,  *)
(* over the private channel, turns a proposal into a memory.  The evidence *)
(* is verified again before that, and git answers later: other requests    *)
(* are served meanwhile.  A memory is CURRENT until its evidence no longer *)
(* holds or its retention has passed.                                      *)
(*                                                                         *)
(* All claims here are about one entity: two different claims conflict.    *)
(* A memory has the name of its proposal.                                  *)
(***************************************************************************)
EXTENDS Naturals, FiniteSets

CONSTANTS Proposal, Claim, Text, None,
          MaxEdits   \* of the source, and of the clock

Closed == {"REJECTED", "EXPIRED", "STALE"}

VARIABLES
    source,      \* what the evidence is about
    proposal,    \* memory_proposals: claim, cited source, conflicts, status
    memory,      \* memories: claim, cited source, status, retention over or not
    review,      \* approvals and re-verifications that await the evidence
    decision,    \* history: what the owner last said of a proposal
    edits

memoryVars == <<source, proposal, memory, review, decision, edits>>

ProposalRow == [claim : Claim, cites : Text, conflicts : SUBSET Proposal,
                status : Closed \cup {"PENDING", "APPROVED", "DELETED"}]
MemoryRow == [claim : Claim, cites : Text, status : {"CURRENT", "STALE"}, over : BOOLEAN]

ASSUME MemoryAssumption == MaxEdits \in Nat /\ None \notin ProposalRow \cup MemoryRow

MemoryTypeOK ==
    /\ source \in Text
    /\ proposal \in [Proposal -> ProposalRow \cup {None}]
    /\ memory \in [Proposal -> MemoryRow \cup {None}]
    /\ \A r \in review : r.of \in Proposal /\ r.as \in {"approve", "reverify", "refresh"}
    /\ decision \in [Proposal -> {"none", "approved", "rejected"}]

MemoryInit ==
    /\ source \in Text
    /\ proposal = [p \in Proposal |-> None]
    /\ memory = [p \in Proposal |-> None]
    /\ review = {}
    /\ decision = [p \in Proposal |-> "none"]
    /\ edits = 0

Current == {m \in Proposal : memory[m] # None /\ memory[m].status = "CURRENT"}
Pending == {p \in Proposal : proposal[p] # None /\ proposal[p].status = "PENDING"}
ConflictsOf(c) == {m \in Current : memory[m].claim # c}
TaughtAs(c) == {m \in Current : memory[m].claim = c}

Become(p, status) == proposal' = [proposal EXCEPT ![p].status = status]
Set(m, status) == memory' = [memory EXCEPT ![m].status = status]

-----------------------------------------------------------------------------
(* Callers *)

Propose(p, c) ==
    /\ proposal[p] = None
    /\ \A q \in Pending : proposal[q].claim # c
    /\ TaughtAs(c) = {}
    /\ proposal' = [proposal EXCEPT ![p] =
          [claim |-> c, cites |-> source, conflicts |-> ConflictsOf(c), status |-> "PENDING"]]
    /\ UNCHANGED <<source, memory, review, decision, edits>>

\* A search, an inspection, a context query: a current memory is verified
\* again before it is served, unless its retention is over.
Refresh(m) ==
    /\ m \in Current
    /\ IF memory[m].over
       THEN Set(m, "STALE") /\ UNCHANGED review
       ELSE review' = review \cup {[of |-> m, as |-> "refresh"]} /\ UNCHANGED memory
    /\ UNCHANGED <<source, proposal, decision, edits>>

-----------------------------------------------------------------------------
(* The owner *)

\* Conflicts must be those the proposal names, and allowed if there are any.
Approve(p, allow) ==
    /\ p \in Pending
    /\ LET now == ConflictsOf(proposal[p].claim) IN
        IF now # proposal[p].conflicts
        THEN Become(p, "STALE") /\ UNCHANGED review
        ELSE /\ now # {} => allow
             /\ review' = review \cup {[of |-> p, as |-> "approve"]}
             /\ UNCHANGED proposal
    /\ UNCHANGED <<source, memory, decision, edits>>

Reject(p) ==
    /\ p \in Pending
    /\ Become(p, "REJECTED")
    /\ decision' = [decision EXCEPT ![p] = "rejected"]
    /\ UNCHANGED <<source, memory, review, edits>>

Reverify(m) ==
    /\ memory[m] # None
    /\ review' = review \cup {[of |-> m, as |-> "reverify"]}
    /\ UNCHANGED <<source, proposal, memory, decision, edits>>

\* Only what is over is deleted; an approved proposal stays with its memory.
Prune(p) ==
    /\ \/ /\ memory[p] # None /\ memory[p].status = "STALE"
          /\ memory' = [memory EXCEPT ![p] = None]
          /\ UNCHANGED proposal
       \/ /\ proposal[p] # None /\ proposal[p].status \in Closed
          /\ Become(p, "DELETED")
          /\ UNCHANGED memory
    /\ UNCHANGED <<source, review, decision, edits>>

-----------------------------------------------------------------------------
(* The evidence is known. *)

NewMemory(p) ==
    [claim |-> proposal[p].claim, cites |-> proposal[p].cites, status |-> "CURRENT", over |-> FALSE]

\* Broken: the transaction does not ask whether the proposal is pending still.
AdmissibleUnasked(p) == memory[p] = None /\ TaughtAs(proposal[p].claim) = {}

\* The unique index admits one current memory of a claim, and the transaction
\* an approval of a pending proposal only.
Admissible(p) ==
    p \in Pending /\ memory[p] = None /\ TaughtAs(proposal[p].claim) = {}

\* One transaction inserts the memory and settles its proposal.
Approved(p) ==
    IF proposal[p].cites # source
    THEN /\ proposal' = [proposal EXCEPT ![p].status = IF @ = "PENDING" THEN "STALE" ELSE @]
         /\ UNCHANGED <<memory, decision>>
    ELSE /\ Admissible(p)
         /\ memory' = [memory EXCEPT ![p] = NewMemory(p)]
         /\ Become(p, "APPROVED")
         /\ decision' = [decision EXCEPT ![p] = IF @ = "none" THEN "approved" ELSE @]

Refused(p) ==
    /\ proposal[p].cites = source /\ ~ Admissible(p)
    /\ UNCHANGED <<proposal, memory, decision>>

Refreshed(m) ==
    /\ memory' = [memory EXCEPT ![m] =
          IF @ # None /\ @.cites # source THEN [@ EXCEPT !.status = "STALE"] ELSE @]
    /\ UNCHANGED <<proposal, decision>>

\* Broken: the same claim may have been approved meanwhile.
UniqueAnyway(m) == TRUE

\* The unique index, again.
Unique(m) == TaughtAs(memory[m].claim) \subseteq {m}

\* Conflicts are not looked for, and a retention that is over is not renewed.
Reverified(m) ==
    /\ memory' = [memory EXCEPT ![m] =
          IF @ # None /\ @.cites = source /\ Unique(m) THEN [@ EXCEPT !.status = "CURRENT"] ELSE @]
    /\ UNCHANGED <<proposal, decision>>

Verified(r) ==
    /\ r \in review /\ review' = review \ {r}
    /\ \/ r.as = "approve" /\ (Approved(r.of) \/ Refused(r.of))
       \/ r.as = "refresh" /\ Refreshed(r.of)
       \/ r.as = "reverify" /\ Reverified(r.of)
    /\ UNCHANGED <<source, edits>>

-----------------------------------------------------------------------------
(* The source and the clock *)

Edit(t) ==
    /\ edits < MaxEdits /\ t # source
    /\ source' = t /\ edits' = edits + 1
    /\ UNCHANGED <<proposal, memory, review, decision>>

\* A retention period ends; who asks for the memory next finds out.
Age(m) ==
    /\ edits < MaxEdits /\ m \in Current
    /\ memory' = [memory EXCEPT ![m].over = TRUE] /\ edits' = edits + 1
    /\ UNCHANGED <<source, proposal, review, decision>>

\* Every owner's list, and a restart: what has expired is settled.
Lapse(p) ==
    /\ edits < MaxEdits /\ p \in Pending
    /\ proposal' = [proposal EXCEPT ![p].status = "EXPIRED"]
    /\ memory' = [m \in Proposal |->
          IF m \in Current /\ memory[m].over THEN [memory[m] EXCEPT !.status = "STALE"] ELSE memory[m]]
    /\ edits' = edits + 1
    /\ UNCHANGED <<source, review, decision>>

MemoryNext ==
    \/ \E p \in Proposal :
        \/ \E c \in Claim : Propose(p, c)
        \/ \E allow \in BOOLEAN : Approve(p, allow)
        \/ Refresh(p) \/ Reject(p) \/ Reverify(p) \/ Prune(p) \/ Age(p) \/ Lapse(p)
    \/ \E r \in review : Verified(r)
    \/ \E t \in Text : Edit(t)

MemorySpec == MemoryInit /\ [][MemoryNext]_memoryVars

-----------------------------------------------------------------------------
(* Properties *)

\* At no time two current memories say the same, and every memory is of a
\* proposal that the owner approved and never rejected, whatever was decided
\* while the evidence was awaited.
MemoriesTrue ==
    \A m \in Proposal : memory[m] # None =>
        /\ proposal[m].status = "APPROVED" /\ decision[m] = "approved"
        /\ memory[m].status = "CURRENT" => TaughtAs(memory[m].claim) = {m}

\* docs/MEMORY.md, lines 121-122: duplicates and conflicts are checked again
\* at approval, and a conflict needs --allow-conflict.  Of two current memories
\* that conflict, the proposal of one named the other.
ConflictsConfirmed ==
    \A m, n \in Current :
        memory[m].claim # memory[n].claim =>
            m \in proposal[n].conflicts \/ n \in proposal[m].conflicts
=============================================================================
