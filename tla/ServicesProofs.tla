---------------------------- MODULE ServicesProofs ----------------------------
(***************************************************************************)
(* What holds of the services of MCServices for all values of their        *)
(* constants: an inductive invariant for each, and the invariants of the   *)
(* whole from them.                                                        *)
(***************************************************************************)
EXTENDS MCServices, FiniteSetTheorems, WellFoundedInduction, TLAPS

-----------------------------------------------------------------------------
(* Project memory.                                                         *)

\* The owner has said nothing of a proposal that is pending or not there, and a
\* proposal he approved stays as it is.
MemoryHolds ==
    /\ \A r \in review : r.as = "approve" => proposal[r.of] # None
    /\ \A p \in Proposal : proposal[p] = None \/ proposal[p].status = "PENDING" =>
          decision[p] = "none"
    /\ \A m \in Proposal : memory[m] # None => proposal[m] # None
    /\ MemoriesTrue

\* A proposal that is settled stays the proposal it is.
LEMMA Settled ==
    ASSUME MemoryTypeOK, NEW p \in Proposal, proposal[p] # None,
           NEW s \in Closed \cup {"PENDING", "APPROVED", "DELETED"}
   
      PROVE  /\ [proposal EXCEPT ![p].status = s] \in [Proposal -> ProposalRow \cup {None}]
           /\ [proposal EXCEPT ![p].status = s][p] # None
           /\ [proposal EXCEPT ![p].status = s][p].status = s
           /\ [proposal EXCEPT ![p].status = s][p].claim = proposal[p].claim
           /\ \A q \in Proposal \ {p} : [proposal EXCEPT ![p].status = s][q] = proposal[q]
<1>1. proposal[p] \in ProposalRow
  BY DEF MemoryTypeOK
<1>2. [proposal[p] EXCEPT !.status = s] \in ProposalRow
  BY <1>1 DEF ProposalRow
<1>3. [proposal EXCEPT ![p].status = s] = [proposal EXCEPT ![p] = [proposal[p] EXCEPT !.status = s]]
  BY DEF MemoryTypeOK
<1>4. [proposal[p] EXCEPT !.status = s].status = s /\ [proposal[p] EXCEPT !.status = s].claim = proposal[p].claim
  BY <1>1 DEF ProposalRow
<1>. QED
  BY <1>2, <1>3, <1>4, MemoryAssumption DEF MemoryTypeOK

\* So does a memory.
LEMMA Marked ==
    ASSUME MemoryTypeOK, NEW m \in Proposal, memory[m] # None, NEW s \in {"CURRENT", "STALE"}
    PROVE  /\ [memory EXCEPT ![m].status = s] \in [Proposal -> MemoryRow \cup {None}]
           /\ [memory EXCEPT ![m].status = s][m] # None
           /\ [memory EXCEPT ![m].status = s][m].status = s
           /\ [memory EXCEPT ![m].status = s][m].claim = memory[m].claim
           /\ \A q \in Proposal \ {m} : [memory EXCEPT ![m].status = s][q] = memory[q]
<1>1. memory[m] \in MemoryRow
  BY DEF MemoryTypeOK
<1>2. [memory[m] EXCEPT !.status = s] \in MemoryRow
  BY <1>1 DEF MemoryRow
<1>3. [memory EXCEPT ![m].status = s] = [memory EXCEPT ![m] = [memory[m] EXCEPT !.status = s]]
  BY DEF MemoryTypeOK
<1>4. [memory[m] EXCEPT !.status = s].status = s /\ [memory[m] EXCEPT !.status = s].claim = memory[m].claim
  BY <1>1 DEF MemoryRow
<1>. QED
  BY <1>2, <1>3, <1>4, MemoryAssumption DEF MemoryTypeOK

\* Every step keeps rows rows.
LEMMA MemoryTypeStep ==
    ASSUME MemoryTypeOK, MemoryHolds, [MemoryNext]_memoryVars
    PROVE  MemoryTypeOK'
<1>1. ASSUME NEW p \in Proposal, NEW c \in Claim, Propose(p, c) PROVE MemoryTypeOK'
  BY <1>1, MemoryAssumption
  DEF Propose, Pending, TaughtAs, ConflictsOf, Current, MemoryTypeOK, ProposalRow,
      MemoryRow, Closed
<1>2. ASSUME NEW p \in Proposal, NEW allow \in BOOLEAN, Approve(p, allow)
      PROVE  MemoryTypeOK'
  <2>1. proposal[p] # None
    BY <1>2 DEF Approve, Pending
  <2>2. [proposal EXCEPT ![p].status = "STALE"] \in [Proposal -> ProposalRow \cup {None}]
    BY <2>1, Settled DEF Closed
  <2>3. CASE UNCHANGED proposal
    BY <1>2, <2>1, <2>3 DEF Approve, MemoryTypeOK
  <2>4. CASE Become(p, "STALE") /\ UNCHANGED review
    BY <1>2, <2>2, <2>4 DEF Approve, Become, MemoryTypeOK
  <2>. QED
    BY <1>2, <2>3, <2>4 DEF Approve
<1>3. ASSUME NEW p \in Proposal, Refresh(p) PROVE MemoryTypeOK'
  BY <1>3, MemoryAssumption
  DEF Refresh, Current, Set, MemoryTypeOK, ProposalRow, MemoryRow, Closed
<1>4. ASSUME NEW p \in Proposal, Reject(p) PROVE MemoryTypeOK'
  <2>1. proposal' \in [Proposal -> ProposalRow \cup {None}]
    BY <1>4, Settled DEF Reject, Pending, Become, MemoryTypeOK, Closed
  <2>. QED
    BY <1>4, <2>1 DEF Reject, MemoryTypeOK
<1>5. ASSUME NEW p \in Proposal, Reverify(p) PROVE MemoryTypeOK'
  BY <1>5, MemoryAssumption DEF Reverify, MemoryTypeOK, ProposalRow, MemoryRow, Closed
<1>6. ASSUME NEW p \in Proposal, Prune(p) PROVE MemoryTypeOK'
  BY <1>6, MemoryAssumption
  DEF Prune, Closed, Become, MemoryTypeOK, ProposalRow, MemoryRow
<1>7. ASSUME NEW p \in Proposal, Age(p) PROVE MemoryTypeOK'
  BY <1>7, MemoryAssumption
  DEF Age, Current, MemoryTypeOK, ProposalRow, MemoryRow, Closed
<1>8. ASSUME NEW p \in Proposal, Lapse(p) PROVE MemoryTypeOK'
  <2>1. proposal' \in [Proposal -> ProposalRow \cup {None}]
    BY <1>8, Settled DEF Lapse, Pending, Closed
  <2>2. \A m \in Current : [memory[m] EXCEPT !.status = "STALE"] \in MemoryRow
    BY DEF Current, MemoryTypeOK, MemoryRow
  <2>3. memory' \in [Proposal -> MemoryRow \cup {None}]
    BY <1>8, <2>2 DEF Lapse, MemoryTypeOK
  <2>4. UNCHANGED <<source, review, decision>>
    BY <1>8 DEF Lapse
  <2>. QED
    BY <2>1, <2>3, <2>4 DEF MemoryTypeOK
<1>9. ASSUME NEW r \in review, Verified(r) PROVE MemoryTypeOK'
  <2>1. r.of \in Proposal /\ review' \subseteq review /\ UNCHANGED source
    BY <1>9 DEF Verified, MemoryTypeOK
  <2>2. CASE r.as = "approve" /\ Approved(r.of)
    <3>1. proposal[r.of] # None
      BY <2>2 DEF MemoryHolds
    <3>2. CASE proposal[r.of].cites # source
      <4>1. \A s \in {"STALE", proposal[r.of].status} :
               [proposal EXCEPT ![r.of].status = s] \in [Proposal -> ProposalRow \cup {None}]
        <5>1. {"STALE", proposal[r.of].status} \subseteq Closed \cup {"PENDING", "APPROVED", "DELETED"}
          BY <2>1, <3>1 DEF MemoryTypeOK, ProposalRow, Closed
        <5>. QED
          BY <2>1, <3>1, <5>1, Settled
      <4>2. \E s \in {"STALE", proposal[r.of].status} : proposal' = [proposal EXCEPT ![r.of].status = s]
        BY <2>2, <3>2 DEF Approved
      <4>3. UNCHANGED <<memory, decision>>
        BY <2>2, <3>2 DEF Approved
      <4>. QED
        BY <2>1, <4>1, <4>2, <4>3 DEF MemoryTypeOK
    <3>3. CASE proposal[r.of].cites = source
      <4>1. proposal' = [proposal EXCEPT ![r.of].status = "APPROVED"]
            /\ memory' = [memory EXCEPT ![r.of] = NewMemory(r.of)]
            /\ decision' = [decision EXCEPT ![r.of] = IF @ = "none" THEN "approved" ELSE @]
        BY <2>2, <3>3 DEF Approved, Become
      <4>2. NewMemory(r.of) \in MemoryRow
        BY <2>1, <3>1 DEF NewMemory, MemoryTypeOK, ProposalRow, MemoryRow
      <4>3. proposal' \in [Proposal -> ProposalRow \cup {None}]
        BY <2>1, <3>1, <4>1, Settled
      <4>. QED
        BY <2>1, <4>1, <4>2, <4>3 DEF MemoryTypeOK
    <3>. QED
      BY <3>2, <3>3
  <2>3. CASE Refused(r.of)
    BY <2>1, <2>3 DEF Refused, MemoryTypeOK
  <2>4. CASE Refreshed(r.of)
    BY <2>1, <2>4, MemoryAssumption DEF Refreshed, MemoryTypeOK, MemoryRow
  <2>5. CASE Reverified(r.of)
    BY <2>1, <2>5, MemoryAssumption DEF Reverified, MemoryTypeOK, MemoryRow
  <2>. QED
    BY <1>9, <2>2, <2>3, <2>4, <2>5 DEF Verified
<1>10. ASSUME NEW t \in Text, Edit(t) PROVE MemoryTypeOK'
  BY <1>10, MemoryAssumption DEF Edit, MemoryTypeOK, ProposalRow, MemoryRow, Closed
<1>u. ASSUME UNCHANGED memoryVars PROVE MemoryTypeOK'
  BY <1>u DEF MemoryTypeOK, ProposalRow, MemoryRow, Closed, memoryVars
<1>. QED
  BY <1>1, <1>2, <1>3, <1>4, <1>5, <1>6, <1>7, <1>8, <1>9, <1>10, <1>u DEF MemoryNext

\* Every step keeps memories approved, and of different claims.
LEMMA MemoryStep ==
    ASSUME MemoryTypeOK, MemoryTypeOK', MemoryHolds, [MemoryNext]_memoryVars
    PROVE  MemoryHolds'
<1>1. ASSUME NEW p \in Proposal, NEW c \in Claim, Propose(p, c) PROVE MemoryHolds'
  BY <1>1, MemoryAssumption
  DEF Propose, Pending, TaughtAs, ConflictsOf, Current, MemoryHolds, MemoryTypeOK,
      ProposalRow, MemoryRow, Closed, MemoriesTrue
<1>2. ASSUME NEW p \in Proposal, NEW allow \in BOOLEAN, Approve(p, allow)
      PROVE  MemoryHolds'
  BY <1>2, MemoryAssumption
  DEF Approve, Pending, ConflictsOf, Become, Current, MemoryHolds, MemoryTypeOK,
      ProposalRow, MemoryRow, Closed, MemoriesTrue, TaughtAs
<1>3. ASSUME NEW p \in Proposal, Refresh(p) PROVE MemoryHolds'
  BY <1>3, MemoryAssumption
  DEF Refresh, Current, Set, MemoryHolds, MemoryTypeOK, ProposalRow, MemoryRow,
      Closed, MemoriesTrue, TaughtAs, Pending
<1>4. ASSUME NEW p \in Proposal, Reject(p) PROVE MemoryHolds'
  BY <1>4, MemoryAssumption
  DEF Reject, Pending, Become, MemoryHolds, MemoryTypeOK, ProposalRow, MemoryRow,
      Closed, MemoriesTrue, TaughtAs, Current
<1>5. ASSUME NEW p \in Proposal, Reverify(p) PROVE MemoryHolds'
  BY <1>5, MemoryAssumption
  DEF Reverify, MemoryHolds, MemoryTypeOK, ProposalRow, MemoryRow, Closed,
      MemoriesTrue, TaughtAs, Current, Pending
<1>6. ASSUME NEW p \in Proposal, Prune(p) PROVE MemoryHolds'
  BY <1>6, MemoryAssumption
  DEF Prune, Closed, Become, MemoryHolds, MemoryTypeOK, ProposalRow, MemoryRow,
      MemoriesTrue, TaughtAs, Current, Pending
<1>7. ASSUME NEW p \in Proposal, Age(p) PROVE MemoryHolds'
  BY <1>7, MemoryAssumption
  DEF Age, Current, MemoryHolds, MemoryTypeOK, ProposalRow, MemoryRow, Closed,
      MemoriesTrue, TaughtAs, Pending
<1>8. ASSUME NEW p \in Proposal, Lapse(p) PROVE MemoryHolds'
  BY <1>8, MemoryAssumption
  DEF Lapse, Pending, Current, MemoryHolds, MemoryTypeOK, ProposalRow, MemoryRow,
      Closed, MemoriesTrue, TaughtAs
<1>9. ASSUME NEW r \in review, Verified(r) PROVE MemoryHolds'
  BY <1>9, MemoryAssumption, SMTT(30)
  DEF Verified, Approved, Refused, Refreshed, Reverified, Admissible, NewMemory,
      Become, Unique, Pending, TaughtAs, Current, MemoryHolds, MemoryTypeOK,
      ProposalRow, MemoryRow, Closed, MemoriesTrue
<1>10. ASSUME NEW t \in Text, Edit(t) PROVE MemoryHolds'
  BY <1>10, MemoryAssumption
  DEF Edit, MemoryHolds, MemoryTypeOK, ProposalRow, MemoryRow, Closed, MemoriesTrue,
      TaughtAs, Current, Pending
<1>u. ASSUME UNCHANGED memoryVars PROVE MemoryHolds'
  BY <1>u
  DEF MemoryHolds, MemoryTypeOK, ProposalRow, MemoryRow, Closed, MemoriesTrue,
      TaughtAs, Current, Pending, memoryVars
<1>. QED
  BY <1>1, <1>2, <1>3, <1>4, <1>5, <1>6, <1>7, <1>8, <1>9, <1>10, <1>u DEF MemoryNext

LEMMA MemoryInductive ==
    /\ MemoryInit => MemoryTypeOK /\ MemoryHolds
    /\ MemoryTypeOK /\ MemoryHolds /\ [MemoryNext]_memoryVars => (MemoryTypeOK /\ MemoryHolds)'
<1>1. MemoryInit => MemoryTypeOK /\ MemoryHolds
  BY DEF MemoryInit, MemoryTypeOK, MemoryHolds, MemoriesTrue
<1>. QED
  BY <1>1, MemoryTypeStep, MemoryStep

\* Of numbers, if there are any, one is the least.
LEMMA FirstThere ==
    ASSUME NEW some \in SUBSET Nat, some # {}
    PROVE  \E k \in some : \A j \in some : k <= j
<1>1. PICK k \in some : \A j \in some : ~ (<<j, k>> \in OpToRel(<, Nat))
  BY NatLessThanWellFounded, WFMin
<1>2. \A j \in some : ~ (j < k)
  BY <1>1 DEF OpToRel
<1>. QED
  BY <1>2

-----------------------------------------------------------------------------
(* The project brain.                                                      *)

\* Rows of files; whatever a run has prepared differs from the index in files
\* that it knows to have changed only, and gives no identity twice or past those
\* it is about to number.
FileRows == [Path -> {None} \cup [text : Sources, stamp : 0 .. MaxChanges, id : Nat \ {0}]]
IndexRun == [full : BOOLEAN, rows : FileRows, changed : SUBSET Path, parsing : SUBSET Path,
             shown : BOOLEAN]
RunSound ==
    /\ indexRun \in IndexRun
    /\ \A p \in Path : indexRun.rows[p] # cache[p] => p \in indexRun.changed
    /\ \A p, q \in B!Files(indexRun.rows) :
          p # q => indexRun.rows[p].id # indexRun.rows[q].id
    /\ \A p \in B!Files(indexRun.rows) :
          indexRun.rows[p].id <= lastId + Cardinality({q \in B!Files(indexRun.rows) :
                                                          indexRun.rows[q].id > lastId})
BrainHolds ==
    /\ disk \in [Path -> {None} \cup B!Source] /\ cache \in FileRows /\ lastId \in Nat
    /\ indexRun # None => RunSound
    /\ B!GraphSound

LEMMA BrainAssumed ==
    /\ B!TextAssumption /\ Candidates \in [Specifier -> Seq(Path)]
    /\ IsFiniteSet(Path) /\ MaxChanges \in Nat /\ None \notin Path
    /\ None \notin [text : Sources, stamp : 0 .. MaxChanges] \cup [text : Sources, stamp : 0 .. MaxChanges, id : Nat]
<1>1. /\ B!TextAssumption /\ B!LookupAssumption /\ B!BrainAssumption
  BY Assumed
<1>2. IsFiniteSet(Path)
  BY <1>1 DEF B!BrainAssumption, B!IsFiniteSet, IsFiniteSet
<1>3. MaxChanges \in Nat /\ None \notin Path /\ Candidates \in [Specifier -> Seq(Path)]
  BY <1>1 DEF B!BrainAssumption, B!LookupAssumption
<1>4. /\ None \notin [text : Sources, stamp : Nat] /\ None \notin [text : Sources, stamp : Nat, id : Nat]
  BY <1>1 DEF B!BrainAssumption
<1>5. 0 .. MaxChanges \subseteq Nat
  BY <1>3
<1>6. None \notin [text : Sources, stamp : 0 .. MaxChanges]
  BY <1>4, <1>5
<1>7. None \notin [text : Sources, stamp : 0 .. MaxChanges, id : Nat]
  BY <1>4, <1>5
<1>. QED
  BY <1>1, <1>2, <1>3, <1>6, <1>7

LEMMA BrainCardinality == ASSUME NEW Z PROVE B!Cardinality(Z) = Cardinality(Z)
BY DEF B!Cardinality, Cardinality

LEMMA FileRow ==
    ASSUME NEW fs \in FileRows, NEW p \in B!Files(fs)
    PROVE  /\ p \in Path /\ fs[p] # None /\ fs[p].text \in Sources
           /\ fs[p].stamp \in 0 .. MaxChanges /\ fs[p].id \in Nat \ {0}
<1>1. p \in Path /\ fs[p] \in [text : Sources, stamp : 0 .. MaxChanges, id : Nat \ {0}]
  BY DEF FileRows, B!Files
<1>. QED
  BY <1>1 DEF B!Files

-----------------------------------------------------------------------------
(* The graph of files.                                                     *)

\* What an import means.
LEMMA ResolveIs ==
    ASSUME NEW s \in Specifier, NEW fs
    PROVE  \/ /\ B!Resolve(s, fs) = None
              /\ \A k \in DOMAIN Candidates[s] : fs[Candidates[s][k]] = None
           \/ \E k \in DOMAIN Candidates[s] :
                /\ B!Resolve(s, fs) = Candidates[s][k] /\ fs[Candidates[s][k]] # None
                /\ \A j \in DOMAIN Candidates[s] : fs[Candidates[s][j]] # None => k <= j
<1>. DEFINE some == {k \in DOMAIN Candidates[s] : fs[Candidates[s][k]] # None}
            best == CHOOSE k \in some : \A j \in some : k <= j
<1>1. B!Resolve(s, fs) = IF some = {} THEN None ELSE Candidates[s][best]
  BY DEF B!Resolve
<1>2. some \in SUBSET Nat
  BY BrainAssumed
<1>3. some # {} => best \in some /\ \A j \in some : best <= j
  BY <1>2, FirstThere
<1>4. CASE some = {}
  BY <1>1, <1>4
<1>5. CASE some # {}
  <2>1. best \in DOMAIN Candidates[s] /\ fs[Candidates[s][best]] # None
    BY <1>3, <1>5
  <2>2. \A j \in DOMAIN Candidates[s] : fs[Candidates[s][j]] # None => best <= j
    BY <1>3, <1>5
  <2>3. B!Resolve(s, fs) = Candidates[s][best]
    BY <1>1, <1>5
  <2>. HIDE DEF best
  <2>. QED
    BY <2>1, <2>2, <2>3
<1>. QED
  BY <1>4, <1>5

LEMMA ResolvePath ==
    ASSUME NEW s \in Specifier, NEW fs, B!Resolve(s, fs) # None
    PROVE  B!Resolve(s, fs) \in B!Files(fs)
<1>1. PICK k \in DOMAIN Candidates[s] :
         B!Resolve(s, fs) = Candidates[s][k] /\ fs[Candidates[s][k]] # None
  BY ResolveIs
<1>2. Candidates[s][k] \in Path
  BY BrainAssumed
<1>. QED
  BY <1>1, <1>2 DEF B!Files

\* An import means the same as long as neither what it meant nor what it would
\* mean has changed.
LEMMA ResolveSame ==
    ASSUME NEW s \in Specifier, NEW old, NEW fs, NEW ch \in SUBSET Path,
           \A p \in Path : p \notin ch => fs[p] = old[p],
           B!Resolve(s, old) \notin ch, B!Resolve(s, fs) \notin ch
    PROVE  B!Resolve(s, old) = B!Resolve(s, fs)
<1>1. Candidates[s] \in Seq(Path)
  BY BrainAssumed
<1>2. \A k \in DOMAIN Candidates[s] : Candidates[s][k] \in Path /\ k \in Nat
  BY <1>1
<1>3. CASE B!Resolve(s, old) = None
  <2>1. SUFFICES ASSUME B!Resolve(s, fs) # None PROVE FALSE
    BY <1>3
  <2>2. B!Resolve(s, fs) \in Path /\ fs[B!Resolve(s, fs)] # None
    BY <2>1, ResolvePath DEF B!Files
  <2>3. old[B!Resolve(s, fs)] # None
    BY <2>2
  <2>4. PICK k \in DOMAIN Candidates[s] : B!Resolve(s, fs) = Candidates[s][k]
    BY <2>1, ResolveIs
  <2>5. \/ \A n \in DOMAIN Candidates[s] : old[Candidates[s][n]] = None
        \/ \E n \in DOMAIN Candidates[s] :
              B!Resolve(s, old) = Candidates[s][n]
    BY ResolveIs
  <2>. QED
    BY <1>2, <1>3, <2>3, <2>4, <2>5, BrainAssumed
<1>4. CASE B!Resolve(s, old) # None
  <2>1. PICK k \in DOMAIN Candidates[s] :
           /\ B!Resolve(s, old) = Candidates[s][k] /\ old[Candidates[s][k]] # None
           /\ \A j \in DOMAIN Candidates[s] : old[Candidates[s][j]] # None => k <= j
    BY <1>4, ResolveIs
  <2>2. fs[Candidates[s][k]] # None
    BY <1>2, <2>1
  <2>3. PICK n \in DOMAIN Candidates[s] :
           /\ B!Resolve(s, fs) = Candidates[s][n] /\ fs[Candidates[s][n]] # None
           /\ \A j \in DOMAIN Candidates[s] : fs[Candidates[s][j]] # None => n <= j
    BY <2>2, ResolveIs
  <2>4. old[Candidates[s][n]] # None
    BY <1>2, <2>3
  <2>5. k <= n /\ n <= k
    BY <2>1, <2>2, <2>3, <2>4
  <2>. QED
    BY <1>2, <2>1, <2>3, <2>5
<1>. QED
  BY <1>3, <1>4

\* The nodes and edges of one file.
NodesFrom(fs, p) ==
    {[path |-> p, id |-> fs[p].id, name |-> n] : n \in fs[p].text.defines \cup fs[p].text.declares}
Target(s, fs) ==
    LET target == B!Resolve(s, fs) IN
    [to |-> IF target = None THEN None ELSE fs[target].id, target |-> target]
Defining(n, fs) == {q \in B!Files(fs) : n \in fs[q].text.defines}
Meant(n, fs) ==
    IF B!Cardinality(Defining(n, fs)) = 1 THEN CHOOSE q \in Defining(n, fs) : TRUE ELSE None
ImportsFrom(fs, p) ==
    {[from |-> p, kind |-> "imports", key |-> s, to |-> Target(s, fs).to, target |-> Target(s, fs).target] :
        s \in fs[p].text.imports}
NamedBy(n, fs) == IF Meant(n, fs) = None THEN None ELSE fs[Meant(n, fs)].id
ReferencesFrom(fs, p) ==
    {[from |-> p, kind |-> "references", key |-> n, to |-> NamedBy(n, fs), target |-> Meant(n, fs)] :
        n \in fs[p].text.uses}

LEMMA NodesAre == ASSUME NEW fs, NEW ps
      PROVE  B!NodesOf(fs, ps) = UNION {NodesFrom(fs, p) : p \in ps \cap B!Files(fs)}
BY DEF B!NodesOf, NodesFrom

LEMMA ImportsAre ==
    ASSUME NEW fs, NEW ps
    PROVE  B!ImportEdges(fs, ps) = UNION {ImportsFrom(fs, p) : p \in ps \cap B!Files(fs)}
BY DEF B!ImportEdges, ImportsFrom, Target

LEMMA ReferencesAre ==
    ASSUME NEW fs, NEW ps
    PROVE  B!ReferenceEdges(fs, ps) = UNION {ReferencesFrom(fs, p) : p \in ps \cap B!Files(fs)}
BY DEF B!ReferenceEdges, ReferencesFrom, NamedBy, Meant, Defining

\* Nodes and edges know the file they are of.
LEMMA OfTheirFile ==
    ASSUME NEW fs, NEW ps
    PROVE  /\ \A n \in B!NodesOf(fs, ps) : n.path \in ps \cap B!Files(fs) /\ n \in NodesFrom(fs, n.path)
           /\ \A e \in B!ImportEdges(fs, ps) :
                 e.from \in ps \cap B!Files(fs) /\ e \in ImportsFrom(fs, e.from) /\ e.kind = "imports"
           /\ \A e \in B!ReferenceEdges(fs, ps) :
                 e.from \in ps \cap B!Files(fs) /\ e \in ReferencesFrom(fs, e.from) /\ e.kind = "references"
           /\ \A e \in B!PackageEdges(fs, ps) : e.from \in ps \cap B!Files(fs) /\ e.kind = "package"
<1>1. \A n \in B!NodesOf(fs, ps) : n.path \in ps \cap B!Files(fs) /\ n \in NodesFrom(fs, n.path)
  BY NodesAre DEF NodesFrom
<1>2. \A e \in B!ImportEdges(fs, ps) :
         e.from \in ps \cap B!Files(fs) /\ e \in ImportsFrom(fs, e.from) /\ e.kind = "imports"
  BY ImportsAre DEF ImportsFrom
<1>3. \A e \in B!ReferenceEdges(fs, ps) :
         e.from \in ps \cap B!Files(fs) /\ e \in ReferencesFrom(fs, e.from) /\ e.kind = "references"
  BY ReferencesAre DEF ReferencesFrom
<1>4. \A e \in B!PackageEdges(fs, ps) : e.from \in ps \cap B!Files(fs) /\ e.kind = "package"
  BY DEF B!PackageEdges
<1>. QED
  BY <1>1, <1>2, <1>3, <1>4

LEMMA MeantIs ==
    ASSUME NEW n, NEW fs
    PROVE  Meant(n, fs) = None \/ Meant(n, fs) \in Defining(n, fs)
<1>1. CASE Defining(n, fs) = {}
  <2>1. B!Cardinality(Defining(n, fs)) = 0
    BY <1>1, FS_EmptySet, BrainCardinality
  <2>. QED
    BY <2>1 DEF Meant
<1>2. CASE Defining(n, fs) # {}
  BY <1>2 DEF Meant
<1>. QED
  BY <1>1, <1>2

\* A name means the same as long as the same files define it.
LEMMA MeantSame ==
    ASSUME NEW n, NEW old, NEW fs, Defining(n, old) = Defining(n, fs)
    PROVE  Meant(n, old) = Meant(n, fs)
<1>. DEFINE OneOf(d) == IF B!Cardinality(d) = 1 THEN CHOOSE q \in d : TRUE ELSE None
<1>1. Meant(n, old) = OneOf(Defining(n, old)) /\ Meant(n, fs) = OneOf(Defining(n, fs))
  BY DEF Meant
<1>. HIDE DEF OneOf
<1>. QED
  BY <1>1

\* What the index holds of the files `old`.
GraphOf(old) ==
    /\ nodes = B!NodesOf(old, Path)
    /\ {e \in edges : e.kind # "package"} = B!ImportEdges(old, Path) \cup B!ReferenceEdges(old, Path)

\* The rows differ in changed files only.
Differ(old, fs, ch) ==
    ch \in SUBSET Path /\ \A p \in Path : p \notin ch => fs[p] = old[p]

\* Nodes and edges of a file that is not affected are what they were: what it
\* imports and the names it uses mean the same.
LEMMA UnaffectedImports ==
    ASSUME NEW old \in FileRows, NEW fs \in FileRows, NEW ch, Differ(old, fs, ch),
           GraphOf(old), NEW p \in Path, p \notin B!Affected(ch, fs), p \in B!Files(fs)
    PROVE  ImportsFrom(fs, p) = ImportsFrom(old, p)
<1>1. p \notin ch /\ fs[p] = old[p] /\ p \in B!Files(old)
  BY DEF B!Affected, Differ, B!Files
<1>2. fs[p].text.imports \subseteq Specifier
  BY FileRow, BrainAssumed DEF B!TextAssumption
<1>3. ASSUME NEW s \in fs[p].text.imports
      PROVE  Target(s, fs) = Target(s, old)
  <2>1. s \in Specifier
    BY <1>2
  <2>2. B!Resolve(s, fs) \notin ch
    BY DEF B!Affected
  <2>3. B!Resolve(s, old) \notin ch
    <3>. DEFINE e == [from |-> p, kind |-> "imports", key |-> s, to |-> Target(s, old).to,
                      target |-> Target(s, old).target]
    <3>1. e \in ImportsFrom(old, p)
      BY <1>1 DEF ImportsFrom
    <3>2. e \in B!ImportEdges(old, Path)
      BY <1>1, <3>1, ImportsAre
    <3>3. e \in edges /\ e.from = p /\ e.target = B!Resolve(s, old)
      BY <3>2 DEF GraphOf, Target
    <3>. HIDE DEF e
    <3>. QED
      BY <3>3 DEF B!Affected
  <2>4. B!Resolve(s, old) = B!Resolve(s, fs)
    BY <2>1, <2>2, <2>3, ResolveSame DEF Differ
  <2>5. B!Resolve(s, fs) # None => fs[B!Resolve(s, fs)].id = old[B!Resolve(s, fs)].id
    BY <2>1, <2>2, ResolvePath DEF Differ, B!Files
  <2>. QED
    BY <2>4, <2>5 DEF Target
<1>. QED
  BY <1>1, <1>3 DEF ImportsFrom

LEMMA UnaffectedReferences ==
    ASSUME NEW old \in FileRows, NEW fs \in FileRows, NEW ch, Differ(old, fs, ch),
           GraphOf(old), NEW p \in Path, p \notin B!Affected(ch, fs), p \in B!Files(fs)
    PROVE  ReferencesFrom(fs, p) = ReferencesFrom(old, p)
<1>1. p \notin ch /\ fs[p] = old[p] /\ p \in B!Files(old)
  BY DEF B!Affected, Differ, B!Files
<1>2. ASSUME NEW n \in fs[p].text.uses
      PROVE  NamedBy(n, fs) = NamedBy(n, old) /\ Meant(n, fs) = Meant(n, old)
  <2>1. ASSUME NEW q \in ch, q \in B!Files(old) PROVE n \notin old[q].text.defines
    <3>1. SUFFICES ASSUME n \in old[q].text.defines PROVE FALSE
      OBVIOUS
    <3>2. [path |-> q, id |-> old[q].id, name |-> n] \in B!NodesOf(old, Path)
      BY <2>1, <3>1, NodesAre DEF NodesFrom, B!Files
    <3>3. n \in {x.name : x \in {y \in nodes : y.path \in ch}}
      BY <3>2 DEF GraphOf
    <3>. QED
      BY <3>3 DEF B!Affected
  <2>2. ASSUME NEW q \in ch, q \in B!Files(fs) PROVE n \notin fs[q].text.defines
    BY <2>2 DEF B!Affected
  <2>3. Defining(n, old) = Defining(n, fs)
    BY <2>1, <2>2 DEF Defining, B!Files, Differ
  <2>4. Meant(n, old) = Meant(n, fs)
    BY <2>3, MeantSame
  <2>5. Meant(n, fs) # None => fs[Meant(n, fs)].id = old[Meant(n, fs)].id
    BY <2>2, MeantIs DEF Defining, B!Files, Differ
  <2>. QED
    BY <2>4, <2>5 DEF NamedBy
<1>. QED
  BY <1>1, <1>2 DEF ReferencesFrom

\* However few files are written again, as long as the affected ones are, the
\* graph is that of all the rows.
LEMMA NodesRebuilt ==
    ASSUME NEW old \in FileRows, NEW fs \in FileRows, NEW ch, Differ(old, fs, ch),
           GraphOf(old), NEW ps, B!Affected(ch, fs) \subseteq ps
    PROVE  {n \in nodes : n.path \notin ps} \cup B!NodesOf(fs, ps) = B!NodesOf(fs, Path)
<1>1. \A p \in Path : p \notin ps => fs[p] = old[p] /\ NodesFrom(fs, p) = NodesFrom(old, p)
  BY DEF B!Affected, Differ, NodesFrom
<1>2. ASSUME NEW n \in B!NodesOf(fs, Path), n \notin B!NodesOf(fs, ps)
      PROVE  n \in nodes /\ n.path \notin ps
  <2>1. n.path \in Path /\ n.path \in B!Files(fs) /\ n \in NodesFrom(fs, n.path)
    BY OfTheirFile
  <2>2. n.path \notin ps
    BY <1>2, <2>1, NodesAre
  <2>. QED
    BY <1>1, <2>1, <2>2, NodesAre DEF GraphOf, B!Files
<1>3. ASSUME NEW n \in nodes, n.path \notin ps
      PROVE  n \in B!NodesOf(fs, Path)
  <2>1. n.path \in Path /\ n.path \in B!Files(old) /\ n \in NodesFrom(old, n.path)
    BY OfTheirFile DEF GraphOf
  <2>. QED
    BY <1>1, <1>3, <2>1, NodesAre DEF B!Files
<1>4. B!NodesOf(fs, ps) \subseteq B!NodesOf(fs, Path)
  BY NodesAre DEF B!Files
<1>. QED
  BY <1>2, <1>3, <1>4

LEMMA EdgesRebuilt ==
    ASSUME NEW old \in FileRows, NEW fs \in FileRows, NEW ch, Differ(old, fs, ch),
           GraphOf(old), NEW ps, B!Affected(ch, fs) \subseteq ps
    PROVE  {e \in {x \in edges : x.from \notin ps} \cup B!EdgesOf(fs, ps) : e.kind # "package"}
             = B!ImportEdges(fs, Path) \cup B!ReferenceEdges(fs, Path)
<1>. DEFINE new == B!EdgesOf(fs, ps)
<1>1. \A p \in Path : p \notin ps => fs[p] = old[p]
  BY DEF B!Affected, Differ
<1>2. \A p \in Path : p \notin ps /\ p \in B!Files(fs) =>
         ImportsFrom(fs, p) = ImportsFrom(old, p) /\ ReferencesFrom(fs, p) = ReferencesFrom(old, p)
  BY UnaffectedImports, UnaffectedReferences
<1>3. ASSUME NEW e, e \in B!ImportEdges(fs, Path) \cup B!ReferenceEdges(fs, Path)
      PROVE  e \in {x \in edges : x.from \notin ps} \cup new /\ e.kind # "package"
  <2>1. e.from \in Path /\ e.from \in B!Files(fs) /\ e.kind # "package"
        /\ (e \in ImportsFrom(fs, e.from) \/ e \in ReferencesFrom(fs, e.from))
    BY <1>3, OfTheirFile
  <2>2. CASE e.from \in ps
    <3>1. e \in B!ImportEdges(fs, ps) \cup B!ReferenceEdges(fs, ps)
      BY <2>1, <2>2, ImportsAre, ReferencesAre
    <3>. QED
      BY <2>1, <3>1 DEF B!EdgesOf
  <2>3. CASE e.from \notin ps
    <3>1. e.from \in B!Files(old) /\ (e \in ImportsFrom(old, e.from) \/ e \in ReferencesFrom(old, e.from))
      BY <1>1, <1>2, <2>1, <2>3 DEF B!Files
    <3>2. e \in B!ImportEdges(old, Path) \cup B!ReferenceEdges(old, Path)
      BY <2>1, <3>1, ImportsAre, ReferencesAre
    <3>. QED
      BY <2>1, <2>3, <3>2 DEF GraphOf
  <2>. QED
    BY <2>2, <2>3
<1>4. ASSUME NEW e \in new, e.kind # "package"
      PROVE  e \in B!ImportEdges(fs, Path) \cup B!ReferenceEdges(fs, Path)
  <2>1. e \in B!ImportEdges(fs, ps) \cup B!ReferenceEdges(fs, ps)
    BY <1>4, OfTheirFile DEF B!EdgesOf
  <2>2. e.from \in B!Files(fs) /\ (e \in ImportsFrom(fs, e.from) \/ e \in ReferencesFrom(fs, e.from))
    BY <2>1, OfTheirFile
  <2>3. e.from \in Path
    BY <2>2 DEF B!Files
  <2>. QED
    BY <2>2, <2>3, ImportsAre, ReferencesAre
<1>5. ASSUME NEW e \in edges, e.from \notin ps, e.kind # "package"
      PROVE  e \in B!ImportEdges(fs, Path) \cup B!ReferenceEdges(fs, Path)
  <2>1. e \in B!ImportEdges(old, Path) \cup B!ReferenceEdges(old, Path)
    BY <1>5 DEF GraphOf
  <2>2. /\ e.from \in Path /\ e.from \in B!Files(old)
        /\ (e \in ImportsFrom(old, e.from) \/ e \in ReferencesFrom(old, e.from))
    BY <2>1, OfTheirFile
  <2>3. e.from \in B!Files(fs) /\ (e \in ImportsFrom(fs, e.from) \/ e \in ReferencesFrom(fs, e.from))
    BY <1>1, <1>2, <1>5, <2>2 DEF B!Files
  <2>. QED
    BY <2>2, <2>3, ImportsAre, ReferencesAre
<1>. HIDE DEF new
<1>. DEFINE written == {x \in edges : x.from \notin ps} \cup new
            rebuilt == B!ImportEdges(fs, Path) \cup B!ReferenceEdges(fs, Path)
<1>6. \A e \in rebuilt : e \in written /\ e.kind # "package"
  BY <1>3
<1>7. \A e \in written : e.kind # "package" => e \in rebuilt
  BY <1>4, <1>5
<1>. HIDE DEF written, rebuilt
<1>8. {e \in written : e.kind # "package"} = rebuilt
  BY <1>6, <1>7
<1>. QED
  BY <1>8 DEF written, rebuilt, new

-----------------------------------------------------------------------------
(* A run.                                                                  *)

\* The files that are read, the new ones among them, those that are old ones
\* moved, and those that get an identity.
ReadBy(skipped) == {p \in B!Files(disk) \ skipped : ~ B!Unchanged(p)}
NewBy(skipped) == {p \in ReadBy(skipped) : cache[p] = None}
MovedBy(skipped) == {p \in NewBy(skipped) : B!MovedTo(p, NewBy(skipped)) # {}}
FreshBy(skipped) == NewBy(skipped) \ MovedBy(skipped)
Former(p, skipped) == CHOOSE q \in B!MovedTo(p, NewBy(skipped)) : TRUE
NumberBy(fresh) ==
    CHOOSE f \in [fresh -> 1 .. Cardinality(fresh)] : \A p, q \in fresh : p # q => f[p] # f[q]

\* The files of a finite set can be numbered.
LEMMA Numbered ==
    ASSUME NEW fresh, IsFiniteSet(fresh)
    PROVE  /\ NumberBy(fresh) \in [fresh -> 1 .. Cardinality(fresh)]
           /\ \A p, q \in fresh : p # q => NumberBy(fresh)[p] # NumberBy(fresh)[q]
<1>. DEFINE n == Cardinality(fresh)
<1>1. n \in Nat
  BY FS_CardinalityType
<1>2. IsFiniteSet(1 .. n) /\ Cardinality(1 .. n) = n
  BY <1>1, FS_Interval
<1>3. ExistsBijection(fresh, 1 .. n)
  BY <1>2, FS_SameCardinalityBij
<1>4. PICK f \in Bijection(fresh, 1 .. n) : TRUE
  BY <1>3 DEF ExistsBijection
<1>5. f \in [fresh -> 1 .. n] /\ \A p, q \in fresh : f[p] = f[q] => p = q
  BY <1>4 DEF Bijection, Injection, IsInjective
<1>6. f \in [fresh -> 1 .. n] /\ \A p, q \in fresh : p # q => f[p] # f[q]
  BY <1>5
<1>. QED
  BY <1>6 DEF NumberBy

\* A file that moved was another that is gone, and nobody else is that one.
LEMMA MoveIs ==
    ASSUME NEW skipped, NEW p \in MovedBy(skipped)
    PROVE  /\ Former(p, skipped) \in B!Removed
           /\ cache[Former(p, skipped)].text = disk[p].text
           /\ p = CHOOSE q \in {x \in NewBy(skipped) : disk[x].text = disk[p].text} : TRUE
<1>1. B!MovedTo(p, NewBy(skipped)) # {}
  BY DEF MovedBy
<1>2. Former(p, skipped) \in B!MovedTo(p, NewBy(skipped))
  BY <1>1 DEF Former
<1>. QED
  BY <1>1, <1>2 DEF B!MovedTo

LEMMA MoveOnce ==
    ASSUME NEW skipped, NEW p \in MovedBy(skipped), NEW q \in MovedBy(skipped),
           Former(p, skipped) = Former(q, skipped)
    PROVE  p = q
<1>. DEFINE FirstOf(t) == CHOOSE x \in {y \in NewBy(skipped) : disk[y].text = t} : TRUE
<1>1. p = FirstOf(disk[p].text) /\ q = FirstOf(disk[q].text)
  BY MoveIs
<1>2. disk[p].text = disk[q].text
  BY MoveIs
<1>. HIDE DEF FirstOf
<1>. QED
  BY <1>1, <1>2

\* Where the row of a file comes from.
LEMMA PreparedRow ==
    ASSUME NEW skipped, skipped \subseteq B!Files(disk), NEW p \in Path
    PROVE  LET row2 == B!Prepared(skipped)[p] IN
           \/ p \in MovedBy(skipped) /\ row2 = B!Row(p, cache[Former(p, skipped)].id)
           \/ p \in FreshBy(skipped) /\ row2 = B!Row(p, lastId + NumberBy(FreshBy(skipped))[p])
           \/ p \in ReadBy(skipped) \ NewBy(skipped) /\ row2 = B!Row(p, cache[p].id)
           \/ p \in B!Files(disk) /\ cache[p] # None /\ row2 = cache[p]
           \/ /\ row2 = None /\ p \notin ReadBy(skipped)
              /\ p \notin B!Files(disk) \/ cache[p] = None
<1>. DEFINE read == ReadBy(skipped)
            new == NewBy(skipped)
            moved == MovedBy(skipped)
            fresh == FreshBy(skipped)
            number == NumberBy(fresh)
<1>1. B!Prepared(skipped) = [x \in Path |->
         CASE x \in moved -> B!Row(x, cache[Former(x, skipped)].id)
           [] x \in fresh -> B!Row(x, lastId + number[x])
           [] x \in read \ new -> B!Row(x, cache[x].id)
           [] x \in skipped /\ cache[x] # None -> B!Kept(x)
           [] x \notin skipped /\ B!Unchanged(x) -> cache[x]
           [] OTHER -> None]
  BY BrainCardinality
  DEF B!Prepared, ReadBy, NewBy, MovedBy, FreshBy, Former, NumberBy
<1>2. B!Prepared(skipped)[p] =
         CASE p \in moved -> B!Row(p, cache[Former(p, skipped)].id)
           [] p \in fresh -> B!Row(p, lastId + number[p])
           [] p \in read \ new -> B!Row(p, cache[p].id)
           [] p \in skipped /\ cache[p] # None -> B!Kept(p)
           [] p \notin skipped /\ B!Unchanged(p) -> cache[p]
           [] OTHER -> None
  BY <1>1
<1>3. p \notin skipped /\ B!Unchanged(p) => p \in B!Files(disk) /\ cache[p] # None
  BY DEF B!Unchanged, B!Files
<1>4. p \in new => p \in moved \cup fresh
  BY DEF FreshBy
<1>5. p \in B!Files(disk) \ skipped => p \in read \/ B!Unchanged(p)
  BY DEF ReadBy
<1>d. /\ p \in moved => p \in new /\ p \notin fresh
      /\ p \in fresh => p \in new
      /\ p \in new => p \in read
      /\ p \in read => p \notin skipped /\ ~ B!Unchanged(p)
  BY DEF MovedBy, FreshBy, NewBy, ReadBy
<1>. HIDE DEF read, new, moved, fresh, number
<1>6. CASE p \in moved
  BY <1>2, <1>d, <1>6 DEF moved
<1>7. CASE p \notin moved /\ p \in fresh
  BY <1>2, <1>d, <1>7 DEF fresh, number
<1>8. CASE p \notin moved \cup fresh /\ p \in read \ new
  BY <1>2, <1>d, <1>8 DEF read, new
<1>9. CASE p \notin moved \cup fresh \cup (read \ new) /\ p \in skipped /\ cache[p] # None
  BY <1>2, <1>9 DEF B!Kept
<1>10. CASE p \notin moved \cup fresh \cup (read \ new) /\ p \notin skipped /\ B!Unchanged(p)
  BY <1>2, <1>3, <1>10
<1>11. CASE /\ p \notin moved \cup fresh \cup (read \ new)
            /\ ~ (p \in skipped /\ cache[p] # None) /\ ~ (p \notin skipped /\ B!Unchanged(p))
  <2>1. B!Prepared(skipped)[p] = None
    BY <1>2, <1>11
  <2>. QED
    BY <2>1, <1>4, <1>5, <1>11 DEF read
<1>. QED
  BY <1>6, <1>7, <1>8, <1>9, <1>10, <1>11

\* Files and rows are what they are.
BrainRows ==
    /\ disk \in [Path -> {None} \cup B!Source] /\ cache \in FileRows /\ lastId \in Nat
    /\ \A p \in B!Files(cache) : cache[p].id \in 1 .. lastId
    /\ B!IdentitiesUnique

LEMMA RowIs ==
    ASSUME BrainRows, NEW p \in B!Files(disk), NEW id \in Nat \ {0}
    PROVE  /\ B!Row(p, id) \in [text : Sources, stamp : 0 .. MaxChanges, id : Nat \ {0}]
           /\ B!Row(p, id).id = id /\ B!Row(p, id) # None
<1>1. disk[p] \in B!Source
  BY DEF BrainRows, B!Files
<1>2. disk[p].text \in Sources /\ disk[p].stamp \in 0 .. MaxChanges
  BY <1>1 DEF B!Source
<1>3. B!Row(p, id) \in [text : Sources, stamp : 0 .. MaxChanges, id : Nat \ {0}]
  BY <1>2 DEF B!Row
<1>4. B!Row(p, id) \in [text : Sources, stamp : 0 .. MaxChanges, id : Nat]
  BY <1>3
<1>. QED
  BY <1>3, <1>4, BrainAssumed DEF B!Row

\* A prepared row has the number of a new file, or the identity of the file
\* itself, or that of one that is gone.
LEMMA PreparedIs ==
    ASSUME BrainRows, NEW skipped, skipped \subseteq B!Files(disk), NEW p \in Path
    PROVE  LET row2 == B!Prepared(skipped)[p] IN
           /\ row2 \in {None} \cup [text : Sources, stamp : 0 .. MaxChanges, id : Nat \ {0}]
           /\ row2 = None => p \notin B!Files(disk) \/ cache[p] = None
           /\ p \in FreshBy(skipped) => row2 # None
           /\ row2 # None =>
                \/ /\ p \in FreshBy(skipped) /\ row2.id = lastId + NumberBy(FreshBy(skipped))[p]
                \/ /\ p \in B!Files(cache) /\ p \in B!Files(disk) /\ p \notin FreshBy(skipped)
                   /\ row2.id = cache[p].id
                \/ /\ p \in MovedBy(skipped) /\ p \notin FreshBy(skipped)
                   /\ Former(p, skipped) \in B!Removed
                   /\ row2.id = cache[Former(p, skipped)].id
<1>. DEFINE row2 == B!Prepared(skipped)[p]
            fresh == FreshBy(skipped)
<1>1. fresh \subseteq Path /\ IsFiniteSet(fresh) /\ Cardinality(fresh) \in Nat
  BY BrainAssumed, FS_Subset, FS_CardinalityType DEF FreshBy, NewBy, ReadBy, B!Files
<1>2. CASE p \in MovedBy(skipped) /\ row2 = B!Row(p, cache[Former(p, skipped)].id)
  <2>1. Former(p, skipped) \in B!Removed /\ Former(p, skipped) \in B!Files(cache) /\ p \in B!Files(disk)
        /\ p \notin fresh /\ p \in Path
    BY <1>2, MoveIs DEF B!Removed, MovedBy, NewBy, ReadBy, FreshBy, B!Files
  <2>2. cache[Former(p, skipped)].id \in Nat \ {0}
    BY <2>1, FileRow DEF BrainRows
  <2>. HIDE DEF row2, fresh
  <2>3. row2 \in [text : Sources, stamp : 0 .. MaxChanges, id : Nat \ {0}] /\ row2 # None
        /\ row2.id = cache[Former(p, skipped)].id
    BY <1>2, <2>1, <2>2, RowIs
  <2>. QED
    BY <1>2, <2>1, <2>3 DEF row2, fresh
<1>3. CASE p \in fresh /\ row2 = B!Row(p, lastId + NumberBy(fresh)[p])
  <2>1. p \in B!Files(disk)
    BY <1>3 DEF FreshBy, NewBy, ReadBy
  <2>2. NumberBy(fresh)[p] \in 1 .. Cardinality(fresh)
    BY <1>1, <1>3, Numbered
  <2>3. lastId + NumberBy(fresh)[p] \in Nat \ {0}
    BY <1>1, <2>2 DEF BrainRows
  <2>. HIDE DEF row2, fresh
  <2>4. row2 \in [text : Sources, stamp : 0 .. MaxChanges, id : Nat \ {0}] /\ row2 # None
        /\ row2.id = lastId + NumberBy(fresh)[p]
    BY <1>3, <2>1, <2>3, RowIs
  <2>. QED
    BY <1>3, <2>4 DEF row2, fresh
<1>4. CASE p \in ReadBy(skipped) \ NewBy(skipped) /\ row2 = B!Row(p, cache[p].id)
  <2>1. p \in B!Files(disk) /\ p \in B!Files(cache) /\ p \notin fresh
    BY <1>4 DEF FreshBy, NewBy, ReadBy, B!Files
  <2>2. cache[p].id \in Nat \ {0}
    BY <2>1, FileRow DEF BrainRows
  <2>. HIDE DEF row2, fresh
  <2>3. row2 \in [text : Sources, stamp : 0 .. MaxChanges, id : Nat \ {0}] /\ row2 # None
        /\ row2.id = cache[p].id
    BY <1>4, <2>1, <2>2, RowIs
  <2>. QED
    BY <2>1, <2>3 DEF row2, fresh
<1>5. CASE p \in B!Files(disk) /\ cache[p] # None /\ row2 = cache[p]
  <2>1. p \in B!Files(cache) /\ p \notin fresh /\ cache[p] \in [text : Sources, stamp : 0 .. MaxChanges, id : Nat \ {0}]
    BY <1>5 DEF FreshBy, NewBy, B!Files, BrainRows, FileRows
  <2>. HIDE DEF fresh
  <2>. QED
    BY <1>5, <2>1 DEF fresh
<1>6. CASE row2 = None /\ p \notin ReadBy(skipped) /\ (p \notin B!Files(disk) \/ cache[p] = None)
  <2>1. p \notin fresh
    BY <1>6 DEF FreshBy, NewBy
  <2>. QED
    BY <1>6, <2>1
<1>. HIDE DEF row2
<1>7. \/ p \in MovedBy(skipped) /\ row2 = B!Row(p, cache[Former(p, skipped)].id)
      \/ p \in fresh /\ row2 = B!Row(p, lastId + NumberBy(fresh)[p])
      \/ p \in ReadBy(skipped) \ NewBy(skipped) /\ row2 = B!Row(p, cache[p].id)
      \/ p \in B!Files(disk) /\ cache[p] # None /\ row2 = cache[p]
      \/ row2 = None /\ p \notin ReadBy(skipped) /\ (p \notin B!Files(disk) \/ cache[p] = None)
  BY PreparedRow DEF row2
<1>. QED
  BY <1>2, <1>3, <1>4, <1>5, <1>6, <1>7 DEF row2

\* A prepared run gives no identity twice, and numbers on from the last.
LEMMA PreparedSound ==
    ASSUME BrainRows, NEW skipped, skipped \subseteq B!Files(disk)
    PROVE  LET fs == B!Prepared(skipped) IN
           /\ fs \in FileRows
           /\ \A p \in Path : fs[p] # cache[p] => p \in B!Removed \/ p \in B!Files(fs)
           /\ \A p, q \in B!Files(fs) : p # q => fs[p].id # fs[q].id
           /\ \A p \in B!Files(fs) :
                 fs[p].id <= lastId + Cardinality({q \in B!Files(fs) : fs[q].id > lastId})
<1>. DEFINE fs == B!Prepared(skipped)
            fresh == FreshBy(skipped)
            number == NumberBy(fresh)
<1>1. fresh \subseteq Path /\ IsFiniteSet(fresh) /\ Cardinality(fresh) \in Nat
  BY BrainAssumed, FS_Subset, FS_CardinalityType DEF FreshBy, NewBy, ReadBy, B!Files
<1>2. number \in [fresh -> 1 .. Cardinality(fresh)] /\ \A p, q \in fresh : p # q => number[p] # number[q]
  BY <1>1, Numbered
<1>3. \A p \in Path :
           /\ fs[p] \in {None} \cup [text : Sources, stamp : 0 .. MaxChanges, id : Nat \ {0}]
           /\ fs[p] = None => p \notin B!Files(disk) \/ cache[p] = None
           /\ p \in fresh => fs[p] # None
           /\ fs[p] # None =>
                \/ p \in fresh /\ fs[p].id = lastId + number[p]
                \/ /\ p \in B!Files(cache) /\ p \in B!Files(disk) /\ p \notin fresh
                   /\ fs[p].id = cache[p].id
                \/ /\ p \in MovedBy(skipped) /\ p \notin fresh
                   /\ Former(p, skipped) \in B!Removed
                   /\ fs[p].id = cache[Former(p, skipped)].id
  BY PreparedIs
<1>4. fs = [p \in Path |-> fs[p]]
  BY DEF B!Prepared
<1>. HIDE DEF fs, fresh, number
<1>5. fs \in FileRows
  BY <1>3, <1>4 DEF FileRows
<1>6. \A p \in Path : fs[p] # cache[p] => p \in B!Removed \/ p \in B!Files(fs)
  BY <1>3 DEF B!Removed, B!Files
<1>7. \A p \in B!Removed : p \in B!Files(cache) /\ p \notin B!Files(disk)
  BY DEF B!Removed
<1>8. \A p \in B!Files(fs) :
         \/ p \in fresh /\ fs[p].id = lastId + number[p] /\ number[p] \in 1 .. Cardinality(fresh)
            /\ fs[p].id > lastId /\ fs[p].id <= lastId + Cardinality(fresh)
         \/ p \notin fresh /\ fs[p].id <= lastId /\ p \in B!Files(cache) /\ p \in B!Files(disk)
            /\ fs[p].id = cache[p].id /\ fs[p].id \in Nat
         \/ p \notin fresh /\ fs[p].id <= lastId /\ p \in MovedBy(skipped)
            /\ Former(p, skipped) \in B!Files(cache) /\ Former(p, skipped) \notin B!Files(disk)
            /\ fs[p].id = cache[Former(p, skipped)].id /\ fs[p].id \in Nat
  <2>. SUFFICES ASSUME NEW p \in B!Files(fs)
                PROVE  \/ p \in fresh /\ fs[p].id = lastId + number[p] /\ number[p] \in 1 .. Cardinality(fresh)
                          /\ fs[p].id > lastId /\ fs[p].id <= lastId + Cardinality(fresh)
                       \/ p \notin fresh /\ fs[p].id <= lastId /\ p \in B!Files(cache) /\ p \in B!Files(disk)
                          /\ fs[p].id = cache[p].id /\ fs[p].id \in Nat
                       \/ p \notin fresh /\ fs[p].id <= lastId /\ p \in MovedBy(skipped)
                          /\ Former(p, skipped) \in B!Files(cache) /\ Former(p, skipped) \notin B!Files(disk)
                          /\ fs[p].id = cache[Former(p, skipped)].id /\ fs[p].id \in Nat
    OBVIOUS
  <2>1. p \in Path /\ fs[p] # None
    BY DEF B!Files
  <2>2. CASE p \in fresh /\ fs[p].id = lastId + number[p]
    BY <1>1, <1>2, <2>2 DEF BrainRows
  <2>3. CASE p \in B!Files(cache) /\ p \in B!Files(disk) /\ p \notin fresh /\ fs[p].id = cache[p].id
    BY <2>3 DEF BrainRows
  <2>4. CASE /\ p \in MovedBy(skipped) /\ p \notin fresh /\ Former(p, skipped) \in B!Removed
             /\ fs[p].id = cache[Former(p, skipped)].id
    BY <1>7, <2>4 DEF BrainRows
  <2>. QED
    BY <1>3, <2>1, <2>2, <2>3, <2>4
<1>9. ASSUME NEW p \in B!Files(fs), NEW q \in B!Files(fs), fs[p].id = fs[q].id
      PROVE  p = q
  <2>1. \A x, y \in B!Files(cache) : cache[x].id = cache[y].id => x = y
    BY DEF BrainRows, B!IdentitiesUnique
  <2>2. CASE p \in fresh
    <3>1. q \in fresh
      BY <1>1, <1>8, <1>9, <2>2 DEF BrainRows
    <3>2. number[p] = number[q]
      BY <1>1, <1>8, <1>9, <2>2, <3>1 DEF BrainRows
    <3>. QED
      BY <1>2, <2>2, <3>1, <3>2
  <2>3. CASE p \notin fresh /\ q \notin fresh
    BY <1>8, <1>9, <2>1, <2>3, MoveOnce
  <2>4. CASE p \notin fresh /\ q \in fresh
    BY <1>1, <1>8, <1>9, <2>4 DEF BrainRows
  <2>. QED
    BY <2>2, <2>3, <2>4
<1>10. {q \in B!Files(fs) : fs[q].id > lastId} = fresh
  <2>1. \A q \in fresh : q \in B!Files(fs)
    BY <1>1, <1>3 DEF B!Files
  <2>2. \A q \in B!Files(fs) : fs[q].id > lastId <=> q \in fresh
    BY <1>1, <1>8 DEF BrainRows
  <2>. QED
    BY <2>1, <2>2
<1>11. \A p \in B!Files(fs) : fs[p].id <= lastId + Cardinality(fresh)
  BY <1>1, <1>8 DEF BrainRows
<1>12. \A p \in B!Files(fs) :
         fs[p].id <= lastId + Cardinality({q \in B!Files(fs) : fs[q].id > lastId})
  BY <1>10, <1>11
<1>13. \A p, q \in B!Files(fs) : p # q => fs[p].id # fs[q].id
  BY <1>9
<1>. QED
  BY <1>5, <1>6, <1>12, <1>13 DEF fs

-----------------------------------------------------------------------------
(* Every step.                                                             *)

LEMMA GraphTyped ==
    ASSUME NEW fs \in FileRows, NEW ps, NEW m \in Nat,
           \A p \in B!Files(fs) : fs[p].id <= m
    PROVE  /\ \A n \in B!NodesOf(fs, ps) :
                 n.path \in Path /\ n.id \in 1 .. m /\ n.name \in Name \cup Package
           /\ \A e \in B!EdgesOf(fs, ps) : e.from \in Path /\ e.to \in {None} \cup (1 .. m)
<1>1. \A p \in B!Files(fs) : p \in Path /\ fs[p].id \in 1 .. m /\ fs[p].text \in Sources
  BY FileRow
<1>2. \A p \in B!Files(fs) : /\ fs[p].text.defines \subseteq Name
                               /\ fs[p].text.declares \subseteq Package
                               /\ fs[p].text.imports \subseteq Specifier
  BY <1>1, BrainAssumed DEF B!TextAssumption
<1>3. \A n \in B!NodesOf(fs, ps) :
         n.path \in Path /\ n.id \in 1 .. m /\ n.name \in Name \cup Package
  <2>1. SUFFICES ASSUME NEW n \in B!NodesOf(fs, ps)
                 PROVE  n.path \in Path /\ n.id \in 1 .. m /\ n.name \in Name \cup Package
    OBVIOUS
  <2>2. PICK p \in B!Files(fs) : n \in NodesFrom(fs, p)
    BY NodesAre
  <2>. QED
    BY <1>1, <1>2, <2>2 DEF NodesFrom
<1>4. ASSUME NEW e \in B!ImportEdges(fs, ps)
      PROVE  e.from \in Path /\ e.to \in {None} \cup (1 .. m)
  <2>1. PICK p \in B!Files(fs) : e \in ImportsFrom(fs, p)
    BY ImportsAre
  <2>2. PICK s \in fs[p].text.imports : e.from = p /\ e.to = Target(s, fs).to
    BY <2>1 DEF ImportsFrom
  <2>3. Target(s, fs).to = IF B!Resolve(s, fs) = None THEN None ELSE fs[B!Resolve(s, fs)].id
    BY DEF Target
  <2>4. s \in Specifier
    BY <1>2
  <2>. QED
    BY <1>1, <2>2, <2>3, <2>4, ResolvePath
<1>5. ASSUME NEW e \in B!ReferenceEdges(fs, ps)
      PROVE  e.from \in Path /\ e.to \in {None} \cup (1 .. m)
  <2>1. PICK p \in B!Files(fs) : e \in ReferencesFrom(fs, p)
    BY ReferencesAre
  <2>2. PICK n \in fs[p].text.uses : e.from = p /\ e.to = NamedBy(n, fs)
    BY <2>1 DEF ReferencesFrom
  <2>3. Meant(n, fs) = None \/ Meant(n, fs) \in B!Files(fs)
    BY MeantIs DEF Defining
  <2>. QED
    BY <1>1, <2>2, <2>3 DEF NamedBy
<1>6. ASSUME NEW e \in B!PackageEdges(fs, ps)
      PROVE  e.from \in Path /\ e.to \in {None} \cup (1 .. m)
  <2>. DEFINE Declaring(k) == {q \in B!Files(fs) : k \in fs[q].text.declares}
  <2>1. PICK p \in B!Files(fs) : \E k \in fs[p].text.packages :
           e = [from |-> p, kind |-> "package", key |-> k,
                to |-> IF Declaring(k) = {} THEN None
                       ELSE fs[CHOOSE q \in Declaring(k) : TRUE].id, target |-> None]
    BY DEF B!PackageEdges
  <2>2. \A k : Declaring(k) # {} => (CHOOSE q \in Declaring(k) : TRUE) \in B!Files(fs)
    OBVIOUS
  <2>. HIDE DEF Declaring
  <2>. QED
    BY <1>1, <2>1, <2>2
<1>. QED
  BY <1>3, <1>4, <1>5, <1>6 DEF B!EdgesOf

\* The graph, as an operator of the index.
GraphFor(fs2, ns, es) ==
    /\ ns = B!NodesOf(fs2, Path)
    /\ {e \in es : e.kind # "package"} = B!ImportEdges(fs2, Path) \cup B!ReferenceEdges(fs2, Path)
    /\ \A p, q \in B!Files(fs2) : p # q => fs2[p].id # fs2[q].id

LEMMA GraphNow ==
    /\ B!GraphSound = GraphFor(cache, nodes, edges)
    /\ B!GraphSound' = GraphFor(cache', nodes', edges')
<1>1. B!GraphSound = GraphFor(cache, nodes, edges)
  BY DEF GraphFor, B!GraphSound, B!GraphAsRebuilt, B!IdentitiesUnique, B!Files
<1>2. B!GraphSound' = GraphFor(cache', nodes', edges')
  BY
  DEF GraphFor, B!GraphSound, B!GraphAsRebuilt, B!IdentitiesUnique, B!Files,
      B!NodesOf, B!ImportEdges, B!ReferenceEdges, B!Resolve
<1>. QED
  BY <1>1, <1>2

LEMMA StartStep ==
    ASSUME B!BrainTypeOK, BrainHolds, NEW full \in BOOLEAN, NEW skipped \in SUBSET Path,
           B!Start(full, skipped)
    PROVE  B!BrainTypeOK' /\ BrainHolds'
<1>. DEFINE prep == B!Prepared(skipped)
            ch2 == B!Removed \cup skipped \cup {p \in B!Files(prep) : prep[p] # cache[p]}
            asks == B!ToParse(prep, full \/ forceFull, skipped)
<1>1. /\ skipped \subseteq B!Files(disk) /\ changes' \in {changes, changes + 1}
      /\ changes' # changes => changes < MaxChanges
      /\ indexRun' = [full |-> full \/ forceFull, rows |-> prep, changed |-> ch2, parsing |-> asks,
                      shown |-> TRUE]
      /\ UNCHANGED <<disk, cache, nodes, edges, corrupt, paused, forceFull, lastId>>
  BY DEF B!Start
<1>2. BrainRows
  BY DEF BrainRows, BrainHolds, B!GraphSound, B!BrainTypeOK
<1>3. prep \in FileRows /\ \A p \in Path : prep[p] # cache[p] => p \in B!Removed \/ p \in B!Files(prep)
  BY <1>1, <1>2, PreparedSound
<1>4. \A p, q \in B!Files(prep) : p # q => prep[p].id # prep[q].id
  BY <1>1, <1>2, PreparedSound
<1>5. \A p \in B!Files(prep) :
         prep[p].id <= lastId + Cardinality({q \in B!Files(prep) : prep[q].id > lastId})
  BY <1>1, <1>2, PreparedSound
<1>6. asks \subseteq Path /\ ch2 \subseteq Path
  BY DEF B!ToParse, B!Files, B!Removed
<1>7. \A p \in Path : prep[p] # cache[p] => p \in ch2
  BY <1>3
<1>8. (full \/ forceFull) \in BOOLEAN
  OBVIOUS
<1>. HIDE DEF prep, ch2, asks
<1>9. indexRun' \in IndexRun /\ indexRun'.rows = prep /\ indexRun'.changed = ch2
  BY <1>1, <1>3, <1>6, <1>8 DEF IndexRun
<1>10. RunSound'
  BY <1>1, <1>4, <1>5, <1>7, <1>9 DEF RunSound, B!Files
<1>11. changes' \in 0 .. MaxChanges
  BY <1>1, BrainAssumed DEF B!BrainTypeOK
<1>12. indexRun'.parsing \subseteq Path /\ indexRun'.full \in BOOLEAN /\ indexRun'.shown \in BOOLEAN
  BY <1>9 DEF IndexRun
<1>13. B!BrainTypeOK'
  BY <1>1, <1>11, <1>12 DEF B!BrainTypeOK, B!Files
<1>. QED
  BY <1>1, <1>10, <1>13, GraphNow DEF BrainHolds

LEMMA CommitStep ==
    ASSUME B!BrainTypeOK, BrainHolds, B!Commit
    PROVE  B!BrainTypeOK' /\ BrainHolds'
<1>. DEFINE fs2 == indexRun.rows
            at2 == B!Affected(indexRun.changed, fs2) \cup IF indexRun.full THEN B!Files(fs2) ELSE {}
<1>1. /\ indexRun # None /\ cache' = fs2 /\ indexRun' = None
      /\ nodes' = {n \in nodes : n.path \notin at2} \cup B!NodesOf(fs2, at2)
      /\ edges' = {e \in edges : e.from \notin at2} \cup B!EdgesOf(fs2, at2)
      /\ corrupt' = corrupt \ at2 /\ forceFull' = FALSE
      /\ lastId' = lastId + B!Cardinality({p \in B!Files(fs2) : fs2[p].id > lastId})
      /\ UNCHANGED <<disk, paused, changes>>
  BY DEF B!Commit
<1>2. RunSound
  BY <1>1 DEF BrainHolds
<1>3. fs2 \in FileRows /\ indexRun.changed \subseteq Path
  BY <1>2 DEF RunSound, IndexRun
<1>4. Differ(cache, fs2, indexRun.changed)
  BY <1>2, <1>3 DEF RunSound, Differ
<1>5. cache \in FileRows /\ lastId \in Nat /\ GraphOf(cache)
  BY DEF BrainHolds, B!GraphSound, B!GraphAsRebuilt, GraphOf
<1>. HIDE DEF fs2
<1>6. B!Affected(indexRun.changed, fs2) \subseteq at2
  OBVIOUS
<1>. HIDE DEF at2
<1>7. nodes' = B!NodesOf(fs2, Path)
  BY <1>1, <1>3, <1>4, <1>5, <1>6, NodesRebuilt
<1>8. {e \in edges' : e.kind # "package"} = B!ImportEdges(fs2, Path) \cup B!ReferenceEdges(fs2, Path)
  BY <1>1, <1>3, <1>4, <1>5, <1>6, EdgesRebuilt
<1>9. lastId' = lastId + Cardinality({p \in B!Files(fs2) : fs2[p].id > lastId})
  BY <1>1, BrainCardinality
<1>10. IsFiniteSet({p \in B!Files(fs2) : fs2[p].id > lastId})
  <2>1. {p \in B!Files(fs2) : fs2[p].id > lastId} \subseteq Path
    BY DEF B!Files
  <2>. QED
    BY <2>1, BrainAssumed, FS_Subset
<1>11. lastId' \in Nat /\ lastId <= lastId'
  BY <1>5, <1>9, <1>10, FS_CardinalityType
<1>12. \A p \in B!Files(fs2) : fs2[p].id <= lastId'
  BY <1>2, <1>9 DEF RunSound, fs2
<1>13. \A p \in B!Files(fs2) : p \in Path /\ fs2[p] \in [text : Sources, stamp : 0 .. MaxChanges, id : Nat \ {0}]
  BY <1>3 DEF FileRows, B!Files
<1>14. \A p \in B!Files(cache') : /\ [text |-> cache'[p].text, stamp |-> cache'[p].stamp] \in B!Source
                                  /\ cache'[p].id \in 1 .. lastId'
  <2>1. B!Files(cache') = B!Files(fs2)
    BY <1>1
  <2>2. \A p \in B!Files(fs2) : fs2[p].id \in 1 .. lastId'
    BY <1>11, <1>12, <1>13
  <2>. QED
    BY <1>1, <1>13, <2>1, <2>2 DEF B!Source
<1>15. \A n \in nodes' : n.path \in Path /\ n.id \in 1 .. lastId' /\ n.name \in Name \cup Package
  BY <1>3, <1>7, <1>11, <1>12, GraphTyped
<1>16. \A e \in B!EdgesOf(fs2, at2) : e.from \in Path /\ e.to \in {None} \cup (1 .. lastId')
  BY <1>3, <1>11, <1>12, GraphTyped
<1>17. \A e \in edges : e.from \in Path /\ e.to \in {None} \cup (1 .. lastId')
  BY <1>5, <1>11 DEF B!BrainTypeOK
<1>18. \A e \in edges' : e.from \in Path /\ e.to \in {None} \cup (1 .. lastId')
  BY <1>1, <1>16, <1>17
<1>19. B!BrainTypeOK'
  BY <1>1, <1>14, <1>15, <1>18 DEF B!BrainTypeOK, B!Files
<1>20. \A p, q \in B!Files(fs2) : p # q => fs2[p].id # fs2[q].id
  BY <1>2 DEF RunSound, fs2
<1>. HIDE DEF at2
<1>21. GraphFor(cache', nodes', edges')
  BY <1>1, <1>7, <1>8, <1>20 DEF GraphFor
<1>22. cache' \in FileRows /\ disk' \in [Path -> {None} \cup B!Source] /\ indexRun' = None
  BY <1>1, <1>3 DEF BrainHolds
<1>23. B!GraphSound'
  BY <1>21, GraphNow
<1>24. BrainHolds'
  BY <1>11, <1>22, <1>23 DEF BrainHolds
<1>. QED
  BY <1>19, <1>24

\* A step that leaves the index alone.
LEMMA QuietStep ==
    ASSUME B!BrainTypeOK, BrainHolds, UNCHANGED <<cache, nodes, edges, lastId>>,
           disk' \in [Path -> {None} \cup B!Source], corrupt' \subseteq Path,
           \/ indexRun' = None
           \/ /\ indexRun # None /\ indexRun' \in IndexRun
              /\ indexRun'.rows = indexRun.rows /\ indexRun'.changed = indexRun.changed,
           paused' \in BOOLEAN, forceFull' \in BOOLEAN, changes' \in 0 .. MaxChanges
    PROVE  B!BrainTypeOK' /\ BrainHolds'
<1>1. indexRun' # None => RunSound'
  BY DEF BrainHolds, RunSound, B!Files
<1>2. indexRun' # None => /\ indexRun'.parsing \subseteq Path /\ indexRun'.full \in BOOLEAN
                          /\ indexRun'.shown \in BOOLEAN
  BY DEF IndexRun
<1>3. \A p \in B!Files(disk') : disk'[p] \in B!Source
  BY DEF B!Files
<1>4. B!BrainTypeOK'
  BY <1>2, <1>3 DEF B!BrainTypeOK, B!Files
<1>. QED
  BY <1>1, <1>4, GraphNow DEF BrainHolds

LEMMA BrainStep ==
    ASSUME B!BrainTypeOK, BrainHolds, [B!BrainNext]_(B!brainVars)
    PROVE  B!BrainTypeOK' /\ BrainHolds'
<1>0. /\ disk \in [Path -> {None} \cup B!Source] /\ corrupt \subseteq Path /\ paused \in BOOLEAN
      /\ forceFull \in BOOLEAN /\ changes \in 0 .. MaxChanges /\ MaxChanges \in Nat
      /\ indexRun # None => indexRun \in IndexRun
  BY BrainAssumed DEF BrainHolds, B!BrainTypeOK, RunSound
<1>t. changes < MaxChanges => changes + 1 \in 0 .. MaxChanges
  BY <1>0
<1>1. ASSUME NEW full \in BOOLEAN, NEW skipped \in SUBSET Path, B!Start(full, skipped)
      PROVE  B!BrainTypeOK' /\ BrainHolds'
  BY <1>1, StartStep
<1>2. ASSUME NEW p \in Path, B!Parsed(p) PROVE B!BrainTypeOK' /\ BrainHolds'
  <2>1. indexRun' \in IndexRun /\ indexRun'.rows = indexRun.rows /\ indexRun'.changed = indexRun.changed
        /\ indexRun # None
    BY <1>0, <1>2 DEF B!Parsed, IndexRun
  <2>. QED
    BY <1>0, <1>2, <2>1, QuietStep DEF B!Parsed
<1>3. ASSUME NEW p \in Path, B!Damage(p) PROVE B!BrainTypeOK' /\ BrainHolds'
  BY <1>0, <1>t, <1>3, QuietStep DEF B!Damage
<1>4. CASE B!Commit
  BY <1>4, CommitStep
<1>5. CASE B!Abandon
  BY <1>0, <1>t, <1>5, QuietStep DEF B!Abandon
<1>6. CASE B!Pause
  BY <1>0, <1>t, <1>6, QuietStep DEF B!Pause
<1>7. CASE B!Resume
  BY <1>0, <1>7, QuietStep DEF B!Resume
<1>8. CASE B!Query
  <2>1. indexRun # None => /\ indexRun' \in IndexRun /\ indexRun'.rows = indexRun.rows
                           /\ indexRun'.changed = indexRun.changed
    BY <1>0, <1>8 DEF B!Query, IndexRun
  <2>2. indexRun = None => indexRun' = None
    BY <1>8 DEF B!Query
  <2>. QED
    BY <1>0, <1>8, <2>1, <2>2, QuietStep DEF B!Query
<1>9. ASSUME NEW crash \in BOOLEAN, B!Restart(crash)
      PROVE  B!BrainTypeOK' /\ BrainHolds'
  <2>1. (crash /\ indexRun # None /\ indexRun.shown) \in BOOLEAN
    OBVIOUS
  <2>. QED
    BY <1>0, <1>t, <1>9, <2>1, QuietStep DEF B!Restart
<1>10. ASSUME NEW p \in Path, NEW s \in {None} \cup B!Source, B!Edit(p, s)
      PROVE  B!BrainTypeOK' /\ BrainHolds'
  <2>1. disk' \in [Path -> {None} \cup B!Source]
    BY <1>0, <1>10 DEF B!Edit
  <2>. QED
    BY <1>0, <1>t, <1>10, <2>1, QuietStep DEF B!Edit
<1>11. ASSUME NEW p \in Path, NEW t \in Sources, B!Edit(p, [text |-> t, stamp |-> changes + 1])
       PROVE  B!BrainTypeOK' /\ BrainHolds'
  <2>1. [text |-> t, stamp |-> changes + 1] \in B!Source
    BY <1>t, <1>11 DEF B!Source, B!Edit
  <2>. QED
    BY <1>10, <1>11, <2>1
<1>12. ASSUME NEW p \in Path, NEW q \in Path, B!Move(p, q)
      PROVE  B!BrainTypeOK' /\ BrainHolds'
  <2>. DEFINE s == [disk[p] EXCEPT !.stamp = changes + 1]
  <2>1. disk[p] \in B!Source /\ changes + 1 \in 0 .. MaxChanges
    BY <1>0, <1>t, <1>12 DEF B!Move
  <2>2. s \in B!Source
    BY <2>1 DEF B!Source
  <2>3. disk' = [[disk EXCEPT ![p] = None] EXCEPT ![q] = s] /\ changes' = changes + 1
        /\ UNCHANGED <<cache, nodes, edges, corrupt, indexRun, paused, forceFull, lastId>>
    BY <1>12 DEF B!Move
  <2>. HIDE DEF s
  <2>4. disk' \in [Path -> {None} \cup B!Source]
    BY <1>0, <2>2, <2>3
  <2>. QED
    BY <1>0, <2>1, <2>3, <2>4, QuietStep
<1>u. CASE UNCHANGED B!brainVars
  BY <1>0, <1>u, QuietStep DEF B!brainVars
<1>. QED
  BY <1>1, <1>2, <1>3, <1>4, <1>5, <1>6, <1>7, <1>8, <1>9, <1>10, <1>11, <1>12, <1>u
  DEF B!BrainNext

LEMMA BrainInductive ==
    /\ B!BrainInit => B!BrainTypeOK /\ BrainHolds
    /\ B!BrainTypeOK /\ BrainHolds /\ [B!BrainNext]_(B!brainVars)
         => (B!BrainTypeOK /\ BrainHolds)'
<1>1. ASSUME B!BrainInit PROVE B!BrainTypeOK /\ BrainHolds
  <2>1. disk \in [Path -> {None} \cup B!Source]
    BY <1>1, BrainAssumed DEF B!BrainInit, B!Source
  <2>2. B!Files(cache) = {} /\ cache \in FileRows
    BY <1>1 DEF B!BrainInit, B!Files, FileRows
  <2>3. B!BrainTypeOK
    <3>1. \A p \in B!Files(disk) : disk[p] \in B!Source
      BY <2>1 DEF B!Files
    <3>2. nodes = {} /\ edges = {} /\ corrupt = {} /\ indexRun = None /\ paused = FALSE
          /\ forceFull = TRUE /\ changes = 0
      BY <1>1 DEF B!BrainInit
    <3>3. \A p \in B!Files(cache) : FALSE
      BY <2>2
    <3>4. changes \in 0 .. MaxChanges
      BY <3>2, BrainAssumed
    <3>. QED
      BY <3>1, <3>2, <3>3, <3>4 DEF B!BrainTypeOK
  <2>4. B!NodesOf(cache, Path) = {} /\ B!ImportEdges(cache, Path) = {} /\ B!ReferenceEdges(cache, Path) = {}
    BY <2>2, NodesAre, ImportsAre, ReferencesAre
  <2>5. B!GraphSound
    BY <1>1, <2>2, <2>4
    DEF B!BrainInit, B!GraphSound, B!GraphAsRebuilt, B!IdentitiesUnique
  <2>. QED
    BY <1>1, <2>1, <2>2, <2>3, <2>5 DEF B!BrainInit, BrainHolds
<1>. QED
  BY <1>1, BrainStep

-----------------------------------------------------------------------------
(* The tunnel.                                                             *)

\* Process and loops are of the generation that the main loop waits for, and as
\* many generations there are as the process was started and ended.
TunnelHolds ==
    /\ T!ConnectedOnEvidence
    /\ supervisor = "exit" => tunnel = generation
    /\ \A l \in loops : l.of <= generation /\ (l.of = generation => supervisor = "exit")
    /\ supervisor = "starting" => generation = 0 /\ tunnelRuns = 0
    /\ supervisor = "exit" => generation = 2 * tunnelRuns + 1
    /\ supervisor = "backoff" => generation = 2 * tunnelRuns
    /\ supervisor = "ending" => generation = 2 * tunnelRuns + 2
    /\ generation <= 2 * tunnelRuns + 3

LEMMA TunnelAssumed == MaxTunnelRestarts \in Nat /\ FailureThreshold \in Nat \ {0}
BY Assumed DEF T!TunnelAssumption

\* The main loop and the readiness loops keep it.
LEMMA TunnelStep ==
    ASSUME T!TunnelTypeOK, TunnelHolds, [T!TunnelNext]_(T!tunnelVars)
    PROVE  T!TunnelTypeOK' /\ TunnelHolds'
<1>1. ASSUME T!Spawn PROVE T!TunnelTypeOK' /\ TunnelHolds'
  <2>. DEFINE first == [of |-> generation + 1, at |-> "probe", failures |-> 0, ever |-> FALSE]
  <2>1. /\ generation' = generation + 1 /\ tunnel' = generation + 1 /\ loops' = loops \cup {first}
        /\ tunnelPhase' = "connecting" /\ connected' = FALSE /\ supervisor' = "exit" /\ signalled' = FALSE
        /\ UNCHANGED <<tunnelRuns, halting>> /\ supervisor \in {"starting", "backoff"}
    BY <1>1 DEF T!Spawn
  <2>2. /\ generation \in Nat /\ generation' \in T!Generations /\ tunnelRuns \in 0 .. MaxTunnelRestarts
        /\ generation' = 2 * tunnelRuns + 1
    BY <2>1, TunnelAssumed DEF T!TunnelTypeOK, TunnelHolds, T!Generations
  <2>3. first \in T!Loops /\ first.of = generation'
    BY <2>1, <2>2, TunnelAssumed DEF T!Loops
  <2>4. \A m \in loops : m.of \in Nat /\ m.of <= generation
    BY TunnelAssumed DEF T!TunnelTypeOK, T!Loops, T!Generations, TunnelHolds
  <2>. HIDE DEF first
  <2>5. T!TunnelTypeOK'
    BY <2>1, <2>2, <2>3 DEF T!TunnelTypeOK
  <2>6. \A m \in loops' : m.of <= generation' /\ (m.of = generation' => supervisor' = "exit")
    BY <2>1, <2>2, <2>3, <2>4
  <2>. QED
    BY <2>1, <2>2, <2>5, <2>6 DEF TunnelHolds, T!ConnectedOnEvidence
<1>2. ASSUME T!Exited PROVE T!TunnelTypeOK' /\ TunnelHolds'
  <2>1. \A m \in loops : m.of \in Nat /\ m.of <= generation
    BY TunnelAssumed DEF T!TunnelTypeOK, T!Loops, T!Generations, TunnelHolds
  <2>2. generation \in Nat /\ generation <= 2 * MaxTunnelRestarts + 4 /\ tunnelRuns \in 0 .. MaxTunnelRestarts
        /\ MaxTunnelRestarts \in Nat
    BY TunnelAssumed DEF T!TunnelTypeOK, T!Generations
  <2>m. generation' \in T!Generations /\ tunnelRuns' \in 0 .. MaxTunnelRestarts
    BY <1>2, <2>2 DEF T!Exited, T!MayRun, T!Generations, TunnelHolds
  <2>3. T!TunnelTypeOK'
    BY <1>2, <2>m DEF T!Exited, T!TunnelTypeOK
  <2>. QED
    BY <1>2, <2>1, <2>2, <2>3
    DEF T!Exited, T!MayRun, TunnelHolds, T!ConnectedOnEvidence
<1>3. ASSUME T!Finish PROVE T!TunnelTypeOK' /\ TunnelHolds'
  <2>1. \A m \in loops : m.of \in Nat /\ m.of <= generation
    BY TunnelAssumed DEF T!TunnelTypeOK, T!Loops, T!Generations, TunnelHolds
  <2>2. generation \in Nat /\ generation <= 2 * MaxTunnelRestarts + 4 /\ tunnelRuns \in 0 .. MaxTunnelRestarts
        /\ MaxTunnelRestarts \in Nat
    BY TunnelAssumed DEF T!TunnelTypeOK, T!Generations
  <2>m. generation' \in T!Generations /\ tunnelRuns' \in 0 .. MaxTunnelRestarts
    BY <1>3, <2>2 DEF T!Finish, T!MayRun, T!Generations, TunnelHolds
  <2>3. T!TunnelTypeOK'
    BY <1>3, <2>m DEF T!Finish, T!TunnelTypeOK
  <2>. QED
    BY <1>3, <2>1, <2>2, <2>3
    DEF T!Finish, T!MayRun, TunnelHolds, T!ConnectedOnEvidence
<1>4. ASSUME T!RequestStop PROVE T!TunnelTypeOK' /\ TunnelHolds'
  <2>1. \A m \in loops : m.of \in Nat /\ m.of <= generation
    BY TunnelAssumed DEF T!TunnelTypeOK, T!Loops, T!Generations, TunnelHolds
  <2>2. generation \in Nat /\ generation <= 2 * MaxTunnelRestarts + 4 /\ tunnelRuns \in 0 .. MaxTunnelRestarts
        /\ MaxTunnelRestarts \in Nat
    BY TunnelAssumed DEF T!TunnelTypeOK, T!Generations
  <2>m. generation' \in T!Generations /\ tunnelRuns' \in 0 .. MaxTunnelRestarts
    BY <1>4, <2>2 DEF T!RequestStop, T!MayRun, T!Generations, TunnelHolds
  <2>3. T!TunnelTypeOK'
    BY <1>4, <2>m DEF T!RequestStop, T!TunnelTypeOK
  <2>. QED
    BY <1>4, <2>1, <2>2, <2>3
    DEF T!RequestStop, T!MayRun, TunnelHolds, T!ConnectedOnEvidence
<1>5. ASSUME NEW l \in loops, T!Rested(l) PROVE T!TunnelTypeOK' /\ TunnelHolds'
  <2>. DEFINE rest == [l EXCEPT !.at = "probe"]
  <2>1. l \in T!Loops /\ loops \subseteq T!Loops
    BY DEF T!TunnelTypeOK
  <2>2. rest \in T!Loops /\ rest.of = l.of /\ rest.ever = l.ever
    BY <2>1 DEF T!Loops
  <2>3. /\ loops' = loops \ {l} \/ loops' = (loops \ {l}) \cup {rest}
        /\ (halting \/ l.of # generation) \/ loops' = (loops \ {l}) \cup {rest}
        /\ UNCHANGED <<tunnel, generation, tunnelPhase, connected, tunnelRuns, supervisor, halting, signalled>>
    BY <1>5 DEF T!Rested, T!Fenced
  <2>. HIDE DEF rest
  <2>4. T!TunnelTypeOK'
    BY <2>1, <2>2, <2>3 DEF T!TunnelTypeOK
  <2>. QED
    BY <2>1, <2>2, <2>3, <2>4 DEF TunnelHolds, T!ConnectedOnEvidence
<1>6. ASSUME NEW l \in loops, NEW ready \in BOOLEAN, T!Answered(l, ready)
      PROVE  T!TunnelTypeOK' /\ TunnelHolds'
  <2>. DEFINE seen == T!Seen(l, ready)
  <2>1. l \in T!Loops /\ loops \subseteq T!Loops
    BY DEF T!TunnelTypeOK
  <2>2. seen \in T!Loops /\ seen.of = l.of /\ (seen.failures = 0 => seen.ever)
    BY <2>1, TunnelAssumed DEF T!Loops, T!Seen
  <2>3. /\ T!PhaseOf(seen) \in {"connected", "connecting", "disconnected", "degraded"}
        /\ T!PhaseOf(seen) \in {"connected", "degraded"} => seen.ever
    BY <2>2 DEF T!PhaseOf
  <2>4. UNCHANGED <<tunnel, generation, tunnelRuns, supervisor, halting, signalled>>
    BY <1>6 DEF T!Answered
  <2>5. \/ /\ halting \/ l.of # generation
           /\ loops' = loops \ {l} /\ UNCHANGED <<tunnelPhase, connected>>
        \/ /\ ~ halting /\ l.of = generation
           /\ loops' = (loops \ {l}) \cup {seen} /\ tunnelPhase' = T!PhaseOf(seen)
           /\ connected' = (T!PhaseOf(seen) \in {"connected", "degraded"})
    BY <1>6 DEF T!Answered, T!Fenced
  <2>. DEFINE phase2 == T!PhaseOf(seen)
  <2>7. /\ phase2 \in {"connected", "connecting", "disconnected", "degraded"}
        /\ phase2 \in {"connected", "degraded"} => seen.ever
        /\ \/ /\ halting \/ l.of # generation
              /\ loops' = loops \ {l} /\ UNCHANGED <<tunnelPhase, connected>>
           \/ /\ ~ halting /\ l.of = generation
              /\ loops' = (loops \ {l}) \cup {seen} /\ tunnelPhase' = phase2
              /\ connected' = (phase2 \in {"connected", "degraded"})
    BY <2>3, <2>5
  <2>. HIDE DEF phase2, seen
  <2>6. T!TunnelTypeOK'
    <3>1. loops' \in SUBSET T!Loops
      BY <2>1, <2>2, <2>7
    <3>2. connected' \in BOOLEAN
      <4>1. (phase2 \in {"connected", "degraded"}) \in BOOLEAN
        OBVIOUS
      <4>2. connected \in BOOLEAN
        BY DEF T!TunnelTypeOK
      <4>. QED
        BY <2>7, <4>1, <4>2
    <3>. QED
      BY <2>4, <2>7, <3>1, <3>2 DEF T!TunnelTypeOK
  <2>8. \A m \in loops' : m.of <= generation' /\ (m.of = generation' => supervisor' = "exit")
    BY <2>1, <2>2, <2>4, <2>7 DEF TunnelHolds
  <2>9. T!ConnectedOnEvidence'
    <3>1. CASE halting \/ l.of # generation
      BY <2>4, <2>7, <3>1 DEF T!ConnectedOnEvidence, TunnelHolds
    <3>2. CASE ~ halting /\ l.of = generation
      BY <2>2, <2>4, <2>7, <3>2 DEF T!ConnectedOnEvidence, TunnelHolds
    <3>. QED
      BY <3>1, <3>2
  <2>10. supervisor = "exit" => tunnel = generation
    BY DEF TunnelHolds
  <2>11. /\ supervisor = "starting" => generation = 0 /\ tunnelRuns = 0
         /\ supervisor = "exit" => generation = 2 * tunnelRuns + 1
         /\ supervisor = "backoff" => generation = 2 * tunnelRuns
         /\ supervisor = "ending" => generation = 2 * tunnelRuns + 2
         /\ generation <= 2 * tunnelRuns + 3
    BY DEF TunnelHolds
  <2>. QED
    BY <2>4, <2>6, <2>8, <2>9, <2>10, <2>11 DEF TunnelHolds
<1>u. ASSUME UNCHANGED T!tunnelVars PROVE T!TunnelTypeOK' /\ TunnelHolds'
  BY <1>u
  DEF TunnelHolds, T!ConnectedOnEvidence, T!TunnelTypeOK, T!Generations,
      TunnelHolds, T!ConnectedOnEvidence, T!tunnelVars
<1>. QED
  BY <1>1, <1>2, <1>3, <1>4, <1>5, <1>6, <1>u
  DEF TunnelHolds, T!ConnectedOnEvidence, T!TunnelNext

LEMMA TunnelInductive ==
    /\ T!TunnelInit => T!TunnelTypeOK /\ TunnelHolds
    /\ T!TunnelTypeOK /\ TunnelHolds /\ [T!TunnelNext]_(T!tunnelVars)
         => (T!TunnelTypeOK /\ TunnelHolds)'
<1>1. T!TunnelInit => T!TunnelTypeOK /\ TunnelHolds
  <2>1. 0 \in T!Generations /\ 0 \in 0 .. MaxTunnelRestarts
    BY TunnelAssumed DEF T!Generations
  <2>. SUFFICES ASSUME T!TunnelInit PROVE T!TunnelTypeOK /\ TunnelHolds
    OBVIOUS
  <2>2. T!TunnelTypeOK
    BY <2>1 DEF T!TunnelInit, T!TunnelTypeOK
  <2>3. TunnelHolds
    BY DEF T!TunnelInit, TunnelHolds, T!ConnectedOnEvidence
  <2>. QED
    BY <2>2, <2>3
<1>. QED
  BY <1>1, TunnelStep

-----------------------------------------------------------------------------
(* The store of objects.                                                   *)

\* An ingest that has looked at its object is done before that ages, whoever
\* linked a file finds it there, and what one found is there once it has a row
\* that the finder did not write.
IngestsSound(k) ==
    ingest[k] # None /\ ingest[k].pc # "staged" =>
        /\ object[ingest[k].of] # "old"
        /\ ingest[k].pc \in {"claimed", "committed"} => object[ingest[k].of] # None
        /\ ingest[k].pc = "linked" => file[ingest[k].of] = "young"
        /\ ingest[k].pc \in {"exists", "found"} =>
              object[ingest[k].of] = None \/ file[ingest[k].of] # None \/ ingest[k].of \in adopted

\* One ingest at a time has linked a file.
ResourcesHold ==
    /\ \A k \in Ingest : IngestsSound(k)
    /\ \A k, n \in Ingest :
          R!At(k, "linked") /\ R!At(n, "linked") /\ R!Of(k) = R!Of(n) => k = n
    /\ \A h \in Content : refs[h] > 0 \/ h \in adopted => object[h] # None
    /\ R!ReferencesResolve

LEMMA ResourcesAssumed ==
    MaxRefs \in Nat /\ None # "young" /\ None # "old" /\ None \notin R!IngestRow
BY Assumed DEF R!ResourcesAssumption

LEMMA IngestRows ==
    ASSUME NEW r \in R!IngestRow
    PROVE  /\ r.of \in Content
           /\ r.pc \in {"staged", "claimed", "linked", "exists", "found", "committed"}
BY DEF R!IngestRow

LEMMA OfContent ==
    ASSUME R!ResourcesTypeOK
    PROVE  \A k \in Ingest : ingest[k] # None => ingest[k].of \in Content
BY IngestRows DEF R!ResourcesTypeOK

\* An ingest goes on with the object it has.
LEMMA GoesTo ==
    ASSUME R!ResourcesTypeOK, NEW i \in Ingest, ingest[i] # None,
           NEW pc \in {"staged", "claimed", "linked", "exists", "found", "committed"}, R!Goto(i, pc)
    PROVE  /\ ingest' \in [Ingest -> {None} \cup R!IngestRow]
           /\ ingest'[i] # None /\ ingest'[i] \in R!IngestRow
           /\ ingest'[i].pc = pc /\ ingest'[i].of = ingest[i].of
           /\ \A k \in Ingest : k # i => ingest'[k] = ingest[k]
<1>1. ingest[i] \in R!IngestRow
  BY DEF R!ResourcesTypeOK
<1>. DEFINE entry == [ingest[i] EXCEPT !.pc = pc]
<1>2. entry \in R!IngestRow /\ entry.pc = pc /\ entry.of = ingest[i].of
  BY <1>1 DEF R!IngestRow
<1>3. ingest' = [ingest EXCEPT ![i] = entry]
  BY DEF R!Goto
<1>. HIDE DEF entry
<1>. QED
  BY <1>2, <1>3, ResourcesAssumed DEF R!ResourcesTypeOK

LEMMA IsDone ==
    ASSUME R!ResourcesTypeOK, NEW i \in Ingest, R!Done(i)
    PROVE  /\ ingest' \in [Ingest -> {None} \cup R!IngestRow]
           /\ ingest'[i] = None /\ \A k \in Ingest : k # i => ingest'[k] = ingest[k]
BY DEF R!Done, R!ResourcesTypeOK

\* Files, rows and ingests stay what they are.
LEMMA ResourcesTypeStep ==
    ASSUME R!ResourcesTypeOK, [R!ResourcesNext]_(R!casVars)
    PROVE  R!ResourcesTypeOK'
<1>1. ASSUME R!Gc PROVE R!ResourcesTypeOK'
  BY <1>1, ResourcesAssumed, IngestRows
  DEF R!Gc, R!Orphans, R!Collect, R!ResourcesTypeOK, R!Age
<1>2. ASSUME R!GcCrash PROVE R!ResourcesTypeOK'
  BY <1>2, ResourcesAssumed, IngestRows
  DEF R!GcCrash, R!Orphans, R!ResourcesTypeOK, R!Age
<1>3. ASSUME R!CleanUp PROVE R!ResourcesTypeOK'
  BY <1>3, ResourcesAssumed, IngestRows DEF R!CleanUp, R!ResourcesTypeOK, R!Age
<1>4. ASSUME R!Hour PROVE R!ResourcesTypeOK'
  BY <1>4, ResourcesAssumed, IngestRows
  DEF R!Hour, R!At, R!Aged, R!ResourcesTypeOK, R!Age
<1>5. ASSUME NEW h \in Content, R!Expire(h) PROVE R!ResourcesTypeOK'
  BY <1>5, ResourcesAssumed, IngestRows DEF R!Expire, R!ResourcesTypeOK, R!Age
<1>6. ASSUME NEW h \in Content, R!Read(h) PROVE R!ResourcesTypeOK'
  BY <1>6, ResourcesAssumed, IngestRows DEF R!Read, R!ResourcesTypeOK, R!Age
<1>7. ASSUME NEW i \in Ingest, NEW h \in Content, R!Stage(i, h)
      PROVE  R!ResourcesTypeOK'
  <2>1. [of |-> h, pc |-> "staged"] \in R!IngestRow
    BY DEF R!IngestRow
  <2>. QED
    BY <1>7, <2>1 DEF R!Stage, R!ResourcesTypeOK
<1>8. ASSUME NEW i \in Ingest, R!ClaimContent(i) PROVE R!ResourcesTypeOK'
  <2>1. ingest[i] \in R!IngestRow /\ ingest[i] # None /\ ingest[i].of \in Content
    BY <1>8, IngestRows DEF R!ClaimContent, R!At, R!ResourcesTypeOK
  <2>. QED
    BY <1>8, <2>1, GoesTo, IsDone, ResourcesAssumed
    DEF R!ClaimContent, R!Of, R!Collect, R!Age, R!ResourcesTypeOK
<1>9. ASSUME NEW i \in Ingest, R!VerifyClaimed(i) PROVE R!ResourcesTypeOK'
  <2>1. ingest[i] \in R!IngestRow /\ ingest[i] # None /\ ingest[i].of \in Content
    BY <1>9, IngestRows DEF R!VerifyClaimed, R!At, R!ResourcesTypeOK
  <2>. QED
    BY <1>9, <2>1, GoesTo, IsDone, ResourcesAssumed
    DEF R!VerifyClaimed, R!Of, R!Collect, R!Age, R!ResourcesTypeOK
<1>10. ASSUME NEW i \in Ingest, R!Link(i) PROVE R!ResourcesTypeOK'
  <2>1. ingest[i] \in R!IngestRow /\ ingest[i] # None /\ ingest[i].of \in Content
    BY <1>10, IngestRows DEF R!Link, R!At, R!ResourcesTypeOK
  <2>. QED
    BY <1>10, <2>1, GoesTo, IsDone, ResourcesAssumed
    DEF R!Link, R!Of, R!Collect, R!Age, R!ResourcesTypeOK
<1>11. ASSUME NEW i \in Ingest, R!VerifyExisting(i) PROVE R!ResourcesTypeOK'
  <2>1. ingest[i] \in R!IngestRow /\ ingest[i] # None /\ ingest[i].of \in Content
    BY <1>11, IngestRows DEF R!VerifyExisting, R!At, R!ResourcesTypeOK
  <2>. QED
    BY <1>11, <2>1, GoesTo, IsDone, ResourcesAssumed
    DEF R!VerifyExisting, R!Of, R!Collect, R!Age, R!ResourcesTypeOK
<1>12. ASSUME NEW i \in Ingest, R!Insert(i) PROVE R!ResourcesTypeOK'
  <2>1. ingest[i] \in R!IngestRow /\ ingest[i] # None /\ ingest[i].of \in Content
    BY <1>12, IngestRows DEF R!Insert, R!At, R!ResourcesTypeOK
  <2>. QED
    BY <1>12, <2>1, GoesTo, IsDone, ResourcesAssumed
    DEF R!Insert, R!Of, R!Collect, R!Age, R!ResourcesTypeOK
<1>13. ASSUME NEW i \in Ingest, R!InsertFails(i) PROVE R!ResourcesTypeOK'
  <2>1. ingest[i] \in R!IngestRow /\ ingest[i] # None /\ ingest[i].of \in Content
    BY <1>13, IngestRows DEF R!InsertFails, R!At, R!ResourcesTypeOK
  <2>. QED
    BY <1>13, <2>1, GoesTo, IsDone, ResourcesAssumed
    DEF R!InsertFails, R!Of, R!Collect, R!Age, R!ResourcesTypeOK
<1>14. ASSUME NEW i \in Ingest, R!Reference(i) PROVE R!ResourcesTypeOK'
  <2>1. ingest[i] \in R!IngestRow /\ ingest[i] # None /\ ingest[i].of \in Content
    BY <1>14, IngestRows DEF R!Reference, R!At, R!ResourcesTypeOK
  <2>. QED
    BY <1>14, <2>1, GoesTo, IsDone, ResourcesAssumed
    DEF R!Reference, R!Of, R!Collect, R!Age, R!ResourcesTypeOK
<1>15. ASSUME NEW i \in Ingest, R!InspectFails(i) PROVE R!ResourcesTypeOK'
  <2>1. ingest[i] \in R!IngestRow /\ ingest[i] # None /\ ingest[i].of \in Content
    BY <1>15, IngestRows DEF R!InspectFails, R!At, R!ResourcesTypeOK
  <2>. QED
    BY <1>15, <2>1, GoesTo, IsDone, ResourcesAssumed
    DEF R!InspectFails, R!Of, R!Collect, R!Age, R!ResourcesTypeOK
<1>16. ASSUME NEW i \in Ingest, R!Crash(i) PROVE R!ResourcesTypeOK'
  <2>1. ingest[i] \in R!IngestRow /\ ingest[i] # None /\ ingest[i].of \in Content
    BY <1>16, IngestRows DEF R!Crash, R!At, R!ResourcesTypeOK
  <2>. QED
    BY <1>16, <2>1, GoesTo, IsDone, ResourcesAssumed
    DEF R!Crash, R!Of, R!Collect, R!Age, R!ResourcesTypeOK
<1>u. ASSUME UNCHANGED R!casVars PROVE R!ResourcesTypeOK'
  BY <1>u DEF IngestsSound, R!ResourcesTypeOK, R!Age, R!casVars
<1>. QED
  BY <1>1, <1>2, <1>3, <1>4, <1>5, <1>6, <1>7, <1>8, <1>9, <1>10, <1>11, <1>12,
     <1>13, <1>14, <1>15, <1>16, <1>u
  DEF R!ResourcesNext

\* Every step keeps the rest.
LEMMA ResourcesStep ==
    ASSUME R!ResourcesTypeOK, R!ResourcesTypeOK', ResourcesHold, [R!ResourcesNext]_(R!casVars)
    PROVE  ResourcesHold'
<1>1. ASSUME R!Gc PROVE ResourcesHold'
  <2>4. \A k \in Ingest : IngestsSound(k)'
    BY <1>1, ResourcesAssumed, OfContent
    DEF R!Gc, R!Orphans, R!Collect, R!At, R!Of, R!ResourcesTypeOK, R!Age,
        ResourcesHold, IngestsSound
  <2>5. (\A k, n \in Ingest : R!At(k, "linked") /\ R!At(n, "linked") /\ R!Of(k) = R!Of(n) => k = n)'
    BY <1>1, ResourcesAssumed, OfContent
    DEF R!Gc, R!Orphans, R!Collect, R!At, R!Of, R!ResourcesTypeOK, R!Age,
        ResourcesHold, IngestsSound
  <2>6. (\A x \in Content : refs[x] > 0 \/ x \in adopted => object[x] # None)'
    BY <1>1, ResourcesAssumed, OfContent
    DEF R!Gc, R!Orphans, R!Collect, R!At, R!Of, R!ResourcesTypeOK, R!Age,
        ResourcesHold
  <2>7. R!ReferencesResolve'
    BY <1>1, ResourcesAssumed, OfContent
    DEF R!Gc, R!Orphans, R!Collect, R!At, R!Of, R!ResourcesTypeOK, R!Age,
        ResourcesHold, R!ReferencesResolve, IngestsSound
  <2>. QED
    BY <2>4, <2>5, <2>6, <2>7 DEF ResourcesHold
<1>2. ASSUME R!GcCrash PROVE ResourcesHold'
  <2>4. \A k \in Ingest : IngestsSound(k)'
    BY <1>2, ResourcesAssumed, OfContent
    DEF R!GcCrash, R!Orphans, R!At, R!Of, R!ResourcesTypeOK, R!Age, ResourcesHold,
        IngestsSound
  <2>5. (\A k, n \in Ingest : R!At(k, "linked") /\ R!At(n, "linked") /\ R!Of(k) = R!Of(n) => k = n)'
    BY <1>2, ResourcesAssumed, OfContent
    DEF R!GcCrash, R!Orphans, R!At, R!Of, R!ResourcesTypeOK, R!Age, ResourcesHold,
        IngestsSound
  <2>6. (\A x \in Content : refs[x] > 0 \/ x \in adopted => object[x] # None)'
    BY <1>2, ResourcesAssumed, OfContent
    DEF R!GcCrash, R!Orphans, R!At, R!Of, R!ResourcesTypeOK, R!Age, ResourcesHold
  <2>7. R!ReferencesResolve'
    BY <1>2, ResourcesAssumed, OfContent
    DEF R!GcCrash, R!Orphans, R!At, R!Of, R!ResourcesTypeOK, R!Age, ResourcesHold,
        R!ReferencesResolve, IngestsSound
  <2>. QED
    BY <2>4, <2>5, <2>6, <2>7 DEF ResourcesHold
<1>3. ASSUME R!CleanUp PROVE ResourcesHold'
  <2>4. \A k \in Ingest : IngestsSound(k)'
    BY <1>3, ResourcesAssumed, OfContent
    DEF R!CleanUp, R!At, R!Of, R!ResourcesTypeOK, R!Age, ResourcesHold, IngestsSound
  <2>5. (\A k, n \in Ingest : R!At(k, "linked") /\ R!At(n, "linked") /\ R!Of(k) = R!Of(n) => k = n)'
    BY <1>3, ResourcesAssumed, OfContent
    DEF R!CleanUp, R!At, R!Of, R!ResourcesTypeOK, R!Age, ResourcesHold, IngestsSound
  <2>6. (\A x \in Content : refs[x] > 0 \/ x \in adopted => object[x] # None)'
    BY <1>3, ResourcesAssumed, OfContent
    DEF R!CleanUp, R!At, R!Of, R!ResourcesTypeOK, R!Age, ResourcesHold
  <2>7. R!ReferencesResolve'
    BY <1>3, ResourcesAssumed, OfContent
    DEF R!CleanUp, R!At, R!Of, R!ResourcesTypeOK, R!Age, ResourcesHold,
        R!ReferencesResolve, IngestsSound
  <2>. QED
    BY <2>4, <2>5, <2>6, <2>7 DEF ResourcesHold
<1>4. ASSUME R!Hour PROVE ResourcesHold'
  <2>4. \A k \in Ingest : IngestsSound(k)'
    BY <1>4, ResourcesAssumed, OfContent
    DEF R!Hour, R!Aged, R!At, R!Of, R!ResourcesTypeOK, R!Age, ResourcesHold,
        IngestsSound
  <2>5. (\A k, n \in Ingest : R!At(k, "linked") /\ R!At(n, "linked") /\ R!Of(k) = R!Of(n) => k = n)'
    BY <1>4, ResourcesAssumed, OfContent
    DEF R!Hour, R!Aged, R!At, R!Of, R!ResourcesTypeOK, R!Age, ResourcesHold,
        IngestsSound
  <2>6. (\A x \in Content : refs[x] > 0 \/ x \in adopted => object[x] # None)'
    BY <1>4, ResourcesAssumed, OfContent
    DEF R!Hour, R!Aged, R!At, R!Of, R!ResourcesTypeOK, R!Age, ResourcesHold
  <2>7. R!ReferencesResolve'
    BY <1>4, ResourcesAssumed, OfContent
    DEF R!Hour, R!Aged, R!At, R!Of, R!ResourcesTypeOK, R!Age, ResourcesHold,
        R!ReferencesResolve, IngestsSound
  <2>. QED
    BY <2>4, <2>5, <2>6, <2>7 DEF ResourcesHold
<1>5. ASSUME NEW h \in Content, R!Expire(h) PROVE ResourcesHold'
  <2>4. \A k \in Ingest : IngestsSound(k)'
    BY <1>5, ResourcesAssumed, OfContent
    DEF R!Expire, R!At, R!Of, R!ResourcesTypeOK, R!Age, ResourcesHold, IngestsSound
  <2>5. (\A k, n \in Ingest : R!At(k, "linked") /\ R!At(n, "linked") /\ R!Of(k) = R!Of(n) => k = n)'
    BY <1>5, ResourcesAssumed, OfContent
    DEF R!Expire, R!At, R!Of, R!ResourcesTypeOK, R!Age, ResourcesHold, IngestsSound
  <2>6. (\A x \in Content : refs[x] > 0 \/ x \in adopted => object[x] # None)'
    BY <1>5, ResourcesAssumed, OfContent
    DEF R!Expire, R!At, R!Of, R!ResourcesTypeOK, R!Age, ResourcesHold
  <2>7. R!ReferencesResolve'
    BY <1>5, ResourcesAssumed, OfContent
    DEF R!Expire, R!At, R!Of, R!ResourcesTypeOK, R!Age, ResourcesHold,
        R!ReferencesResolve, IngestsSound
  <2>. QED
    BY <2>4, <2>5, <2>6, <2>7 DEF ResourcesHold
<1>6. ASSUME NEW h \in Content, R!Read(h) PROVE ResourcesHold'
  <2>4. \A k \in Ingest : IngestsSound(k)'
    BY <1>6, ResourcesAssumed, OfContent
    DEF R!Read, R!At, R!Of, R!ResourcesTypeOK, R!Age, ResourcesHold, IngestsSound
  <2>5. (\A k, n \in Ingest : R!At(k, "linked") /\ R!At(n, "linked") /\ R!Of(k) = R!Of(n) => k = n)'
    BY <1>6, ResourcesAssumed, OfContent
    DEF R!Read, R!At, R!Of, R!ResourcesTypeOK, R!Age, ResourcesHold, IngestsSound
  <2>6. (\A x \in Content : refs[x] > 0 \/ x \in adopted => object[x] # None)'
    BY <1>6, ResourcesAssumed, OfContent
    DEF R!Read, R!At, R!Of, R!ResourcesTypeOK, R!Age, ResourcesHold
  <2>7. R!ReferencesResolve'
    BY <1>6, ResourcesAssumed, OfContent
    DEF R!Read, R!At, R!Of, R!ResourcesTypeOK, R!Age, ResourcesHold,
        R!ReferencesResolve, IngestsSound
  <2>. QED
    BY <2>4, <2>5, <2>6, <2>7 DEF ResourcesHold
<1>7. ASSUME NEW i \in Ingest, NEW h \in Content, R!Stage(i, h) PROVE ResourcesHold'
  <2>1. /\ \A k \in Ingest : k # i => ingest'[k] = ingest[k]
        /\ ingest[i] = None /\ ingest'[i].of = h /\ ingest'[i].pc = "staged" /\ ingest'[i] # None
    BY <1>7, ResourcesAssumed DEF R!Stage, R!IngestRow, R!ResourcesTypeOK
  <2>4. \A k \in Ingest : IngestsSound(k)'
    BY <1>7, <2>1, ResourcesAssumed, OfContent
    DEF R!Stage, R!At, R!Of, R!ResourcesTypeOK, R!Age, ResourcesHold, IngestsSound
  <2>5. (\A k, n \in Ingest : R!At(k, "linked") /\ R!At(n, "linked") /\ R!Of(k) = R!Of(n) => k = n)'
    BY <1>7, <2>1, ResourcesAssumed, OfContent
    DEF R!Stage, R!At, R!Of, R!ResourcesTypeOK, R!Age, ResourcesHold, IngestsSound
  <2>6. (\A x \in Content : refs[x] > 0 \/ x \in adopted => object[x] # None)'
    BY <1>7, <2>1, ResourcesAssumed, OfContent
    DEF R!Stage, R!At, R!Of, R!ResourcesTypeOK, R!Age, ResourcesHold
  <2>7. R!ReferencesResolve'
    BY <1>7, <2>1, ResourcesAssumed, OfContent
    DEF R!Stage, R!At, R!Of, R!ResourcesTypeOK, R!Age, ResourcesHold,
        R!ReferencesResolve, IngestsSound
  <2>. QED
    BY <2>4, <2>5, <2>6, <2>7 DEF ResourcesHold
<1>8. ASSUME NEW i \in Ingest, R!ClaimContent(i) PROVE ResourcesHold'
  <2>1. ingest[i] \in R!IngestRow /\ ingest[i] # None /\ ingest[i].of \in Content
    BY <1>8, IngestRows DEF R!ClaimContent, R!At, R!ResourcesTypeOK
  <2>2. /\ \A k \in Ingest : k # i => ingest'[k] = ingest[k]
        /\ ingest'[i] = None \/ (ingest'[i] \in R!IngestRow /\ ingest'[i].of = ingest[i].of)
    BY <1>8, <2>1, GoesTo, IsDone DEF R!ClaimContent
  <2>3. ingest'[i] # None => ingest'[i].pc \in {"claimed"}
    BY <1>8, <2>1, GoesTo, IsDone DEF R!ClaimContent
  <2>4. \A k \in Ingest : IngestsSound(k)'
    BY <1>8, <2>1, <2>2, <2>3, ResourcesAssumed, OfContent
    DEF R!ClaimContent, R!At, R!Of, R!ResourcesTypeOK, R!Age, ResourcesHold,
        IngestsSound
  <2>5. (\A k, n \in Ingest : R!At(k, "linked") /\ R!At(n, "linked") /\ R!Of(k) = R!Of(n) => k = n)'
    BY <1>8, <2>1, <2>2, <2>3, ResourcesAssumed, OfContent
    DEF R!ClaimContent, R!At, R!Of, R!ResourcesTypeOK, R!Age, ResourcesHold,
        IngestsSound
  <2>6. (\A x \in Content : refs[x] > 0 \/ x \in adopted => object[x] # None)'
    BY <1>8, <2>1, <2>2, <2>3, ResourcesAssumed, OfContent
    DEF R!ClaimContent, R!At, R!Of, R!ResourcesTypeOK, R!Age, ResourcesHold
  <2>7. R!ReferencesResolve'
    BY <1>8, <2>1, <2>2, <2>3, ResourcesAssumed, OfContent
    DEF R!ClaimContent, R!At, R!Of, R!ResourcesTypeOK, R!Age, ResourcesHold,
        R!ReferencesResolve, IngestsSound
  <2>. QED
    BY <2>4, <2>5, <2>6, <2>7 DEF ResourcesHold
<1>9. ASSUME NEW i \in Ingest, R!VerifyClaimed(i) PROVE ResourcesHold'
  <2>1. ingest[i] \in R!IngestRow /\ ingest[i] # None /\ ingest[i].of \in Content
    BY <1>9, IngestRows DEF R!VerifyClaimed, R!At, R!ResourcesTypeOK
  <2>2. /\ \A k \in Ingest : k # i => ingest'[k] = ingest[k]
        /\ ingest'[i] = None \/ (ingest'[i] \in R!IngestRow /\ ingest'[i].of = ingest[i].of)
    BY <1>9, <2>1, GoesTo, IsDone DEF R!VerifyClaimed
  <2>3. ingest'[i] # None => ingest'[i].pc \in {"committed"}
    BY <1>9, <2>1, GoesTo, IsDone DEF R!VerifyClaimed
  <2>m. /\ ingest'[i] # None => file[ingest[i].of] # None
        /\ ingest[i].pc = "claimed" /\ UNCHANGED <<file, object, refs, adopted>>
    BY <1>9, <2>1, IsDone DEF R!VerifyClaimed, R!Of, R!At
  <2>4. \A k \in Ingest : IngestsSound(k)'
    BY <2>m, <2>1, <2>2, <2>3, ResourcesAssumed, OfContent
    DEF R!At, R!Of, R!ResourcesTypeOK, R!Age, ResourcesHold, IngestsSound
  <2>5. (\A k, n \in Ingest : R!At(k, "linked") /\ R!At(n, "linked") /\ R!Of(k) = R!Of(n) => k = n)'
    BY <2>m, <2>1, <2>2, <2>3, ResourcesAssumed, OfContent
    DEF R!At, R!Of, R!ResourcesTypeOK, R!Age, ResourcesHold, IngestsSound
  <2>6. (\A x \in Content : refs[x] > 0 \/ x \in adopted => object[x] # None)'
    BY <2>m, <2>1, <2>2, <2>3, ResourcesAssumed, OfContent
    DEF R!At, R!Of, R!ResourcesTypeOK, R!Age, ResourcesHold
  <2>7. R!ReferencesResolve'
    BY <2>m, <2>1, <2>2, <2>3, ResourcesAssumed, OfContent
    DEF R!At, R!Of, R!ResourcesTypeOK, R!Age, ResourcesHold, R!ReferencesResolve,
        IngestsSound
  <2>. QED
    BY <2>4, <2>5, <2>6, <2>7 DEF ResourcesHold
<1>10. ASSUME NEW i \in Ingest, R!Link(i) PROVE ResourcesHold'
  <2>1. ingest[i] \in R!IngestRow /\ ingest[i] # None /\ ingest[i].of \in Content
    BY <1>10, IngestRows DEF R!Link, R!At, R!ResourcesTypeOK
  <2>2. /\ \A k \in Ingest : k # i => ingest'[k] = ingest[k]
        /\ ingest'[i] = None \/ (ingest'[i] \in R!IngestRow /\ ingest'[i].of = ingest[i].of)
    BY <1>10, <2>1, GoesTo, IsDone DEF R!Link
  <2>3. ingest'[i] # None => ingest'[i].pc \in {"linked", "exists"}
    BY <1>10, <2>1, GoesTo, IsDone DEF R!Link
  <2>m. /\ object[ingest[i].of] = None /\ UNCHANGED <<object, refs, adopted>>
        /\ \/ /\ file[ingest[i].of] = None /\ file' = [file EXCEPT ![ingest[i].of] = "young"]
              /\ ingest'[i].pc = "linked"
           \/ /\ file' = file /\ ingest'[i].pc = "exists"
    BY <1>10, <2>1, GoesTo DEF R!Link, R!Of
  <2>4. \A k \in Ingest : IngestsSound(k)'
    BY <2>m, <2>1, <2>2, <2>3, ResourcesAssumed, OfContent
    DEF R!At, R!Of, R!ResourcesTypeOK, R!Age, ResourcesHold, IngestsSound
  <2>5. (\A k, n \in Ingest : R!At(k, "linked") /\ R!At(n, "linked") /\ R!Of(k) = R!Of(n) => k = n)'
    BY <2>m, <2>1, <2>2, <2>3, ResourcesAssumed, OfContent
    DEF R!At, R!Of, R!ResourcesTypeOK, R!Age, ResourcesHold, IngestsSound
  <2>6. (\A x \in Content : refs[x] > 0 \/ x \in adopted => object[x] # None)'
    BY <2>m, <2>1, <2>2, <2>3, ResourcesAssumed, OfContent
    DEF R!At, R!Of, R!ResourcesTypeOK, R!Age, ResourcesHold
  <2>7. R!ReferencesResolve'
    BY <2>m, <2>1, <2>2, <2>3, ResourcesAssumed, OfContent
    DEF R!At, R!Of, R!ResourcesTypeOK, R!Age, ResourcesHold, R!ReferencesResolve,
        IngestsSound
  <2>. QED
    BY <2>4, <2>5, <2>6, <2>7 DEF ResourcesHold
<1>11. ASSUME NEW i \in Ingest, R!VerifyExisting(i) PROVE ResourcesHold'
  <2>1. ingest[i] \in R!IngestRow /\ ingest[i] # None /\ ingest[i].of \in Content
    BY <1>11, IngestRows DEF R!VerifyExisting, R!At, R!ResourcesTypeOK
  <2>2. /\ \A k \in Ingest : k # i => ingest'[k] = ingest[k]
        /\ ingest'[i] = None \/ (ingest'[i] \in R!IngestRow /\ ingest'[i].of = ingest[i].of)
    BY <1>11, <2>1, GoesTo, IsDone DEF R!VerifyExisting
  <2>3. ingest'[i] # None => ingest'[i].pc \in {"found"}
    BY <1>11, <2>1, GoesTo, IsDone DEF R!VerifyExisting
  <2>4. \A k \in Ingest : IngestsSound(k)'
    BY <1>11, <2>1, <2>2, <2>3, ResourcesAssumed, OfContent
    DEF R!VerifyExisting, R!At, R!Of, R!ResourcesTypeOK, R!Age, ResourcesHold,
        IngestsSound
  <2>5. (\A k, n \in Ingest : R!At(k, "linked") /\ R!At(n, "linked") /\ R!Of(k) = R!Of(n) => k = n)'
    BY <1>11, <2>1, <2>2, <2>3, ResourcesAssumed, OfContent
    DEF R!VerifyExisting, R!At, R!Of, R!ResourcesTypeOK, R!Age, ResourcesHold,
        IngestsSound
  <2>6. (\A x \in Content : refs[x] > 0 \/ x \in adopted => object[x] # None)'
    BY <1>11, <2>1, <2>2, <2>3, ResourcesAssumed, OfContent
    DEF R!VerifyExisting, R!At, R!Of, R!ResourcesTypeOK, R!Age, ResourcesHold
  <2>7. R!ReferencesResolve'
    BY <1>11, <2>1, <2>2, <2>3, ResourcesAssumed, OfContent
    DEF R!VerifyExisting, R!At, R!Of, R!ResourcesTypeOK, R!Age, ResourcesHold,
        R!ReferencesResolve, IngestsSound
  <2>. QED
    BY <2>4, <2>5, <2>6, <2>7 DEF ResourcesHold
<1>12. ASSUME NEW i \in Ingest, R!Insert(i) PROVE ResourcesHold'
  <2>1. ingest[i] \in R!IngestRow /\ ingest[i] # None /\ ingest[i].of \in Content
    BY <1>12, IngestRows DEF R!Insert, R!At, R!ResourcesTypeOK
  <2>2. /\ \A k \in Ingest : k # i => ingest'[k] = ingest[k]
        /\ ingest'[i] = None \/ (ingest'[i] \in R!IngestRow /\ ingest'[i].of = ingest[i].of)
    BY <1>12, <2>1, GoesTo, IsDone DEF R!Insert
  <2>3. ingest'[i] # None => ingest'[i].pc \in {"committed"}
    BY <1>12, <2>1, GoesTo, IsDone DEF R!Insert
  <2>4. \A k \in Ingest : IngestsSound(k)'
    BY <1>12, <2>1, <2>2, <2>3, ResourcesAssumed, OfContent
    DEF R!Insert, R!At, R!Of, R!ResourcesTypeOK, R!Age, ResourcesHold, IngestsSound
  <2>5. (\A k, n \in Ingest : R!At(k, "linked") /\ R!At(n, "linked") /\ R!Of(k) = R!Of(n) => k = n)'
    BY <1>12, <2>1, <2>2, <2>3, ResourcesAssumed, OfContent
    DEF R!Insert, R!At, R!Of, R!ResourcesTypeOK, R!Age, ResourcesHold, IngestsSound
  <2>6. (\A x \in Content : refs[x] > 0 \/ x \in adopted => object[x] # None)'
    BY <1>12, <2>1, <2>2, <2>3, ResourcesAssumed, OfContent
    DEF R!Insert, R!At, R!Of, R!ResourcesTypeOK, R!Age, ResourcesHold
  <2>7. R!ReferencesResolve'
    BY <1>12, <2>1, <2>2, <2>3, ResourcesAssumed, OfContent
    DEF R!Insert, R!At, R!Of, R!ResourcesTypeOK, R!Age, ResourcesHold,
        R!ReferencesResolve, IngestsSound
  <2>. QED
    BY <2>4, <2>5, <2>6, <2>7 DEF ResourcesHold
<1>13. ASSUME NEW i \in Ingest, R!InsertFails(i) PROVE ResourcesHold'
  <2>1. ingest[i] \in R!IngestRow /\ ingest[i] # None /\ ingest[i].of \in Content
    BY <1>13, IngestRows DEF R!InsertFails, R!At, R!ResourcesTypeOK
  <2>2. /\ \A k \in Ingest : k # i => ingest'[k] = ingest[k]
        /\ ingest'[i] = None \/ (ingest'[i] \in R!IngestRow /\ ingest'[i].of = ingest[i].of)
    BY <1>13, <2>1, GoesTo, IsDone DEF R!InsertFails
  <2>3. ingest'[i] = None
    BY <1>13, <2>1, IsDone DEF R!InsertFails
  <2>4. \A k \in Ingest : IngestsSound(k)'
    BY <1>13, <2>1, <2>2, <2>3, ResourcesAssumed, OfContent
    DEF R!InsertFails, R!At, R!Of, R!ResourcesTypeOK, R!Age, ResourcesHold,
        IngestsSound
  <2>5. (\A k, n \in Ingest : R!At(k, "linked") /\ R!At(n, "linked") /\ R!Of(k) = R!Of(n) => k = n)'
    BY <1>13, <2>1, <2>2, <2>3, ResourcesAssumed, OfContent
    DEF R!InsertFails, R!At, R!Of, R!ResourcesTypeOK, R!Age, ResourcesHold,
        IngestsSound
  <2>6. (\A x \in Content : refs[x] > 0 \/ x \in adopted => object[x] # None)'
    BY <1>13, <2>1, <2>2, <2>3, ResourcesAssumed, OfContent
    DEF R!InsertFails, R!At, R!Of, R!ResourcesTypeOK, R!Age, ResourcesHold
  <2>7. R!ReferencesResolve'
    BY <1>13, <2>1, <2>2, <2>3, ResourcesAssumed, OfContent
    DEF R!InsertFails, R!At, R!Of, R!ResourcesTypeOK, R!Age, ResourcesHold,
        R!ReferencesResolve, IngestsSound
  <2>. QED
    BY <2>4, <2>5, <2>6, <2>7 DEF ResourcesHold
<1>14. ASSUME NEW i \in Ingest, R!Reference(i) PROVE ResourcesHold'
  <2>1. ingest[i] \in R!IngestRow /\ ingest[i] # None /\ ingest[i].of \in Content
    BY <1>14, IngestRows DEF R!Reference, R!At, R!ResourcesTypeOK
  <2>2. /\ \A k \in Ingest : k # i => ingest'[k] = ingest[k]
        /\ ingest'[i] = None \/ (ingest'[i] \in R!IngestRow /\ ingest'[i].of = ingest[i].of)
    BY <1>14, <2>1, GoesTo, IsDone DEF R!Reference
  <2>3. ingest'[i] = None
    BY <1>14, <2>1, IsDone DEF R!Reference
  <2>4. \A k \in Ingest : IngestsSound(k)'
    BY <1>14, <2>1, <2>2, <2>3, ResourcesAssumed, OfContent
    DEF R!Reference, R!At, R!Of, R!ResourcesTypeOK, R!Age, ResourcesHold,
        IngestsSound
  <2>5. (\A k, n \in Ingest : R!At(k, "linked") /\ R!At(n, "linked") /\ R!Of(k) = R!Of(n) => k = n)'
    BY <1>14, <2>1, <2>2, <2>3, ResourcesAssumed, OfContent
    DEF R!Reference, R!At, R!Of, R!ResourcesTypeOK, R!Age, ResourcesHold,
        IngestsSound
  <2>6. (\A x \in Content : refs[x] > 0 \/ x \in adopted => object[x] # None)'
    BY <1>14, <2>1, <2>2, <2>3, ResourcesAssumed, OfContent
    DEF R!Reference, R!At, R!Of, R!ResourcesTypeOK, R!Age, ResourcesHold
  <2>7. R!ReferencesResolve'
    BY <1>14, <2>1, <2>2, <2>3, ResourcesAssumed, OfContent
    DEF R!Reference, R!At, R!Of, R!ResourcesTypeOK, R!Age, ResourcesHold,
        R!ReferencesResolve, IngestsSound
  <2>. QED
    BY <2>4, <2>5, <2>6, <2>7 DEF ResourcesHold
<1>15. ASSUME NEW i \in Ingest, R!InspectFails(i) PROVE ResourcesHold'
  <2>1. ingest[i] \in R!IngestRow /\ ingest[i] # None /\ ingest[i].of \in Content
    BY <1>15, IngestRows DEF R!InspectFails, R!At, R!ResourcesTypeOK
  <2>2. /\ \A k \in Ingest : k # i => ingest'[k] = ingest[k]
        /\ ingest'[i] = None \/ (ingest'[i] \in R!IngestRow /\ ingest'[i].of = ingest[i].of)
    BY <1>15, <2>1, GoesTo, IsDone DEF R!InspectFails
  <2>3. ingest'[i] = None
    BY <1>15, <2>1, IsDone DEF R!InspectFails
  <2>4. \A k \in Ingest : IngestsSound(k)'
    BY <1>15, <2>1, <2>2, <2>3, ResourcesAssumed, OfContent
    DEF R!InspectFails, R!Collect, R!Orphans, R!At, R!Of, R!ResourcesTypeOK, R!Age,
        ResourcesHold, IngestsSound
  <2>5. (\A k, n \in Ingest : R!At(k, "linked") /\ R!At(n, "linked") /\ R!Of(k) = R!Of(n) => k = n)'
    BY <1>15, <2>1, <2>2, <2>3, ResourcesAssumed, OfContent
    DEF R!InspectFails, R!Collect, R!Orphans, R!At, R!Of, R!ResourcesTypeOK, R!Age,
        ResourcesHold, IngestsSound
  <2>6. (\A x \in Content : refs[x] > 0 \/ x \in adopted => object[x] # None)'
    BY <1>15, <2>1, <2>2, <2>3, ResourcesAssumed, OfContent
    DEF R!InspectFails, R!Collect, R!Orphans, R!At, R!Of, R!ResourcesTypeOK, R!Age,
        ResourcesHold
  <2>7. R!ReferencesResolve'
    BY <1>15, <2>1, <2>2, <2>3, ResourcesAssumed, OfContent
    DEF R!InspectFails, R!Collect, R!Orphans, R!At, R!Of, R!ResourcesTypeOK, R!Age,
        ResourcesHold, R!ReferencesResolve, IngestsSound
  <2>. QED
    BY <2>4, <2>5, <2>6, <2>7 DEF ResourcesHold
<1>16. ASSUME NEW i \in Ingest, R!Crash(i) PROVE ResourcesHold'
  <2>1. ingest[i] \in R!IngestRow /\ ingest[i] # None /\ ingest[i].of \in Content
    BY <1>16, IngestRows DEF R!Crash, R!At, R!ResourcesTypeOK
  <2>2. /\ \A k \in Ingest : k # i => ingest'[k] = ingest[k]
        /\ ingest'[i] = None \/ (ingest'[i] \in R!IngestRow /\ ingest'[i].of = ingest[i].of)
    BY <1>16, <2>1, GoesTo, IsDone DEF R!Crash
  <2>3. ingest'[i] = None
    BY <1>16, <2>1, IsDone DEF R!Crash
  <2>4. \A k \in Ingest : IngestsSound(k)'
    BY <1>16, <2>1, <2>2, <2>3, ResourcesAssumed, OfContent
    DEF R!Crash, R!At, R!Of, R!ResourcesTypeOK, R!Age, ResourcesHold, IngestsSound
  <2>5. (\A k, n \in Ingest : R!At(k, "linked") /\ R!At(n, "linked") /\ R!Of(k) = R!Of(n) => k = n)'
    BY <1>16, <2>1, <2>2, <2>3, ResourcesAssumed, OfContent
    DEF R!Crash, R!At, R!Of, R!ResourcesTypeOK, R!Age, ResourcesHold, IngestsSound
  <2>6. (\A x \in Content : refs[x] > 0 \/ x \in adopted => object[x] # None)'
    BY <1>16, <2>1, <2>2, <2>3, ResourcesAssumed, OfContent
    DEF R!Crash, R!At, R!Of, R!ResourcesTypeOK, R!Age, ResourcesHold
  <2>7. R!ReferencesResolve'
    BY <1>16, <2>1, <2>2, <2>3, ResourcesAssumed, OfContent
    DEF R!Crash, R!At, R!Of, R!ResourcesTypeOK, R!Age, ResourcesHold,
        R!ReferencesResolve, IngestsSound
  <2>. QED
    BY <2>4, <2>5, <2>6, <2>7 DEF ResourcesHold
<1>u. ASSUME UNCHANGED R!casVars PROVE ResourcesHold'
  BY <1>u DEF IngestsSound, ResourcesHold, R!ReferencesResolve, R!At, R!Of, R!casVars
<1>. QED
  BY <1>1, <1>2, <1>3, <1>4, <1>5, <1>6, <1>7, <1>8, <1>9, <1>10, <1>11, <1>12,
     <1>13, <1>14, <1>15, <1>16, <1>u
  DEF R!ResourcesNext

LEMMA ResourcesInductive ==
    /\ R!ResourcesInit => R!ResourcesTypeOK /\ ResourcesHold
    /\ R!ResourcesTypeOK /\ ResourcesHold /\ [R!ResourcesNext]_(R!casVars)
         => (R!ResourcesTypeOK /\ ResourcesHold)'
<1>1. R!ResourcesInit => R!ResourcesTypeOK
  BY ResourcesAssumed DEF R!ResourcesInit, R!ResourcesTypeOK, R!Age
<1>2. R!ResourcesInit => ResourcesHold
  BY DEF R!ResourcesInit, ResourcesHold, IngestsSound, R!ReferencesResolve, R!At
<1>. QED
  BY <1>1, <1>2, ResourcesTypeStep, ResourcesStep

-----------------------------------------------------------------------------
(* The processes of an installation.                                       *)

Killer == [stage : {"idle", "probing", "next", "checked", "waiting"}, todo : SUBSET P!Candidate,
           live : [P!Daemon -> P!Candidate \cup {None}], now : P!Daemon \cup {None},
           seen : SUBSET P!Daemon, report : SUBSET P!Daemon]

\* What a process has open goes with how far it is: the lease comes first and
\* goes last.
HeldInOrder ==
    \A d \in P!Daemon :
       /\ at[d] \in {"none", "ended", "dead"} => held[d] = {}
       /\ at[d] = "stale" => held[d] \subseteq {"unlinked", "again"}
       /\ at[d] \in {"booting", "up"} => "lease" \in held[d]
       /\ at[d] = "up" => {"socket", "alias", "row"} \subseteq held[d]
       /\ held[d] \cap {"port", "socket", "alias", "row"} # {} => "lease" \in held[d]

\* Files are of their root; those that are somebody's are of one who has them
\* open, or of one who died.
FilesOwned ==
    /\ \A r \in {Root} : /\ lease[r] # None => root[lease[r]] = r
                         /\ alias[r] # None => root[alias[r]] = r
    /\ \A d \in P!Daemon : at[d] # "dead" =>
          /\ d \in sockets <=> "socket" \in held[d]
          /\ d \in rows <=> "row" \in held[d]
          /\ \A r \in {Root} : /\ lease[r] = d => "lease" \in held[d]
                               /\ alias[r] = d => "alias" \in held[d]

\* Unless a live daemon's lease was taken for a dead one's, what a daemon has
\* open at the paths of its root is its own.
PathsTheirOwn ==
    ~ raced =>
       \A d \in P!Daemon : /\ "lease" \in held[d] => lease[root[d]] = d
                           /\ "alias" \in held[d] => alias[root[d]] = d

\* What kill knows of a process that is there: by a path it has open, unless it
\* is closing and its port is free already.
KillerKnows ==
    /\ \A d \in P!Daemon : killer.live[d] # None =>
          /\ killer.live[d] \in {<<root[d], "alias">>, <<d, "socket">>}
          /\ at[d] \notin {"none", "stale"}
          /\ P!Alive(d) =>
               /\ d \in killer.seen
               /\ killer.live[d][2] \in held[d] \/ (at[d] = "closing" /\ "port" \notin held[d])
    /\ killer.stage \in {"checked", "waiting"} => killer.now # None /\ killer.live[killer.now] # None
    /\ ~ raced =>
          \A d \in killer.report : at[d] = "closing" /\ "port" \notin held[d]

RootsKnown == \A d \in P!Daemon : at[d] # "none" => root[d] = Root

Stages == {"none", "stale", "booting", "up", "closing", "ended", "dead"}
ProcessTypes ==
    /\ at \in [P!Daemon -> Stages] /\ kind \in [P!Daemon -> {"http", "stdio"}]
    /\ root \in [P!Daemon -> {Root} \cup {None}] /\ held \in [P!Daemon -> SUBSET P!Piece]
    /\ asked \in [P!Daemon -> {None, "kill", "owner"}] /\ opened \in [P!Daemon -> BOOLEAN]
FileTypes ==
    /\ lease \in [{Root} -> P!Daemon \cup {None}] /\ alias \in [{Root} -> P!Daemon \cup {None}]
    /\ sockets \subseteq P!Daemon /\ rows \subseteq P!Daemon /\ raced \in BOOLEAN
Typed == ProcessTypes /\ FileTypes /\ killer \in Killer /\ deaths \in 0 .. MaxCrashes

DaemonsHold ==
    /\ Typed /\ RootsKnown /\ HeldInOrder /\ FilesOwned /\ PathsTheirOwn /\ KillerKnows
    /\ P!KillsIdentified

LEMMA TypedIs == Typed <=> P!DaemonsTypeOK /\ killer \in Killer
BY DEF Typed, ProcessTypes, FileTypes, Stages, Killer, P!DaemonsTypeOK

LEMMA DaemonsAssumed ==
    /\ MaxDaemons \in Nat \ {0} /\ MaxCrashes \in Nat /\ None \notin P!Daemon /\ None # Root
    /\ None # "kill"
BY Assumed DEF P!DaemonsAssumption, P!Daemon

\* The piece that is opened next, all of them, and the piece given back next.
LEMMA TodoIs ==
    ASSUME NEW d \in P!Daemon, ~ P!Booted(d)
    PROVE  P!Todo(d) \in {"lease", "port", "socket", "alias", "row"}
<1>. DEFINE order == P!Boot(d)
<1>1. \/ order = <<"lease", "port", "socket", "alias", "row">>
      \/ order = <<"lease", "socket", "alias", "row">>
  BY DEF P!Boot
<1>2. PICK i \in DOMAIN order : order[i] \notin held[d]
  BY DEF P!Booted
<1>3. DOMAIN order \in SUBSET Nat /\ \A n \in DOMAIN order : n >= 1
  BY <1>1
<1>. HIDE DEF order
<1>4. \E n \in DOMAIN order : order[n] \notin held[d] /\ \A j \in 1 .. n - 1 : order[j] \in held[d]
  <2>. DEFINE missing == {n \in DOMAIN order : order[n] \notin held[d]}
  <2>1. missing \in SUBSET Nat /\ missing # {}
    BY <1>2, <1>3
  <2>2. PICK n \in missing : \A j \in missing : n <= j
    BY <2>1, FirstThere
  <2>3. \A j \in 1 .. n - 1 : j \in DOMAIN order /\ j < n
    BY <1>1, <2>2
  <2>. QED
    BY <1>3, <2>2, <2>3
<1>5. P!First(d, order) \in DOMAIN order
  BY <1>4 DEF P!First
<1>6. P!Todo(d) = order[P!First(d, order)]
  BY DEF P!Todo, order
<1>7. \A n \in DOMAIN order : order[n] \in {"lease", "port", "socket", "alias", "row"}
  BY <1>1
<1>. QED
  BY <1>5, <1>6, <1>7

LEMMA BootedIs ==
    ASSUME NEW d \in P!Daemon, P!Booted(d)
    PROVE  {"lease", "socket", "alias", "row"} \subseteq held[d]
<1>. DEFINE order == P!Boot(d)
<1>1. \/ order = <<"lease", "port", "socket", "alias", "row">>
      \/ order = <<"lease", "socket", "alias", "row">>
  BY DEF P!Boot
<1>2. \A i \in DOMAIN order : order[i] \in held[d]
  BY DEF P!Booted
<1>. HIDE DEF order
<1>3. CASE order = <<"lease", "port", "socket", "alias", "row">>
  BY <1>2, <1>3
<1>4. CASE order = <<"lease", "socket", "alias", "row">>
  BY <1>2, <1>4
<1>. QED
  BY <1>1, <1>3, <1>4

LEMMA ClosingIs ==
    ASSUME NEW d \in P!Daemon
    PROVE  P!Closing(d) <=> /\ at[d] = "closing"
                            /\ held[d] \cap {"port", "row", "socket", "alias", "lease"} # {}
<1>1. {P!Teardown[i] : i \in DOMAIN P!Teardown} = {"port", "row", "socket", "alias", "lease"}
  <2>1. DOMAIN P!Teardown = 1 .. 5
    BY DEF P!Teardown
  <2>2. \A i \in 1 .. 5 : i = 1 \/ i = 2 \/ i = 3 \/ i = 4 \/ i = 5
    OBVIOUS
  <2>3. /\ P!Teardown[1] = "port" /\ P!Teardown[2] = "row" /\ P!Teardown[3] = "socket"
        /\ P!Teardown[4] = "alias" /\ P!Teardown[5] = "lease"
    BY DEF P!Teardown
  <2>. QED
    BY <2>1, <2>2, <2>3
<1>. QED
  BY <1>1 DEF P!Closing

LEMMA LastIs ==
    ASSUME NEW d \in P!Daemon, P!Closing(d)
    PROVE  /\ P!Last(d) \in held[d] \cap {"port", "row", "socket", "alias", "lease"}
           /\ P!Last(d) # "port" => "port" \notin held[d]
           /\ P!Last(d) = "lease" => held[d] \cap {"port", "row", "socket", "alias"} = {}
<1>1. /\ DOMAIN P!Teardown = 1 .. 5
      /\ P!Teardown[1] = "port" /\ P!Teardown[2] = "row" /\ P!Teardown[3] = "socket"
      /\ P!Teardown[4] = "alias" /\ P!Teardown[5] = "lease"
  BY DEF P!Teardown
<1>. DEFINE order == P!Teardown
            open == {i \in 1 .. 5 : order[i] \in held[d]}
            first == CHOOSE i \in DOMAIN order :
                        order[i] \in held[d] /\ \A j \in 1 .. i - 1 : order[j] \notin held[d]
<1>. HIDE DEF order
<1>2. open # {} /\ open \in SUBSET Nat
  <2>1. PICK x \in held[d] : x \in {"port", "row", "socket", "alias", "lease"}
    BY ClosingIs
  <2>. QED
    BY <1>1, <2>1 DEF order
<1>3. PICK i \in open : \A j \in open : i <= j
  BY <1>2, FirstThere
<1>4. i \in DOMAIN order /\ order[i] \in held[d] /\ \A j \in 1 .. i - 1 : order[j] \notin held[d]
  BY <1>1, <1>3 DEF order
<1>5. first \in DOMAIN order /\ order[first] \in held[d] /\ \A j \in 1 .. first - 1 : order[j] \notin held[d]
  BY <1>4
<1>6. P!Last(d) = order[first]
  BY DEF P!Last, order
<1>. HIDE DEF first
<1>7. first = 1 \/ first = 2 \/ first = 3 \/ first = 4 \/ first = 5
  BY <1>1, <1>5 DEF order
<1>8. /\ first # 1 => order[1] \notin held[d]
      /\ first = 5 => /\ order[1] \notin held[d] /\ order[2] \notin held[d]
                      /\ order[3] \notin held[d] /\ order[4] \notin held[d]
  BY <1>5, <1>7
<1>. QED
  BY <1>1, <1>5, <1>6, <1>7, <1>8 DEF order

\* Whose socket is at a path, and who answers there.
LEMMA BoundIs ==
    ASSUME Typed
    PROVE  /\ \A c \in P!Candidate : P!Bound(c) \in P!Daemon \cup {None}
           /\ P!Bound(<<Root, "alias">>) = alias[Root]
           /\ \A d \in P!Daemon : P!Bound(<<d, "socket">>) = IF d \in sockets THEN d ELSE None
BY DEF P!Bound, P!Candidate, Typed, ProcessTypes, FileTypes

LEMMA AnswersIs ==
    ASSUME Typed, NEW c \in P!Candidate, P!Answers(c) # None
    PROVE  /\ P!Answers(c) \in P!Daemon /\ P!Alive(P!Answers(c)) /\ c[2] \in held[P!Answers(c)]
           /\ P!Bound(c) = P!Answers(c)
           /\ \/ c = <<Root, "alias">> /\ alias[Root] = P!Answers(c)
              \/ c = <<P!Answers(c), "socket">> /\ P!Answers(c) \in sockets
<1>1. P!Answers(c) = P!Bound(c) /\ P!Alive(P!Answers(c)) /\ c[2] \in held[P!Answers(c)]
  BY DEF P!Answers
<1>2. P!Bound(c) \in P!Daemon
  BY <1>1, BoundIs
<1>3. \/ c = <<Root, "alias">> /\ P!Bound(c) = alias[Root]
      \/ c = <<P!Bound(c), "socket">> /\ P!Bound(c) \in sockets
  BY <1>1, <1>2 DEF P!Bound, P!Candidate
<1>. QED
  BY <1>1, <1>2, <1>3

LEMMA KnowingIs ==
    ASSUME NEW st \in {"idle", "probing", "next", "checked", "waiting"},
           NEW todo \in SUBSET P!Candidate, NEW known \in [P!Daemon -> P!Candidate \cup {None}],
           NEW d \in P!Daemon \cup {None}, NEW seen \in SUBSET P!Daemon, NEW report \in SUBSET P!Daemon
    PROVE  LET k == P!Knowing(st, todo, known, d, seen, report) IN
           /\ k \in Killer /\ k.stage = st /\ k.todo = todo /\ k.live = known /\ k.now = d
           /\ k.seen = seen /\ k.report = report
BY DEF P!Knowing, Killer

\* What kill forgets of a process that ends.
Forgot(d) ==
    /\ killer' \in Killer /\ killer'.stage = killer.stage /\ killer'.todo = killer.todo
    /\ killer'.live = killer.live /\ killer'.now = killer.now
    /\ killer'.seen = killer.seen \ {d} /\ killer'.report = killer.report \ {d}

LEMMA GoneTyped ==
    ASSUME Typed, NEW d \in P!Daemon, NEW s \in {"ended", "dead"}, P!Gone(d, s)
    PROVE  /\ at' \in [P!Daemon -> Stages]
           /\ kind' \in [P!Daemon -> {"http", "stdio"}] /\ held' \in [P!Daemon -> SUBSET P!Piece]
           /\ asked' \in [P!Daemon -> {None, "kill", "owner"}] /\ opened' \in [P!Daemon -> BOOLEAN]
           /\ at'[d] = s /\ held'[d] = {} /\ asked'[d] = None
           /\ \A c \in P!Daemon \ {d} : at'[c] = at[c] /\ held'[c] = held[c] /\ asked'[c] = asked[c]
           /\ Forgot(d)
<1>1. Forgot(d)
  <2>1. /\ killer.stage \in {"idle", "probing", "next", "checked", "waiting"}
        /\ killer.todo \in SUBSET P!Candidate /\ killer.live \in [P!Daemon -> P!Candidate \cup {None}]
        /\ killer.now \in P!Daemon \cup {None} /\ killer.seen \ {d} \in SUBSET P!Daemon
        /\ killer.report \ {d} \in SUBSET P!Daemon
    BY DEF Typed, Killer
  <2>2. killer' = P!Knowing(killer.stage, killer.todo, killer.live, killer.now, killer.seen \ {d}, killer.report \ {d})
    BY DEF P!Gone
  <2>. QED
    BY <2>1, <2>2, KnowingIs DEF Forgot
<1>2. /\ at' = [at EXCEPT ![d] = s] /\ held' = [held EXCEPT ![d] = {}]
      /\ kind' = [kind EXCEPT ![d] = "http"] /\ asked' = [asked EXCEPT ![d] = None]
      /\ opened' = [opened EXCEPT ![d] = FALSE]
  BY DEF P!Gone
<1>. QED
  BY <1>1, <1>2 DEF Typed, ProcessTypes, Stages

-----------------------------------------------------------------------------
(* What the steps of a process do.                                         *)

\* Process d is now at a and has h open, files are as given, and nothing else has
\* changed; nobody has asked it more, and if it has ended kill forgets it.
Turn(d, a, h, lr, ar, so, ro, ra) ==
    /\ at'[d] = a /\ held'[d] = h /\ root'[d] = Root
    /\ \A c \in P!Daemon \ {d} : /\ at'[c] = at[c] /\ held'[c] = held[c] /\ root'[c] = root[c]
                                /\ asked'[c] = asked[c]
    /\ asked'[d] \in {asked[d], None}
    /\ lease'[Root] = lr /\ alias'[Root] = ar /\ sockets' = so /\ rows' = ro /\ raced' = ra
    /\ \/ killer' = killer /\ (a \notin {"ended", "dead"} \/ at[d] = "none")
       \/ a \in {"ended", "dead"} /\ asked'[d] = None /\ Forgot(d)

Moved(d) ==
    \/ at[d] = "none" /\ lease[Root] = None /\ Turn(d, "booting", {"lease"}, d, alias[Root],
       sockets, rows, raced)
    \/ at[d] = "none" /\ Turn(d, "stale", held[d], lease[Root], alias[Root], sockets, rows, raced)
    \/ at[d] = "none" /\ Turn(d, "ended", held[d], lease[Root], alias[Root], sockets, rows, raced)
    \/ at[d] = "stale" /\ raced' = (raced \/ (lease[Root] # None /\ P!Alive(lease[Root])))
       /\ Turn(d, "stale", {"unlinked"}, None, alias[Root], sockets, rows, raced')
    \/ at[d] = "stale" /\ raced' = (raced \/ (lease[Root] # None /\ P!Alive(lease[Root])))
       /\ Turn(d, "ended", {}, None, alias[Root], sockets, rows, raced')
    \/ at[d] = "stale" /\ lease[Root] = None /\ Turn(d, "booting", {"lease"}, d,
       alias[Root], sockets, rows, raced)
    \/ at[d] = "stale" /\ Turn(d, "stale", {"again"}, lease[Root], alias[Root], sockets,
       rows, raced)
    \/ at[d] = "stale" /\ Turn(d, "ended", {}, lease[Root], alias[Root], sockets, rows, raced)
    \/ at[d] = "booting" /\ P!Todo(d) \in {"lease", "port", "socket", "alias", "row"} /\
       Turn(d, "booting", held[d] \cup {P!Todo(d)}, lease[Root], (IF P!Todo(d) = "alias"
       THEN d ELSE alias[Root]), (IF P!Todo(d) = "socket" THEN sockets \cup {d} ELSE
       sockets), (IF P!Todo(d) = "row" THEN rows \cup {d} ELSE rows), raced)
    \/ at[d] = "booting" /\ {"lease", "socket", "alias", "row"} \subseteq held[d] /\ Turn(d,
       "up", held[d], lease[Root], alias[Root], sockets, rows, raced)
    \/ at[d] \in {"up", "closing"} /\ Turn(d, at[d], held[d] \cup {"tunnel"}, lease[Root],
       alias[Root], sockets, rows, raced)
    \/ at[d] \in {"booting", "up"} /\ Turn(d, "closing", held[d], lease[Root], alias[Root],
       sockets, rows, raced)
    \/ at[d] = "booting" /\ Turn(d, "dead", {}, lease[Root], (IF "alias" \in held[d] THEN
       None ELSE alias[Root]), sockets \ {d}, rows, raced)
    \/ P!Alive(d) /\ Turn(d, "dead", {}, lease[Root], alias[Root], sockets, rows, raced)
    \/ at[d] = "closing" /\ P!Closing(d) /\ Turn(d, "closing", held[d] \ {P!Last(d)}, (IF
       P!Last(d) = "lease" /\ lease[Root] = d THEN None ELSE lease[Root]), (IF P!Last(d) =
       "alias" /\ alias[Root] = d THEN None ELSE alias[Root]), (IF P!Last(d) = "socket" THEN
       sockets \ {d} ELSE sockets), (IF P!Last(d) = "row" THEN rows \ {d} ELSE rows), raced)
    \/ at[d] = "closing" /\ ~ P!Closing(d) /\ Turn(d, "ended", {}, lease[Root], alias[Root],
       sockets, rows, raced)

LEMMA BeginDoes ==
    ASSUME Typed, RootsKnown, NEW d \in P!Daemon, NEW k \in {"http", "stdio"}, NEW r \in {Root}, P!Begin(d, k, r)
    PROVE  Typed' /\ Moved(d)
<1>g. at[d] = "none" /\ r = Root
  BY DEF RootsKnown, P!Begin, P!Alive, P!Closing
<1>1. CASE /\ lease[Root] = None
            /\ lease' = [lease EXCEPT ![Root] = d]
            /\ root' = [root EXCEPT ![d] = Root]
            /\ at' = [at EXCEPT ![d] = "booting"]
            /\ held' = [held EXCEPT ![d] = {"lease"}]
            /\ kind' = [kind EXCEPT ![d] = k]
            /\ UNCHANGED <<asked, opened, alias, sockets, rows, raced, killer, deaths>>
  <2>1. ProcessTypes'
    BY <1>1, <1>g DEF Typed, ProcessTypes, Stages, P!Piece
  <2>2. FileTypes'
    BY <1>1, <1>g DEF Typed, FileTypes
  <2>3. killer' \in Killer /\ deaths' \in 0 .. MaxCrashes
    BY <1>1, DaemonsAssumed DEF Typed, Forgot
  <2>4. Turn(d, "booting", {"lease"}, d, alias[Root], sockets, rows, raced)
    BY <1>1, <1>g DEF Typed, ProcessTypes, FileTypes, Turn
  <2>5. Moved(d)
    BY <1>g, <1>1, <2>4 DEF Moved
  <2>. QED
    BY <2>1, <2>2, <2>3, <2>5 DEF Typed
<1>2. CASE /\ root' = [root EXCEPT ![d] = Root]
            /\ at' = [at EXCEPT ![d] = "stale"]
            /\ kind' = [kind EXCEPT ![d] = k]
            /\ UNCHANGED <<held, asked, opened, lease, alias, sockets, rows, raced, killer, deaths>>
  <2>1. ProcessTypes'
    BY <1>2, <1>g DEF Typed, ProcessTypes, Stages, P!Piece
  <2>2. FileTypes'
    BY <1>2, <1>g DEF Typed, FileTypes
  <2>3. killer' \in Killer /\ deaths' \in 0 .. MaxCrashes
    BY <1>2, DaemonsAssumed DEF Typed, Forgot
  <2>4. Turn(d, "stale", held[d], lease[Root], alias[Root], sockets, rows, raced)
    BY <1>2, <1>g DEF Typed, ProcessTypes, FileTypes, Turn
  <2>5. Moved(d)
    BY <1>g, <1>2, <2>4 DEF Moved
  <2>. QED
    BY <2>1, <2>2, <2>3, <2>5 DEF Typed
<1>3. CASE /\ root' = [root EXCEPT ![d] = Root]
            /\ at' = [at EXCEPT ![d] = "ended"]
            /\ UNCHANGED <<kind, held, asked, opened, lease, alias, sockets, rows, raced, killer, deaths>>
  <2>1. ProcessTypes'
    BY <1>3, <1>g DEF Typed, ProcessTypes, Stages, P!Piece
  <2>2. FileTypes'
    BY <1>3, <1>g DEF Typed, FileTypes
  <2>3. killer' \in Killer /\ deaths' \in 0 .. MaxCrashes
    BY <1>3, DaemonsAssumed DEF Typed, Forgot
  <2>4. Turn(d, "ended", held[d], lease[Root], alias[Root], sockets, rows, raced)
    BY <1>3, <1>g DEF Typed, ProcessTypes, FileTypes, Turn
  <2>5. Moved(d)
    BY <1>g, <1>3, <2>4 DEF Moved
  <2>. QED
    BY <2>1, <2>2, <2>3, <2>5 DEF Typed
<1>. QED
  BY <1>g, <1>1, <1>2, <1>3 DEF P!Begin, P!Closes

LEMMA UnlinkDoes ==
    ASSUME Typed, RootsKnown, NEW d \in P!Daemon, P!Unlink(d)
    PROVE  Typed' /\ Moved(d)
<1>g. at[d] = "stale" /\ root[d] = Root
  BY DEF RootsKnown, P!Unlink, P!Alive, P!Closing
<1>1. CASE /\ raced' = (raced \/ (lease[Root] # None /\ P!Alive(lease[Root])))
            /\ lease' = [lease EXCEPT ![Root] = None]
            /\ held' = [held EXCEPT ![d] = {"unlinked"}]
            /\ UNCHANGED <<at, kind, root, asked, opened, alias, sockets, rows, killer, deaths>>
  <2>1. ProcessTypes'
    BY <1>1, <1>g DEF Typed, ProcessTypes, Stages, P!Piece
  <2>2. FileTypes'
    BY <1>1, <1>g DEF Typed, FileTypes
  <2>3. killer' \in Killer /\ deaths' \in 0 .. MaxCrashes
    BY <1>1, DaemonsAssumed DEF Typed, Forgot
  <2>4. Turn(d, "stale", {"unlinked"}, None, alias[Root], sockets, rows, raced')
    BY <1>1, <1>g DEF Typed, ProcessTypes, FileTypes, Turn
  <2>5. Moved(d)
    BY <1>g, <1>1, <2>4 DEF Moved
  <2>. QED
    BY <2>1, <2>2, <2>3, <2>5 DEF Typed
<1>2. CASE /\ raced' = (raced \/ (lease[Root] # None /\ P!Alive(lease[Root])))
            /\ lease' = [lease EXCEPT ![Root] = None]
            /\ P!Gone(d, "ended")
            /\ UNCHANGED <<root, alias, sockets, rows, deaths>>
  <2>a. /\ at' \in [P!Daemon -> Stages] /\ kind' \in [P!Daemon -> {"http", "stdio"}]
        /\ held' \in [P!Daemon -> SUBSET P!Piece] /\ asked' \in [P!Daemon -> {None, "kill", "owner"}]
        /\ opened' \in [P!Daemon -> BOOLEAN] /\ at'[d] = "ended" /\ held'[d] = {} /\ asked'[d] = None
        /\ \A c \in P!Daemon \ {d} : at'[c] = at[c] /\ held'[c] = held[c] /\ asked'[c] = asked[c]
        /\ Forgot(d)
    BY <1>2, GoneTyped
  <2>1. ProcessTypes'
    BY <2>a, <1>2, <1>g DEF Typed, ProcessTypes, Stages, P!Piece
  <2>2. FileTypes'
    BY <2>a, <1>2, <1>g DEF Typed, FileTypes
  <2>3. killer' \in Killer /\ deaths' \in 0 .. MaxCrashes
    BY <2>a, <1>2, DaemonsAssumed DEF Typed, Forgot
  <2>4. Turn(d, "ended", {}, None, alias[Root], sockets, rows, raced')
    BY <2>a, <1>2, <1>g DEF Typed, ProcessTypes, FileTypes, Turn
  <2>5. Moved(d)
    BY <1>g, <1>2, <2>4 DEF Moved
  <2>. QED
    BY <2>1, <2>2, <2>3, <2>5 DEF Typed
<1>. QED
  BY <1>g, <1>1, <1>2 DEF P!Unlink, P!Closes

LEMMA TakeOverDoes ==
    ASSUME Typed, RootsKnown, NEW d \in P!Daemon, P!TakeOver(d)
    PROVE  Typed' /\ Moved(d)
<1>g. at[d] = "stale" /\ root[d] = Root
  BY DEF RootsKnown, P!TakeOver, P!Alive, P!Closing
<1>1. CASE /\ lease[Root] = None
            /\ lease' = [lease EXCEPT ![Root] = d]
            /\ at' = [at EXCEPT ![d] = "booting"]
            /\ held' = [held EXCEPT ![d] = {"lease"}]
            /\ UNCHANGED <<kind, root, asked, opened, alias, sockets, rows, raced, killer, deaths>>
  <2>1. ProcessTypes'
    BY <1>1, <1>g DEF Typed, ProcessTypes, Stages, P!Piece
  <2>2. FileTypes'
    BY <1>1, <1>g DEF Typed, FileTypes
  <2>3. killer' \in Killer /\ deaths' \in 0 .. MaxCrashes
    BY <1>1, DaemonsAssumed DEF Typed, Forgot
  <2>4. Turn(d, "booting", {"lease"}, d, alias[Root], sockets, rows, raced)
    BY <1>1, <1>g DEF Typed, ProcessTypes, FileTypes, Turn
  <2>5. Moved(d)
    BY <1>g, <1>1, <2>4 DEF Moved
  <2>. QED
    BY <2>1, <2>2, <2>3, <2>5 DEF Typed
<1>2. CASE /\ held' = [held EXCEPT ![d] = {"again"}]
            /\ UNCHANGED <<at, kind, root, asked, opened, lease, alias, sockets, rows, raced, killer, deaths>>
  <2>1. ProcessTypes'
    BY <1>2, <1>g DEF Typed, ProcessTypes, Stages, P!Piece
  <2>2. FileTypes'
    BY <1>2, <1>g DEF Typed, FileTypes
  <2>3. killer' \in Killer /\ deaths' \in 0 .. MaxCrashes
    BY <1>2, DaemonsAssumed DEF Typed, Forgot
  <2>4. Turn(d, "stale", {"again"}, lease[Root], alias[Root], sockets, rows, raced)
    BY <1>2, <1>g DEF Typed, ProcessTypes, FileTypes, Turn
  <2>5. Moved(d)
    BY <1>g, <1>2, <2>4 DEF Moved
  <2>. QED
    BY <2>1, <2>2, <2>3, <2>5 DEF Typed
<1>3. CASE /\ P!Gone(d, "ended")
            /\ UNCHANGED <<root, lease, alias, sockets, rows, raced, deaths>>
  <2>a. /\ at' \in [P!Daemon -> Stages] /\ kind' \in [P!Daemon -> {"http", "stdio"}]
        /\ held' \in [P!Daemon -> SUBSET P!Piece] /\ asked' \in [P!Daemon -> {None, "kill", "owner"}]
        /\ opened' \in [P!Daemon -> BOOLEAN] /\ at'[d] = "ended" /\ held'[d] = {} /\ asked'[d] = None
        /\ \A c \in P!Daemon \ {d} : at'[c] = at[c] /\ held'[c] = held[c] /\ asked'[c] = asked[c]
        /\ Forgot(d)
    BY <1>3, GoneTyped
  <2>1. ProcessTypes'
    BY <2>a, <1>3, <1>g DEF Typed, ProcessTypes, Stages, P!Piece
  <2>2. FileTypes'
    BY <2>a, <1>3, <1>g DEF Typed, FileTypes
  <2>3. killer' \in Killer /\ deaths' \in 0 .. MaxCrashes
    BY <2>a, <1>3, DaemonsAssumed DEF Typed, Forgot
  <2>4. Turn(d, "ended", {}, lease[Root], alias[Root], sockets, rows, raced)
    BY <2>a, <1>3, <1>g DEF Typed, ProcessTypes, FileTypes, Turn
  <2>5. Moved(d)
    BY <1>g, <1>3, <2>4 DEF Moved
  <2>. QED
    BY <2>1, <2>2, <2>3, <2>5 DEF Typed
<1>. QED
  BY <1>g, <1>1, <1>2, <1>3 DEF P!TakeOver, P!Closes

LEMMA OpenDoes ==
    ASSUME Typed, RootsKnown, NEW d \in P!Daemon, P!Open(d)
    PROVE  Typed' /\ Moved(d)
<1>g. at[d] = "booting" /\ P!Todo(d) \in {"lease", "port", "socket", "alias", "row"} /\ root[d] = Root
  BY TodoIs DEF RootsKnown, P!Open, P!Alive, P!Closing
<1>1. CASE /\ held' = [held EXCEPT ![d] = held[d] \cup {P!Todo(d)}]
            /\ sockets' = (IF P!Todo(d) = "socket" THEN sockets \cup {d} ELSE sockets)
            /\ alias' = (IF P!Todo(d) = "alias" THEN [alias EXCEPT ![Root] = d] ELSE alias)
            /\ rows' = (IF P!Todo(d) = "row" THEN rows \cup {d} ELSE rows)
            /\ UNCHANGED <<at, kind, root, asked, opened, lease, raced, killer, deaths>>
  <2>1. ProcessTypes'
    BY <1>1, <1>g DEF Typed, ProcessTypes, Stages, P!Piece
  <2>2. FileTypes'
    BY <1>1, <1>g DEF Typed, FileTypes
  <2>3. killer' \in Killer /\ deaths' \in 0 .. MaxCrashes
    BY <1>1, DaemonsAssumed DEF Typed, Forgot
  <2>4. Turn(d, "booting", held[d] \cup {P!Todo(d)}, lease[Root], (IF P!Todo(d) = "alias" THEN d ELSE alias[Root]), (IF P!Todo(d) = "socket" THEN sockets \cup {d} ELSE sockets), (IF P!Todo(d) = "row" THEN rows \cup {d} ELSE rows), raced)
    BY <1>1, <1>g DEF Typed, ProcessTypes, FileTypes, Turn
  <2>5. Moved(d)
    BY <1>g, <1>1, <2>4 DEF Moved
  <2>. QED
    BY <2>1, <2>2, <2>3, <2>5 DEF Typed
<1>. QED
  BY <1>g, <1>1 DEF P!Open, P!Closes

LEMMA ReturnDoes ==
    ASSUME Typed, RootsKnown, NEW d \in P!Daemon, P!Return(d)
    PROVE  Typed' /\ Moved(d)
<1>g. at[d] = "booting" /\ {"lease", "socket", "alias", "row"} \subseteq held[d] /\ root[d] = Root
  BY BootedIs DEF RootsKnown, P!Return, P!Alive, P!Closing
<1>1. CASE /\ at' = [at EXCEPT ![d] = "up"]
            /\ \E b \in BOOLEAN : opened' = [opened EXCEPT ![d] = b]
            /\ UNCHANGED <<kind, root, held, asked, lease, alias, sockets, rows, raced, killer, deaths>>
  <2>1. ProcessTypes'
    BY <1>1, <1>g DEF Typed, ProcessTypes, Stages, P!Piece
  <2>2. FileTypes'
    BY <1>1, <1>g DEF Typed, FileTypes
  <2>3. killer' \in Killer /\ deaths' \in 0 .. MaxCrashes
    BY <1>1, DaemonsAssumed DEF Typed, Forgot
  <2>4. Turn(d, "up", held[d], lease[Root], alias[Root], sockets, rows, raced)
    BY <1>1, <1>g DEF Typed, ProcessTypes, FileTypes, Turn
  <2>5. Moved(d)
    BY <1>g, <1>1, <2>4 DEF Moved
  <2>. QED
    BY <2>1, <2>2, <2>3, <2>5 DEF Typed
<1>. QED
  BY <1>g, <1>1 DEF P!Return, P!Closes, P!processVars, P!fileVars

LEMMA TunnelStartsDoes ==
    ASSUME Typed, RootsKnown, NEW d \in P!Daemon, P!TunnelStarts(d)
    PROVE  Typed' /\ Moved(d)
<1>g. at[d] \in {"up", "closing"} /\ root[d] = Root
  BY DEF RootsKnown, P!TunnelStarts, P!Alive, P!Closing
<1>1. CASE /\ opened' = [opened EXCEPT ![d] = FALSE]
            /\ held' = [held EXCEPT ![d] = held[d] \cup {"tunnel"}]
            /\ UNCHANGED <<at, kind, root, asked, lease, alias, sockets, rows, raced, killer, deaths>>
  <2>1. ProcessTypes'
    BY <1>1, <1>g DEF Typed, ProcessTypes, Stages, P!Piece
  <2>2. FileTypes'
    BY <1>1, <1>g DEF Typed, FileTypes
  <2>3. killer' \in Killer /\ deaths' \in 0 .. MaxCrashes
    BY <1>1, DaemonsAssumed DEF Typed, Forgot
  <2>4. Turn(d, at[d], held[d] \cup {"tunnel"}, lease[Root], alias[Root], sockets, rows, raced)
    BY <1>1, <1>g DEF Typed, ProcessTypes, FileTypes, Turn
  <2>5. Moved(d)
    BY <1>g, <1>1, <2>4 DEF Moved
  <2>. QED
    BY <2>1, <2>2, <2>3, <2>5 DEF Typed
<1>. QED
  BY <1>g, <1>1 DEF P!TunnelStarts, P!Closes, P!processVars, P!fileVars

LEMMA BootFailsDoes ==
    ASSUME Typed, RootsKnown, NEW d \in P!Daemon, P!BootFails(d)
    PROVE  Typed' /\ Moved(d)
<1>g. at[d] \in {"booting", "up"} /\ root[d] = Root
  BY DEF RootsKnown, P!BootFails, P!Alive, P!Closing
<1>1. CASE /\ at' = [at EXCEPT ![d] = "closing"]
            /\ asked' = [asked EXCEPT ![d] = None]
            /\ opened' = [opened EXCEPT ![d] = FALSE]
            /\ UNCHANGED <<kind, root, held, lease, alias, sockets, rows, raced, killer, deaths>>
  <2>1. ProcessTypes'
    BY <1>1, <1>g DEF Typed, ProcessTypes, Stages, P!Piece
  <2>2. FileTypes'
    BY <1>1, <1>g DEF Typed, FileTypes
  <2>3. killer' \in Killer /\ deaths' \in 0 .. MaxCrashes
    BY <1>1, DaemonsAssumed DEF Typed, Forgot
  <2>4. Turn(d, "closing", held[d], lease[Root], alias[Root], sockets, rows, raced)
    BY <1>1, <1>g DEF Typed, ProcessTypes, FileTypes, Turn
  <2>5. Moved(d)
    BY <1>g, <1>1, <2>4 DEF Moved
  <2>. QED
    BY <2>1, <2>2, <2>3, <2>5 DEF Typed
<1>. QED
  BY <1>g, <1>1 DEF P!BootFails, P!Closes, P!processVars, P!fileVars

LEMMA ControlFailsDoes ==
    ASSUME Typed, RootsKnown, NEW d \in P!Daemon, P!ControlFails(d)
    PROVE  Typed' /\ Moved(d)
<1>g. at[d] = "booting" /\ root[d] = Root
  BY DEF RootsKnown, P!ControlFails, P!Alive, P!Closing
<1>1. CASE /\ P!Gone(d, "dead")
            /\ sockets' = sockets \ {d}
            /\ alias' = [alias EXCEPT ![Root] = IF "alias" \in held[d] THEN None ELSE alias[Root]]
            /\ UNCHANGED <<root, lease, rows, raced, deaths>>
  <2>a. /\ at' \in [P!Daemon -> Stages] /\ kind' \in [P!Daemon -> {"http", "stdio"}]
        /\ held' \in [P!Daemon -> SUBSET P!Piece] /\ asked' \in [P!Daemon -> {None, "kill", "owner"}]
        /\ opened' \in [P!Daemon -> BOOLEAN] /\ at'[d] = "dead" /\ held'[d] = {} /\ asked'[d] = None
        /\ \A c \in P!Daemon \ {d} : at'[c] = at[c] /\ held'[c] = held[c] /\ asked'[c] = asked[c]
        /\ Forgot(d)
    BY <1>1, GoneTyped
  <2>1. ProcessTypes'
    BY <2>a, <1>1, <1>g DEF Typed, ProcessTypes, Stages, P!Piece
  <2>2. FileTypes'
    BY <2>a, <1>1, <1>g DEF Typed, FileTypes
  <2>3. killer' \in Killer /\ deaths' \in 0 .. MaxCrashes
    BY <2>a, <1>1, DaemonsAssumed DEF Typed, Forgot
  <2>4. Turn(d, "dead", {}, lease[Root], (IF "alias" \in held[d] THEN None ELSE alias[Root]), sockets \ {d}, rows, raced)
    BY <2>a, <1>1, <1>g DEF Typed, ProcessTypes, FileTypes, Turn
  <2>5. Moved(d)
    BY <1>g, <1>1, <2>4 DEF Moved
  <2>. QED
    BY <2>1, <2>2, <2>3, <2>5 DEF Typed
<1>. QED
  BY <1>g, <1>1 DEF P!ControlFails, P!Closes

LEMMA KeysFailDoes ==
    ASSUME Typed, RootsKnown, NEW d \in P!Daemon, P!KeysFail(d)
    PROVE  Typed' /\ Moved(d)
<1>g. P!Alive(d) /\ root[d] = Root
  BY DEF RootsKnown, P!KeysFail, P!Alive, P!Closing
<1>1. CASE /\ P!Gone(d, "dead")
            /\ UNCHANGED <<root, lease, alias, sockets, rows, raced, deaths>>
  <2>a. /\ at' \in [P!Daemon -> Stages] /\ kind' \in [P!Daemon -> {"http", "stdio"}]
        /\ held' \in [P!Daemon -> SUBSET P!Piece] /\ asked' \in [P!Daemon -> {None, "kill", "owner"}]
        /\ opened' \in [P!Daemon -> BOOLEAN] /\ at'[d] = "dead" /\ held'[d] = {} /\ asked'[d] = None
        /\ \A c \in P!Daemon \ {d} : at'[c] = at[c] /\ held'[c] = held[c] /\ asked'[c] = asked[c]
        /\ Forgot(d)
    BY <1>1, GoneTyped
  <2>1. ProcessTypes'
    BY <2>a, <1>1, <1>g DEF Typed, ProcessTypes, Stages, P!Piece
  <2>2. FileTypes'
    BY <2>a, <1>1, <1>g DEF Typed, FileTypes
  <2>3. killer' \in Killer /\ deaths' \in 0 .. MaxCrashes
    BY <2>a, <1>1, DaemonsAssumed DEF Typed, Forgot
  <2>4. Turn(d, "dead", {}, lease[Root], alias[Root], sockets, rows, raced)
    BY <2>a, <1>1, <1>g DEF Typed, ProcessTypes, FileTypes, Turn
  <2>5. Moved(d)
    BY <1>g, <1>1, <2>4 DEF Moved
  <2>. QED
    BY <2>1, <2>2, <2>3, <2>5 DEF Typed
<1>. QED
  BY <1>g, <1>1 DEF P!KeysFail, P!Closes, P!processVars, P!fileVars

LEMMA StopHeardDoes ==
    ASSUME Typed, RootsKnown, NEW d \in P!Daemon, P!StopHeard(d)
    PROVE  Typed' /\ Moved(d)
<1>g. at[d] \in {"booting", "up"} /\ root[d] = Root
  BY DEF RootsKnown, P!StopHeard, P!Alive, P!Closing
<1>1. CASE /\ at' = [at EXCEPT ![d] = "closing"]
            /\ asked' = [asked EXCEPT ![d] = None]
            /\ UNCHANGED <<kind, root, held, opened, lease, alias, sockets, rows, raced, killer, deaths>>
  <2>1. ProcessTypes'
    BY <1>1, <1>g DEF Typed, ProcessTypes, Stages, P!Piece
  <2>2. FileTypes'
    BY <1>1, <1>g DEF Typed, FileTypes
  <2>3. killer' \in Killer /\ deaths' \in 0 .. MaxCrashes
    BY <1>1, DaemonsAssumed DEF Typed, Forgot
  <2>4. Turn(d, "closing", held[d], lease[Root], alias[Root], sockets, rows, raced)
    BY <1>1, <1>g DEF Typed, ProcessTypes, FileTypes, Turn
  <2>5. Moved(d)
    BY <1>g, <1>1, <2>4 DEF Moved
  <2>. QED
    BY <2>1, <2>2, <2>3, <2>5 DEF Typed
<1>. QED
  BY <1>g, <1>1 DEF P!StopHeard, P!Closes, P!processVars, P!fileVars

LEMMA SignalDoes ==
    ASSUME Typed, RootsKnown, NEW d \in P!Daemon, P!Signal(d)
    PROVE  Typed' /\ Moved(d)
<1>g. at[d] \in {"booting", "up"} /\ root[d] = Root
  BY DEF RootsKnown, P!Signal, P!Alive, P!Closing
<1>1. CASE /\ at' = [at EXCEPT ![d] = "closing"]
            /\ asked' = [asked EXCEPT ![d] = None]
            /\ UNCHANGED <<kind, root, held, opened, lease, alias, sockets, rows, raced, killer, deaths>>
  <2>1. ProcessTypes'
    BY <1>1, <1>g DEF Typed, ProcessTypes, Stages, P!Piece
  <2>2. FileTypes'
    BY <1>1, <1>g DEF Typed, FileTypes
  <2>3. killer' \in Killer /\ deaths' \in 0 .. MaxCrashes
    BY <1>1, DaemonsAssumed DEF Typed, Forgot
  <2>4. Turn(d, "closing", held[d], lease[Root], alias[Root], sockets, rows, raced)
    BY <1>1, <1>g DEF Typed, ProcessTypes, FileTypes, Turn
  <2>5. Moved(d)
    BY <1>g, <1>1, <2>4 DEF Moved
  <2>. QED
    BY <2>1, <2>2, <2>3, <2>5 DEF Typed
<1>. QED
  BY <1>g, <1>1 DEF P!Signal, P!Closes, P!processVars, P!fileVars

LEMMA ReleaseDoes ==
    ASSUME Typed, RootsKnown, NEW d \in P!Daemon, P!Release(d)
    PROVE  Typed' /\ Moved(d)
<1>g. at[d] = "closing" /\ P!Closing(d) /\ root[d] = Root
  BY LastIs, ClosingIs DEF RootsKnown, P!Release, P!Alive, P!Closing
<1>1. CASE /\ held' = [held EXCEPT ![d] = held[d] \ {P!Last(d)}]
            /\ rows' = (IF P!Last(d) = "row" THEN rows \ {d} ELSE rows)
            /\ sockets' = (IF P!Last(d) = "socket" THEN sockets \ {d} ELSE sockets)
            /\ alias' = [x \in {Root} |-> IF P!Last(d) = "alias" /\ x = Root /\ alias[x] = d THEN None ELSE alias[x]]
            /\ lease' = [x \in {Root} |-> IF P!Last(d) = "lease" /\ x = Root /\ lease[x] = d THEN None ELSE lease[x]]
            /\ UNCHANGED <<at, kind, root, asked, opened, raced, killer, deaths>>
  <2>1. ProcessTypes'
    BY <1>1, <1>g DEF Typed, ProcessTypes, Stages, P!Piece
  <2>2. FileTypes'
    BY <1>1, <1>g DEF Typed, FileTypes
  <2>3. killer' \in Killer /\ deaths' \in 0 .. MaxCrashes
    BY <1>1, DaemonsAssumed DEF Typed, Forgot
  <2>4. Turn(d, "closing", held[d] \ {P!Last(d)}, (IF P!Last(d) = "lease" /\ lease[Root] = d THEN None ELSE lease[Root]), (IF P!Last(d) = "alias" /\ alias[Root] = d THEN None ELSE alias[Root]), (IF P!Last(d) = "socket" THEN sockets \ {d} ELSE sockets), (IF P!Last(d) = "row" THEN rows \ {d} ELSE rows), raced)
    BY <1>1, <1>g DEF Typed, ProcessTypes, FileTypes, Turn
  <2>5. Moved(d)
    BY <1>g, <1>1, <2>4 DEF Moved
  <2>. QED
    BY <2>1, <2>2, <2>3, <2>5 DEF Typed
<1>. QED
  BY <1>g, <1>1 DEF P!Release, P!Closes

LEMMA ExitDoes ==
    ASSUME Typed, RootsKnown, NEW d \in P!Daemon, P!Exit(d)
    PROVE  Typed' /\ Moved(d)
<1>g. at[d] = "closing" /\ ~ P!Closing(d) /\ root[d] = Root
  BY DEF RootsKnown, P!Exit, P!Alive, P!Closing
<1>1. CASE /\ P!Gone(d, "ended")
            /\ UNCHANGED <<root, lease, alias, sockets, rows, raced, deaths>>
  <2>a. /\ at' \in [P!Daemon -> Stages] /\ kind' \in [P!Daemon -> {"http", "stdio"}]
        /\ held' \in [P!Daemon -> SUBSET P!Piece] /\ asked' \in [P!Daemon -> {None, "kill", "owner"}]
        /\ opened' \in [P!Daemon -> BOOLEAN] /\ at'[d] = "ended" /\ held'[d] = {} /\ asked'[d] = None
        /\ \A c \in P!Daemon \ {d} : at'[c] = at[c] /\ held'[c] = held[c] /\ asked'[c] = asked[c]
        /\ Forgot(d)
    BY <1>1, GoneTyped
  <2>1. ProcessTypes'
    BY <2>a, <1>1, <1>g DEF Typed, ProcessTypes, Stages, P!Piece
  <2>2. FileTypes'
    BY <2>a, <1>1, <1>g DEF Typed, FileTypes
  <2>3. killer' \in Killer /\ deaths' \in 0 .. MaxCrashes
    BY <2>a, <1>1, DaemonsAssumed DEF Typed, Forgot
  <2>4. Turn(d, "ended", {}, lease[Root], alias[Root], sockets, rows, raced)
    BY <2>a, <1>1, <1>g DEF Typed, ProcessTypes, FileTypes, Turn
  <2>5. Moved(d)
    BY <1>g, <1>1, <2>4 DEF Moved
  <2>. QED
    BY <2>1, <2>2, <2>3, <2>5 DEF Typed
<1>. QED
  BY <1>g, <1>1 DEF P!Exit, P!Closes, P!processVars, P!fileVars

LEMMA DieDoes ==
    ASSUME Typed, RootsKnown, NEW d \in P!Daemon, P!Die(d)
    PROVE  Typed' /\ Moved(d)
<1>g. P!Alive(d) /\ root[d] = Root
  BY DEF RootsKnown, P!Die, P!Alive, P!Closing
<1>1. CASE /\ P!Gone(d, "dead")
            /\ deaths < MaxCrashes
            /\ deaths' = deaths + 1
            /\ UNCHANGED <<root, lease, alias, sockets, rows, raced>>
  <2>a. /\ at' \in [P!Daemon -> Stages] /\ kind' \in [P!Daemon -> {"http", "stdio"}]
        /\ held' \in [P!Daemon -> SUBSET P!Piece] /\ asked' \in [P!Daemon -> {None, "kill", "owner"}]
        /\ opened' \in [P!Daemon -> BOOLEAN] /\ at'[d] = "dead" /\ held'[d] = {} /\ asked'[d] = None
        /\ \A c \in P!Daemon \ {d} : at'[c] = at[c] /\ held'[c] = held[c] /\ asked'[c] = asked[c]
        /\ Forgot(d)
    BY <1>1, GoneTyped
  <2>1. ProcessTypes'
    BY <2>a, <1>1, <1>g DEF Typed, ProcessTypes, Stages, P!Piece
  <2>2. FileTypes'
    BY <2>a, <1>1, <1>g DEF Typed, FileTypes
  <2>3. killer' \in Killer /\ deaths' \in 0 .. MaxCrashes
    BY <2>a, <1>1, DaemonsAssumed DEF Typed, Forgot
  <2>4. Turn(d, "dead", {}, lease[Root], alias[Root], sockets, rows, raced)
    BY <2>a, <1>1, <1>g DEF Typed, ProcessTypes, FileTypes, Turn
  <2>5. Moved(d)
    BY <1>g, <1>1, <2>4 DEF Moved
  <2>. QED
    BY <2>1, <2>2, <2>3, <2>5 DEF Typed
<1>. QED
  BY <1>g, <1>1 DEF P!Die, P!Closes, P!processVars, P!fileVars

LEMMA RootsStep ==
    ASSUME Typed, Typed', RootsKnown, NEW d \in P!Daemon, HeldInOrder, Moved(d)
    PROVE  RootsKnown'
<1>0. \A c \in P!Daemon : c # None /\ held[c] \subseteq P!Piece
  BY DaemonsAssumed DEF Typed, ProcessTypes
<1>1. CASE at[d] = "none" /\ lease[Root] = None /\ Turn(d, "booting", {"lease"}, d, alias[Root], sockets, rows, raced)
  BY <1>0, <1>1 DEF Turn, RootsKnown
<1>2. CASE at[d] = "none" /\ Turn(d, "stale", held[d], lease[Root], alias[Root], sockets, rows, raced)
  BY <1>0, <1>2 DEF Turn, RootsKnown
<1>3. CASE at[d] = "none" /\ Turn(d, "ended", held[d], lease[Root], alias[Root], sockets, rows, raced)
  BY <1>0, <1>3 DEF Turn, RootsKnown
<1>4. CASE at[d] = "stale" /\ raced' = (raced \/ (lease[Root] # None /\ P!Alive(lease[Root]))) /\ Turn(d, "stale", {"unlinked"}, None, alias[Root], sockets, rows, raced')
  BY <1>0, <1>4 DEF Turn, RootsKnown
<1>5. CASE at[d] = "stale" /\ raced' = (raced \/ (lease[Root] # None /\ P!Alive(lease[Root]))) /\ Turn(d, "ended", {}, None, alias[Root], sockets, rows, raced')
  BY <1>0, <1>5 DEF Turn, RootsKnown
<1>6. CASE at[d] = "stale" /\ lease[Root] = None /\ Turn(d, "booting", {"lease"}, d, alias[Root], sockets, rows, raced)
  BY <1>0, <1>6 DEF Turn, RootsKnown
<1>7. CASE at[d] = "stale" /\ Turn(d, "stale", {"again"}, lease[Root], alias[Root], sockets, rows, raced)
  BY <1>0, <1>7 DEF Turn, RootsKnown
<1>8. CASE at[d] = "stale" /\ Turn(d, "ended", {}, lease[Root], alias[Root], sockets, rows, raced)
  BY <1>0, <1>8 DEF Turn, RootsKnown
<1>9. CASE at[d] = "booting" /\ P!Todo(d) \in {"lease", "port", "socket", "alias", "row"} /\ Turn(d, "booting", held[d] \cup {P!Todo(d)}, lease[Root], (IF P!Todo(d) = "alias" THEN d ELSE alias[Root]), (IF P!Todo(d) = "socket" THEN sockets \cup {d} ELSE sockets), (IF P!Todo(d) = "row" THEN rows \cup {d} ELSE rows), raced)
  BY <1>0, <1>9 DEF Turn, RootsKnown
<1>10. CASE at[d] = "booting" /\ {"lease", "socket", "alias", "row"} \subseteq held[d] /\ Turn(d, "up", held[d], lease[Root], alias[Root], sockets, rows, raced)
  BY <1>0, <1>10 DEF Turn, RootsKnown
<1>11. CASE at[d] \in {"up", "closing"} /\ Turn(d, at[d], held[d] \cup {"tunnel"}, lease[Root], alias[Root], sockets, rows, raced)
  BY <1>0, <1>11 DEF Turn, RootsKnown
<1>12. CASE at[d] \in {"booting", "up"} /\ Turn(d, "closing", held[d], lease[Root], alias[Root], sockets, rows, raced)
  BY <1>0, <1>12 DEF Turn, RootsKnown
<1>13. CASE at[d] = "booting" /\ Turn(d, "dead", {}, lease[Root], (IF "alias" \in held[d] THEN None ELSE alias[Root]), sockets \ {d}, rows, raced)
  BY <1>0, <1>13 DEF Turn, RootsKnown
<1>14. CASE P!Alive(d) /\ Turn(d, "dead", {}, lease[Root], alias[Root], sockets, rows, raced)
  BY <1>0, <1>14 DEF Turn, RootsKnown
<1>15. CASE at[d] = "closing" /\ P!Closing(d) /\ Turn(d, "closing", held[d] \ {P!Last(d)}, (IF P!Last(d) = "lease" /\ lease[Root] = d THEN None ELSE lease[Root]), (IF P!Last(d) = "alias" /\ alias[Root] = d THEN None ELSE alias[Root]), (IF P!Last(d) = "socket" THEN sockets \ {d} ELSE sockets), (IF P!Last(d) = "row" THEN rows \ {d} ELSE rows), raced)
  BY <1>0, <1>15 DEF Turn, RootsKnown
<1>16. CASE at[d] = "closing" /\ ~ P!Closing(d) /\ Turn(d, "ended", {}, lease[Root], alias[Root], sockets, rows, raced)
  BY <1>0, <1>16 DEF Turn, RootsKnown
<1>. QED
  BY <1>1, <1>2, <1>3, <1>4, <1>5, <1>6, <1>7, <1>8, <1>9, <1>10, <1>11, <1>12,
     <1>13, <1>14, <1>15, <1>16
  DEF Moved

LEMMA HeldStep ==
    ASSUME Typed, Typed', RootsKnown, NEW d \in P!Daemon, HeldInOrder, Moved(d)
    PROVE  HeldInOrder'
<1>0. \A c \in P!Daemon : c # None /\ held[c] \subseteq P!Piece
  BY DaemonsAssumed DEF Typed, ProcessTypes
<1>1. CASE at[d] = "none" /\ lease[Root] = None /\ Turn(d, "booting", {"lease"}, d, alias[Root], sockets, rows, raced)
  BY <1>0, <1>1, LastIs, ClosingIs DEF Turn, HeldInOrder, P!Alive
<1>2. CASE at[d] = "none" /\ Turn(d, "stale", held[d], lease[Root], alias[Root], sockets, rows, raced)
  BY <1>0, <1>2, LastIs, ClosingIs DEF Turn, HeldInOrder, P!Alive
<1>3. CASE at[d] = "none" /\ Turn(d, "ended", held[d], lease[Root], alias[Root], sockets, rows, raced)
  BY <1>0, <1>3, LastIs, ClosingIs DEF Turn, HeldInOrder, P!Alive
<1>4. CASE at[d] = "stale" /\ raced' = (raced \/ (lease[Root] # None /\ P!Alive(lease[Root]))) /\ Turn(d, "stale", {"unlinked"}, None, alias[Root], sockets, rows, raced')
  BY <1>0, <1>4, LastIs, ClosingIs DEF Turn, HeldInOrder, P!Alive
<1>5. CASE at[d] = "stale" /\ raced' = (raced \/ (lease[Root] # None /\ P!Alive(lease[Root]))) /\ Turn(d, "ended", {}, None, alias[Root], sockets, rows, raced')
  BY <1>0, <1>5, LastIs, ClosingIs DEF Turn, HeldInOrder, P!Alive
<1>6. CASE at[d] = "stale" /\ lease[Root] = None /\ Turn(d, "booting", {"lease"}, d, alias[Root], sockets, rows, raced)
  BY <1>0, <1>6, LastIs, ClosingIs DEF Turn, HeldInOrder, P!Alive
<1>7. CASE at[d] = "stale" /\ Turn(d, "stale", {"again"}, lease[Root], alias[Root], sockets, rows, raced)
  BY <1>0, <1>7, LastIs, ClosingIs DEF Turn, HeldInOrder, P!Alive
<1>8. CASE at[d] = "stale" /\ Turn(d, "ended", {}, lease[Root], alias[Root], sockets, rows, raced)
  BY <1>0, <1>8, LastIs, ClosingIs DEF Turn, HeldInOrder, P!Alive
<1>9. CASE at[d] = "booting" /\ P!Todo(d) \in {"lease", "port", "socket", "alias", "row"} /\ Turn(d, "booting", held[d] \cup {P!Todo(d)}, lease[Root], (IF P!Todo(d) = "alias" THEN d ELSE alias[Root]), (IF P!Todo(d) = "socket" THEN sockets \cup {d} ELSE sockets), (IF P!Todo(d) = "row" THEN rows \cup {d} ELSE rows), raced)
  BY <1>0, <1>9, LastIs, ClosingIs DEF Turn, HeldInOrder, P!Alive
<1>10. CASE at[d] = "booting" /\ {"lease", "socket", "alias", "row"} \subseteq held[d] /\ Turn(d, "up", held[d], lease[Root], alias[Root], sockets, rows, raced)
  BY <1>0, <1>10, LastIs, ClosingIs DEF Turn, HeldInOrder, P!Alive
<1>11. CASE at[d] \in {"up", "closing"} /\ Turn(d, at[d], held[d] \cup {"tunnel"}, lease[Root], alias[Root], sockets, rows, raced)
  BY <1>0, <1>11, LastIs, ClosingIs DEF Turn, HeldInOrder, P!Alive
<1>12. CASE at[d] \in {"booting", "up"} /\ Turn(d, "closing", held[d], lease[Root], alias[Root], sockets, rows, raced)
  BY <1>0, <1>12, LastIs, ClosingIs DEF Turn, HeldInOrder, P!Alive
<1>13. CASE at[d] = "booting" /\ Turn(d, "dead", {}, lease[Root], (IF "alias" \in held[d] THEN None ELSE alias[Root]), sockets \ {d}, rows, raced)
  BY <1>0, <1>13, LastIs, ClosingIs DEF Turn, HeldInOrder, P!Alive
<1>14. CASE P!Alive(d) /\ Turn(d, "dead", {}, lease[Root], alias[Root], sockets, rows, raced)
  BY <1>0, <1>14, LastIs, ClosingIs DEF Turn, HeldInOrder, P!Alive
<1>15. CASE at[d] = "closing" /\ P!Closing(d) /\ Turn(d, "closing", held[d] \ {P!Last(d)}, (IF P!Last(d) = "lease" /\ lease[Root] = d THEN None ELSE lease[Root]), (IF P!Last(d) = "alias" /\ alias[Root] = d THEN None ELSE alias[Root]), (IF P!Last(d) = "socket" THEN sockets \ {d} ELSE sockets), (IF P!Last(d) = "row" THEN rows \ {d} ELSE rows), raced)
  BY <1>0, <1>15, LastIs, ClosingIs DEF Turn, HeldInOrder, P!Alive
<1>16. CASE at[d] = "closing" /\ ~ P!Closing(d) /\ Turn(d, "ended", {}, lease[Root], alias[Root], sockets, rows, raced)
  BY <1>0, <1>16, LastIs, ClosingIs DEF Turn, HeldInOrder, P!Alive
<1>. QED
  BY <1>1, <1>2, <1>3, <1>4, <1>5, <1>6, <1>7, <1>8, <1>9, <1>10, <1>11, <1>12,
     <1>13, <1>14, <1>15, <1>16
  DEF Moved

LEMMA FilesStep ==
    ASSUME Typed, Typed', RootsKnown, NEW d \in P!Daemon, HeldInOrder, HeldInOrder', FilesOwned, Moved(d)
    PROVE  FilesOwned'
<1>0. \A c \in P!Daemon : c # None /\ held[c] \subseteq P!Piece
  BY DaemonsAssumed DEF Typed, ProcessTypes
<1>1. CASE at[d] = "none" /\ lease[Root] = None /\ Turn(d, "booting", {"lease"}, d, alias[Root], sockets, rows, raced)
  BY <1>0, <1>1, LastIs, ClosingIs
  DEF Turn, FilesOwned, HeldInOrder, P!Alive, Typed, FileTypes, ProcessTypes
<1>2. CASE at[d] = "none" /\ Turn(d, "stale", held[d], lease[Root], alias[Root], sockets, rows, raced)
  BY <1>0, <1>2, LastIs, ClosingIs
  DEF Turn, FilesOwned, HeldInOrder, P!Alive, Typed, FileTypes, ProcessTypes
<1>3. CASE at[d] = "none" /\ Turn(d, "ended", held[d], lease[Root], alias[Root], sockets, rows, raced)
  BY <1>0, <1>3, LastIs, ClosingIs
  DEF Turn, FilesOwned, HeldInOrder, P!Alive, Typed, FileTypes, ProcessTypes
<1>4. CASE at[d] = "stale" /\ raced' = (raced \/ (lease[Root] # None /\ P!Alive(lease[Root]))) /\ Turn(d, "stale", {"unlinked"}, None, alias[Root], sockets, rows, raced')
  BY <1>0, <1>4, LastIs, ClosingIs
  DEF Turn, FilesOwned, HeldInOrder, P!Alive, Typed, FileTypes, ProcessTypes
<1>5. CASE at[d] = "stale" /\ raced' = (raced \/ (lease[Root] # None /\ P!Alive(lease[Root]))) /\ Turn(d, "ended", {}, None, alias[Root], sockets, rows, raced')
  BY <1>0, <1>5, LastIs, ClosingIs
  DEF Turn, FilesOwned, HeldInOrder, P!Alive, Typed, FileTypes, ProcessTypes
<1>6. CASE at[d] = "stale" /\ lease[Root] = None /\ Turn(d, "booting", {"lease"}, d, alias[Root], sockets, rows, raced)
  BY <1>0, <1>6, LastIs, ClosingIs
  DEF Turn, FilesOwned, HeldInOrder, P!Alive, Typed, FileTypes, ProcessTypes
<1>7. CASE at[d] = "stale" /\ Turn(d, "stale", {"again"}, lease[Root], alias[Root], sockets, rows, raced)
  BY <1>0, <1>7, LastIs, ClosingIs
  DEF Turn, FilesOwned, HeldInOrder, P!Alive, Typed, FileTypes, ProcessTypes
<1>8. CASE at[d] = "stale" /\ Turn(d, "ended", {}, lease[Root], alias[Root], sockets, rows, raced)
  BY <1>0, <1>8, LastIs, ClosingIs
  DEF Turn, FilesOwned, HeldInOrder, P!Alive, Typed, FileTypes, ProcessTypes
<1>9. CASE at[d] = "booting" /\ P!Todo(d) \in {"lease", "port", "socket", "alias", "row"} /\ Turn(d, "booting", held[d] \cup {P!Todo(d)}, lease[Root], (IF P!Todo(d) = "alias" THEN d ELSE alias[Root]), (IF P!Todo(d) = "socket" THEN sockets \cup {d} ELSE sockets), (IF P!Todo(d) = "row" THEN rows \cup {d} ELSE rows), raced)
  BY <1>0, <1>9, LastIs, ClosingIs
  DEF Turn, FilesOwned, HeldInOrder, P!Alive, Typed, FileTypes, ProcessTypes
<1>10. CASE at[d] = "booting" /\ {"lease", "socket", "alias", "row"} \subseteq held[d] /\ Turn(d, "up", held[d], lease[Root], alias[Root], sockets, rows, raced)
  BY <1>0, <1>10, LastIs, ClosingIs
  DEF Turn, FilesOwned, HeldInOrder, P!Alive, Typed, FileTypes, ProcessTypes
<1>11. CASE at[d] \in {"up", "closing"} /\ Turn(d, at[d], held[d] \cup {"tunnel"}, lease[Root], alias[Root], sockets, rows, raced)
  BY <1>0, <1>11, LastIs, ClosingIs
  DEF Turn, FilesOwned, HeldInOrder, P!Alive, Typed, FileTypes, ProcessTypes
<1>12. CASE at[d] \in {"booting", "up"} /\ Turn(d, "closing", held[d], lease[Root], alias[Root], sockets, rows, raced)
  BY <1>0, <1>12, LastIs, ClosingIs
  DEF Turn, FilesOwned, HeldInOrder, P!Alive, Typed, FileTypes, ProcessTypes
<1>13. CASE at[d] = "booting" /\ Turn(d, "dead", {}, lease[Root], (IF "alias" \in held[d] THEN None ELSE alias[Root]), sockets \ {d}, rows, raced)
  BY <1>0, <1>13, LastIs, ClosingIs
  DEF Turn, FilesOwned, HeldInOrder, P!Alive, Typed, FileTypes, ProcessTypes
<1>14. CASE P!Alive(d) /\ Turn(d, "dead", {}, lease[Root], alias[Root], sockets, rows, raced)
  BY <1>0, <1>14, LastIs, ClosingIs
  DEF Turn, FilesOwned, HeldInOrder, P!Alive, Typed, FileTypes, ProcessTypes
<1>15. CASE at[d] = "closing" /\ P!Closing(d) /\ Turn(d, "closing", held[d] \ {P!Last(d)}, (IF P!Last(d) = "lease" /\ lease[Root] = d THEN None ELSE lease[Root]), (IF P!Last(d) = "alias" /\ alias[Root] = d THEN None ELSE alias[Root]), (IF P!Last(d) = "socket" THEN sockets \ {d} ELSE sockets), (IF P!Last(d) = "row" THEN rows \ {d} ELSE rows), raced)
  BY <1>0, <1>15, LastIs, ClosingIs
  DEF Turn, FilesOwned, HeldInOrder, P!Alive, Typed, FileTypes, ProcessTypes
<1>16. CASE at[d] = "closing" /\ ~ P!Closing(d) /\ Turn(d, "ended", {}, lease[Root], alias[Root], sockets, rows, raced)
  BY <1>0, <1>16, LastIs, ClosingIs
  DEF Turn, FilesOwned, HeldInOrder, P!Alive, Typed, FileTypes, ProcessTypes
<1>. QED
  BY <1>1, <1>2, <1>3, <1>4, <1>5, <1>6, <1>7, <1>8, <1>9, <1>10, <1>11, <1>12,
     <1>13, <1>14, <1>15, <1>16
  DEF Moved

LEMMA PathsStep ==
    ASSUME Typed, Typed', RootsKnown, NEW d \in P!Daemon, HeldInOrder, HeldInOrder', FilesOwned, PathsTheirOwn, Moved(d)
    PROVE  PathsTheirOwn'
<1>0. \A c \in P!Daemon : c # None /\ held[c] \subseteq P!Piece
  BY DaemonsAssumed DEF Typed, ProcessTypes
<1>1. CASE at[d] = "none" /\ lease[Root] = None /\ Turn(d, "booting", {"lease"}, d, alias[Root], sockets, rows, raced)
  BY <1>0, <1>1, LastIs, ClosingIs
  DEF Turn, PathsTheirOwn, HeldInOrder, RootsKnown, FilesOwned, P!Alive, Typed,
      FileTypes, ProcessTypes
<1>2. CASE at[d] = "none" /\ Turn(d, "stale", held[d], lease[Root], alias[Root], sockets, rows, raced)
  BY <1>0, <1>2, LastIs, ClosingIs
  DEF Turn, PathsTheirOwn, HeldInOrder, RootsKnown, FilesOwned, P!Alive, Typed,
      FileTypes, ProcessTypes
<1>3. CASE at[d] = "none" /\ Turn(d, "ended", held[d], lease[Root], alias[Root], sockets, rows, raced)
  BY <1>0, <1>3, LastIs, ClosingIs
  DEF Turn, PathsTheirOwn, HeldInOrder, RootsKnown, FilesOwned, P!Alive, Typed,
      FileTypes, ProcessTypes
<1>4. CASE at[d] = "stale" /\ raced' = (raced \/ (lease[Root] # None /\ P!Alive(lease[Root]))) /\ Turn(d, "stale", {"unlinked"}, None, alias[Root], sockets, rows, raced')
  <2>1. ~ raced' => ~ raced /\ (lease[Root] = None \/ ~ P!Alive(lease[Root]))
    BY <1>4 DEF Typed, FileTypes
  <2>2. ~ raced => \A c \in P!Daemon : "lease" \in held[c] => lease[Root] = c /\ P!Alive(c)
    BY <1>0
    DEF PathsTheirOwn, RootsKnown, HeldInOrder, Typed, ProcessTypes, Stages, P!Alive
  <2>3. ~ raced' => \A c \in P!Daemon : "lease" \notin held[c]
    BY <1>0, <2>1, <2>2
  <2>4. ~ raced' => \A c \in P!Daemon : "alias" \notin held[c]
    BY <2>3 DEF HeldInOrder
  <2>5. \A c \in P!Daemon : held'[c] = held[c] \/ held'[c] \in {{}, {"unlinked"}}
    BY <1>4 DEF Turn
  <2>. QED
    BY <2>3, <2>4, <2>5 DEF PathsTheirOwn
<1>5. CASE at[d] = "stale" /\ raced' = (raced \/ (lease[Root] # None /\ P!Alive(lease[Root]))) /\ Turn(d, "ended", {}, None, alias[Root], sockets, rows, raced')
  <2>1. ~ raced' => ~ raced /\ (lease[Root] = None \/ ~ P!Alive(lease[Root]))
    BY <1>5 DEF Typed, FileTypes
  <2>2. ~ raced => \A c \in P!Daemon : "lease" \in held[c] => lease[Root] = c /\ P!Alive(c)
    BY <1>0
    DEF PathsTheirOwn, RootsKnown, HeldInOrder, Typed, ProcessTypes, Stages, P!Alive
  <2>3. ~ raced' => \A c \in P!Daemon : "lease" \notin held[c]
    BY <1>0, <2>1, <2>2
  <2>4. ~ raced' => \A c \in P!Daemon : "alias" \notin held[c]
    BY <2>3 DEF HeldInOrder
  <2>5. \A c \in P!Daemon : held'[c] = held[c] \/ held'[c] \in {{}, {"unlinked"}}
    BY <1>5 DEF Turn
  <2>. QED
    BY <2>3, <2>4, <2>5 DEF PathsTheirOwn
<1>6. CASE at[d] = "stale" /\ lease[Root] = None /\ Turn(d, "booting", {"lease"}, d, alias[Root], sockets, rows, raced)
  BY <1>0, <1>6, LastIs, ClosingIs
  DEF Turn, PathsTheirOwn, HeldInOrder, RootsKnown, FilesOwned, P!Alive, Typed,
      FileTypes, ProcessTypes
<1>7. CASE at[d] = "stale" /\ Turn(d, "stale", {"again"}, lease[Root], alias[Root], sockets, rows, raced)
  BY <1>0, <1>7, LastIs, ClosingIs
  DEF Turn, PathsTheirOwn, HeldInOrder, RootsKnown, FilesOwned, P!Alive, Typed,
      FileTypes, ProcessTypes
<1>8. CASE at[d] = "stale" /\ Turn(d, "ended", {}, lease[Root], alias[Root], sockets, rows, raced)
  BY <1>0, <1>8, LastIs, ClosingIs
  DEF Turn, PathsTheirOwn, HeldInOrder, RootsKnown, FilesOwned, P!Alive, Typed,
      FileTypes, ProcessTypes
<1>9. CASE at[d] = "booting" /\ P!Todo(d) \in {"lease", "port", "socket", "alias", "row"} /\ Turn(d, "booting", held[d] \cup {P!Todo(d)}, lease[Root], (IF P!Todo(d) = "alias" THEN d ELSE alias[Root]), (IF P!Todo(d) = "socket" THEN sockets \cup {d} ELSE sockets), (IF P!Todo(d) = "row" THEN rows \cup {d} ELSE rows), raced)
  BY <1>0, <1>9, LastIs, ClosingIs
  DEF Turn, PathsTheirOwn, HeldInOrder, RootsKnown, FilesOwned, P!Alive, Typed,
      FileTypes, ProcessTypes
<1>10. CASE at[d] = "booting" /\ {"lease", "socket", "alias", "row"} \subseteq held[d] /\ Turn(d, "up", held[d], lease[Root], alias[Root], sockets, rows, raced)
  BY <1>0, <1>10, LastIs, ClosingIs
  DEF Turn, PathsTheirOwn, HeldInOrder, RootsKnown, FilesOwned, P!Alive, Typed,
      FileTypes, ProcessTypes
<1>11. CASE at[d] \in {"up", "closing"} /\ Turn(d, at[d], held[d] \cup {"tunnel"}, lease[Root], alias[Root], sockets, rows, raced)
  BY <1>0, <1>11, LastIs, ClosingIs
  DEF Turn, PathsTheirOwn, HeldInOrder, RootsKnown, FilesOwned, P!Alive, Typed,
      FileTypes, ProcessTypes
<1>12. CASE at[d] \in {"booting", "up"} /\ Turn(d, "closing", held[d], lease[Root], alias[Root], sockets, rows, raced)
  BY <1>0, <1>12, LastIs, ClosingIs
  DEF Turn, PathsTheirOwn, HeldInOrder, RootsKnown, FilesOwned, P!Alive, Typed,
      FileTypes, ProcessTypes
<1>13. CASE at[d] = "booting" /\ Turn(d, "dead", {}, lease[Root], (IF "alias" \in held[d] THEN None ELSE alias[Root]), sockets \ {d}, rows, raced)
  BY <1>0, <1>13, LastIs, ClosingIs
  DEF Turn, PathsTheirOwn, HeldInOrder, RootsKnown, FilesOwned, P!Alive, Typed,
      FileTypes, ProcessTypes
<1>14. CASE P!Alive(d) /\ Turn(d, "dead", {}, lease[Root], alias[Root], sockets, rows, raced)
  BY <1>0, <1>14, LastIs, ClosingIs
  DEF Turn, PathsTheirOwn, HeldInOrder, RootsKnown, FilesOwned, P!Alive, Typed,
      FileTypes, ProcessTypes
<1>15. CASE at[d] = "closing" /\ P!Closing(d) /\ Turn(d, "closing", held[d] \ {P!Last(d)}, (IF P!Last(d) = "lease" /\ lease[Root] = d THEN None ELSE lease[Root]), (IF P!Last(d) = "alias" /\ alias[Root] = d THEN None ELSE alias[Root]), (IF P!Last(d) = "socket" THEN sockets \ {d} ELSE sockets), (IF P!Last(d) = "row" THEN rows \ {d} ELSE rows), raced)
  BY <1>0, <1>15, LastIs, ClosingIs
  DEF Turn, PathsTheirOwn, HeldInOrder, RootsKnown, FilesOwned, P!Alive, Typed,
      FileTypes, ProcessTypes
<1>16. CASE at[d] = "closing" /\ ~ P!Closing(d) /\ Turn(d, "ended", {}, lease[Root], alias[Root], sockets, rows, raced)
  BY <1>0, <1>16, LastIs, ClosingIs
  DEF Turn, PathsTheirOwn, HeldInOrder, RootsKnown, FilesOwned, P!Alive, Typed,
      FileTypes, ProcessTypes
<1>. QED
  BY <1>1, <1>2, <1>3, <1>4, <1>5, <1>6, <1>7, <1>8, <1>9, <1>10, <1>11, <1>12,
     <1>13, <1>14, <1>15, <1>16
  DEF Moved

\* Of another process nothing changes, and kill knows of it what it knew.
LEMMA OthersSame ==
    ASSUME Typed, NEW d \in P!Daemon, Moved(d)
    PROVE  /\ \A c \in P!Daemon \ {d} : /\ at'[c] = at[c] /\ held'[c] = held[c]
                                       /\ root'[c] = root[c] /\ asked'[c] = asked[c]
                                       /\ (c \in killer'.seen <=> c \in killer.seen)
                                       /\ (c \in killer'.report <=> c \in killer.report)
           /\ asked'[d] \in {asked[d], None} /\ root'[d] = Root
           /\ killer'.live = killer.live /\ killer'.now = killer.now /\ killer'.stage = killer.stage
           /\ \/ killer' = killer /\ (at'[d] \notin {"ended", "dead"} \/ at[d] = "none")
              \/ at'[d] \in {"ended", "dead"} /\ asked'[d] = None /\ d \notin killer'.report
           /\ killer.report \subseteq P!Daemon
           /\ ~ raced' => ~ raced
<1>1. ASSUME NEW a, NEW h, NEW lr, NEW ar, NEW so, NEW ro, NEW ra, Turn(d, a, h, lr, ar, so, ro, ra)
      PROVE  /\ \A c \in P!Daemon \ {d} : /\ at'[c] = at[c] /\ held'[c] = held[c]
                                         /\ root'[c] = root[c] /\ asked'[c] = asked[c]
                                         /\ (c \in killer'.seen <=> c \in killer.seen)
                                         /\ (c \in killer'.report <=> c \in killer.report)
             /\ asked'[d] \in {asked[d], None} /\ root'[d] = Root
             /\ killer'.live = killer.live /\ killer'.now = killer.now /\ killer'.stage = killer.stage
             /\ \/ killer' = killer /\ (at'[d] \notin {"ended", "dead"} \/ at[d] = "none")
                \/ at'[d] \in {"ended", "dead"} /\ asked'[d] = None /\ d \notin killer'.report
             /\ killer.report \subseteq P!Daemon /\ raced' = ra
  <2>1. /\ \A c \in P!Daemon \ {d} : /\ at'[c] = at[c] /\ held'[c] = held[c]
                                    /\ root'[c] = root[c] /\ asked'[c] = asked[c]
        /\ asked'[d] \in {asked[d], None} /\ root'[d] = Root /\ raced' = ra /\ at'[d] = a
        /\ \/ killer' = killer /\ (a \notin {"ended", "dead"} \/ at[d] = "none")
           \/ a \in {"ended", "dead"} /\ asked'[d] = None /\ Forgot(d)
    BY <1>1 DEF Turn
  <2>2. killer.report \subseteq P!Daemon
    BY DEF Typed, Killer
  <2>3. CASE killer' = killer /\ (a \notin {"ended", "dead"} \/ at[d] = "none")
    BY <2>1, <2>2, <2>3
  <2>4. CASE a \in {"ended", "dead"} /\ asked'[d] = None /\ Forgot(d)
    BY <2>1, <2>2, <2>4 DEF Forgot
  <2>. QED
    BY <2>1, <2>3, <2>4
<1>2. \E a, h, lr, ar, so, ro : \/ Turn(d, a, h, lr, ar, so, ro, raced)
                                \/ /\ raced' = (raced \/ (lease[Root] # None /\ P!Alive(lease[Root])))
                                   /\ Turn(d, a, h, lr, ar, so, ro, raced')
  BY DEF Moved
<1>3. raced \in BOOLEAN
  BY DEF Typed, FileTypes
<1>. QED
  BY <1>1, <1>2, <1>3

\* It stays known, and what it has open it gives back after its port only.
Onward(d) ==
    /\ at'[d] \notin {"none", "stale"}
    /\ at'[d] \in {"booting", "up", "closing"} => at[d] \in {"booting", "up", "closing"}
    /\ at[d] = "closing" => at'[d] \in {"closing", "ended", "dead"}
    /\ at'[d] \in {"booting", "up", "closing"} =>
          \A x \in {"alias", "socket"} : x \in held[d] =>
              x \in held'[d] \/ (at'[d] = "closing" /\ "port" \notin held'[d])
    /\ at[d] = "closing" /\ "port" \notin held[d] /\ at'[d] \in {"booting", "up", "closing"} =>
          at'[d] = "closing" /\ "port" \notin held'[d]

\* How far a process is once it is known to kill.
LEMMA GoesOn ==
    ASSUME Typed, Typed', RootsKnown, NEW d \in P!Daemon, HeldInOrder, at[d] \notin {"none", "stale"}, Moved(d)
    PROVE  Onward(d)
<1>0. \A c \in P!Daemon : c # None /\ held[c] \subseteq P!Piece
  BY DaemonsAssumed DEF Typed, ProcessTypes
<1>1. CASE at[d] = "none" /\ lease[Root] = None /\ Turn(d, "booting", {"lease"}, d, alias[Root], sockets, rows, raced)
  BY <1>0, <1>1, LastIs, ClosingIs DEF Turn, Onward
<1>2. CASE at[d] = "none" /\ Turn(d, "stale", held[d], lease[Root], alias[Root], sockets, rows, raced)
  BY <1>0, <1>2, LastIs, ClosingIs DEF Turn, Onward
<1>3. CASE at[d] = "none" /\ Turn(d, "ended", held[d], lease[Root], alias[Root], sockets, rows, raced)
  BY <1>0, <1>3, LastIs, ClosingIs DEF Turn, Onward
<1>4. CASE at[d] = "stale" /\ raced' = (raced \/ (lease[Root] # None /\ P!Alive(lease[Root]))) /\ Turn(d, "stale", {"unlinked"}, None, alias[Root], sockets, rows, raced')
  BY <1>0, <1>4, LastIs, ClosingIs DEF Turn, Onward
<1>5. CASE at[d] = "stale" /\ raced' = (raced \/ (lease[Root] # None /\ P!Alive(lease[Root]))) /\ Turn(d, "ended", {}, None, alias[Root], sockets, rows, raced')
  BY <1>0, <1>5, LastIs, ClosingIs DEF Turn, Onward
<1>6. CASE at[d] = "stale" /\ lease[Root] = None /\ Turn(d, "booting", {"lease"}, d, alias[Root], sockets, rows, raced)
  BY <1>0, <1>6, LastIs, ClosingIs DEF Turn, Onward
<1>7. CASE at[d] = "stale" /\ Turn(d, "stale", {"again"}, lease[Root], alias[Root], sockets, rows, raced)
  BY <1>0, <1>7, LastIs, ClosingIs DEF Turn, Onward
<1>8. CASE at[d] = "stale" /\ Turn(d, "ended", {}, lease[Root], alias[Root], sockets, rows, raced)
  BY <1>0, <1>8, LastIs, ClosingIs DEF Turn, Onward
<1>9. CASE at[d] = "booting" /\ P!Todo(d) \in {"lease", "port", "socket", "alias", "row"} /\ Turn(d, "booting", held[d] \cup {P!Todo(d)}, lease[Root], (IF P!Todo(d) = "alias" THEN d ELSE alias[Root]), (IF P!Todo(d) = "socket" THEN sockets \cup {d} ELSE sockets), (IF P!Todo(d) = "row" THEN rows \cup {d} ELSE rows), raced)
  BY <1>0, <1>9, LastIs, ClosingIs DEF Turn, Onward
<1>10. CASE at[d] = "booting" /\ {"lease", "socket", "alias", "row"} \subseteq held[d] /\ Turn(d, "up", held[d], lease[Root], alias[Root], sockets, rows, raced)
  BY <1>0, <1>10, LastIs, ClosingIs DEF Turn, Onward
<1>11. CASE at[d] \in {"up", "closing"} /\ Turn(d, at[d], held[d] \cup {"tunnel"}, lease[Root], alias[Root], sockets, rows, raced)
  BY <1>0, <1>11, LastIs, ClosingIs DEF Turn, Onward
<1>12. CASE at[d] \in {"booting", "up"} /\ Turn(d, "closing", held[d], lease[Root], alias[Root], sockets, rows, raced)
  BY <1>0, <1>12, LastIs, ClosingIs DEF Turn, Onward
<1>13. CASE at[d] = "booting" /\ Turn(d, "dead", {}, lease[Root], (IF "alias" \in held[d] THEN None ELSE alias[Root]), sockets \ {d}, rows, raced)
  BY <1>0, <1>13, LastIs, ClosingIs DEF Turn, Onward
<1>14. CASE P!Alive(d) /\ Turn(d, "dead", {}, lease[Root], alias[Root], sockets, rows, raced)
  BY <1>0, <1>14, LastIs, ClosingIs DEF Turn, Onward
<1>15. CASE at[d] = "closing" /\ P!Closing(d) /\ Turn(d, "closing", held[d] \ {P!Last(d)}, (IF P!Last(d) = "lease" /\ lease[Root] = d THEN None ELSE lease[Root]), (IF P!Last(d) = "alias" /\ alias[Root] = d THEN None ELSE alias[Root]), (IF P!Last(d) = "socket" THEN sockets \ {d} ELSE sockets), (IF P!Last(d) = "row" THEN rows \ {d} ELSE rows), raced)
  BY <1>0, <1>15, LastIs, ClosingIs DEF Turn, Onward
<1>16. CASE at[d] = "closing" /\ ~ P!Closing(d) /\ Turn(d, "ended", {}, lease[Root], alias[Root], sockets, rows, raced)
  BY <1>0, <1>16, LastIs, ClosingIs DEF Turn, Onward
<1>. QED
  BY <1>1, <1>2, <1>3, <1>4, <1>5, <1>6, <1>7, <1>8, <1>9, <1>10, <1>11, <1>12,
     <1>13, <1>14, <1>15, <1>16
  DEF Moved

LEMMA KillerStep ==
    ASSUME Typed, Typed', RootsKnown, HeldInOrder, KillerKnows, NEW d \in P!Daemon, Moved(d)
    PROVE  KillerKnows'
<1>1. at[d] \notin {"none", "stale"} => Onward(d)
  BY GoesOn
<1>2. ASSUME NEW c \in P!Daemon, killer'.live[c] # None
      PROVE  /\ killer'.live[c] \in {<<root'[c], "alias">>, <<c, "socket">>}
             /\ at'[c] \notin {"none", "stale"}
             /\ at'[c] \in {"stale", "booting", "up", "closing"} =>
                  /\ c \in killer'.seen
                  /\ killer'.live[c][2] \in held'[c] \/ (at'[c] = "closing" /\ "port" \notin held'[c])
  <2>1. /\ killer'.live[c] = killer.live[c] /\ killer.live[c] \in {<<root[c], "alias">>, <<c, "socket">>}
        /\ at[c] \notin {"none", "stale"}
        /\ at[c] \in {"stale", "booting", "up", "closing"} =>
             /\ c \in killer.seen
             /\ killer.live[c][2] \in held[c] \/ (at[c] = "closing" /\ "port" \notin held[c])
    BY <1>2, OthersSame DEF KillerKnows, P!Alive
  <2>2. CASE c # d
    BY <2>1, <2>2, OthersSame
  <2>3. CASE c = d
    <3>1. Onward(d) /\ root[d] = Root /\ root'[d] = Root
      BY <1>1, <2>1, <2>3, OthersSame DEF RootsKnown
    <3>2. killer.live[d][2] \in {"alias", "socket"}
      BY <2>1, <2>3
    <3>3. at'[d] \in {"booting", "up", "closing"} => at[d] \in {"booting", "up", "closing"} /\ killer' = killer
      BY <2>1, <2>3, <3>1, OthersSame DEF Onward
    <3>. QED
      BY <2>1, <2>3, <3>1, <3>2, <3>3 DEF Onward
  <2>. QED
    BY <2>2, <2>3
<1>3. killer'.stage \in {"checked", "waiting"} => killer'.now # None /\ killer'.live[killer'.now] # None
  BY OthersSame DEF KillerKnows
<1>4. ASSUME ~ raced', NEW c \in killer'.report
      PROVE  at'[c] = "closing" /\ "port" \notin held'[c]
  <2>1. c \in P!Daemon
    BY DEF Typed, Killer
  <2>2. c \in killer.report /\ at[c] = "closing" /\ "port" \notin held[c] /\ (c # d \/ killer' = killer)
    BY <1>4, <2>1, OthersSame DEF KillerKnows
  <2>3. CASE c # d
    BY <2>1, <2>2, <2>3, OthersSame
  <2>4. CASE c = d
    BY <1>1, <2>2, <2>4, OthersSame DEF Onward
  <2>. QED
    BY <2>3, <2>4
<1>. QED
  BY <1>2, <1>3, <1>4 DEF KillerKnows, P!Alive

LEMMA AskedStep ==
    ASSUME Typed, P!KillsIdentified, NEW d \in P!Daemon, Moved(d)
    PROVE  P!KillsIdentified'
<1>1. ASSUME NEW c \in P!Daemon, asked'[c] = "kill" PROVE c \in killer'.seen
  <2>1. asked[c] = "kill"
    BY <1>1, OthersSame, DaemonsAssumed
  <2>. QED
    BY <1>1, <2>1, OthersSame, DaemonsAssumed DEF P!KillsIdentified
<1>. QED
  BY <1>1 DEF P!KillsIdentified

-----------------------------------------------------------------------------
(* What the owner's steps do.                                              *)

\* No process moves and no file changes.
Still == UNCHANGED <<at, kind, root, held, opened, lease, alias, sockets, rows, raced, deaths>>

LEMMA StillTyped ==
    ASSUME Typed, Still, killer' \in Killer, asked' \in [P!Daemon -> {None, "kill", "owner"}]
    PROVE  Typed'
<1>1. ProcessTypes'
  BY DEF Still, Typed, ProcessTypes
<1>2. FileTypes' /\ deaths' \in 0 .. MaxCrashes
  BY DEF Still, Typed, FileTypes
<1>. QED
  BY <1>1, <1>2 DEF Typed

LEMMA StillHolds ==
    ASSUME RootsKnown, HeldInOrder, FilesOwned, PathsTheirOwn, Still
    PROVE  RootsKnown' /\ HeldInOrder' /\ FilesOwned' /\ PathsTheirOwn'
<1>1. RootsKnown' /\ HeldInOrder'
  BY DEF Still, RootsKnown, HeldInOrder
<1>2. FilesOwned'
  BY DEF Still, FilesOwned
<1>3. PathsTheirOwn'
  BY DEF Still, PathsTheirOwn
<1>. QED
  BY <1>1, <1>2, <1>3

\* Whoever is asked to stop is there.
LEMMA AskedIs ==
    ASSUME Typed, NEW d \in P!Daemon, NEW by \in {"kill", "owner"}, P!Asked(d, by)
    PROVE  /\ asked' \in [P!Daemon -> {None, "kill", "owner"}]
           /\ \A c \in P!Daemon : asked'[c] = asked[c] \/ (c = d /\ asked'[c] = by)
BY DEF P!Asked, Typed, ProcessTypes

\* What kill knows after a step of its own; those it reports it has seen closing.
Knows(st, known, d, seen, report) ==
    /\ killer' \in Killer /\ killer'.stage = st /\ killer'.live = known /\ killer'.now = d
    /\ killer'.seen = seen /\ killer'.report = report

LEMMA KnownIs ==
    ASSUME Typed, NEW st \in {"idle", "probing", "next", "checked", "waiting"},
           NEW todo \in SUBSET P!Candidate, NEW known \in [P!Daemon -> P!Candidate \cup {None}],
           NEW d \in P!Daemon \cup {None}, NEW seen \in SUBSET P!Daemon, NEW report \in SUBSET P!Daemon,
           killer' = P!Knowing(st, todo, known, d, seen, report)
    PROVE  Knows(st, known, d, seen, report)
BY KnowingIs DEF Knows

LEMMA KillerParts ==
    ASSUME Typed
    PROVE  /\ killer.stage \in {"idle", "probing", "next", "checked", "waiting"}
           /\ killer.todo \in SUBSET P!Candidate /\ killer.live \in [P!Daemon -> P!Candidate \cup {None}]
           /\ killer.now \in P!Daemon \cup {None} /\ killer.seen \in SUBSET P!Daemon
           /\ killer.report \in SUBSET P!Daemon
BY DEF Typed, Killer

\* On to the next one.
LEMMA DoneIs ==
    ASSUME Typed, NEW d \in P!Daemon, NEW report \in SUBSET P!Daemon, P!Done(d, report)
    PROVE  /\ Knows("next", [killer.live EXCEPT ![d] = None], None, killer.seen, report)
           /\ \A c \in P!Daemon : killer'.live[c] = killer.live[c] \/ killer'.live[c] = None
<1>1. [killer.live EXCEPT ![d] = None] \in [P!Daemon -> P!Candidate \cup {None}]
      /\ \A c \in P!Daemon : [killer.live EXCEPT ![d] = None][c] = killer.live[c]
                             \/ [killer.live EXCEPT ![d] = None][c] = None
  BY KillerParts
<1>2. killer' = P!Knowing("next", killer.todo, [killer.live EXCEPT ![d] = None], None, killer.seen, report)
  BY DEF P!Done
<1>3. Knows("next", [killer.live EXCEPT ![d] = None], None, killer.seen, report)
  BY <1>1, <1>2, KillerParts, KnownIs
<1>. QED
  BY <1>1, <1>3 DEF Knows

\* A step that learns of nobody new.
LEMMA NothingNew ==
    ASSUME Typed, KillerKnows, Still, NEW st, NEW known, NEW d, NEW report,
           Knows(st, known, d, killer.seen, report),
           \A c \in P!Daemon : known[c] = killer.live[c] \/ known[c] = None,
           st \in {"checked", "waiting"} => d # None /\ known[d] # None,
           ~ raced => \A c \in report \ killer.report : at[c] = "closing" /\ "port" \notin held[c]
    PROVE  KillerKnows'
<1>1. ASSUME NEW c \in P!Daemon, killer'.live[c] # None
      PROVE  /\ killer'.live[c] \in {<<root'[c], "alias">>, <<c, "socket">>}
             /\ at'[c] \notin {"none", "stale"}
             /\ at'[c] \in {"stale", "booting", "up", "closing"} =>
                  /\ c \in killer'.seen
                  /\ killer'.live[c][2] \in held'[c] \/ (at'[c] = "closing" /\ "port" \notin held'[c])
  BY <1>1 DEF Knows, Still, KillerKnows, P!Alive
<1>2. killer'.stage \in {"checked", "waiting"} => killer'.now # None /\ killer'.live[killer'.now] # None
  BY DEF Knows
<1>3. ASSUME ~ raced', NEW c \in killer'.report
      PROVE  at'[c] = "closing" /\ "port" \notin held'[c]
  BY <1>3 DEF Knows, Still, KillerKnows
<1>. QED
  BY <1>1, <1>2, <1>3 DEF KillerKnows, P!Alive

LEMMA QuietKill ==
    ASSUME DaemonsHold, Still, UNCHANGED asked, NEW st, NEW known, NEW d, NEW report,
           Knows(st, known, d, killer.seen, report),
           \A c \in P!Daemon : known[c] = killer.live[c] \/ known[c] = None,
           st \in {"checked", "waiting"} => d # None /\ known[d] # None,
           ~ raced => \A c \in report \ killer.report : at[c] = "closing" /\ "port" \notin held[c]
    PROVE  DaemonsHold'
<1>1. Typed'
  BY StillTyped DEF DaemonsHold, Knows, Typed, ProcessTypes
<1>2. KillerKnows'
  BY NothingNew DEF DaemonsHold
<1>3. P!KillsIdentified'
  BY DEF DaemonsHold, P!KillsIdentified, Knows
<1>. QED
  BY <1>1, <1>2, <1>3, StillHolds DEF DaemonsHold

LEMMA KillReadsDoes == ASSUME DaemonsHold, P!KillReads PROVE DaemonsHold'
<1>1. /\ Still /\ UNCHANGED asked
      /\ killer' = P!Knowing("probing", ({Root} \X {"alias"}) \cup (rows \X {"socket"}), killer.live,
                             killer.now, killer.seen, killer.report)
  BY DEF P!KillReads, P!processVars, P!fileVars, Still
<1>2. ({Root} \X {"alias"}) \cup (rows \X {"socket"}) \in SUBSET P!Candidate
  BY DEF DaemonsHold, Typed, FileTypes, P!Candidate
<1>3. Knows("probing", killer.live, killer.now, killer.seen, killer.report)
  BY <1>1, <1>2, KillerParts, KnownIs DEF DaemonsHold
<1>. QED
  BY <1>1, <1>3, QuietKill

LEMMA KillErrsDoes == ASSUME DaemonsHold, NEW c \in P!Candidate, P!KillErrs(c)
      PROVE  DaemonsHold'
<1>1. /\ Still /\ UNCHANGED asked
      /\ killer' = P!Knowing("probing", killer.todo \ {c}, killer.live, killer.now, killer.seen, killer.report)
  BY DEF P!KillErrs, P!processVars, P!fileVars, Still
<1>2. Knows("probing", killer.live, killer.now, killer.seen, killer.report)
  BY <1>1, KillerParts, KnownIs DEF DaemonsHold
<1>. QED
  BY <1>1, <1>2, QuietKill

LEMMA KillPicksDoes == ASSUME DaemonsHold, NEW d \in P!Daemon, P!KillPicks(d)
      PROVE  DaemonsHold'
<1>1. /\ Still /\ UNCHANGED asked /\ killer.live[d] # None
      /\ \/ killer' = P!Knowing("checked", killer.todo, killer.live, d, killer.seen, killer.report)
         \/ P!Done(d, killer.report)
  BY DEF P!KillPicks, P!processVars, P!fileVars, Still
<1>2. CASE killer' = P!Knowing("checked", killer.todo, killer.live, d, killer.seen, killer.report)
  <2>1. Knows("checked", killer.live, d, killer.seen, killer.report)
    BY <1>2, KillerParts, KnownIs DEF DaemonsHold
  <2>. QED
    BY <1>1, <2>1, QuietKill, DaemonsAssumed
<1>3. CASE P!Done(d, killer.report)
  <2>1. /\ Knows("next", [killer.live EXCEPT ![d] = None], None, killer.seen, killer.report)
        /\ \A c \in P!Daemon : [killer.live EXCEPT ![d] = None][c] = killer.live[c]
                               \/ [killer.live EXCEPT ![d] = None][c] = None
    BY <1>3, KillerParts, DoneIs DEF DaemonsHold
  <2>. QED
    BY <1>1, <2>1, QuietKill
<1>. QED
  BY <1>1, <1>2, <1>3

\* The one that kill deals with.
LEMMA NowIs ==
    ASSUME DaemonsHold, killer.stage \in {"checked", "waiting"}
    PROVE  killer.now \in P!Daemon /\ killer.live[killer.now] # None
BY KillerParts DEF DaemonsHold, KillerKnows

LEMMA KillSeesDoes == ASSUME DaemonsHold, P!KillSees \/ P!KillTires PROVE DaemonsHold'
<1>. DEFINE d == killer.now
            late == {x \in {d} : P!Alive(x)}
            known == [killer.live EXCEPT ![d] = None]
<1>1. /\ Still /\ UNCHANGED asked /\ killer.stage = "waiting"
      /\ \/ P!Bound(killer.live[d]) # d /\ P!Done(d, killer.report \cup late)
         \/ P!Done(d, killer.report)
  BY DEF P!KillSees, P!KillTires, P!processVars, P!fileVars, Still
<1>2. d \in P!Daemon /\ killer.live[d] # None
  BY <1>1, NowIs
<1>3. \A c \in P!Daemon : known[c] = killer.live[c] \/ known[c] = None
  BY <1>2, KillerParts DEF DaemonsHold
<1>. HIDE DEF known
<1>4. CASE P!Done(d, killer.report)
  <2>1. Knows("next", known, None, killer.seen, killer.report)
    BY <1>2, <1>4, KillerParts, DoneIs DEF DaemonsHold, known
  <2>. QED
    BY <1>1, <1>3, <2>1, QuietKill
<1>5. CASE P!Bound(killer.live[d]) # d /\ P!Done(d, killer.report \cup late)
  <2>1. late \subseteq P!Daemon
    BY <1>2
  <2>2. killer.report \cup late \in SUBSET P!Daemon
    BY <2>1, KillerParts DEF DaemonsHold
  <2>3. ~ raced /\ P!Alive(d) => at[d] = "closing" /\ "port" \notin held[d]
    <3>1. SUFFICES ASSUME ~ raced, P!Alive(d), "port" \in held[d] \/ at[d] # "closing"
      PROVE  FALSE
      OBVIOUS
    <3>2. /\ killer.live[d] \in {<<root[d], "alias">>, <<d, "socket">>} /\ killer.live[d][2] \in held[d]
          /\ root[d] = Root
      BY <1>2, <3>1 DEF DaemonsHold, KillerKnows, RootsKnown
    <3>3. at[d] # "dead"
      BY <3>1 DEF P!Alive
    <3>4. CASE killer.live[d] = <<Root, "alias">>
      <4>1. alias[Root] = d
        BY <1>2, <3>1, <3>2, <3>4 DEF DaemonsHold, PathsTheirOwn
      <4>. QED
        BY <1>5, <3>4, <4>1, BoundIs DEF DaemonsHold
    <3>5. CASE killer.live[d] = <<d, "socket">>
      <4>1. d \in sockets
        BY <1>2, <3>2, <3>3, <3>5 DEF DaemonsHold, FilesOwned
      <4>. QED
        BY <1>2, <1>5, <3>5, <4>1, BoundIs DEF DaemonsHold
    <3>. QED
      BY <3>2, <3>4, <3>5
  <2>4. Knows("next", known, None, killer.seen, killer.report \cup late)
    BY <1>2, <1>5, <2>2, DoneIs DEF DaemonsHold, known
  <2>5. ~ raced => \A c \in (killer.report \cup late) \ killer.report :
           at[c] = "closing" /\ "port" \notin held[c]
    BY <2>3
  <2>. HIDE DEF late, d
  <2>. QED
    BY <1>1, <1>3, <2>4, <2>5, QuietKill
<1>. QED
  BY <1>1, <1>4, <1>5

LEMMA KillStopsDoes == ASSUME DaemonsHold, P!KillStops PROVE DaemonsHold'
<1>. DEFINE d == killer.now
            known == [killer.live EXCEPT ![d] = None]
<1>1. /\ Still /\ killer.stage = "checked"
      /\ \/ /\ P!Answers(killer.live[d]) = d /\ P!Asked(d, "kill")
            /\ killer' = P!Knowing("waiting", killer.todo, killer.live, d, killer.seen, killer.report)
         \/ UNCHANGED asked /\ P!Done(d, killer.report)
  BY DEF P!KillStops, P!fileVars, Still
<1>2. d \in P!Daemon /\ killer.live[d] # None
  BY <1>1, NowIs
<1>3. CASE UNCHANGED asked /\ P!Done(d, killer.report)
  <2>1. \A c \in P!Daemon : known[c] = killer.live[c] \/ known[c] = None
    BY <1>2, KillerParts DEF DaemonsHold
  <2>. HIDE DEF known
  <2>2. Knows("next", known, None, killer.seen, killer.report)
    BY <1>2, <1>3, KillerParts, DoneIs DEF DaemonsHold, known
  <2>. QED
    BY <1>1, <1>3, <2>1, <2>2, QuietKill
<1>4. CASE /\ P!Answers(killer.live[d]) = d /\ P!Asked(d, "kill")
           /\ killer' = P!Knowing("waiting", killer.todo, killer.live, d, killer.seen, killer.report)
  <2>1. Knows("waiting", killer.live, d, killer.seen, killer.report)
    BY <1>2, <1>4, KillerParts, KnownIs DEF DaemonsHold
  <2>2. P!Alive(d)
    <3>1. killer.live[d] \in P!Candidate
      BY <1>2, KillerParts DEF DaemonsHold
    <3>. QED
      BY <1>2, <1>4, <3>1, AnswersIs, DaemonsAssumed DEF DaemonsHold
  <2>3. d \in killer.seen
    BY <1>2, <2>2 DEF DaemonsHold, KillerKnows
  <2>4. /\ asked' \in [P!Daemon -> {None, "kill", "owner"}]
        /\ \A c \in P!Daemon : asked'[c] = asked[c] \/ (c = d /\ asked'[c] = "kill")
    BY <1>2, <1>4, AskedIs DEF DaemonsHold
  <2>. HIDE DEF d
  <2>5. Typed'
    BY <1>1, <2>1, <2>4, StillTyped DEF DaemonsHold, Knows
  <2>6. P!KillsIdentified'
    BY <2>1, <2>3, <2>4 DEF DaemonsHold, P!KillsIdentified, Knows
  <2>7. KillerKnows'
    BY <1>1, <1>2, <2>1, NothingNew, DaemonsAssumed DEF DaemonsHold
  <2>. QED
    BY <1>1, <2>5, <2>6, <2>7, StillHolds DEF DaemonsHold
<1>. QED
  BY <1>1, <1>3, <1>4

LEMMA OwnerStopDoes == ASSUME DaemonsHold, NEW r \in {Root}, P!OwnerStop(r)
      PROVE  DaemonsHold'
<1>. DEFINE d == P!Answers(<<r, "alias">>)
<1>1. Still /\ UNCHANGED killer /\ P!Asked(d, "owner") /\ d # None
  BY DEF P!OwnerStop, P!fileVars, Still
<1>2. d \in P!Daemon
  BY <1>1, AnswersIs DEF DaemonsHold, P!Candidate
<1>. HIDE DEF d
<1>3. /\ asked' \in [P!Daemon -> {None, "kill", "owner"}]
      /\ \A c \in P!Daemon : asked'[c] = asked[c] \/ (c = d /\ asked'[c] = "owner")
  BY <1>1, <1>2, AskedIs DEF DaemonsHold
<1>4. Typed'
  BY <1>1, <1>3, StillTyped DEF DaemonsHold, Typed
<1>5. P!KillsIdentified'
  BY <1>1, <1>3 DEF DaemonsHold, P!KillsIdentified
<1>6. KillerKnows'
  BY <1>1 DEF DaemonsHold, KillerKnows, Still, P!Alive
<1>. QED
  BY <1>1, <1>4, <1>5, <1>6, StillHolds DEF DaemonsHold

LEMMA KillProbesDoes == ASSUME DaemonsHold, NEW c \in P!Candidate, P!KillProbes(c)
      PROVE  DaemonsHold'
<1>. DEFINE d == P!Answers(c)
            better == d # None /\ (killer.live[d] = None \/ c[2] = "socket")
            known == IF better THEN [killer.live EXCEPT ![d] = c] ELSE killer.live
            seen2 == killer.seen \cup ({d} \ {None})
<1>1. /\ Still /\ UNCHANGED asked
      /\ killer' = P!Knowing("probing", killer.todo \ {c}, known, killer.now, seen2, killer.report)
  BY DEF P!KillProbes, P!processVars, P!fileVars, Still
<1>2. d # None => /\ d \in P!Daemon /\ P!Alive(d) /\ c[2] \in held[d]
                  /\ (c = <<Root, "alias">> /\ alias[Root] = d) \/ (c = <<d, "socket">> /\ d \in sockets)
  BY AnswersIs DEF DaemonsHold
<1>. HIDE DEF d
<1>3. /\ known \in [P!Daemon -> P!Candidate \cup {None}] /\ seen2 \in SUBSET P!Daemon
      /\ \A x \in P!Daemon : known[x] = killer.live[x] \/ (x = d /\ d # None /\ known[x] = c)
  BY <1>2, KillerParts DEF DaemonsHold
<1>4. \A x \in killer.seen : x \in seen2
  OBVIOUS
<1>5. d # None => d \in seen2
  OBVIOUS
<1>. HIDE DEF known, seen2
<1>6. Knows("probing", known, killer.now, seen2, killer.report)
  BY <1>1, <1>3, KillerParts, KnownIs DEF DaemonsHold
<1>7. Typed'
  BY <1>1, <1>6, StillTyped DEF DaemonsHold, Knows, Typed, ProcessTypes
<1>8. P!KillsIdentified'
  BY <1>1, <1>4, <1>6 DEF DaemonsHold, P!KillsIdentified, Knows
<1>9. d # None => /\ root[d] = Root /\ at[d] \notin {"none", "stale"}
                  /\ c \in {<<root[d], "alias">>, <<d, "socket">>}
  <2>1. SUFFICES ASSUME d # None
                 PROVE  /\ root[d] = Root /\ at[d] \notin {"none", "stale"}
                        /\ c \in {<<root[d], "alias">>, <<d, "socket">>}
    OBVIOUS
  <2>2. c[2] \in {"alias", "socket"} /\ c[2] \in held[d] /\ P!Alive(d) /\ d \in P!Daemon
    BY <1>2, <2>1
  <2>3. at[d] \notin {"none", "stale"}
    BY <2>2 DEF DaemonsHold, HeldInOrder, P!Alive
  <2>4. root[d] = Root
    BY <2>2, <2>3 DEF DaemonsHold, RootsKnown
  <2>. QED
    BY <1>2, <2>1, <2>3, <2>4
<1>10. ASSUME NEW x \in P!Daemon, known[x] # None
       PROVE  /\ known[x] \in {<<root[x], "alias">>, <<x, "socket">>}
              /\ at[x] \notin {"none", "stale"}
              /\ P!Alive(x) => /\ x \in seen2
                               /\ known[x][2] \in held[x] \/ (at[x] = "closing" /\ "port" \notin held[x])
  <2>1. CASE known[x] = killer.live[x]
    BY <1>4, <1>10, <2>1 DEF DaemonsHold, KillerKnows
  <2>2. CASE x = d /\ d # None /\ known[x] = c
    BY <1>2, <1>5, <1>9, <2>2
  <2>. QED
    BY <1>3, <2>1, <2>2
<1>11. ~ raced => \A x \in killer.report : at[x] = "closing" /\ "port" \notin held[x]
  BY DEF DaemonsHold, KillerKnows
<1>12. KillerKnows'
  <2>1. /\ killer'.live = known /\ killer'.seen = seen2 /\ killer'.report = killer.report
        /\ killer'.stage = "probing" /\ at' = at /\ held' = held /\ root' = root /\ raced' = raced
    BY <1>1, <1>6 DEF Knows, Still
  <2>. QED
    BY <1>10, <1>11, <2>1 DEF KillerKnows, P!Alive
<1>. QED
  BY <1>1, <1>7, <1>8, <1>12, StillHolds DEF DaemonsHold

-----------------------------------------------------------------------------
(* The invariant.                                                          *)

LEMMA MovedHolds == ASSUME DaemonsHold, Typed', NEW d \in P!Daemon, Moved(d)
      PROVE  DaemonsHold'
<1>1. HeldInOrder'
  BY HeldStep DEF DaemonsHold
<1>. QED
  BY <1>1, RootsStep, FilesStep, PathsStep, KillerStep, AskedStep DEF DaemonsHold

LEMMA DaemonsSound == ASSUME DaemonsHold PROVE P!DaemonsTypeOK /\ P!DaemonsSafe
<1>1. P!DaemonsTypeOK /\ killer \in Killer
  BY TypedIs DEF DaemonsHold
<1>2. P!LeaseExclusive
  <2>1. ASSUME NEW c \in P!Daemon, NEW d \in P!Daemon, c # d, "lease" \in held[c] \cap held[d],
               root[c] = root[d], ~ raced
        PROVE  FALSE
    BY <2>1 DEF DaemonsHold, PathsTheirOwn
  <2>. QED
    BY <2>1 DEF P!LeaseExclusive
<1>3. P!ReportedIsQuiet
  BY DEF DaemonsHold, KillerKnows, P!ReportedIsQuiet
<1>4. P!OwnerReaches
  BY DEF DaemonsHold, HeldInOrder, FilesOwned, PathsTheirOwn, P!OwnerReaches
<1>5. P!EndsClean
  <2>1. ASSUME NEW d \in P!Daemon, at[d] = "ended"
        PROVE  /\ held[d] = {} /\ d \notin sockets /\ d \notin rows
               /\ \A r \in {Root} : lease[r] # d /\ alias[r] # d
    BY <2>1 DEF DaemonsHold, HeldInOrder, FilesOwned
  <2>. QED
    BY <2>1 DEF P!EndsClean
<1>. QED
  BY <1>1, <1>2, <1>3, <1>4, <1>5 DEF DaemonsHold, P!DaemonsSafe

LEMMA DaemonsInductive ==
    /\ P!DaemonsInit => DaemonsHold
    /\ DaemonsHold /\ [P!DaemonsNext]_(P!daemonVars) => DaemonsHold'
<1>1. ASSUME P!DaemonsInit PROVE DaemonsHold
  <2>1. PICK left \in BOOLEAN :
          /\ at = [d \in P!Daemon |-> IF d = 1 THEN "dead" ELSE "none"]
          /\ root = [d \in P!Daemon |-> IF d = 1 THEN Root ELSE None]
          /\ lease = [s \in {Root} |-> IF s = Root /\ left THEN 1 ELSE None]
          /\ alias = lease /\ sockets = (IF left THEN {1} ELSE {}) /\ rows = sockets
    BY <1>1 DEF P!DaemonsInit
  <2>2. /\ kind = [d \in P!Daemon |-> "http"] /\ held = [d \in P!Daemon |-> {}]
        /\ asked = [d \in P!Daemon |-> None] /\ opened = [d \in P!Daemon |-> FALSE]
        /\ raced = FALSE /\ killer = P!Idle /\ deaths = 0
    BY <1>1 DEF P!DaemonsInit
  <2>3. 1 \in P!Daemon
    BY DaemonsAssumed DEF P!Daemon
  <2>4. /\ killer \in Killer /\ killer.live = [d \in P!Daemon |-> None] /\ killer.report = {}
        /\ killer.stage = "idle"
    <3>1. [d \in P!Daemon |-> None] \in [P!Daemon -> P!Candidate \cup {None}]
      OBVIOUS
    <3>. HIDE DEF P!Idle
    <3>. QED
      BY <2>2, <3>1, KnowingIs DEF P!Idle
  <2>5. ProcessTypes
    BY <2>1, <2>2 DEF ProcessTypes, Stages, P!Piece
  <2>6. FileTypes
    BY <2>1, <2>2, <2>3 DEF FileTypes
  <2>7. Typed
    BY <2>2, <2>4, <2>5, <2>6, DaemonsAssumed DEF Typed
  <2>8. RootsKnown /\ HeldInOrder /\ PathsTheirOwn
    BY <2>1, <2>2 DEF RootsKnown, HeldInOrder, PathsTheirOwn
  <2>9. FilesOwned
    BY <2>1, <2>2, <2>3, DaemonsAssumed DEF FilesOwned
  <2>10. KillerKnows /\ P!KillsIdentified
    BY <2>2, <2>4, DaemonsAssumed DEF KillerKnows, P!KillsIdentified
  <2>. QED
    BY <2>7, <2>8, <2>9, <2>10 DEF DaemonsHold
<1>2. ASSUME DaemonsHold, [P!DaemonsNext]_(P!daemonVars) PROVE DaemonsHold'
  <2>1. Typed /\ RootsKnown
    BY <1>2 DEF DaemonsHold
  <2>2. ASSUME NEW d \in P!Daemon, NEW k \in {"http", "stdio"}, NEW r \in {Root}, P!Begin(d, k, r)
      PROVE  DaemonsHold'
    BY <1>2, <2>1, <2>2, BeginDoes, MovedHolds
  <2>3. ASSUME NEW d \in P!Daemon, P!Unlink(d) PROVE DaemonsHold'
    BY <1>2, <2>1, <2>3, UnlinkDoes, MovedHolds
  <2>4. ASSUME NEW d \in P!Daemon, P!TakeOver(d) PROVE DaemonsHold'
    BY <1>2, <2>1, <2>4, TakeOverDoes, MovedHolds
  <2>5. ASSUME NEW d \in P!Daemon, P!Open(d) PROVE DaemonsHold'
    BY <1>2, <2>1, <2>5, OpenDoes, MovedHolds
  <2>6. ASSUME NEW d \in P!Daemon, P!Return(d) PROVE DaemonsHold'
    BY <1>2, <2>1, <2>6, ReturnDoes, MovedHolds
  <2>7. ASSUME NEW d \in P!Daemon, P!TunnelStarts(d) PROVE DaemonsHold'
    BY <1>2, <2>1, <2>7, TunnelStartsDoes, MovedHolds
  <2>8. ASSUME NEW d \in P!Daemon, P!BootFails(d) PROVE DaemonsHold'
    BY <1>2, <2>1, <2>8, BootFailsDoes, MovedHolds
  <2>9. ASSUME NEW d \in P!Daemon, P!ControlFails(d) PROVE DaemonsHold'
    BY <1>2, <2>1, <2>9, ControlFailsDoes, MovedHolds
  <2>10. ASSUME NEW d \in P!Daemon, P!KeysFail(d) PROVE DaemonsHold'
    BY <1>2, <2>1, <2>10, KeysFailDoes, MovedHolds
  <2>11. ASSUME NEW d \in P!Daemon, P!StopHeard(d) PROVE DaemonsHold'
    BY <1>2, <2>1, <2>11, StopHeardDoes, MovedHolds
  <2>12. ASSUME NEW d \in P!Daemon, P!Signal(d) PROVE DaemonsHold'
    BY <1>2, <2>1, <2>12, SignalDoes, MovedHolds
  <2>13. ASSUME NEW d \in P!Daemon, P!Release(d) PROVE DaemonsHold'
    BY <1>2, <2>1, <2>13, ReleaseDoes, MovedHolds
  <2>14. ASSUME NEW d \in P!Daemon, P!Exit(d) PROVE DaemonsHold'
    BY <1>2, <2>1, <2>14, ExitDoes, MovedHolds
  <2>15. ASSUME NEW d \in P!Daemon, P!Die(d) PROVE DaemonsHold'
    BY <1>2, <2>1, <2>15, DieDoes, MovedHolds
  <2>16. CASE UNCHANGED P!daemonVars
    <3>1. Still /\ UNCHANGED <<asked, killer>>
      BY <2>16 DEF P!daemonVars, P!processVars, P!fileVars, Still
    <3>2. Typed' /\ KillerKnows' /\ P!KillsIdentified'
      BY <1>2, <3>1, StillTyped
      DEF DaemonsHold, Typed, ProcessTypes, KillerKnows, P!KillsIdentified, P!Alive,
          Still
    <3>. QED
      BY <1>2, <3>1, <3>2, StillHolds DEF DaemonsHold
  <2>. QED
    BY <1>2, <2>2, <2>3, <2>4, <2>5, <2>6, <2>7, <2>8, <2>9, <2>10, <2>11, <2>12,
       <2>13, <2>14, <2>15, <2>16, KillReadsDoes, KillStopsDoes, KillSeesDoes,
       KillProbesDoes, KillErrsDoes, KillPicksDoes, OwnerStopDoes
    DEF P!DaemonsNext, P!DaemonStep, P!KillStep
<1>. QED
  BY <1>1, <1>2

-----------------------------------------------------------------------------
(* The client of a language server.                                        *)

\* What is on its way to or from a server: documents it was sent.
WireTyped ==
    /\ sent \in [L!Server -> Seq(Nat \X L!TextNo)]
    /\ published \in [L!Server -> Seq(Nat \X L!TextNo)]
    /\ shown \in [L!Server -> L!TextNo \cup {None}]

\* A call that has a server knows which.
Placed == \A c \in Call : call[c].pc \in {"start", "queued", "asked"} => call[c].on \in L!Server

\* d is a document that s was sent, and a call that s has not answered yet finds
\* its own text, or a later one, under its version and those after it.
Fitting(s, d) ==
    /\ d[1] <= version[s] /\ d[2] <= text
    /\ \A c \in Call : (call[c].pc = "asked" /\ call[c].on = s /\ d[1] >= call[c].at) =>
           d[2] >= call[c].text
WireFits ==
    \A s \in L!Server : /\ \A i \in 1 .. Len(sent[s]) : Fitting(s, sent[s][i])
                        /\ \A i \in 1 .. Len(published[s]) : Fitting(s, published[s][i])

\* What a call was sent with has been the file's text, under a version given out.
AskedBefore ==
    \A c \in Call : /\ call[c].text <= text
                    /\ call[c].pc # "answered" => call[c].how # "published"
LspHold ==
    /\ L!LspTypeOK /\ WireTyped /\ Placed /\ WireFits /\ AskedBefore
    /\ L!NoStrayServer /\ L!PublishedInOrder

LEMMA LspAssumed ==
    /\ MaxServers \in Nat /\ MaxText \in Nat /\ None \notin Nat /\ None # "published"
BY Assumed DEF L!LanguageServerAssumption

CallPc == {"none", "start", "queued", "asked", "answered", "failed"}
CallRow == [pc : CallPc, on : L!Server \cup {None}, kind : {"request", "publish"},
            at : Nat, text : L!TextNo, got : L!TextNo \cup {None},
            how : {None, "response", "published", "waited", "dropped"}]

LEMMA ServersOf == L!Server \subseteq Nat /\ L!TextNo \subseteq Nat /\ None \notin L!Server /\ 0 \in L!TextNo
BY LspAssumed DEF L!Server, L!TextNo

\* What the conjuncts of the type say of a call.
LEMMA CallsAre ==
    ASSUME LspHold
    PROVE  /\ call \in [Call -> CallRow]
           /\ \A x \in Call : call[x].pc \in {"start", "queued", "asked"} => call[x].on \in L!Server
           /\ \A s \in L!Server : /\ version[s] \in Nat /\ shown[s] \in L!TextNo \cup {None}
           /\ text \in L!TextNo
BY DEF LspHold, L!LspTypeOK, CallRow, CallPc, Placed, WireTyped

\* The queue loses at most its head.
LEMMA WithoutTyped ==
    ASSUME queue \in [L!Server -> Seq(Call)], NEW s, NEW ended
    PROVE  L!Without(s, ended) \in [L!Server -> Seq(Call)]
<1>1. ASSUME NEW r \in L!Server, queue[r] # <<>> PROVE Tail(queue[r]) \in Seq(Call)
  BY <1>1
<1>. QED
  BY <1>1 DEF L!Without

\* Two rows of a call that differ in how far it is.
Alike(old, new) ==
    /\ new.on = old.on /\ new.at = old.at /\ new.text = old.text
    /\ new.got = old.got /\ new.how = old.how /\ new.kind = old.kind

LEMMA PcIs ==
    ASSUME NEW r \in CallRow, NEW p \in CallPc
    PROVE  /\ [r EXCEPT !.pc = p] \in CallRow /\ [r EXCEPT !.pc = p].pc = p
           /\ Alike(r, [r EXCEPT !.pc = p])
BY DEF CallRow, Alike

LEMMA OneCall ==
    ASSUME call \in [Call -> CallRow], NEW c \in Call, NEW n \in CallRow,
           call' = [call EXCEPT ![c] = n]
    PROVE  /\ call' \in [Call -> CallRow] /\ call'[c] = n
           /\ \A x \in Call \ {c} : call'[x] = call[x]
OBVIOUS

LEMMA FailedOfIs ==
    ASSUME call \in [Call -> CallRow], NEW C
    PROVE  /\ L!FailedOf(call, C) \in [Call -> CallRow]
           /\ \A x \in Call \ C : L!FailedOf(call, C)[x] = call[x]
           /\ \A x \in Call : x \in C => /\ L!FailedOf(call, C)[x].pc = "failed"
                                        /\ Alike(call[x], L!FailedOf(call, C)[x])
<1>1. \A x \in Call : /\ [call[x] EXCEPT !.pc = "failed"] \in CallRow
                      /\ [call[x] EXCEPT !.pc = "failed"].pc = "failed"
                      /\ Alike(call[x], [call[x] EXCEPT !.pc = "failed"])
  BY PcIs DEF CallPc
<1>. QED
  BY <1>1 DEF L!FailedOf

LEMMA ResultIs ==
    ASSUME call \in [Call -> CallRow], NEW c \in Call, NEW g \in L!TextNo \cup {None},
           NEW h \in {"response", "published", "waited", "dropped"}
    PROVE  /\ L!Result(c, g, h) \in CallRow
           /\ L!Result(c, g, h).pc = "answered" /\ L!Result(c, g, h).got = g
           /\ L!Result(c, g, h).how = h /\ L!Result(c, g, h).text = call[c].text
BY ZenonT(40) DEF L!Result, CallRow, CallPc

-----------------------------------------------------------------------------

\* How a step changes a call: it is asked, moves on, fails, is sent, is answered,
\* or hears the diagnostics it waits for.
CallStep(x) ==
    \/ call'[x] = call[x]
    \/ /\ call[x].pc = "none" /\ call'[x].pc = "start"
       /\ call'[x].on \in L!Server /\ call'[x].how = None /\ call'[x].text = 0
    \/ /\ Alike(call[x], call'[x]) /\ call[x].pc # "answered"
       /\ \/ call'[x].pc = "failed"
          \/ call[x].pc = "start" /\ call'[x].pc = "queued"
    \/ /\ call[x].pc = "queued" /\ call'[x].pc = "asked" /\ call'[x].on = call[x].on
       /\ call'[x].how = call[x].how /\ call'[x].text = text /\ text' = text
       /\ call'[x].at = version[call[x].on] + 1
    \/ /\ call[x].pc = "asked" /\ call'[x].pc = "answered" /\ call'[x].text = call[x].text
       /\ call'[x].how = "published" => call'[x].got # None /\ call'[x].got >= call[x].text
CallsStep == call' \in [Call -> CallRow] /\ \A x \in Call : CallStep(x)

\* Every step moves every call so.
LEMMA CallsGo ==
    ASSUME LspHold, [L!LspNext]_(L!lspVars)
    PROVE  CallsStep
<1>1. ASSUME NEW c \in Call, L!Ask(c) PROVE CallsStep
  <2>1. call[c].pc = "none"
    BY <1>1 DEF L!Ask
  <2>2. PICK k \in {"request", "publish"} :
          \/ call' = [call EXCEPT ![c].pc = "failed"]
          \/ L!NextServer(c, k)
          \/ /\ current # None
             /\ call' = [call EXCEPT ![c] = [L!NoCall EXCEPT !.pc = "start", !.on = current, !.kind = k]]
    BY <1>1 DEF L!Ask
  <2>3. CASE call' = [call EXCEPT ![c].pc = "failed"]
    <3>. DEFINE n == [call[c] EXCEPT !.pc = "failed"]
    <3>1. /\ n \in CallRow /\ n.pc = "failed" /\ Alike(call[c], n)
      BY CallsAre, PcIs DEF CallPc
    <3>2. call' \in [Call -> CallRow] /\ call'[c] = n /\ \A x \in Call \ {c} : call'[x] = call[x]
      BY <2>3, <3>1, CallsAre, OneCall
    <3>. QED
      BY <2>1, <3>1, <3>2 DEF CallsStep, CallStep
  <2>4. ASSUME NEW s \in L!Server,
               call' = [call EXCEPT ![c] = [L!NoCall EXCEPT !.pc = "start", !.on = s, !.kind = k]]
        PROVE  CallsStep
    <3>. DEFINE n == [L!NoCall EXCEPT !.pc = "start", !.on = s, !.kind = k]
    <3>1. /\ n \in CallRow /\ n.pc = "start" /\ n.on = s /\ n.how = None /\ n.text = 0
      BY ServersOf DEF L!NoCall, CallRow, CallPc
    <3>. HIDE DEF n
    <3>2. call' \in [Call -> CallRow] /\ call'[c] = n /\ \A x \in Call \ {c} : call'[x] = call[x]
      BY <2>4, <3>1, CallsAre, OneCall DEF n
    <3>. QED
      BY <2>1, <3>1, <3>2 DEF CallsStep, CallStep
  <2>5. current \in L!Server \cup {None}
    BY DEF LspHold, L!LspTypeOK
  <2>. QED
    BY <2>2, <2>3, <2>4, <2>5 DEF L!NextServer
<1>2. ASSUME NEW c \in Call, L!Enter(c) PROVE CallsStep
  <2>. DEFINE n == [call[c] EXCEPT !.pc = "queued"]
  <2>1. /\ n \in CallRow /\ n.pc = "queued" /\ Alike(call[c], n)
    BY CallsAre, PcIs DEF CallPc
  <2>2. call' = [call EXCEPT ![c] = n] /\ call[c].pc = "start"
    BY <1>2 DEF L!Enter
  <2>3. call' \in [Call -> CallRow] /\ call'[c] = n /\ \A x \in Call \ {c} : call'[x] = call[x]
    BY <2>1, <2>2, CallsAre, OneCall
  <2>. QED
    BY <2>1, <2>2, <2>3 DEF CallsStep, CallStep
<1>3. ASSUME NEW c \in Call, L!Open(c) PROVE CallsStep
  <2>. DEFINE n == [call[c] EXCEPT !.pc = "asked", !.at = version[call[c].on] + 1, !.text = text]
  <2>1. /\ call[c].pc = "queued" /\ call' = [call EXCEPT ![c] = n] /\ text' = text
    BY <1>3 DEF L!Open
  <2>2. call[c] \in CallRow /\ call[c].on \in L!Server /\ version[call[c].on] + 1 \in Nat /\ text \in L!TextNo
    BY <2>1, CallsAre
  <2>3. /\ n \in CallRow /\ n.pc = "asked" /\ n.on = call[c].on /\ n.how = call[c].how
        /\ n.text = text /\ n.at = version[call[c].on] + 1
    BY <2>2 DEF CallRow, CallPc
  <2>. HIDE DEF n
  <2>4. call' \in [Call -> CallRow] /\ call'[c] = n /\ \A x \in Call \ {c} : call'[x] = call[x]
    BY <2>1, <2>3, CallsAre, OneCall
  <2>. QED
    BY <2>1, <2>3, <2>4 DEF CallsStep, CallStep
<1>4. ASSUME NEW c \in Call, L!CannotSend(c) PROVE CallsStep
  <2>. DEFINE n == [call[c] EXCEPT !.pc = "failed"]
  <2>1. /\ n \in CallRow /\ n.pc = "failed" /\ Alike(call[c], n)
    BY CallsAre, PcIs DEF CallPc
  <2>2. call' = [call EXCEPT ![c] = n] /\ call[c].pc = "queued"
    BY <1>4 DEF L!CannotSend
  <2>3. call' \in [Call -> CallRow] /\ call'[c] = n /\ \A x \in Call \ {c} : call'[x] = call[x]
    BY <2>1, <2>2, CallsAre, OneCall
  <2>. QED
    BY <2>1, <2>2, <2>3 DEF CallsStep, CallStep
<1>5. ASSUME NEW c \in Call, L!Respond(c) PROVE CallsStep
  <2>. DEFINE n == L!Result(c, call[c].text, "response")
  <2>1. /\ call[c].pc = "asked" /\ call' = [call EXCEPT ![c] = n]
    BY <1>5 DEF L!Respond, L!Answered
  <2>2. call[c].text \in L!TextNo \cup {None}
    BY <2>1, CallsAre DEF CallRow
  <2>3. n \in CallRow /\ n.pc = "answered" /\ n.how = "response" /\ n.text = call[c].text
    BY <2>2, CallsAre, ResultIs
  <2>4. call' \in [Call -> CallRow] /\ call'[c] = n /\ \A x \in Call \ {c} : call'[x] = call[x]
    BY <2>1, <2>3, CallsAre, OneCall
  <2>. QED
    BY <2>1, <2>3, <2>4 DEF CallsStep, CallStep
<1>6. ASSUME NEW c \in Call, L!NoDiagnostics(c) PROVE CallsStep
  <2>. DEFINE n == L!Result(c, shown[call[c].on], "waited")
  <2>1. /\ call[c].pc = "asked" /\ call' = [call EXCEPT ![c] = n]
    BY <1>6 DEF L!NoDiagnostics, L!Answered
  <2>2. shown[call[c].on] \in L!TextNo \cup {None}
    BY <2>1, CallsAre DEF CallRow
  <2>3. n \in CallRow /\ n.pc = "answered" /\ n.how = "waited" /\ n.text = call[c].text
    BY <2>2, CallsAre, ResultIs
  <2>4. call' \in [Call -> CallRow] /\ call'[c] = n /\ \A x \in Call \ {c} : call'[x] = call[x]
    BY <2>1, <2>3, CallsAre, OneCall
  <2>. QED
    BY <2>1, <2>3, <2>4 DEF CallsStep, CallStep
<1>7. ASSUME NEW c \in Call, L!Timeout(c) PROVE CallsStep
  <2>. DEFINE n == [call[c] EXCEPT !.pc = "failed"]
  <2>1. /\ n \in CallRow /\ n.pc = "failed" /\ Alike(call[c], n)
    BY CallsAre, PcIs DEF CallPc
  <2>2. call[c].pc = "asked" /\ (call' = call \/ call' = [call EXCEPT ![c] = n])
    BY <1>7 DEF L!Timeout
  <2>3. CASE call' = call
    BY <2>3, CallsAre DEF CallsStep, CallStep
  <2>4. CASE call' = [call EXCEPT ![c] = n]
    <3>1. call' \in [Call -> CallRow] /\ call'[c] = n /\ \A x \in Call \ {c} : call'[x] = call[x]
      BY <2>1, <2>4, CallsAre, OneCall
    <3>. QED
      BY <2>1, <2>2, <3>1 DEF CallsStep, CallStep
  <2>. QED
    BY <2>2, <2>3, <2>4
<1>8. ASSUME NEW s \in L!Server, L!Started(s) PROVE CallsStep
  <2>1. call' = call
    BY <1>8 DEF L!Started
  <2>. QED
    BY <2>1, CallsAre DEF CallsStep, CallStep
<1>9. ASSUME NEW s \in L!Server, L!StartFailed(s) PROVE CallsStep
  <2>1. call' = L!FailedOf(call, L!Starting(s))
    BY <1>9 DEF L!StartFailed
  <2>2. \A x \in L!Starting(s) : call[x].pc = "start"
    BY DEF L!Starting
  <2>. QED
    BY <2>1, <2>2, CallsAre, FailedOfIs DEF CallsStep, CallStep
<1>10. ASSUME NEW s \in L!Server, L!Exit(s) PROVE CallsStep
  <2>. DEFINE sent2 == {x \in Call : call[x].pc = "asked" /\ call[x].on = s}
              waits == {x \in sent2 : call[x].kind = "publish"}
              fails == (sent2 \ waits) \cup (IF phase[s] = "starting" THEN L!Starting(s) ELSE {})
              ends == fails \cup (IF current = s THEN waits ELSE {})
  <2>1. call' = [x \in Call |-> IF x \in fails THEN [call[x] EXCEPT !.pc = "failed"]
                                ELSE IF x \in ends THEN L!Result(x, shown[s], "dropped") ELSE call[x]]
    BY <1>10 DEF L!Exit
  <2>2. \A x \in fails : call[x].pc \in {"asked", "start"}
    BY DEF L!Starting
  <2>3. \A x \in ends \ fails : call[x].pc = "asked"
    OBVIOUS
  <2>. HIDE DEF fails, ends
  <2>4. \A x \in Call : /\ [call[x] EXCEPT !.pc = "failed"] \in CallRow
                        /\ [call[x] EXCEPT !.pc = "failed"].pc = "failed"
                        /\ Alike(call[x], [call[x] EXCEPT !.pc = "failed"])
    BY CallsAre, PcIs DEF CallPc
  <2>5. \A x \in Call : /\ L!Result(x, shown[s], "dropped") \in CallRow
                        /\ L!Result(x, shown[s], "dropped").pc = "answered"
                        /\ L!Result(x, shown[s], "dropped").how = "dropped"
                        /\ L!Result(x, shown[s], "dropped").text = call[x].text
    BY CallsAre, ResultIs
  <2>6. call' \in [Call -> CallRow]
    BY <2>1, <2>4, <2>5, CallsAre
  <2>7. ASSUME NEW x \in Call PROVE CallStep(x)
    BY <2>1, <2>2, <2>3, <2>4, <2>5 DEF CallStep
  <2>. QED
    BY <2>6, <2>7 DEF CallsStep
<1>11. ASSUME NEW s \in L!Server, L!IdleShutdown(s) PROVE CallsStep
  <2>1. call' = call
    BY <1>11 DEF L!IdleShutdown
  <2>. QED
    BY <2>1, CallsAre DEF CallsStep, CallStep
<1>12. ASSUME NEW s \in L!Server, L!Serve(s) PROVE CallsStep
  <2>1. call' = call
    BY <1>12 DEF L!Serve
  <2>. QED
    BY <2>1, CallsAre DEF CallsStep, CallStep
<1>13. ASSUME NEW s \in L!Server, L!Receive(s) PROVE CallsStep
  <2>. DEFINE d == Head(published[s])
  <2>1. published[s] \in Seq(Nat \X L!TextNo) /\ published[s] # <<>>
    BY <1>13 DEF L!Receive, LspHold, WireTyped
  <2>2. d \in Nat \X L!TextNo /\ d = published[s][1] /\ 1 \in 1 .. Len(published[s])
    BY <2>1
  <2>3. Fitting(s, d)
    BY <2>2 DEF LspHold, WireFits
  <2>. HIDE DEF d
  <2>4. \/ call' = call
        \/ \E c \in L!WaitedFor(s, d[1]) : call' = [call EXCEPT ![c] = L!Result(c, d[2], "published")]
    BY <1>13 DEF L!Receive, L!Answered, d
  <2>5. ASSUME NEW c \in L!WaitedFor(s, d[1]), call' = [call EXCEPT ![c] = L!Result(c, d[2], "published")]
        PROVE  CallsStep
    <3>1. c \in Call /\ call[c].pc = "asked" /\ call[c].on = s /\ d[1] >= call[c].at
      BY DEF L!WaitedFor
    <3>2. d[2] \in L!TextNo /\ d[2] # None /\ d[2] >= call[c].text
      BY <2>2, <2>3, <3>1, ServersOf, LspAssumed DEF Fitting
    <3>. DEFINE n == L!Result(c, d[2], "published")
    <3>3. /\ n \in CallRow /\ n.pc = "answered" /\ n.how = "published" /\ n.got = d[2]
          /\ n.text = call[c].text
      BY <3>1, <3>2, CallsAre, ResultIs
    <3>4. call' \in [Call -> CallRow] /\ call'[c] = n /\ \A x \in Call \ {c} : call'[x] = call[x]
      BY <2>5, <3>1, <3>3, CallsAre, OneCall
    <3>. QED
      BY <3>1, <3>2, <3>3, <3>4 DEF CallsStep, CallStep
  <2>. QED
    BY <2>4, <2>5, CallsAre DEF CallsStep, CallStep
<1>14. ASSUME NEW s \in L!Server, L!CloseInput(s) PROVE CallsStep
  <2>1. call' = call
    BY <1>14 DEF L!CloseInput
  <2>. QED
    BY <2>1, CallsAre DEF CallsStep, CallStep
<1>15. ASSUME L!Shutdown PROVE CallsStep
  <2>1. call' = call
    BY <1>15 DEF L!Shutdown
  <2>. QED
    BY <2>1, CallsAre DEF CallsStep, CallStep
<1>16. ASSUME L!Edit PROVE CallsStep
  <2>1. call' = call
    BY <1>16 DEF L!Edit
  <2>. QED
    BY <2>1, CallsAre DEF CallsStep, CallStep
<1>u. ASSUME UNCHANGED L!lspVars PROVE CallsStep
  BY <1>u, CallsAre DEF CallsStep, CallStep, L!lspVars
<1>. QED
  BY <1>1, <1>2, <1>3, <1>4, <1>5, <1>6, <1>7, <1>8, <1>9, <1>10, <1>11, <1>12,
     <1>13, <1>14, <1>15, <1>16, <1>u
  DEF L!LspNext

LEMMA QueuesStayTyped ==
    ASSUME LspHold, [L!LspNext]_(L!lspVars)
    PROVE  queue' \in [L!Server -> Seq(Call)]
<1>1. ASSUME NEW c \in Call, L!Ask(c) PROVE queue' \in [L!Server -> Seq(Call)]
  BY <1>1, ServersOf, WithoutTyped
  DEF L!Ask, L!NextServer, L!Alive, L!NoCall, L!wire, LspHold, L!LspTypeOK
<1>2. ASSUME NEW c \in Call, L!Enter(c) PROVE queue' \in [L!Server -> Seq(Call)]
  <2>1. call[c].on \in L!Server /\ queue \in [L!Server -> Seq(Call)]
    BY <1>2, CallsAre DEF L!Enter, LspHold, L!LspTypeOK
  <2>2. Append(queue[call[c].on], c) \in Seq(Call)
    BY <2>1
  <2>. QED
    BY <1>2, <2>1, <2>2 DEF L!Enter
<1>3. ASSUME NEW c \in Call, L!Open(c) PROVE queue' \in [L!Server -> Seq(Call)]
  BY <1>3, ServersOf, WithoutTyped DEF L!Open, L!Alive, LspHold, L!LspTypeOK
<1>4. ASSUME NEW c \in Call, L!CannotSend(c) PROVE queue' \in [L!Server -> Seq(Call)]
  BY <1>4, ServersOf, WithoutTyped
  DEF L!CannotSend, L!Alive, L!wire, LspHold, L!LspTypeOK
<1>5. ASSUME NEW c \in Call, L!Respond(c) PROVE queue' \in [L!Server -> Seq(Call)]
  BY <1>5, ServersOf, WithoutTyped
  DEF L!Respond, L!Alive, L!Answered, L!wire, LspHold, L!LspTypeOK
<1>6. ASSUME NEW c \in Call, L!NoDiagnostics(c)
      PROVE  queue' \in [L!Server -> Seq(Call)]
  BY <1>6, ServersOf, WithoutTyped
  DEF L!NoDiagnostics, L!Answered, L!wire, LspHold, L!LspTypeOK
<1>7. ASSUME NEW c \in Call, L!Timeout(c) PROVE queue' \in [L!Server -> Seq(Call)]
  BY <1>7, ServersOf, WithoutTyped
  DEF L!Timeout, L!Dropped, L!wire, LspHold, L!LspTypeOK
<1>8. ASSUME NEW s \in L!Server, L!Started(s) PROVE queue' \in [L!Server -> Seq(Call)]
  BY <1>8, ServersOf, WithoutTyped DEF L!Started, L!wire, LspHold, L!LspTypeOK
<1>9. ASSUME NEW s \in L!Server, L!StartFailed(s)
      PROVE  queue' \in [L!Server -> Seq(Call)]
  BY <1>9, ServersOf, WithoutTyped
  DEF L!StartFailed, L!Dropped, L!wire, LspHold, L!LspTypeOK
<1>10. ASSUME NEW s \in L!Server, L!Exit(s) PROVE queue' \in [L!Server -> Seq(Call)]
  BY <1>10, ServersOf, WithoutTyped
  DEF L!Exit, L!Alive, L!Dropped, L!wire, LspHold, L!LspTypeOK
<1>11. ASSUME NEW s \in L!Server, L!IdleShutdown(s)
      PROVE  queue' \in [L!Server -> Seq(Call)]
  BY <1>11, ServersOf, WithoutTyped DEF L!IdleShutdown, L!wire, LspHold, L!LspTypeOK
<1>12. ASSUME NEW s \in L!Server, L!Serve(s) PROVE queue' \in [L!Server -> Seq(Call)]
  BY <1>12, ServersOf, WithoutTyped DEF L!Serve, L!Alive, LspHold, L!LspTypeOK
<1>13. ASSUME NEW s \in L!Server, L!Receive(s)
      PROVE  queue' \in [L!Server -> Seq(Call)]
  <2>1. queue' = queue \/ \E c \in Call : queue' = L!Without(call[c].on, {c})
    BY <1>13 DEF L!Receive, L!Answered, L!WaitedFor
  <2>2. queue \in [L!Server -> Seq(Call)]
    BY DEF LspHold, L!LspTypeOK
  <2>3. ASSUME NEW c \in Call, queue' = L!Without(call[c].on, {c})
        PROVE  queue' \in [L!Server -> Seq(Call)]
    <3>1. L!Without(call[c].on, {c}) \in [L!Server -> Seq(Call)]
      BY <2>2, WithoutTyped
    <3>. QED
      BY <2>3, <3>1
  <2>. QED
    BY <2>1, <2>2, <2>3
<1>14. ASSUME NEW s \in L!Server, L!CloseInput(s)
      PROVE  queue' \in [L!Server -> Seq(Call)]
  BY <1>14, ServersOf, WithoutTyped
  DEF L!CloseInput, L!Alive, L!wire, LspHold, L!LspTypeOK
<1>15. ASSUME L!Shutdown PROVE queue' \in [L!Server -> Seq(Call)]
  BY <1>15, ServersOf, WithoutTyped DEF L!Shutdown, L!wire, LspHold, L!LspTypeOK
<1>16. ASSUME L!Edit PROVE queue' \in [L!Server -> Seq(Call)]
  BY <1>16, ServersOf, WithoutTyped DEF L!Edit, L!wire, LspHold, L!LspTypeOK
<1>u. ASSUME UNCHANGED L!lspVars PROVE queue' \in [L!Server -> Seq(Call)]
  BY <1>u DEF LspHold, L!LspTypeOK, L!lspVars
<1>. QED
  BY <1>1, <1>2, <1>3, <1>4, <1>5, <1>6, <1>7, <1>8, <1>9, <1>10, <1>11, <1>12,
     <1>13, <1>14, <1>15, <1>16, <1>u
  DEF L!LspNext

LEMMA WireStaysTyped ==
    ASSUME LspHold, [L!LspNext]_(L!lspVars)
    PROVE  WireTyped'
<1>1. ASSUME NEW c \in Call, L!Ask(c) PROVE WireTyped'
  BY <1>1, ServersOf
  DEF L!Ask, L!NextServer, L!Alive, L!NoCall, L!wire, LspHold, L!LspTypeOK,
      WireTyped
<1>2. ASSUME NEW c \in Call, L!Enter(c) PROVE WireTyped'
  BY <1>2, ServersOf DEF L!Enter, L!wire, LspHold, L!LspTypeOK, WireTyped
<1>3. ASSUME NEW c \in Call, L!Open(c) PROVE WireTyped'
  <2>. DEFINE r == call[c].on
              doc == <<version[r] + 1, text>>
  <2>1. r \in L!Server /\ version[r] \in Nat /\ text \in L!TextNo
    BY <1>3, CallsAre DEF L!Open
  <2>2. doc \in Nat \X L!TextNo
    BY <2>1
  <2>3. sent' = sent \/ sent' = [sent EXCEPT ![r] = Append(sent[r], doc)]
    BY <1>3 DEF L!Open
  <2>4. published' = published /\ shown' = shown
    BY <1>3 DEF L!Open
  <2>. HIDE DEF doc, r
  <2>5. sent \in [L!Server -> Seq(Nat \X L!TextNo)]
    BY DEF LspHold, WireTyped
  <2>6. Append(sent[r], doc) \in Seq(Nat \X L!TextNo)
    BY <2>1, <2>2, <2>5
  <2>. QED
    BY <2>1, <2>3, <2>4, <2>5, <2>6 DEF LspHold, WireTyped
<1>4. ASSUME NEW c \in Call, L!CannotSend(c) PROVE WireTyped'
  BY <1>4, ServersOf
  DEF L!CannotSend, L!Alive, L!wire, LspHold, L!LspTypeOK, WireTyped
<1>5. ASSUME NEW c \in Call, L!Respond(c) PROVE WireTyped'
  BY <1>5, ServersOf
  DEF L!Respond, L!Alive, L!Answered, L!wire, LspHold, L!LspTypeOK, WireTyped
<1>6. ASSUME NEW c \in Call, L!NoDiagnostics(c) PROVE WireTyped'
  BY <1>6, ServersOf
  DEF L!NoDiagnostics, L!Answered, L!wire, LspHold, L!LspTypeOK, WireTyped
<1>7. ASSUME NEW c \in Call, L!Timeout(c) PROVE WireTyped'
  BY <1>7, ServersOf DEF L!Timeout, L!Dropped, L!wire, LspHold, L!LspTypeOK, WireTyped
<1>8. ASSUME NEW s \in L!Server, L!Started(s) PROVE WireTyped'
  BY <1>8, ServersOf DEF L!Started, L!wire, LspHold, L!LspTypeOK, WireTyped
<1>9. ASSUME NEW s \in L!Server, L!StartFailed(s) PROVE WireTyped'
  BY <1>9, ServersOf
  DEF L!StartFailed, L!Dropped, L!wire, LspHold, L!LspTypeOK, WireTyped
<1>10. ASSUME NEW s \in L!Server, L!Exit(s) PROVE WireTyped'
  BY <1>10, ServersOf
  DEF L!Exit, L!Alive, L!Dropped, L!wire, LspHold, L!LspTypeOK, WireTyped
<1>11. ASSUME NEW s \in L!Server, L!IdleShutdown(s) PROVE WireTyped'
  BY <1>11, ServersOf DEF L!IdleShutdown, L!wire, LspHold, L!LspTypeOK, WireTyped
<1>12. ASSUME NEW s \in L!Server, L!Serve(s) PROVE WireTyped'
  <2>. DEFINE D == Nat \X L!TextNo
  <2>1. /\ sent[s] \in Seq(D) /\ published[s] \in Seq(D) /\ sent[s] # <<>>
        /\ sent' = [sent EXCEPT ![s] = Tail(sent[s])]
        /\ published' = [published EXCEPT ![s] = Append(published[s], Head(sent[s]))]
        /\ shown' = shown
    BY <1>12 DEF L!Serve, LspHold, WireTyped
  <2>2. WireTyped
    BY DEF LspHold
  <2>. HIDE DEF D
  <2>3. Tail(sent[s]) \in Seq(D) /\ Append(published[s], Head(sent[s])) \in Seq(D)
    BY <2>1
  <2>. QED
    BY <2>1, <2>2, <2>3 DEF WireTyped, D
<1>13. ASSUME NEW s \in L!Server, L!Receive(s) PROVE WireTyped'
  <2>. DEFINE D == Nat \X L!TextNo
  <2>1. /\ published[s] \in Seq(D) /\ published[s] # <<>>
        /\ published' = [published EXCEPT ![s] = Tail(published[s])]
        /\ shown' = [shown EXCEPT ![s] = Head(published[s])[2]]
        /\ sent' = sent
    BY <1>13 DEF L!Receive, LspHold, WireTyped
  <2>2. WireTyped
    BY DEF LspHold
  <2>. HIDE DEF D
  <2>3. Tail(published[s]) \in Seq(D) /\ Head(published[s]) \in D
    BY <2>1
  <2>4. Head(published[s])[2] \in L!TextNo
    BY <2>3 DEF D
  <2>. QED
    BY <2>1, <2>2, <2>3, <2>4 DEF WireTyped, D
<1>14. ASSUME NEW s \in L!Server, L!CloseInput(s) PROVE WireTyped'
  BY <1>14, ServersOf
  DEF L!CloseInput, L!Alive, L!wire, LspHold, L!LspTypeOK, WireTyped
<1>15. ASSUME L!Shutdown PROVE WireTyped'
  BY <1>15, ServersOf DEF L!Shutdown, L!wire, LspHold, L!LspTypeOK, WireTyped
<1>16. ASSUME L!Edit PROVE WireTyped'
  BY <1>16, ServersOf DEF L!Edit, L!wire, LspHold, L!LspTypeOK, WireTyped
<1>u. ASSUME UNCHANGED L!lspVars PROVE WireTyped'
  BY <1>u DEF LspHold, L!LspTypeOK, WireTyped, L!wire, L!lspVars
<1>. QED
  BY <1>1, <1>2, <1>3, <1>4, <1>5, <1>6, <1>7, <1>8, <1>9, <1>10, <1>11, <1>12,
     <1>13, <1>14, <1>15, <1>16, <1>u
  DEF L!LspNext

RestTyped ==
    /\ current \in L!Server \cup {None}
    /\ phase \in [L!Server -> {"none", "starting", "ready", "dead"}]
    /\ told \subseteq L!Server
    /\ input \in [L!Server -> {"open", "closed", "destroyed"}]
    /\ version \in [L!Server -> Nat]
    /\ text \in L!TextNo /\ closed \in BOOLEAN /\ daemon \in {"up", "down"}

LEMMA RestStaysTyped ==
    ASSUME LspHold, [L!LspNext]_(L!lspVars)
    PROVE  RestTyped'
<1>1. ASSUME NEW c \in Call, L!Ask(c) PROVE RestTyped'
  <2>1. /\ RestTyped /\ UNCHANGED <<told, input, version, text, closed, daemon>>
        /\ UNCHANGED <<current, phase>> \/ \E k : L!NextServer(c, k)
    BY <1>1 DEF L!Ask, L!wire, LspHold, L!LspTypeOK, RestTyped
  <2>2. UNCHANGED <<current, phase>>
        \/ \E s \in L!Server : phase' = [phase EXCEPT ![s] = "starting"] /\ current' = s
    BY <2>1 DEF L!NextServer
  <2>. QED
    BY <2>1, <2>2 DEF RestTyped
<1>2. ASSUME NEW c \in Call, L!Enter(c) PROVE RestTyped'
  BY <1>2, ServersOf, LspAssumed, CallsAre
  DEF L!Enter, L!wire, LspHold, L!LspTypeOK, RestTyped, L!TextNo
<1>3. ASSUME NEW c \in Call, L!Open(c) PROVE RestTyped'
  <2>. DEFINE r == call[c].on
  <2>1. r \in L!Server /\ version[r] + 1 \in Nat /\ RestTyped
    BY <1>3, CallsAre DEF L!Open, LspHold, L!LspTypeOK, RestTyped
  <2>2. /\ version' = [version EXCEPT ![r] = version[r] + 1]
        /\ input' = [input EXCEPT ![r] = IF input[r] = "closed" THEN "destroyed" ELSE input[r]]
        /\ UNCHANGED <<current, phase, told, text, closed, daemon>>
    BY <1>3 DEF L!Open
  <2>. HIDE DEF r
  <2>3. version' \in [L!Server -> Nat]
    BY <2>1, <2>2 DEF RestTyped
  <2>4. input' \in [L!Server -> {"open", "closed", "destroyed"}]
    BY <2>1, <2>2 DEF RestTyped
  <2>. QED
    BY <2>1, <2>2, <2>3, <2>4 DEF RestTyped
<1>4. ASSUME NEW c \in Call, L!CannotSend(c) PROVE RestTyped'
  BY <1>4, ServersOf, LspAssumed, CallsAre
  DEF L!CannotSend, L!Alive, L!wire, LspHold, L!LspTypeOK, RestTyped, L!TextNo
<1>5. ASSUME NEW c \in Call, L!Respond(c) PROVE RestTyped'
  BY <1>5, ServersOf, LspAssumed, CallsAre
  DEF L!Respond, L!Alive, L!Answered, L!wire, LspHold, L!LspTypeOK, RestTyped,
      L!TextNo
<1>6. ASSUME NEW c \in Call, L!NoDiagnostics(c) PROVE RestTyped'
  BY <1>6, ServersOf, LspAssumed, CallsAre
  DEF L!NoDiagnostics, L!Answered, L!wire, LspHold, L!LspTypeOK, RestTyped, L!TextNo
<1>7. ASSUME NEW c \in Call, L!Timeout(c) PROVE RestTyped'
  BY <1>7, ServersOf, LspAssumed, CallsAre
  DEF L!Timeout, L!Dropped, L!wire, LspHold, L!LspTypeOK, RestTyped, L!TextNo
<1>8. ASSUME NEW s \in L!Server, L!Started(s) PROVE RestTyped'
  BY <1>8, ServersOf, LspAssumed, CallsAre
  DEF L!Started, L!wire, LspHold, L!LspTypeOK, RestTyped, L!TextNo
<1>9. ASSUME NEW s \in L!Server, L!StartFailed(s) PROVE RestTyped'
  BY <1>9, ServersOf, LspAssumed, CallsAre
  DEF L!StartFailed, L!Dropped, L!wire, LspHold, L!LspTypeOK, RestTyped, L!TextNo
<1>10. ASSUME NEW s \in L!Server, L!Exit(s) PROVE RestTyped'
  BY <1>10, ServersOf, LspAssumed, CallsAre
  DEF L!Exit, L!Alive, L!Dropped, L!wire, LspHold, L!LspTypeOK, RestTyped, L!TextNo
<1>11. ASSUME NEW s \in L!Server, L!IdleShutdown(s) PROVE RestTyped'
  BY <1>11, ServersOf, LspAssumed, CallsAre
  DEF L!IdleShutdown, L!wire, LspHold, L!LspTypeOK, RestTyped, L!TextNo
<1>12. ASSUME NEW s \in L!Server, L!Serve(s) PROVE RestTyped'
  BY <1>12, ServersOf, LspAssumed, CallsAre
  DEF L!Serve, L!Alive, LspHold, L!LspTypeOK, RestTyped, L!TextNo, L!wire
<1>13. ASSUME NEW s \in L!Server, L!Receive(s) PROVE RestTyped'
  BY <1>13, ServersOf, LspAssumed, CallsAre
  DEF L!Receive, L!Alive, L!Answered, LspHold, L!LspTypeOK, RestTyped, L!TextNo,
      L!wire
<1>14. ASSUME NEW s \in L!Server, L!CloseInput(s) PROVE RestTyped'
  BY <1>14, ServersOf, LspAssumed, CallsAre
  DEF L!CloseInput, L!Alive, L!wire, LspHold, L!LspTypeOK, RestTyped, L!TextNo
<1>15. ASSUME L!Shutdown PROVE RestTyped'
  BY <1>15, ServersOf, LspAssumed, CallsAre
  DEF L!Shutdown, L!wire, LspHold, L!LspTypeOK, RestTyped, L!TextNo
<1>16. ASSUME L!Edit PROVE RestTyped'
  BY <1>16, ServersOf, LspAssumed, CallsAre
  DEF L!Edit, L!wire, LspHold, L!LspTypeOK, RestTyped, L!TextNo
<1>u. ASSUME UNCHANGED L!lspVars PROVE RestTyped'
  BY <1>u DEF LspHold, L!LspTypeOK, RestTyped, L!TextNo, L!wire, L!lspVars
<1>. QED
  BY <1>1, <1>2, <1>3, <1>4, <1>5, <1>6, <1>7, <1>8, <1>9, <1>10, <1>11, <1>12,
     <1>13, <1>14, <1>15, <1>16, <1>u
  DEF L!LspNext

LEMMA StrayStep ==
    ASSUME LspHold, [L!LspNext]_(L!lspVars)
    PROVE  L!NoStrayServer'
<1>1. ASSUME NEW c \in Call, L!Ask(c) PROVE L!NoStrayServer'
  <2>1. /\ L!NoStrayServer /\ told' = told
        /\ UNCHANGED <<current, phase>> \/ \E k : L!NextServer(c, k)
    BY <1>1 DEF L!Ask, LspHold
  <2>2. \/ UNCHANGED <<current, phase>>
        \/ \E s \in L!Server : /\ phase' = [phase EXCEPT ![s] = "starting"] /\ current' = s
                               /\ current # None => phase[current] \notin {"starting", "ready"}
    BY <2>1 DEF L!NextServer, L!Alive
  <2>3. /\ current \in L!Server \cup {None} /\ None \notin L!Server
        /\ phase \in [L!Server -> {"none", "starting", "ready", "dead"}]
    BY ServersOf DEF LspHold, L!LspTypeOK
  <2>. QED
    BY <2>1, <2>2, <2>3 DEF L!NoStrayServer, L!Alive
<1>2. ASSUME NEW c \in Call, L!Enter(c) PROVE L!NoStrayServer'
  BY <1>2, ServersOf
  DEF L!Enter, L!wire, LspHold, L!LspTypeOK, L!NoStrayServer, L!Alive
<1>3. ASSUME NEW c \in Call, L!Open(c) PROVE L!NoStrayServer'
  BY <1>3, ServersOf DEF L!Open, L!Alive, LspHold, L!LspTypeOK, L!NoStrayServer
<1>4. ASSUME NEW c \in Call, L!CannotSend(c) PROVE L!NoStrayServer'
  BY <1>4, ServersOf
  DEF L!CannotSend, L!Alive, L!wire, LspHold, L!LspTypeOK, L!NoStrayServer
<1>5. ASSUME NEW c \in Call, L!Respond(c) PROVE L!NoStrayServer'
  BY <1>5, ServersOf
  DEF L!Respond, L!Alive, L!Answered, L!wire, LspHold, L!LspTypeOK, L!NoStrayServer
<1>6. ASSUME NEW c \in Call, L!NoDiagnostics(c) PROVE L!NoStrayServer'
  BY <1>6, ServersOf
  DEF L!NoDiagnostics, L!Answered, L!wire, LspHold, L!LspTypeOK, L!NoStrayServer,
      L!Alive
<1>7. ASSUME NEW c \in Call, L!Timeout(c) PROVE L!NoStrayServer'
  BY <1>7, ServersOf
  DEF L!Timeout, L!Dropped, L!wire, LspHold, L!LspTypeOK, L!NoStrayServer, L!Alive
<1>8. ASSUME NEW s \in L!Server, L!Started(s) PROVE L!NoStrayServer'
  BY <1>8, ServersOf
  DEF L!Started, L!wire, LspHold, L!LspTypeOK, L!NoStrayServer, L!Alive
<1>9. ASSUME NEW s \in L!Server, L!StartFailed(s) PROVE L!NoStrayServer'
  BY <1>9, ServersOf
  DEF L!StartFailed, L!Dropped, L!wire, LspHold, L!LspTypeOK, L!NoStrayServer,
      L!Alive
<1>10. ASSUME NEW s \in L!Server, L!Exit(s) PROVE L!NoStrayServer'
  BY <1>10, ServersOf
  DEF L!Exit, L!Alive, L!Dropped, L!wire, LspHold, L!LspTypeOK, L!NoStrayServer
<1>11. ASSUME NEW s \in L!Server, L!IdleShutdown(s) PROVE L!NoStrayServer'
  BY <1>11, ServersOf
  DEF L!IdleShutdown, L!wire, LspHold, L!LspTypeOK, L!NoStrayServer, L!Alive
<1>12. ASSUME NEW s \in L!Server, L!Serve(s) PROVE L!NoStrayServer'
  BY <1>12, ServersOf DEF L!Serve, L!Alive, LspHold, L!LspTypeOK, L!NoStrayServer
<1>13. ASSUME NEW s \in L!Server, L!Receive(s) PROVE L!NoStrayServer'
  BY <1>13, ServersOf
  DEF L!Receive, L!Alive, L!Answered, LspHold, L!LspTypeOK, L!NoStrayServer
<1>14. ASSUME NEW s \in L!Server, L!CloseInput(s) PROVE L!NoStrayServer'
  BY <1>14, ServersOf
  DEF L!CloseInput, L!Alive, L!wire, LspHold, L!LspTypeOK, L!NoStrayServer
<1>15. ASSUME L!Shutdown PROVE L!NoStrayServer'
  BY <1>15, ServersOf
  DEF L!Shutdown, L!wire, LspHold, L!LspTypeOK, L!NoStrayServer, L!Alive
<1>16. ASSUME L!Edit PROVE L!NoStrayServer'
  BY <1>16, ServersOf
  DEF L!Edit, L!wire, LspHold, L!LspTypeOK, L!NoStrayServer, L!Alive
<1>u. ASSUME UNCHANGED L!lspVars PROVE L!NoStrayServer'
  BY <1>u DEF LspHold, L!LspTypeOK, L!NoStrayServer, L!Alive, L!lspVars
<1>. QED
  BY <1>1, <1>2, <1>3, <1>4, <1>5, <1>6, <1>7, <1>8, <1>9, <1>10, <1>11, <1>12,
     <1>13, <1>14, <1>15, <1>16, <1>u
  DEF L!LspNext

LEMMA TextsKnown ==
    ASSUME LspHold
    PROVE  text \in Nat /\ version \in [L!Server -> Nat] /\ \A c \in Call : call[c].pc \in {"start", "queued", "asked"} => call[c].on \in L!Server
BY CallsAre, ServersOf DEF LspHold, L!LspTypeOK

\* Texts only grow, and versions.
LEMMA TextsGrow ==
    ASSUME LspHold, [L!LspNext]_(L!lspVars)
    PROVE  text' >= text /\ \A r \in L!Server : version'[r] >= version[r]
<1>1. ASSUME NEW c \in Call, L!Ask(c)
      PROVE  text' >= text /\ \A r \in L!Server : version'[r] >= version[r]
  BY <1>1, TextsKnown DEF L!Ask, L!wire
<1>2. ASSUME NEW c \in Call, L!Enter(c)
      PROVE  text' >= text /\ \A r \in L!Server : version'[r] >= version[r]
  BY <1>2, ServersOf, TextsKnown DEF L!Enter, L!wire
<1>3. ASSUME NEW c \in Call, L!Open(c)
      PROVE  text' >= text /\ \A r \in L!Server : version'[r] >= version[r]
  BY <1>3, ServersOf, TextsKnown DEF L!Open, L!Alive, L!wire
<1>4. ASSUME NEW c \in Call, L!CannotSend(c)
      PROVE  text' >= text /\ \A r \in L!Server : version'[r] >= version[r]
  BY <1>4, ServersOf, TextsKnown DEF L!CannotSend, L!Alive, L!wire
<1>5. ASSUME NEW c \in Call, L!Respond(c)
      PROVE  text' >= text /\ \A r \in L!Server : version'[r] >= version[r]
  BY <1>5, ServersOf, TextsKnown DEF L!Respond, L!Alive, L!Answered, L!wire
<1>6. ASSUME NEW c \in Call, L!NoDiagnostics(c)
      PROVE  text' >= text /\ \A r \in L!Server : version'[r] >= version[r]
  BY <1>6, ServersOf, TextsKnown DEF L!NoDiagnostics, L!Answered, L!wire
<1>7. ASSUME NEW c \in Call, L!Timeout(c)
      PROVE  text' >= text /\ \A r \in L!Server : version'[r] >= version[r]
  BY <1>7, ServersOf, TextsKnown DEF L!Timeout, L!Dropped, L!wire
<1>8. ASSUME NEW s \in L!Server, L!Started(s)
      PROVE  text' >= text /\ \A r \in L!Server : version'[r] >= version[r]
  BY <1>8, ServersOf, TextsKnown DEF L!Started, L!wire
<1>9. ASSUME NEW s \in L!Server, L!StartFailed(s)
      PROVE  text' >= text /\ \A r \in L!Server : version'[r] >= version[r]
  BY <1>9, ServersOf, TextsKnown DEF L!StartFailed, L!Dropped, L!wire
<1>10. ASSUME NEW s \in L!Server, L!Exit(s)
      PROVE  text' >= text /\ \A r \in L!Server : version'[r] >= version[r]
  BY <1>10, ServersOf, TextsKnown DEF L!Exit, L!Alive, L!Dropped, L!wire
<1>11. ASSUME NEW s \in L!Server, L!IdleShutdown(s)
      PROVE  text' >= text /\ \A r \in L!Server : version'[r] >= version[r]
  BY <1>11, ServersOf, TextsKnown DEF L!IdleShutdown, L!wire
<1>12. ASSUME NEW s \in L!Server, L!Serve(s)
      PROVE  text' >= text /\ \A r \in L!Server : version'[r] >= version[r]
  BY <1>12, ServersOf, TextsKnown DEF L!Serve, L!Alive, L!wire
<1>13. ASSUME NEW s \in L!Server, L!Receive(s)
      PROVE  text' >= text /\ \A r \in L!Server : version'[r] >= version[r]
  BY <1>13, ServersOf, TextsKnown DEF L!Receive, L!Alive, L!Answered, L!wire
<1>14. ASSUME NEW s \in L!Server, L!CloseInput(s)
      PROVE  text' >= text /\ \A r \in L!Server : version'[r] >= version[r]
  BY <1>14, ServersOf, TextsKnown DEF L!CloseInput, L!Alive, L!wire
<1>15. ASSUME L!Shutdown
      PROVE  text' >= text /\ \A r \in L!Server : version'[r] >= version[r]
  BY <1>15, ServersOf, TextsKnown DEF L!Shutdown, L!wire
<1>16. ASSUME L!Edit
      PROVE  text' >= text /\ \A r \in L!Server : version'[r] >= version[r]
  BY <1>16, ServersOf, TextsKnown DEF L!Edit, L!wire
<1>u. ASSUME UNCHANGED L!lspVars
      PROVE  text' >= text /\ \A r \in L!Server : version'[r] >= version[r]
  BY <1>u, TextsKnown DEF L!wire, L!lspVars
<1>. QED
  BY <1>1, <1>2, <1>3, <1>4, <1>5, <1>6, <1>7, <1>8, <1>9, <1>10, <1>11, <1>12,
     <1>13, <1>14, <1>15, <1>16, <1>u
  DEF L!LspNext

LEMMA CallsFollow ==
    ASSUME LspHold, CallsStep, text' >= text, text \in Nat, text' \in Nat
    PROVE  Placed' /\ AskedBefore' /\ L!PublishedInOrder'
<1>1. ASSUME NEW x \in Call, CallStep(x)
      PROVE  /\ call'[x].pc \in {"start", "queued", "asked"} => call'[x].on \in L!Server
             /\ call'[x].text <= text'
             /\ call'[x].pc # "answered" => call'[x].how # "published"
             /\ call'[x].how = "published" => call'[x].got >= call'[x].text
  <2>1. /\ call[x].pc \in {"start", "queued", "asked"} => call[x].on \in L!Server
        /\ call[x].text <= text /\ call[x].text \in Nat
        /\ call[x].pc # "answered" => call[x].how # "published"
        /\ call[x].how = "published" => call[x].got >= call[x].text
    BY CallsAre, ServersOf
    DEF LspHold, Placed, AskedBefore, L!PublishedInOrder, CallRow
  <2>. QED
    BY <1>1, <2>1, LspAssumed DEF CallStep, Alike
<1>. QED
  BY <1>1 DEF CallsStep, Placed, AskedBefore, L!PublishedInOrder

FitsNow(s, d) ==
    /\ d[1] <= version'[s] /\ d[2] <= text'
    /\ \A x \in Call : (call'[x].pc = "asked" /\ call'[x].on = s /\ d[1] >= call'[x].at) =>
           d[2] >= call'[x].text

\* A document that fitted still does: who is sent one now has a later version.
LEMMA FitStays ==
    ASSUME LspHold, CallsStep, text' >= text, NEW s \in L!Server, version'[s] >= version[s],
           NEW d \in Nat \X L!TextNo, Fitting(s, d), version'[s] \in Nat, text' \in Nat
    PROVE  FitsNow(s, d)
<1>1. text \in Nat /\ version[s] \in Nat /\ d[1] \in Nat /\ d[2] \in Nat
  BY CallsAre, ServersOf
<1>2. ASSUME NEW x \in Call, call'[x].pc = "asked", call'[x].on = s, d[1] >= call'[x].at
      PROVE  d[2] >= call'[x].text
  <2>1. CallStep(x)
    BY DEF CallsStep
  <2>2. \/ call'[x] = call[x]
        \/ call[x].on = s /\ call'[x].at = version[s] + 1
    BY <1>2, <2>1 DEF CallStep
  <2>. QED
    BY <1>1, <1>2, <2>2 DEF Fitting
<1>. QED
  BY <1>1, <1>2 DEF Fitting, FitsNow

\* What is on its way is what was, or the head of what was sent, or the document sent now.
WireStep ==
    \/ sent' = sent /\ published' = published
    \/ \E s \in L!Server : /\ sent' = [sent EXCEPT ![s] = Append(sent[s], <<version[s] + 1, text>>)]
                           /\ published' = published
                           /\ version'[s] = version[s] + 1 /\ text' = text
    \/ \E s \in L!Server : /\ sent[s] # <<>> /\ sent' = [sent EXCEPT ![s] = Tail(sent[s])]
                           /\ published' = [published EXCEPT ![s] = Append(published[s], Head(sent[s]))]
    \/ \E s \in L!Server : /\ published[s] # <<>> /\ sent' = sent
                           /\ published' = [published EXCEPT ![s] = Tail(published[s])]

LEMMA WireGoes ==
    ASSUME LspHold, [L!LspNext]_(L!lspVars)
    PROVE  WireStep
<1>1. ASSUME NEW c \in Call, L!Ask(c) PROVE WireStep
  BY <1>1 DEF L!Ask, L!wire, WireStep
<1>2. ASSUME NEW c \in Call, L!Enter(c) PROVE WireStep
  BY <1>2 DEF L!Enter, L!wire, WireStep
<1>3. ASSUME NEW c \in Call, L!Open(c) PROVE WireStep
  <2>. DEFINE r == call[c].on
  <2>1. r \in L!Server /\ version \in [L!Server -> Nat]
    BY <1>3, CallsAre DEF L!Open, LspHold, L!LspTypeOK
  <2>2. /\ sent' = sent \/ sent' = [sent EXCEPT ![r] = Append(sent[r], <<version[r] + 1, text>>)]
        /\ version' = [version EXCEPT ![r] = version[r] + 1]
        /\ published' = published /\ text' = text
    BY <1>3 DEF L!Open
  <2>3. version'[r] = version[r] + 1
    BY <2>1, <2>2
  <2>. HIDE DEF r
  <2>. QED
    BY <2>1, <2>2, <2>3 DEF WireStep
<1>4. ASSUME NEW c \in Call, L!CannotSend(c) PROVE WireStep
  BY <1>4 DEF L!CannotSend, L!wire, WireStep
<1>5. ASSUME NEW c \in Call, L!Respond(c) PROVE WireStep
  BY <1>5 DEF L!Respond, L!wire, WireStep
<1>6. ASSUME NEW c \in Call, L!NoDiagnostics(c) PROVE WireStep
  BY <1>6 DEF L!NoDiagnostics, L!wire, WireStep
<1>7. ASSUME NEW c \in Call, L!Timeout(c) PROVE WireStep
  BY <1>7 DEF L!Timeout, L!wire, WireStep
<1>8. ASSUME NEW s \in L!Server, L!Started(s) PROVE WireStep
  BY <1>8 DEF L!Started, L!wire, WireStep
<1>9. ASSUME NEW s \in L!Server, L!StartFailed(s) PROVE WireStep
  BY <1>9 DEF L!StartFailed, L!wire, WireStep
<1>10. ASSUME NEW s \in L!Server, L!Exit(s) PROVE WireStep
  BY <1>10 DEF L!Exit, L!wire, WireStep
<1>11. ASSUME NEW s \in L!Server, L!IdleShutdown(s) PROVE WireStep
  BY <1>11 DEF L!IdleShutdown, L!wire, WireStep
<1>12. ASSUME NEW s \in L!Server, L!Serve(s) PROVE WireStep
  BY <1>12, ServersOf DEF L!Serve, L!Alive, WireStep, L!wire
<1>13. ASSUME NEW s \in L!Server, L!Receive(s) PROVE WireStep
  BY <1>13, ServersOf DEF L!Receive, L!Alive, L!Answered, WireStep, L!wire
<1>14. ASSUME NEW s \in L!Server, L!CloseInput(s) PROVE WireStep
  BY <1>14 DEF L!CloseInput, L!wire, WireStep
<1>15. ASSUME L!Shutdown PROVE WireStep
  BY <1>15 DEF L!Shutdown, L!wire, WireStep
<1>16. ASSUME L!Edit PROVE WireStep
  BY <1>16, ServersOf DEF L!Edit, L!wire, WireStep
<1>u. ASSUME UNCHANGED L!lspVars PROVE WireStep
  BY <1>u DEF WireStep, L!wire, L!lspVars
<1>. QED
  BY <1>1, <1>2, <1>3, <1>4, <1>5, <1>6, <1>7, <1>8, <1>9, <1>10, <1>11, <1>12,
     <1>13, <1>14, <1>15, <1>16, <1>u
  DEF L!LspNext

LEMMA WireStillFits ==
    ASSUME LspHold, CallsStep, WireStep, WireTyped', AskedBefore', text' >= text, text' \in Nat,
           \A s \in L!Server : version'[s] >= version[s] /\ version'[s] \in Nat
    PROVE  WireFits'
<1>. DEFINE D == Nat \X L!TextNo
<1>0. /\ sent \in [L!Server -> Seq(D)] /\ published \in [L!Server -> Seq(D)]
      /\ text \in L!TextNo /\ \A s \in L!Server : version[s] \in Nat
  BY CallsAre DEF LspHold, WireTyped
<1>1. ASSUME NEW s \in L!Server, NEW i \in 1 .. Len(sent[s])
      PROVE  sent[s][i] \in D /\ FitsNow(s, sent[s][i])
  <2>1. sent[s] \in Seq(D) /\ sent[s][i] \in D
    BY <1>0
  <2>2. Fitting(s, sent[s][i])
    BY DEF LspHold, WireFits
  <2>. QED
    BY <2>1, <2>2, FitStays
<1>2. ASSUME NEW s \in L!Server, NEW i \in 1 .. Len(published[s])
      PROVE  published[s][i] \in D /\ FitsNow(s, published[s][i])
  <2>1. published[s] \in Seq(D) /\ published[s][i] \in D
    BY <1>0
  <2>2. Fitting(s, published[s][i])
    BY DEF LspHold, WireFits
  <2>. QED
    BY <2>1, <2>2, FitStays
<1>3. SUFFICES ASSUME NEW r \in L!Server
               PROVE  /\ \A i \in 1 .. Len(sent'[r]) : FitsNow(r, sent'[r][i])
                      /\ \A i \in 1 .. Len(published'[r]) : FitsNow(r, published'[r][i])
  BY DEF WireFits, Fitting, FitsNow
<1>4. CASE sent' = sent /\ published' = published
  BY <1>1, <1>2, <1>4
<1>5. ASSUME NEW s \in L!Server, sent' = [sent EXCEPT ![s] = Append(sent[s], <<version[s] + 1, text>>)],
             published' = published, version'[s] = version[s] + 1, text' = text
      PROVE  /\ \A i \in 1 .. Len(sent'[r]) : FitsNow(r, sent'[r][i])
             /\ \A i \in 1 .. Len(published'[r]) : FitsNow(r, published'[r][i])
  <2>1. FitsNow(s, <<version[s] + 1, text>>)
    <3>1. \A x \in Call : call'[x].text <= text' /\ call'[x].text \in Nat
      BY ServersOf DEF AskedBefore, CallsStep, CallRow
    <3>. QED
      BY <1>5, <1>0, <3>1, ServersOf DEF FitsNow
  <2>. DEFINE doc == <<version[s] + 1, text>>
  <2>2. doc \in D
    BY <1>0
  <2>. HIDE DEF doc, D
  <2>3. /\ Len(Append(sent[s], doc)) = Len(sent[s]) + 1 /\ Len(sent[s]) \in Nat
        /\ \A i \in 1 .. Len(sent[s]) : Append(sent[s], doc)[i] = sent[s][i]
        /\ Append(sent[s], doc)[Len(sent[s]) + 1] = doc
    BY <1>0, <2>2
  <2>4. \A i \in 1 .. Len(sent[s]) + 1 : i \in 1 .. Len(sent[s]) \/ i = Len(sent[s]) + 1
    BY <2>3
  <2>5. sent'[s] = Append(sent[s], doc) /\ (r # s => sent'[r] = sent[r])
    BY <1>5, <1>0 DEF doc
  <2>6. FitsNow(s, doc)
    BY <2>1 DEF doc
  <2>. QED
    BY <1>5, <1>1, <1>2, <2>3, <2>4, <2>5, <2>6
<1>6. ASSUME NEW s \in L!Server, published[s] # <<>>, sent' = sent,
             published' = [published EXCEPT ![s] = Tail(published[s])]
      PROVE  /\ \A i \in 1 .. Len(sent'[r]) : FitsNow(r, sent'[r][i])
             /\ \A i \in 1 .. Len(published'[r]) : FitsNow(r, published'[r][i])
  <2>1. published'[s] = Tail(published[s]) /\ (r # s => published'[r] = published[r])
    BY <1>6, <1>0
  <2>2. \A i \in 1 .. Len(Tail(published[s])) :
            Tail(published[s])[i] = published[s][i + 1] /\ i + 1 \in 1 .. Len(published[s])
    BY <1>6, <1>0
  <2>. QED
    BY <1>6, <1>1, <1>2, <2>1, <2>2
<1>7. ASSUME NEW s \in L!Server, sent[s] # <<>>, sent' = [sent EXCEPT ![s] = Tail(sent[s])],
             published' = [published EXCEPT ![s] = Append(published[s], Head(sent[s]))]
      PROVE  /\ \A i \in 1 .. Len(sent'[r]) : FitsNow(r, sent'[r][i])
             /\ \A i \in 1 .. Len(published'[r]) : FitsNow(r, published'[r][i])
  <2>. DEFINE doc == Head(sent[s])
  <2>1. /\ sent'[s] = Tail(sent[s]) /\ (r # s => sent'[r] = sent[r])
        /\ published'[s] = Append(published[s], doc) /\ (r # s => published'[r] = published[r])
    BY <1>7, <1>0
  <2>2. \A i \in 1 .. Len(Tail(sent[s])) :
            Tail(sent[s])[i] = sent[s][i + 1] /\ i + 1 \in 1 .. Len(sent[s])
    BY <1>7, <1>0
  <2>3. doc = sent[s][1] /\ 1 \in 1 .. Len(sent[s]) /\ doc \in D
    BY <1>7, <1>0
  <2>4. FitsNow(s, doc)
    BY <2>3, <1>1
  <2>. HIDE DEF doc, D
  <2>5. /\ Len(Append(published[s], doc)) = Len(published[s]) + 1 /\ Len(published[s]) \in Nat
        /\ \A i \in 1 .. Len(published[s]) : Append(published[s], doc)[i] = published[s][i]
        /\ Append(published[s], doc)[Len(published[s]) + 1] = doc
    BY <1>0, <2>3
  <2>6. \A i \in 1 .. Len(published[s]) + 1 : i \in 1 .. Len(published[s]) \/ i = Len(published[s]) + 1
    BY <2>5
  <2>7. CASE r = s
    <3>1. \A i \in 1 .. Len(sent'[r]) : FitsNow(r, sent'[r][i])
      BY <1>1, <2>1, <2>2, <2>7
    <3>2. ASSUME NEW i \in 1 .. Len(published'[r]) PROVE FitsNow(r, published'[r][i])
      <4>1. i \in 1 .. Len(published[s]) \/ i = Len(published[s]) + 1
        BY <2>1, <2>5, <2>6, <2>7
      <4>2. CASE i \in 1 .. Len(published[s])
        BY <1>2, <2>1, <2>5, <2>7, <4>2
      <4>3. CASE i = Len(published[s]) + 1
        BY <2>1, <2>4, <2>5, <2>7, <4>3
      <4>. QED
        BY <4>1, <4>2, <4>3
    <3>. QED
      BY <3>1, <3>2
  <2>8. CASE r # s
    BY <1>1, <1>2, <2>1, <2>8
  <2>. QED
    BY <2>7, <2>8
<1>. QED
  BY <1>4, <1>5, <1>6, <1>7 DEF WireStep

LEMMA LspInductive ==
    /\ L!LspInit => LspHold
    /\ LspHold /\ [L!LspNext]_(L!lspVars) => LspHold'
<1>1. ASSUME L!LspInit PROVE LspHold
  <2>0. L!NoCall \in CallRow
    BY ServersOf DEF L!NoCall, CallRow, CallPc
  <2>1. L!LspTypeOK
    <3>1. call \in [Call -> CallRow]
      BY <1>1, <2>0 DEF L!LspInit
    <3>2. queue \in [L!Server -> Seq(Call)]
      <4>1. queue = [s \in L!Server |-> <<>>] /\ <<>> \in Seq(Call)
        BY <1>1 DEF L!LspInit
      <4>. QED
        BY <4>1
    <3>4. version \in [L!Server -> Nat] /\ phase \in [L!Server -> {"none", "starting", "ready", "dead"}]
          /\ input \in [L!Server -> {"open", "closed", "destroyed"}]
      BY <1>1 DEF L!LspInit
    <3>5. current \in L!Server \cup {None} /\ told \subseteq L!Server /\ text \in L!TextNo
          /\ closed \in BOOLEAN /\ daemon \in {"up", "down"}
      BY <1>1, ServersOf DEF L!LspInit
    <3>. QED
      BY <3>1, <3>2, <3>4, <3>5 DEF L!LspTypeOK, CallRow, CallPc
  <2>2. WireTyped /\ WireFits
    BY <1>1, ServersOf DEF L!LspInit, WireTyped, WireFits
  <2>3. Placed /\ AskedBefore /\ L!NoStrayServer /\ L!PublishedInOrder
    BY <1>1, ServersOf, LspAssumed
    DEF L!LspInit, Placed, AskedBefore, L!NoStrayServer, L!PublishedInOrder,
        L!NoCall, L!Alive
  <2>. QED
    BY <2>1, <2>2, <2>3 DEF LspHold
<1>2. ASSUME LspHold, [L!LspNext]_(L!lspVars) PROVE LspHold'
  <2>1. CallsStep /\ queue' \in [L!Server -> Seq(Call)] /\ WireTyped' /\ RestTyped' /\ L!NoStrayServer'
    BY <1>2, CallsGo, QueuesStayTyped, WireStaysTyped, RestStaysTyped, StrayStep
  <2>2. L!LspTypeOK'
    BY <2>1 DEF L!LspTypeOK, RestTyped, CallsStep, CallRow, CallPc
  <2>3. /\ text' >= text /\ \A s \in L!Server : version'[s] >= version[s] /\ version'[s] \in Nat
        /\ text \in Nat /\ text' \in Nat
    BY <1>2, <2>1, TextsGrow, TextsKnown, ServersOf DEF RestTyped
  <2>4. Placed' /\ AskedBefore' /\ L!PublishedInOrder'
    BY <1>2, <2>1, <2>3, CallsFollow
  <2>5. WireFits'
    BY <1>2, <2>1, <2>3, <2>4, WireGoes, WireStillFits
  <2>. QED
    BY <2>1, <2>2, <2>4, <2>5 DEF LspHold
<1>. QED
  BY <1>1, <1>2

-----------------------------------------------------------------------------
(* The runs of subagents.                                                  *)

\* A step has left, and is on its way or has taken effect.
Used(r, n) == effects[<<r, n>>] # 0 \/ <<r, n>> \in flying
\* A payload is ahead of the steps that have left, but for the one it calls unknown.
Ahead(r, pay) ==
    \A n \in A!Step : Used(r, n) => n < pay.at \/ (n = pay.at /\ pay.unknown)
\* A run: an execution works on what its row says, a row is ahead of its steps,
\* and lists the job that runs for it.
RunKept(r) ==
    /\ row[r] # None => Ahead(r, row[r].pay) /\ (row[r].status = "queued" => ~ row[r].pay.unknown)
    /\ row[r] = None => \A n \in A!Step : ~ Used(r, n)
    /\ live[r] # None =>
          /\ row[r] # None /\ row[r].pay = live[r].pay
          /\ (live[r].pc = "asked") <=> live[r].pay.unknown
          /\ live[r].pc = "asked" => live[r].pay.at < MaxSteps /\ ~ live[r].pay.job
          /\ live[r].pc # "lease" => runtime = "open"
    /\ r \in jobs => row[r] # None /\ row[r].pay.job
    /\ \A n \in A!Step : /\ effects[<<r, n>>] <= 1
                         /\ <<r, n>> \in flying => effects[<<r, n>>] = 0
\* Controls that wait hold the payload that is in the row.
WaitsFit ==
    \A w \in waiting : /\ row[w.run] # None => w.pay = row[w.run].pay
                       /\ w.act = "resume" => ~ w.pay.unknown
AgentsHold == (\A r \in Run : RunKept(r)) /\ WaitsFit /\ A!JobsStopped

LEMMA AgentsAssumed == MaxSteps \in Nat /\ None \notin A!Row /\ None \notin A!Working
BY Assumed DEF A!SubagentsAssumption

LEMMA PaysAre ==
    /\ \A pay \in A!Pay : pay.at \in A!Step /\ pay.at \in Nat /\ pay.unknown \in BOOLEAN /\ pay.job \in BOOLEAN
    /\ A!Payload(0) \in A!Pay /\ ~ A!Payload(0).unknown /\ A!Payload(0).at = 0
    /\ A!Step \subseteq Nat
    /\ \A pay \in A!Pay : pay.at < MaxSteps => pay.at + 1 \in A!Step
BY AgentsAssumed DEF A!Pay, A!Payload, A!Step

\* What the type says of a run.
LEMMA RunsAre ==
    ASSUME A!SubagentsTypeOK
    PROVE  \A r \in Run :
              /\ row[r] # None => row[r] \in A!Row /\ row[r].pay \in A!Pay
              /\ live[r] # None =>
                    /\ live[r] \in A!Working /\ live[r].pay \in A!Pay
                    /\ live[r].pc \in {"lease", "loop", "asked"}
              /\ \A n \in A!Step : <<r, n>> \in Run \X A!Step /\ effects[<<r, n>>] \in Nat
BY DEF A!SubagentsTypeOK, A!Row, A!Working

\* The statuses of a row.
RowStatus == A!Terminal \cup A!Parked \cup {"queued", "running"}

LEMMA SavedIs ==
    ASSUME A!SubagentsTypeOK, NEW r \in Run, row[r] # None, NEW st \in RowStatus, NEW pay \in A!Pay,
           row' = A!Saved(r, st, pay)
    PROVE  /\ row' \in [Run -> {None} \cup A!Row] /\ row'[r] # None /\ row'[r].status = st
           /\ row'[r].pay = pay /\ \A q \in Run \ {r} : row'[q] = row[q]
<1>1. [status |-> st, pay |-> pay] \in A!Row
  BY DEF A!Row, RowStatus
<1>2. row' = [row EXCEPT ![r] = [status |-> st, pay |-> pay]]
  BY DEF A!Saved
<1>. QED
  BY <1>1, <1>2, AgentsAssumed DEF A!SubagentsTypeOK

LEMMA WorksOn ==
    ASSUME A!SubagentsTypeOK, NEW r \in Run, NEW v \in {None} \cup A!Working,
           live' = [live EXCEPT ![r] = v]
    PROVE  live' \in [Run -> {None} \cup A!Working] /\ live'[r] = v
           /\ \A q \in Run \ {r} : live'[q] = live[q]
BY DEF A!SubagentsTypeOK

\* What a run keeps it keeps while nothing of it changes.
LEMMA RunStays ==
    ASSUME NEW r \in Run, RunKept(r),
           row'[r] = row[r], live'[r] = live[r], runtime' = runtime,
           r \in jobs' => r \in jobs,
           \A n \in A!Step : /\ effects'[<<r, n>>] = effects[<<r, n>>]
                             /\ <<r, n>> \in flying' <=> <<r, n>> \in flying
    PROVE  RunKept(r)'
BY DEF RunKept, Used, Ahead

\* An execution ends: its row is saved with a payload that is ahead of its steps.
LEMMA EndKeeps ==
    ASSUME A!SubagentsTypeOK, AgentsHold, NEW r \in Run, live[r] # None, waiting = {},
           NEW st \in RowStatus \ {"queued"}, NEW pay \in A!Pay, A!End(r, st, pay),
           UNCHANGED <<waiting, runtime, agentDaemon, effects, stopped>>,
           flying' \subseteq flying,
           \A q \in Run \ {r} : \A n \in A!Step : <<q, n>> \in flying' <=> <<q, n>> \in flying,
           \A n \in A!Step : Used(r, n)' => n < pay.at \/ (n = pay.at /\ pay.unknown),
           r \in jobs => pay.job
    PROVE  (A!SubagentsTypeOK /\ AgentsHold)'
<1>1. RunKept(r) /\ row[r] # None
  BY DEF AgentsHold, RunKept
<1>2. /\ row' \in [Run -> {None} \cup A!Row] /\ row'[r] # None /\ row'[r].status = st
      /\ row'[r].pay = pay /\ \A q \in Run \ {r} : row'[q] = row[q]
  BY <1>1, SavedIs DEF A!End
<1>3. /\ live' \in [Run -> {None} \cup A!Working] /\ live'[r] = None
      /\ \A q \in Run \ {r} : live'[q] = live[q]
  BY WorksOn DEF A!End
<1>4. /\ jobs' \subseteq jobs /\ \A q \in Run \ {r} : (q \in jobs' <=> q \in jobs)
      /\ r \in jobs' => r \in jobs /\ st \notin {"canceled", "failed"}
  BY DEF A!End
<1>5. A!SubagentsTypeOK'
  BY <1>2, <1>3, <1>4 DEF A!SubagentsTypeOK
<1>6. RunKept(r)'
  BY <1>1, <1>2, <1>3, <1>4, RunsAre DEF RunKept, Used, Ahead
<1>7. ASSUME NEW q \in Run \ {r} PROVE RunKept(q)'
  BY <1>2, <1>3, <1>4, <1>7, RunStays DEF AgentsHold
<1>8. WaitsFit'
  BY DEF WaitsFit
<1>9. A!JobsStopped'
  BY <1>2, <1>3, <1>4 DEF A!JobsStopped, AgentsHold
<1>. QED
  BY <1>5, <1>6, <1>7, <1>8, <1>9 DEF AgentsHold

\* An execution goes on with a payload that is ahead of its steps.
LEMMA RunGoesOn ==
    ASSUME A!SubagentsTypeOK, AgentsHold, NEW r \in Run, live[r] # None, waiting = {},
           runtime = "open", NEW v \in A!Working, row' = A!Saved(r, "running", v.pay),
           live' = [live EXCEPT ![r] = v],
           v.pc = "asked" <=> v.pay.unknown,
           v.pc = "asked" => v.pay.at < MaxSteps /\ ~ v.pay.job,
           UNCHANGED <<waiting, runtime, agentDaemon, effects, stopped>>,
           flying' \subseteq Run \X A!Step, jobs' \subseteq Run,
           \A q \in Run \ {r} : /\ \A n \in A!Step : <<q, n>> \in flying' <=> <<q, n>> \in flying
                                /\ q \in jobs' => q \in jobs,
           \A n \in A!Step : /\ Used(r, n)' => n < v.pay.at \/ (n = v.pay.at /\ v.pay.unknown)
                             /\ <<r, n>> \in flying' => effects[<<r, n>>] = 0,
           r \in jobs' => v.pay.job
    PROVE  (A!SubagentsTypeOK /\ AgentsHold)'
<1>1. RunKept(r) /\ row[r] # None /\ v.pay \in A!Pay
  BY DEF AgentsHold, RunKept, A!Working
<1>2. /\ row' \in [Run -> {None} \cup A!Row] /\ row'[r] # None /\ row'[r].status = "running"
      /\ row'[r].pay = v.pay /\ \A q \in Run \ {r} : row'[q] = row[q]
  BY <1>1, SavedIs DEF RowStatus
<1>3. /\ live' \in [Run -> {None} \cup A!Working] /\ live'[r] = v /\ v # None
      /\ \A q \in Run \ {r} : live'[q] = live[q]
  BY WorksOn, AgentsAssumed
<1>5. A!SubagentsTypeOK'
  BY <1>2, <1>3 DEF A!SubagentsTypeOK
<1>6. RunKept(r)'
  BY <1>1, <1>2, <1>3, RunsAre DEF RunKept, Used, Ahead
<1>7. ASSUME NEW q \in Run \ {r} PROVE RunKept(q)'
  BY <1>2, <1>3, <1>7, RunStays DEF AgentsHold
<1>8. WaitsFit'
  BY DEF WaitsFit
<1>9. A!JobsStopped'
  BY <1>2, <1>3 DEF A!JobsStopped, AgentsHold
<1>. QED
  BY <1>5, <1>6, <1>7, <1>8, <1>9 DEF AgentsHold

\* The status written when an execution was told to stop, or was not.
LEMMA StopIs ==
    ASSUME A!SubagentsTypeOK, NEW r \in Run, live[r] # None, NEW st \in RowStatus \ {"queued"}
    PROVE  A!AfterStop(r, st) \in RowStatus \ {"queued"}
<1>1. live[r].requested \in {None, "paused", "canceled"}
  BY RunsAre DEF A!Working
<1>. QED
  BY <1>1 DEF A!AfterStop, RowStatus, A!Terminal, A!Parked

\* An execution runs only when no control waits.
LEMMA InTheLoop ==
    ASSUME A!SubagentsTypeOK, AgentsHold, NEW r \in Run, A!InLoop(r) \/ A!Asked(r)
    PROVE  /\ live[r] # None /\ waiting = {} /\ runtime = "open" /\ RunKept(r)
           /\ live[r].pay \in A!Pay /\ (r \in jobs => live[r].pay.job)
           /\ \A n \in A!Step : Used(r, n) => n < live[r].pay.at \/ (n = live[r].pay.at /\ live[r].pay.unknown)
BY RunsAre DEF AgentsHold, RunKept, Ahead, A!InLoop, A!Asked, A!Settled

\* Only the flight of the step asked for ends.
LEMMA HereIs ==
    ASSUME A!SubagentsTypeOK, NEW r \in Run, live[r] # None
    PROVE  /\ A!Here(r) \subseteq flying /\ <<r, live[r].pay.at>> \notin A!Here(r)
           /\ \A q \in Run \ {r} : \A n \in A!Step : (<<q, n>> \in A!Here(r) <=> <<q, n>> \in flying)
           /\ \A n \in A!Step \ {live[r].pay.at} : (<<r, n>> \in A!Here(r) <=> <<r, n>> \in flying)
BY DEF A!Here

LEMMA Records ==
    ASSUME NEW p \in A!Pay, p.at < MaxSteps, NEW j \in BOOLEAN
    PROVE  /\ A!Recorded(p, j) \in A!Pay /\ A!Recorded(p, j).at = p.at + 1
           /\ ~ A!Recorded(p, j).unknown /\ A!Recorded(p, j).job = j
BY PaysAre DEF A!Recorded, A!Pay

LEMMA Known ==
    ASSUME NEW p \in A!Pay
    PROVE  LET k == [p EXCEPT !.unknown = FALSE] IN
           k \in A!Pay /\ k.at = p.at /\ ~ k.unknown /\ k.job = p.job
BY DEF A!Pay

LEMMA AgentLeaseKeeps ==
    ASSUME A!SubagentsTypeOK, AgentsHold, NEW r \in Run, A!Lease(r)
    PROVE  (A!SubagentsTypeOK /\ AgentsHold)'
<1>1. /\ live[r] # None /\ live[r].pc = "lease" /\ runtime = "open" /\ waiting = {}
      /\ UNCHANGED <<waiting, runtime, agentDaemon, flying, effects, stopped>>
  BY DEF A!Lease, A!Settled, A!Bounds
<1>2. /\ RunKept(r) /\ row[r] # None /\ live[r] \in A!Working /\ live[r].pay \in A!Pay
      /\ \A n \in A!Step : Used(r, n) => n < live[r].pay.at
  BY <1>1, RunsAre DEF AgentsHold, RunKept, Ahead
<1>3. CASE A!End(r, A!AfterStop(r, "failed"), live[r].pay)
  <2>1. A!AfterStop(r, "failed") \in RowStatus \ {"queued"}
    BY <1>1, StopIs DEF RowStatus, A!Terminal
  <2>2. (r \in jobs => live[r].pay.job) /\ \A n \in A!Step : Used(r, n)' => n < live[r].pay.at
    BY <1>1, <1>2 DEF RunKept, Used
  <2>. QED
    BY <1>1, <1>2, <1>3, <2>1, <2>2, EndKeeps
<1>4. CASE live' = [live EXCEPT ![r].pc = "loop"] /\ UNCHANGED <<row, jobs>>
  <2>. DEFINE v == [live[r] EXCEPT !.pc = "loop"]
  <2>1. v \in A!Working /\ v.pc = "loop" /\ v.pay = live[r].pay /\ v # None
    BY <1>2, AgentsAssumed DEF A!Working
  <2>2. live' = [live EXCEPT ![r] = v]
    BY <1>4
  <2>. HIDE DEF v
  <2>3. /\ live' \in [Run -> {None} \cup A!Working] /\ live'[r] = v
        /\ \A q \in Run \ {r} : live'[q] = live[q]
    BY <2>1, <2>2, WorksOn
  <2>4. A!SubagentsTypeOK'
    BY <1>1, <1>4, <2>3 DEF A!SubagentsTypeOK
  <2>5. RunKept(r)'
    BY <1>1, <1>2, <1>4, <2>1, <2>3 DEF RunKept, Used, Ahead
  <2>6. ASSUME NEW q \in Run \ {r} PROVE RunKept(q)'
    BY <1>1, <1>4, <2>3, <2>6, RunStays DEF AgentsHold
  <2>7. WaitsFit' /\ A!JobsStopped'
    BY <1>1, <1>4, <2>1, <2>3 DEF WaitsFit, A!JobsStopped, AgentsHold
  <2>. QED
    BY <2>4, <2>5, <2>6, <2>7 DEF AgentsHold
<1>. QED
  BY <1>3, <1>4 DEF A!Lease

LEMMA AgentStoppedKeeps ==
    ASSUME A!SubagentsTypeOK, AgentsHold, NEW r \in Run, A!Stopped(r)
    PROVE  (A!SubagentsTypeOK /\ AgentsHold)'
<1>1. A!InLoop(r) /\ A!End(r, A!AfterStop(r, "paused"), live[r].pay)
      /\ UNCHANGED <<waiting, runtime, agentDaemon, flying, effects, stopped>>
  BY DEF A!Stopped, A!Bounds
<1>2. A!AfterStop(r, "paused") \in RowStatus \ {"queued"}
  BY <1>1, InTheLoop, StopIs DEF RowStatus, A!Parked
<1>3. \A n \in A!Step : Used(r, n)' => Used(r, n)
  BY <1>1 DEF Used
<1>. QED
  BY <1>1, <1>2, <1>3, InTheLoop, EndKeeps

LEMMA AgentJobSeenKeeps ==
    ASSUME A!SubagentsTypeOK, AgentsHold, NEW r \in Run, A!JobSeen(r)
    PROVE  (A!SubagentsTypeOK /\ AgentsHold)'
<1>. DEFINE pay == [live[r].pay EXCEPT !.job = FALSE]
            v == [live[r] EXCEPT !.pay = pay]
<1>1. /\ A!InLoop(r) /\ r \notin jobs /\ live' = [live EXCEPT ![r].pay = pay]
      /\ row' = A!Saved(r, "running", pay)
      /\ UNCHANGED <<waiting, runtime, agentDaemon, jobs, flying, effects, stopped>>
  BY DEF A!JobSeen, A!Bounds, A!Outside
<1>2. /\ live[r] \in A!Working /\ live[r].pay \in A!Pay /\ live[r].pc = "loop" /\ RunKept(r) /\ live[r] # None
  BY <1>1, InTheLoop, RunsAre DEF A!InLoop
<1>3. pay \in A!Pay /\ pay.at = live[r].pay.at /\ ~ pay.unknown
  BY <1>2 DEF A!Pay, RunKept
<1>. HIDE DEF pay
<1>4. v \in A!Working /\ v.pc = "loop" /\ v.pay = pay
  BY <1>2, <1>3 DEF A!Working
<1>5. live' = [live EXCEPT ![r] = v]
  BY <1>1
<1>. HIDE DEF v
<1>6. \A n \in A!Step : /\ Used(r, n)' => n < v.pay.at
                        /\ <<r, n>> \in flying' => effects[<<r, n>>] = 0
  BY <1>1, <1>2, <1>3, <1>4, InTheLoop DEF Used, RunKept
<1>7. flying' \subseteq Run \X A!Step /\ jobs' \subseteq Run
  BY <1>1 DEF A!SubagentsTypeOK
<1>. QED
  BY <1>1, <1>2, <1>3, <1>4, <1>5, <1>6, <1>7, InTheLoop, RunGoesOn

LEMMA AgentLeaveKeeps ==
    ASSUME A!SubagentsTypeOK, AgentsHold, NEW r \in Run, A!Leave(r)
    PROVE  (A!SubagentsTypeOK /\ AgentsHold)'
<1>. DEFINE pay == [live[r].pay EXCEPT !.unknown = TRUE]
            v == [live[r] EXCEPT !.pay = pay, !.pc = "asked"]
<1>1. /\ A!InLoop(r) /\ ~ live[r].pay.job /\ live[r].pay.at < MaxSteps
      /\ live' = [live EXCEPT ![r].pay = pay, ![r].pc = "asked"]
      /\ row' = A!Saved(r, "running", pay) /\ flying' = flying \cup {<<r, live[r].pay.at>>}
      /\ UNCHANGED <<waiting, runtime, agentDaemon, jobs, effects, stopped>>
  BY DEF A!Leave, A!Ready, A!Bounds
<1>2. /\ live[r] \in A!Working /\ live[r].pay \in A!Pay /\ live[r].pc = "loop" /\ RunKept(r) /\ live[r] # None
  BY <1>1, InTheLoop, RunsAre DEF A!InLoop
<1>3. pay \in A!Pay /\ pay.at = live[r].pay.at /\ pay.unknown /\ ~ pay.job /\ ~ live[r].pay.unknown
  BY <1>1, <1>2 DEF A!Pay, RunKept
<1>. HIDE DEF pay
<1>4. v \in A!Working /\ v.pc = "asked" /\ v.pay = pay
  BY <1>2, <1>3 DEF A!Working
<1>5. live' = [live EXCEPT ![r] = v]
  BY <1>1
<1>. HIDE DEF v
<1>6. live[r].pay.at \in A!Step /\ live[r].pay.at \in Nat
  BY <1>2, PaysAre
<1>7. ~ Used(r, live[r].pay.at)
  BY <1>1, <1>3, <1>6, InTheLoop
<1>8. \A n \in A!Step : /\ Used(r, n)' => n < v.pay.at \/ n = v.pay.at
                        /\ <<r, n>> \in flying' => effects[<<r, n>>] = 0
  BY <1>1, <1>2, <1>3, <1>4, <1>7, InTheLoop DEF Used, RunKept
<1>9. flying' \subseteq Run \X A!Step /\ jobs' \subseteq Run
  BY <1>1, <1>6 DEF A!SubagentsTypeOK
<1>10. \A q \in Run \ {r} : \A n \in A!Step : <<q, n>> \in flying' <=> <<q, n>> \in flying
  BY <1>1
<1>11. r \in jobs' => v.pay.job
  BY <1>1, <1>2, InTheLoop
<1>. QED
  BY <1>1, <1>2, <1>3, <1>4, <1>5, <1>8, <1>9, <1>10, <1>11, InTheLoop, RunGoesOn

LEMMA AgentRefusedKeeps ==
    ASSUME A!SubagentsTypeOK, AgentsHold, NEW r \in Run, A!Refused(r)
    PROVE  (A!SubagentsTypeOK /\ AgentsHold)'
<1>1. PICK st \in {"failed", "waiting_auth"} : A!End(r, A!AfterStop(r, st), live[r].pay)
  BY DEF A!Refused
<1>2. A!InLoop(r) /\ UNCHANGED <<waiting, runtime, agentDaemon, flying, effects, stopped>>
  BY DEF A!Refused, A!Ready, A!Bounds
<1>3. A!AfterStop(r, st) \in RowStatus \ {"queued"}
  BY <1>2, InTheLoop, StopIs DEF RowStatus, A!Parked, A!Terminal
<1>4. \A n \in A!Step : Used(r, n)' => Used(r, n)
  BY <1>2 DEF Used
<1>. QED
  BY <1>1, <1>2, <1>3, <1>4, InTheLoop, EndKeeps

LEMMA AgentAnswerKeeps ==
    ASSUME A!SubagentsTypeOK, AgentsHold, NEW r \in Run, A!Answer(r)
    PROVE  (A!SubagentsTypeOK /\ AgentsHold)'
<1>1. A!Asked(r) /\ ~ A!Flying(r) /\ UNCHANGED <<waiting, runtime, agentDaemon, flying, effects, stopped>>
  BY DEF A!Answer, A!Bounds
<1>2. /\ live[r] \in A!Working /\ live[r].pay \in A!Pay /\ live[r].pc = "asked" /\ RunKept(r) /\ live[r] # None
      /\ live[r].pay.unknown /\ live[r].pay.at < MaxSteps /\ ~ live[r].pay.job /\ r \notin jobs
      /\ live[r].pay.at \in A!Step /\ live[r].pay.at \in Nat
  BY <1>1, InTheLoop, RunsAre, PaysAre DEF A!Asked, RunKept
<1>3. PICK j \in BOOLEAN, last \in BOOLEAN :
        /\ last => ~ j
        /\ LET pay == A!Recorded(live[r].pay, j) IN
           IF last THEN A!End(r, "completed", pay)
           ELSE /\ row' = A!Saved(r, "running", pay)
                /\ live' = [live EXCEPT ![r].pay = pay, ![r].pc = "loop"]
                /\ jobs' = IF j THEN jobs \cup {r} ELSE jobs
  BY DEF A!Answer
<1>. DEFINE pay == A!Recorded(live[r].pay, j)
            v == [live[r] EXCEPT !.pay = pay, !.pc = "loop"]
<1>4. pay \in A!Pay /\ pay.at = live[r].pay.at + 1 /\ ~ pay.unknown /\ pay.job = j
  BY <1>2, Records
<1>. HIDE DEF pay
<1>5. v \in A!Working /\ v.pc = "loop" /\ v.pay = pay
  BY <1>2, <1>4 DEF A!Working
<1>6. \A n \in A!Step : /\ Used(r, n)' => n < pay.at
                        /\ <<r, n>> \in flying' => effects[<<r, n>>] = 0
  <2>1. \A n \in A!Step : Used(r, n)' => Used(r, n)
    BY <1>1 DEF Used
  <2>2. \A n \in A!Step : Used(r, n) => n < live[r].pay.at + 1
    BY <1>1, <1>2, InTheLoop, PaysAre
  <2>3. \A n \in A!Step : <<r, n>> \in flying' => effects[<<r, n>>] = 0
    BY <1>1, <1>2 DEF RunKept
  <2>. QED
    BY <1>4, <2>1, <2>2, <2>3
<1>7. CASE last
  <2>1. A!End(r, "completed", pay)
    BY <1>3, <1>7 DEF pay
  <2>2. "completed" \in RowStatus \ {"queued"}
    BY DEF RowStatus, A!Terminal
  <2>. QED
    BY <1>1, <1>2, <1>4, <1>6, <2>1, <2>2, InTheLoop, EndKeeps
<1>8. CASE ~ last
  <2>1. row' = A!Saved(r, "running", v.pay) /\ live' = [live EXCEPT ![r] = v]
        /\ jobs' = IF j THEN jobs \cup {r} ELSE jobs
    BY <1>3, <1>5, <1>8 DEF pay
  <2>. HIDE DEF v
  <2>2. flying' \subseteq Run \X A!Step /\ jobs' \subseteq Run
    BY <1>1, <2>1 DEF A!SubagentsTypeOK
  <2>3. (r \in jobs' => v.pay.job) /\ \A q \in Run \ {r} : q \in jobs' => q \in jobs
    BY <1>2, <1>4, <1>5, <2>1
  <2>. QED
    BY <1>1, <1>2, <1>4, <1>5, <1>6, <2>1, <2>2, <2>3, InTheLoop, RunGoesOn
<1>. QED
  BY <1>7, <1>8

LEMMA AgentDeclinedKeeps ==
    ASSUME A!SubagentsTypeOK, AgentsHold, NEW r \in Run, A!Declined(r)
    PROVE  (A!SubagentsTypeOK /\ AgentsHold)'
<1>1. A!Asked(r) /\ A!Flying(r) /\ flying' = A!Here(r)
      /\ UNCHANGED <<waiting, runtime, agentDaemon, jobs, effects, stopped>>
  BY DEF A!Declined, A!Bounds
<1>2. /\ live[r] \in A!Working /\ live[r].pay \in A!Pay /\ live[r].pc = "asked" /\ RunKept(r) /\ live[r] # None
      /\ live[r].pay.unknown /\ live[r].pay.at < MaxSteps /\ ~ live[r].pay.job /\ r \notin jobs
      /\ live[r].pay.at \in A!Step /\ live[r].pay.at \in Nat
  BY <1>1, InTheLoop, RunsAre, PaysAre DEF A!Asked, RunKept
<1>. DEFINE pay == A!Recorded(live[r].pay, FALSE)
            v == [live[r] EXCEPT !.pay = pay, !.pc = "loop"]
<1>3. live' = [live EXCEPT ![r].pay = pay, ![r].pc = "loop"] /\ row' = A!Saved(r, "running", pay)
  BY DEF A!Declined
<1>4. pay \in A!Pay /\ pay.at = live[r].pay.at + 1 /\ ~ pay.unknown /\ ~ pay.job
  BY <1>2, Records
<1>. HIDE DEF pay
<1>5. v \in A!Working /\ v.pc = "loop" /\ v.pay = pay
  BY <1>2, <1>4 DEF A!Working
<1>6. live' = [live EXCEPT ![r] = v]
  BY <1>3
<1>. HIDE DEF v
<1>7. flying' \subseteq flying /\ flying' \subseteq Run \X A!Step /\ jobs' \subseteq Run
  BY <1>1, <1>2, HereIs DEF A!SubagentsTypeOK
<1>8. \A n \in A!Step : /\ Used(r, n)' => n < v.pay.at
                        /\ <<r, n>> \in flying' => effects[<<r, n>>] = 0
  <2>1. \A n \in A!Step : Used(r, n)' => Used(r, n)
    BY <1>1, <1>7 DEF Used
  <2>2. \A n \in A!Step : Used(r, n) => n < live[r].pay.at + 1
    BY <1>1, <1>2, InTheLoop, PaysAre
  <2>3. \A n \in A!Step : <<r, n>> \in flying' => effects[<<r, n>>] = 0
    BY <1>7, <1>2 DEF RunKept
  <2>. QED
    BY <1>4, <1>5, <2>1, <2>2, <2>3
<1>9. \A q \in Run \ {r} : \A n \in A!Step : <<q, n>> \in flying' <=> <<q, n>> \in flying
  BY <1>1, <1>2, HereIs
<1>. QED
  BY <1>1, <1>2, <1>3, <1>4, <1>5, <1>6, <1>7, <1>8, <1>9, InTheLoop, RunGoesOn

LEMMA AgentNeedsApprovalKeeps ==
    ASSUME A!SubagentsTypeOK, AgentsHold, NEW r \in Run, A!NeedsApproval(r)
    PROVE  (A!SubagentsTypeOK /\ AgentsHold)'
<1>1. A!Asked(r) /\ A!Flying(r) /\ flying' = A!Here(r)
      /\ UNCHANGED <<waiting, runtime, agentDaemon, effects, stopped>>
  BY DEF A!NeedsApproval, A!Bounds
<1>2. /\ live[r] \in A!Working /\ live[r].pay \in A!Pay /\ live[r].pc = "asked" /\ RunKept(r) /\ live[r] # None
      /\ live[r].pay.unknown /\ live[r].pay.at < MaxSteps /\ ~ live[r].pay.job /\ r \notin jobs
      /\ live[r].pay.at \in A!Step /\ live[r].pay.at \in Nat
  BY <1>1, InTheLoop, RunsAre, PaysAre DEF A!Asked, RunKept
<1>. DEFINE pay == [live[r].pay EXCEPT !.unknown = FALSE]
<1>3. pay \in A!Pay /\ pay.at = live[r].pay.at /\ ~ pay.unknown
  BY <1>2, Known
<1>4. PICK st \in RowStatus \ {"queued"} : A!End(r, st, pay)
  BY DEF A!NeedsApproval, RowStatus, A!Parked
<1>. HIDE DEF pay
<1>5. flying' \subseteq flying
      /\ \A q \in Run \ {r} : \A n \in A!Step : <<q, n>> \in flying' <=> <<q, n>> \in flying
  BY <1>1, <1>2, HereIs
<1>6. effects[<<r, live[r].pay.at>>] = 0 /\ <<r, live[r].pay.at>> \notin flying'
  BY <1>1, <1>2, HereIs DEF A!Flying, RunKept
<1>7. ASSUME NEW n \in A!Step, Used(r, n)' PROVE n < pay.at
  <2>1. Used(r, n) /\ n # live[r].pay.at
    BY <1>1, <1>5, <1>6, <1>7 DEF Used
  <2>. QED
    BY <1>1, <1>3, <2>1, InTheLoop
<1>. QED
  BY <1>1, <1>2, <1>3, <1>4, <1>5, <1>7, InTheLoop, EndKeeps

LEMMA AgentRejectedKeeps ==
    ASSUME A!SubagentsTypeOK, AgentsHold, NEW r \in Run, A!Rejected(r)
    PROVE  (A!SubagentsTypeOK /\ AgentsHold)'
<1>1. A!Asked(r) /\ A!Flying(r) /\ flying' = A!Here(r)
      /\ UNCHANGED <<waiting, runtime, agentDaemon, effects, stopped>>
  BY DEF A!Rejected, A!Bounds
<1>2. /\ live[r] \in A!Working /\ live[r].pay \in A!Pay /\ live[r].pc = "asked" /\ RunKept(r) /\ live[r] # None
      /\ live[r].pay.unknown /\ live[r].pay.at < MaxSteps /\ ~ live[r].pay.job /\ r \notin jobs
      /\ live[r].pay.at \in A!Step /\ live[r].pay.at \in Nat
  BY <1>1, InTheLoop, RunsAre, PaysAre DEF A!Asked, RunKept
<1>. DEFINE pay == [live[r].pay EXCEPT !.unknown = FALSE]
<1>3. pay \in A!Pay /\ pay.at = live[r].pay.at /\ ~ pay.unknown
  BY <1>2, Known
<1>4. PICK st \in RowStatus \ {"queued"} : A!End(r, st, pay)
  BY <1>2, StopIs DEF A!Rejected, RowStatus, A!Parked, A!Terminal
<1>. HIDE DEF pay
<1>5. flying' \subseteq flying
      /\ \A q \in Run \ {r} : \A n \in A!Step : <<q, n>> \in flying' <=> <<q, n>> \in flying
  BY <1>1, <1>2, HereIs
<1>6. effects[<<r, live[r].pay.at>>] = 0 /\ <<r, live[r].pay.at>> \notin flying'
  BY <1>1, <1>2, HereIs DEF A!Flying, RunKept
<1>7. ASSUME NEW n \in A!Step, Used(r, n)' PROVE n < pay.at
  <2>1. Used(r, n) /\ n # live[r].pay.at
    BY <1>1, <1>5, <1>6, <1>7 DEF Used
  <2>. QED
    BY <1>1, <1>3, <2>1, InTheLoop
<1>. QED
  BY <1>1, <1>2, <1>3, <1>4, <1>5, <1>7, InTheLoop, EndKeeps

LEMMA AgentUnknownKeeps ==
    ASSUME A!SubagentsTypeOK, AgentsHold, NEW r \in Run, A!Unknown(r)
    PROVE  (A!SubagentsTypeOK /\ AgentsHold)'
<1>1. A!Asked(r) /\ UNCHANGED <<waiting, runtime, agentDaemon, flying, effects, stopped>>
  BY DEF A!Unknown, A!Bounds
<1>2. PICK st \in RowStatus \ {"queued"} : A!End(r, st, live[r].pay)
  BY <1>1, InTheLoop, StopIs DEF A!Unknown, RowStatus, A!Parked, A!Terminal
<1>3. \A n \in A!Step : Used(r, n)' => Used(r, n)
  BY <1>1 DEF Used
<1>. QED
  BY <1>1, <1>2, <1>3, InTheLoop, EndKeeps

LEMMA AgentRuntimeOpensKeeps ==
    ASSUME A!SubagentsTypeOK, AgentsHold, A!RuntimeOpens
    PROVE  (A!SubagentsTypeOK /\ AgentsHold)'
<1>1. runtime = "opening" /\ runtime' = "open"
      /\ UNCHANGED <<row, live, waiting, agentDaemon, jobs, flying, effects, stopped>>
  BY DEF A!RuntimeOpens, A!Outside, A!Bounds
<1>2. A!SubagentsTypeOK'
  BY <1>1 DEF A!SubagentsTypeOK
<1>. QED
  BY <1>1, <1>2 DEF AgentsHold, RunKept, Ahead, Used, WaitsFit, A!JobsStopped

LEMMA AgentRuntimeClosesKeeps ==
    ASSUME A!SubagentsTypeOK, AgentsHold, A!RuntimeCloses
    PROVE  (A!SubagentsTypeOK /\ AgentsHold)'
<1>1. (\A r \in Run : live[r] = None) /\ runtime' = "closed"
      /\ UNCHANGED <<row, live, waiting, agentDaemon, jobs, flying, effects, stopped>>
  BY DEF A!RuntimeCloses, A!Outside, A!Bounds, A!Active
<1>2. A!SubagentsTypeOK'
  BY <1>1 DEF A!SubagentsTypeOK
<1>. QED
  BY <1>1, <1>2 DEF AgentsHold, RunKept, Ahead, Used, WaitsFit, A!JobsStopped

LEMMA AgentOpenRuntimeKeeps ==
    ASSUME A!SubagentsTypeOK, AgentsHold, A!OpenRuntime
    PROVE  (A!SubagentsTypeOK /\ AgentsHold)'
<1>1. runtime = "closed" /\ runtime' = "opening"
      /\ UNCHANGED <<row, live, waiting, agentDaemon, jobs, flying, effects, stopped>>
  BY DEF A!OpenRuntime, A!Outside, A!Bounds
<1>2. A!SubagentsTypeOK'
  BY <1>1 DEF A!SubagentsTypeOK
<1>. QED
  BY <1>1, <1>2 DEF AgentsHold, RunKept, Ahead, Used, WaitsFit, A!JobsStopped

LEMMA AgentSpawnKeeps ==
    ASSUME A!SubagentsTypeOK, AgentsHold, NEW r \in Run, A!Spawn(r)
    PROVE  (A!SubagentsTypeOK /\ AgentsHold)'
<1>. DEFINE new == [status |-> "queued", pay |-> A!Payload(0)]
<1>1. /\ waiting = {} /\ row[r] = None /\ row' = [row EXCEPT ![r] = new]
      /\ UNCHANGED <<live, waiting, runtime, agentDaemon, jobs, flying, effects, stopped>>
  BY DEF A!Spawn, A!Settled, A!Outside, A!Bounds
<1>2. new \in A!Row /\ new # None /\ new.status = "queued" /\ new.pay = A!Payload(0)
  BY PaysAre, AgentsAssumed DEF A!Row
<1>. HIDE DEF new
<1>3. /\ row' \in [Run -> {None} \cup A!Row] /\ row'[r] = new /\ \A q \in Run \ {r} : row'[q] = row[q]
  BY <1>1, <1>2 DEF A!SubagentsTypeOK
<1>4. A!SubagentsTypeOK'
  BY <1>1, <1>3 DEF A!SubagentsTypeOK
<1>5. RunKept(r)'
  BY <1>1, <1>2, <1>3, PaysAre DEF AgentsHold, RunKept, Ahead, Used
<1>6. ASSUME NEW q \in Run \ {r} PROVE RunKept(q)'
  BY <1>1, <1>3, <1>6, RunStays DEF AgentsHold
<1>7. WaitsFit' /\ A!JobsStopped'
  BY <1>1, <1>2, <1>3 DEF WaitsFit, A!JobsStopped, AgentsHold
<1>. QED
  BY <1>4, <1>5, <1>6, <1>7 DEF AgentsHold

LEMMA AgentResumeKeeps ==
    ASSUME A!SubagentsTypeOK, AgentsHold, NEW r \in Run, A!Resume(r)
    PROVE  (A!SubagentsTypeOK /\ AgentsHold)'
<1>. DEFINE w == [run |-> r, act |-> "resume", pay |-> row[r].pay]
<1>1. /\ row[r] # None /\ ~ row[r].pay.unknown /\ waiting' = waiting \cup {w}
      /\ runtime' = A!Opening /\ stopped' = stopped \ {r} /\ live[r] = None
      /\ row[r].status \notin A!Terminal
      /\ UNCHANGED <<row, live, agentDaemon, jobs, flying, effects>>
  BY DEF A!Resume, A!Outside
<1>2. w \in A!Wait /\ w.run = r /\ w.act = "resume" /\ w.pay = row[r].pay
  BY <1>1, RunsAre DEF A!Wait
<1>. HIDE DEF w
<1>3. runtime' \in {"closed", "opening", "open"} /\ (runtime = "open" => runtime' = "open")
  BY <1>1 DEF A!Opening, A!SubagentsTypeOK
<1>4. A!SubagentsTypeOK'
  BY <1>1, <1>2, <1>3 DEF A!SubagentsTypeOK
<1>5. \A q \in Run : RunKept(q)'
  BY <1>1, <1>3 DEF AgentsHold, RunKept, Ahead, Used
<1>6. WaitsFit'
  BY <1>1, <1>2 DEF AgentsHold, WaitsFit
<1>7. A!JobsStopped'
  BY <1>1 DEF A!JobsStopped, AgentsHold
<1>. QED
  BY <1>4, <1>5, <1>6, <1>7 DEF AgentsHold

\* A row is saved once more, with the payload it has.
LEMMA SavedAgain ==
    ASSUME A!SubagentsTypeOK, AgentsHold, NEW r \in Run, NEW st \in RowStatus,
           row' = A!Saved(r, st, row[r].pay),
           row[r] # None => (st = "queued" => ~ row[r].pay.unknown),
           UNCHANGED <<flying, effects>>, jobs' \subseteq jobs,
           \A q \in Run : /\ live[q] = None <=> live'[q] = None
                          /\ live[q] # None => live'[q].pc = live[q].pc /\ live'[q].pay = live[q].pay,
           runtime = "open" => runtime' = "open"
    PROVE  /\ row' \in [Run -> {None} \cup A!Row]
           /\ \A q \in Run : /\ row'[q] = None <=> row[q] = None
                             /\ row[q] # None => row'[q].pay = row[q].pay
           /\ \A q \in Run \ {r} : row'[q] = row[q]
           /\ row[r] # None => row'[r].status = st
           /\ \A q \in Run : RunKept(q)'
<1>1. CASE row[r] = None
  <2>1. row' = row
    BY <1>1 DEF A!Saved, A!SubagentsTypeOK
  <2>. QED
    BY <1>1, <2>1 DEF A!SubagentsTypeOK, AgentsHold, RunKept, Ahead, Used
<1>2. CASE row[r] # None
  <2>1. row[r].pay \in A!Pay
    BY <1>2, RunsAre
  <2>2. /\ row' \in [Run -> {None} \cup A!Row] /\ row'[r] # None /\ row'[r].status = st
        /\ row'[r].pay = row[r].pay /\ \A q \in Run \ {r} : row'[q] = row[q]
    BY <1>2, <2>1, SavedIs
  <2>3. RunKept(r)'
    BY <1>2, <2>2 DEF AgentsHold, RunKept, Ahead, Used
  <2>4. ASSUME NEW q \in Run \ {r} PROVE RunKept(q)'
    BY <2>2, <2>4 DEF AgentsHold, RunKept, Ahead, Used
  <2>. QED
    BY <1>2, <2>2, <2>3, <2>4
<1>. QED
  BY <1>1, <1>2

LEMMA AgentResumedKeeps ==
    ASSUME A!SubagentsTypeOK, AgentsHold, NEW w \in waiting, A!Resumed(w)
    PROVE  (A!SubagentsTypeOK /\ AgentsHold)'
<1>1. /\ w.act = "resume" /\ row' = A!Saved(w.run, "queued", w.pay) /\ waiting' = waiting \ {w}
      /\ UNCHANGED <<live, runtime, agentDaemon, jobs, flying, effects, stopped>>
  BY DEF A!Resumed, A!Outside, A!Bounds
<1>2. /\ w.run \in Run /\ w.pay \in A!Pay /\ ~ w.pay.unknown
      /\ row[w.run] # None => w.pay = row[w.run].pay
  BY <1>1 DEF A!SubagentsTypeOK, A!Wait, AgentsHold, WaitsFit
<1>3. PICK r \in Run : r = w.run
  BY <1>2
<1>4. row' = A!Saved(r, "queued", row[r].pay)
  BY <1>1, <1>2, <1>3 DEF A!Saved, A!SubagentsTypeOK
<1>5. /\ row' \in [Run -> {None} \cup A!Row]
      /\ \A q \in Run : /\ row'[q] = None <=> row[q] = None
                        /\ row[q] # None => row'[q].pay = row[q].pay
      /\ \A q \in Run \ {r} : row'[q] = row[q]
      /\ row[r] # None => row'[r].status = "queued"
      /\ \A q \in Run : RunKept(q)'
  BY <1>1, <1>2, <1>3, <1>4, SavedAgain DEF RowStatus
<1>6. A!SubagentsTypeOK'
  BY <1>1, <1>5 DEF A!SubagentsTypeOK
<1>7. WaitsFit'
  BY <1>1, <1>5 DEF AgentsHold, WaitsFit, A!SubagentsTypeOK, A!Wait
<1>8. A!JobsStopped'
  BY <1>1, <1>3, <1>5 DEF AgentsHold, A!JobsStopped
<1>. QED
  BY <1>5, <1>6, <1>7, <1>8 DEF AgentsHold

LEMMA AgentCanceledKeeps ==
    ASSUME A!SubagentsTypeOK, AgentsHold, NEW w \in waiting, A!Canceled(w)
    PROVE  (A!SubagentsTypeOK /\ AgentsHold)'
<1>1. /\ w.act = "cancel" /\ jobs' = (IF w.pay.job THEN jobs \ {w.run} ELSE jobs) /\ waiting' = waiting \ {w}
      /\ UNCHANGED <<row, live, runtime, agentDaemon, flying, effects, stopped>>
  BY DEF A!Canceled, A!Bounds
<1>2. A!SubagentsTypeOK'
  BY <1>1 DEF A!SubagentsTypeOK
<1>3. \A q \in Run : RunKept(q)'
  BY <1>1 DEF AgentsHold, RunKept, Ahead, Used
<1>4. WaitsFit'
  BY <1>1 DEF AgentsHold, WaitsFit
<1>5. A!JobsStopped'
  <2>1. w.run \in Run /\ (w.run \in jobs => w.pay.job)
    BY DEF A!SubagentsTypeOK, A!Wait, AgentsHold, WaitsFit, RunKept
  <2>. QED
    BY <1>1, <2>1 DEF AgentsHold, A!JobsStopped
<1>. QED
  BY <1>2, <1>3, <1>4, <1>5 DEF AgentsHold

\* An execution is told to stop.
LEMMA HaltIs ==
    ASSUME A!SubagentsTypeOK, NEW r \in Run, NEW st \in {"paused", "canceled"}, A!Halt(r, st)
    PROVE  /\ live' \in [Run -> {None} \cup A!Working]
           /\ \A q \in Run : /\ live[q] = None <=> live'[q] = None
                             /\ live[q] # None => live'[q].pc = live[q].pc /\ live'[q].pay = live[q].pay
           /\ row' = A!Saved(r, st, row[r].pay) /\ row[r] # None
           /\ UNCHANGED <<agentDaemon, jobs, flying, effects>> /\ stopped' = stopped \cup {r}
<1>1. /\ row' = A!Saved(r, st, row[r].pay) /\ row[r] # None
      /\ live' = [live EXCEPT ![r] = IF @ = None THEN None ELSE [@ EXCEPT !.requested = st, !.aborted = TRUE]]
      /\ UNCHANGED <<agentDaemon, jobs, flying, effects>> /\ stopped' = stopped \cup {r}
  BY DEF A!Halt, A!Outside
<1>2. CASE live[r] = None
  <2>1. live' = live
    BY <1>1, <1>2 DEF A!SubagentsTypeOK
  <2>. QED
    BY <1>1, <2>1 DEF A!SubagentsTypeOK
<1>3. CASE live[r] # None
  <2>. DEFINE v == [live[r] EXCEPT !.requested = st, !.aborted = TRUE]
  <2>1. v \in A!Working /\ v.pc = live[r].pc /\ v.pay = live[r].pay /\ v # None
    BY <1>3, RunsAre, AgentsAssumed DEF A!Working
  <2>2. live' = [live EXCEPT ![r] = v]
    BY <1>1, <1>3
  <2>. HIDE DEF v
  <2>3. /\ live' \in [Run -> {None} \cup A!Working] /\ live'[r] = v
        /\ \A q \in Run \ {r} : live'[q] = live[q]
    BY <2>1, <2>2, WorksOn
  <2>. QED
    BY <1>1, <1>3, <2>1, <2>3
<1>. QED
  BY <1>2, <1>3

LEMMA AgentPauseKeeps ==
    ASSUME A!SubagentsTypeOK, AgentsHold, NEW r \in Run, A!Pause(r)
    PROVE  (A!SubagentsTypeOK /\ AgentsHold)'
<1>1. A!Halt(r, "paused") /\ UNCHANGED <<waiting, runtime>>
  BY DEF A!Pause
<1>2. /\ live' \in [Run -> {None} \cup A!Working]
      /\ \A q \in Run : /\ live[q] = None <=> live'[q] = None
                        /\ live[q] # None => live'[q].pc = live[q].pc /\ live'[q].pay = live[q].pay
      /\ row' = A!Saved(r, "paused", row[r].pay) /\ row[r] # None
      /\ UNCHANGED <<agentDaemon, jobs, flying, effects>> /\ stopped' = stopped \cup {r}
  BY <1>1, HaltIs
<1>3. /\ row' \in [Run -> {None} \cup A!Row]
      /\ \A q \in Run : /\ row'[q] = None <=> row[q] = None
                        /\ row[q] # None => row'[q].pay = row[q].pay
      /\ \A q \in Run \ {r} : row'[q] = row[q]
      /\ row'[r].status = "paused"
      /\ \A q \in Run : RunKept(q)'
  BY <1>1, <1>2, SavedAgain DEF RowStatus, A!Parked
<1>4. A!SubagentsTypeOK'
  BY <1>1, <1>2, <1>3 DEF A!SubagentsTypeOK
<1>5. WaitsFit'
  BY <1>1, <1>3 DEF AgentsHold, WaitsFit, A!SubagentsTypeOK, A!Wait
<1>6. A!JobsStopped'
  BY <1>1, <1>2, <1>3 DEF AgentsHold, A!JobsStopped
<1>. QED
  BY <1>3, <1>4, <1>5, <1>6 DEF AgentsHold

LEMMA AgentCancelKeeps ==
    ASSUME A!SubagentsTypeOK, AgentsHold, NEW r \in Run, A!Cancel(r)
    PROVE  (A!SubagentsTypeOK /\ AgentsHold)'
<1>. DEFINE w == [run |-> r, act |-> "cancel", pay |-> row[r].pay]
<1>1. A!Halt(r, "canceled") /\ runtime' = A!Opening /\ waiting' = waiting \cup {w}
  BY DEF A!Cancel
<1>2. /\ live' \in [Run -> {None} \cup A!Working]
      /\ \A q \in Run : /\ live[q] = None <=> live'[q] = None
                        /\ live[q] # None => live'[q].pc = live[q].pc /\ live'[q].pay = live[q].pay
      /\ row' = A!Saved(r, "canceled", row[r].pay) /\ row[r] # None
      /\ UNCHANGED <<agentDaemon, jobs, flying, effects>> /\ stopped' = stopped \cup {r}
  BY <1>1, HaltIs
<1>3. runtime' \in {"closed", "opening", "open"} /\ (runtime = "open" => runtime' = "open")
  BY <1>1 DEF A!Opening, A!SubagentsTypeOK
<1>4. /\ row' \in [Run -> {None} \cup A!Row]
      /\ \A q \in Run : /\ row'[q] = None <=> row[q] = None
                        /\ row[q] # None => row'[q].pay = row[q].pay
      /\ \A q \in Run \ {r} : row'[q] = row[q]
      /\ \A q \in Run : RunKept(q)'
  BY <1>1, <1>2, <1>3, SavedAgain DEF RowStatus, A!Terminal
<1>5. w \in A!Wait /\ w.run = r /\ w.act = "cancel" /\ w.pay = row[r].pay
  BY <1>2, RunsAre DEF A!Wait
<1>. HIDE DEF w
<1>6. A!SubagentsTypeOK'
  BY <1>1, <1>2, <1>3, <1>4, <1>5 DEF A!SubagentsTypeOK
<1>7. WaitsFit'
  BY <1>1, <1>2, <1>4, <1>5 DEF AgentsHold, WaitsFit, A!SubagentsTypeOK, A!Wait
<1>8. A!JobsStopped'
  BY <1>1, <1>2, <1>4, <1>5 DEF AgentsHold, A!JobsStopped
<1>. QED
  BY <1>4, <1>6, <1>7, <1>8 DEF AgentsHold

LEMMA AgentDeleteKeeps ==
    ASSUME A!SubagentsTypeOK, AgentsHold, NEW r \in Run, A!Delete(r)
    PROVE  (A!SubagentsTypeOK /\ AgentsHold)'
<1>1. /\ row' = [row EXCEPT ![r] = None] /\ live[r] = None
      /\ effects' = [s \in Run \X A!Step |-> IF s[1] = r THEN 0 ELSE effects[s]]
      /\ flying' = {s \in flying : s[1] # r} /\ jobs' = jobs \ {r} /\ stopped' = stopped \ {r}
      /\ UNCHANGED <<live, waiting, runtime, agentDaemon>>
  BY DEF A!Delete
<1>2. /\ row' \in [Run -> {None} \cup A!Row] /\ row'[r] = None /\ \A q \in Run \ {r} : row'[q] = row[q]
      /\ effects' \in [Run \X A!Step -> Nat]
      /\ \A n \in A!Step : effects'[<<r, n>>] = 0 /\ <<r, n>> \notin flying'
      /\ \A q \in Run \ {r} : \A n \in A!Step : /\ effects'[<<q, n>>] = effects[<<q, n>>]
                                                /\ <<q, n>> \in flying' <=> <<q, n>> \in flying
  BY <1>1 DEF A!SubagentsTypeOK
<1>3. A!SubagentsTypeOK'
  BY <1>1, <1>2 DEF A!SubagentsTypeOK
<1>4. RunKept(r)'
  BY <1>1, <1>2 DEF RunKept, Used
<1>5. ASSUME NEW q \in Run \ {r} PROVE RunKept(q)'
  BY <1>1, <1>2, <1>5, RunStays DEF AgentsHold
<1>6. WaitsFit'
  BY <1>1, <1>2 DEF AgentsHold, WaitsFit, A!SubagentsTypeOK, A!Wait
<1>7. A!JobsStopped'
  BY <1>1, <1>2 DEF AgentsHold, A!JobsStopped
<1>. QED
  BY <1>3, <1>4, <1>5, <1>6, <1>7 DEF AgentsHold

LEMMA AgentPumpKeeps ==
    ASSUME A!SubagentsTypeOK, AgentsHold, NEW r \in Run, A!Pump(r)
    PROVE  (A!SubagentsTypeOK /\ AgentsHold)'
<1>1. /\ row[r] # None /\ row[r].status = "queued" /\ live[r] = None
      /\ UNCHANGED <<waiting, agentDaemon, jobs, flying, effects, stopped>>
  BY DEF A!Pump, A!Outside, A!Bounds
<1>2. row[r].pay \in A!Pay /\ RunKept(r) /\ ~ row[r].pay.unknown
  BY <1>1, RunsAre DEF AgentsHold, RunKept
<1>. DEFINE v == [pc |-> "lease", pay |-> row[r].pay, aborted |-> FALSE, requested |-> None]
<1>w. v \in A!Working
  BY <1>2 DEF A!Working
<1>3. v \in A!Working /\ v.pc = "lease" /\ v.pay = row[r].pay /\ v # None
  BY <1>w, AgentsAssumed
<1>4. \/ row' = A!Saved(r, "running", row[r].pay) /\ live' = [live EXCEPT ![r] = v] /\ runtime' = A!Opening
      \/ row' = A!Saved(r, "waiting_auth", row[r].pay) /\ UNCHANGED <<live, runtime>>
  BY DEF A!Pump
<1>. HIDE DEF v
<1>5. CASE row' = A!Saved(r, "running", row[r].pay) /\ live' = [live EXCEPT ![r] = v] /\ runtime' = A!Opening
  <2>1. /\ row' \in [Run -> {None} \cup A!Row] /\ row'[r] # None /\ row'[r].status = "running"
        /\ row'[r].pay = row[r].pay /\ \A q \in Run \ {r} : row'[q] = row[q]
    BY <1>1, <1>2, <1>5, SavedIs DEF RowStatus
  <2>2. /\ live' \in [Run -> {None} \cup A!Working] /\ live'[r] = v
        /\ \A q \in Run \ {r} : live'[q] = live[q]
    BY <1>3, <1>5, WorksOn
  <2>3. runtime' \in {"closed", "opening", "open"} /\ (runtime = "open" => runtime' = "open")
    BY <1>5 DEF A!Opening, A!SubagentsTypeOK
  <2>4. A!SubagentsTypeOK'
    BY <1>1, <2>1, <2>2, <2>3 DEF A!SubagentsTypeOK
  <2>5. RunKept(r)'
    BY <1>1, <1>2, <1>3, <2>1, <2>2 DEF RunKept, Ahead, Used
  <2>6. ASSUME NEW q \in Run \ {r} PROVE RunKept(q)'
    BY <1>1, <2>1, <2>2, <2>3, <2>6 DEF AgentsHold, RunKept, Ahead, Used
  <2>7. WaitsFit'
    BY <1>1, <2>1 DEF AgentsHold, WaitsFit, A!SubagentsTypeOK, A!Wait
  <2>8. A!JobsStopped'
    BY <1>1, <1>3, <2>1, <2>2 DEF AgentsHold, A!JobsStopped
  <2>. QED
    BY <2>4, <2>5, <2>6, <2>7, <2>8 DEF AgentsHold
<1>6. CASE row' = A!Saved(r, "waiting_auth", row[r].pay) /\ UNCHANGED <<live, runtime>>
  <2>1. /\ row' \in [Run -> {None} \cup A!Row]
        /\ \A q \in Run : /\ row'[q] = None <=> row[q] = None
                          /\ row[q] # None => row'[q].pay = row[q].pay
        /\ \A q \in Run \ {r} : row'[q] = row[q]
        /\ row'[r].status = "waiting_auth"
        /\ \A q \in Run : RunKept(q)'
    BY <1>1, <1>6, SavedAgain DEF RowStatus, A!Parked
  <2>2. A!SubagentsTypeOK'
    BY <1>1, <1>6, <2>1 DEF A!SubagentsTypeOK
  <2>3. WaitsFit'
    BY <1>1, <2>1 DEF AgentsHold, WaitsFit, A!SubagentsTypeOK, A!Wait
  <2>4. A!JobsStopped'
    BY <1>1, <1>6, <2>1 DEF AgentsHold, A!JobsStopped
  <2>. QED
    BY <2>1, <2>2, <2>3, <2>4 DEF AgentsHold
<1>. QED
  BY <1>4, <1>5, <1>6

LEMMA AgentJobExitsKeeps ==
    ASSUME A!SubagentsTypeOK, AgentsHold, NEW r \in Run, A!JobExits(r)
    PROVE  (A!SubagentsTypeOK /\ AgentsHold)'
<1>1. jobs' = jobs \ {r}
      /\ UNCHANGED <<row, live, waiting, runtime, agentDaemon, flying, effects, stopped>>
  BY DEF A!JobExits, A!Bounds
<1>2. A!SubagentsTypeOK'
  BY <1>1 DEF A!SubagentsTypeOK
<1>. QED
  BY <1>1, <1>2 DEF AgentsHold, RunKept, Ahead, Used, WaitsFit, A!JobsStopped

LEMMA AgentLandKeeps ==
    ASSUME A!SubagentsTypeOK, AgentsHold, NEW s \in flying, A!Land(s)
    PROVE  (A!SubagentsTypeOK /\ AgentsHold)'
<1>1. /\ flying' = flying \ {s} /\ effects' = [effects EXCEPT ![s] = @ + 1] /\ s \in flying
      /\ UNCHANGED <<row, live, waiting, runtime, agentDaemon, jobs, stopped>>
  BY DEF A!Land, A!Bounds
<1>2. s \in Run \X A!Step /\ effects[s] \in Nat
  BY <1>1 DEF A!SubagentsTypeOK
<1>3. PICK r \in Run, n \in A!Step : s = <<r, n>>
  BY <1>2
<1>4. effects[<<r, n>>] = 0
  BY <1>1, <1>3 DEF AgentsHold, RunKept
<1>5. /\ effects' \in [Run \X A!Step -> Nat] /\ effects'[<<r, n>>] = 1
      /\ \A t \in Run \X A!Step : t # s => effects'[t] = effects[t] /\ (t \in flying' <=> t \in flying)
  BY <1>1, <1>2, <1>3, <1>4 DEF A!SubagentsTypeOK
<1>6. A!SubagentsTypeOK'
  BY <1>1, <1>5 DEF A!SubagentsTypeOK
<1>7. \A q \in Run : \A m \in A!Step : /\ Used(q, m)' => Used(q, m)
                                       /\ effects'[<<q, m>>] <= 1
                                       /\ <<q, m>> \in flying' => effects'[<<q, m>>] = 0
  <2>. TAKE q \in Run
  <2>. TAKE m \in A!Step
  <2>1. CASE <<q, m>> = s
    BY <1>1, <1>3, <1>5, <2>1 DEF Used
  <2>2. CASE <<q, m>> # s
    BY <1>5, <2>2 DEF Used, AgentsHold, RunKept
  <2>. QED
    BY <2>1, <2>2
<1>8. \A q \in Run : RunKept(q)'
  BY <1>1, <1>7 DEF AgentsHold, RunKept, Ahead
<1>9. WaitsFit' /\ A!JobsStopped'
  BY <1>1 DEF AgentsHold, WaitsFit, A!JobsStopped
<1>. QED
  BY <1>6, <1>8, <1>9 DEF AgentsHold

LEMMA AgentCloseKeeps ==
    ASSUME A!SubagentsTypeOK, AgentsHold, A!Close
    PROVE  (A!SubagentsTypeOK /\ AgentsHold)'
<1>1. /\ agentDaemon' = "closing"
      /\ live' = [r \in Run |-> IF live[r] = None THEN None ELSE [live[r] EXCEPT !.aborted = TRUE]]
      /\ UNCHANGED <<row, waiting, runtime, jobs, flying, effects, stopped>>
  BY DEF A!Close, A!Outside
<1>2. \A r \in Run : live[r] # None =>
        LET v == [live[r] EXCEPT !.aborted = TRUE] IN
        v \in A!Working /\ v # None /\ v.pc = live[r].pc /\ v.pay = live[r].pay
  BY RunsAre, AgentsAssumed DEF A!Working
<1>3. /\ live' \in [Run -> {None} \cup A!Working]
      /\ \A q \in Run : /\ live[q] = None <=> live'[q] = None
                        /\ live[q] # None => live'[q].pc = live[q].pc /\ live'[q].pay = live[q].pay
  BY <1>1, <1>2
<1>4. A!SubagentsTypeOK'
  BY <1>1, <1>3 DEF A!SubagentsTypeOK
<1>. QED
  BY <1>1, <1>3, <1>4 DEF AgentsHold, RunKept, Ahead, Used, WaitsFit, A!JobsStopped

\* Rows that are called interrupted keep their payloads.
LEMMA InterruptedIs ==
    ASSUME A!SubagentsTypeOK, NEW some, row' = A!Interrupted(some)
    PROVE  /\ row' \in [Run -> {None} \cup A!Row]
           /\ \A q \in Run : /\ row'[q] = None <=> row[q] = None
                             /\ row[q] # None => /\ row'[q].pay = row[q].pay
                                                 /\ row'[q].status \in {row[q].status, "interrupted"}
<1>1. \A r \in Run : row[r] # None =>
        LET v == [row[r] EXCEPT !.status = "interrupted"] IN
        v \in A!Row /\ v # None /\ v.pay = row[r].pay /\ v.status = "interrupted"
  BY RunsAre, AgentsAssumed DEF A!Row, A!Parked
<1>2. row \in [Run -> {None} \cup A!Row]
  BY DEF A!SubagentsTypeOK
<1>. QED
  BY <1>1, <1>2 DEF A!Interrupted

LEMMA AgentClosedKeeps ==
    ASSUME A!SubagentsTypeOK, AgentsHold, A!Closed
    PROVE  (A!SubagentsTypeOK /\ AgentsHold)'
<1>1. /\ \A r \in Run : live[r] = None
      /\ agentDaemon' = "down" /\ waiting' = {} /\ runtime' = "closed" /\ jobs' = {}
      /\ UNCHANGED <<live, flying, effects, stopped>>
  BY DEF A!Closed, A!Active, A!Bounds
<1>2. /\ row' \in [Run -> {None} \cup A!Row]
      /\ \A q \in Run : /\ row'[q] = None <=> row[q] = None
                        /\ row[q] # None => /\ row'[q].pay = row[q].pay
                                            /\ row'[q].status \in {row[q].status, "interrupted"}
  BY InterruptedIs DEF A!Closed
<1>3. A!SubagentsTypeOK'
  BY <1>1, <1>2 DEF A!SubagentsTypeOK
<1>. QED
  BY <1>1, <1>2, <1>3 DEF AgentsHold, RunKept, Ahead, Used, WaitsFit, A!JobsStopped

LEMMA AgentCrashKeeps ==
    ASSUME A!SubagentsTypeOK, AgentsHold, A!Crash
    PROVE  (A!SubagentsTypeOK /\ AgentsHold)'
<1>1. /\ live' = [r \in Run |-> None]
      /\ agentDaemon' = "down" /\ waiting' = {} /\ runtime' = "closed" /\ jobs' = {}
      /\ UNCHANGED <<row, flying, effects, stopped>>
  BY DEF A!Crash
<1>2. A!SubagentsTypeOK'
  BY <1>1 DEF A!SubagentsTypeOK
<1>. QED
  BY <1>1, <1>2 DEF AgentsHold, RunKept, Ahead, Used, WaitsFit, A!JobsStopped

LEMMA AgentRestartKeeps ==
    ASSUME A!SubagentsTypeOK, AgentsHold, A!Restart
    PROVE  (A!SubagentsTypeOK /\ AgentsHold)'
<1>1. /\ agentDaemon' = "up"
      /\ UNCHANGED <<live, waiting, runtime, jobs, flying, effects, stopped>>
  BY DEF A!Restart, A!Outside, A!Bounds
<1>2. /\ row' \in [Run -> {None} \cup A!Row]
      /\ \A q \in Run : /\ row'[q] = None <=> row[q] = None
                        /\ row[q] # None => /\ row'[q].pay = row[q].pay
                                            /\ row'[q].status \in {row[q].status, "interrupted"}
  BY InterruptedIs DEF A!Restart
<1>3. A!SubagentsTypeOK'
  BY <1>1, <1>2 DEF A!SubagentsTypeOK
<1>4. \A r \in Run : RunKept(r)'
  BY <1>1, <1>2 DEF AgentsHold, RunKept, Ahead, Used
<1>5. WaitsFit'
  BY <1>1, <1>2 DEF AgentsHold, WaitsFit, A!SubagentsTypeOK, A!Wait
<1>6. A!JobsStopped'
  BY <1>1, <1>2 DEF AgentsHold, A!JobsStopped
<1>. QED
  BY <1>3, <1>4, <1>5, <1>6 DEF AgentsHold

LEMMA AgentsInductive ==
    /\ A!SubagentsInit => A!SubagentsTypeOK /\ AgentsHold
    /\ A!SubagentsTypeOK /\ AgentsHold /\ [A!SubagentsNext]_(A!agentVars)
         => (A!SubagentsTypeOK /\ AgentsHold)'
<1>1. ASSUME A!SubagentsInit PROVE A!SubagentsTypeOK /\ AgentsHold
  <2>1. A!SubagentsTypeOK
    BY <1>1 DEF A!SubagentsInit, A!SubagentsTypeOK
  <2>2. \A r \in Run : RunKept(r)
    BY <1>1 DEF A!SubagentsInit, RunKept, Used
  <2>3. WaitsFit /\ A!JobsStopped
    BY <1>1 DEF A!SubagentsInit, WaitsFit, A!JobsStopped
  <2>. QED
    BY <2>1, <2>2, <2>3 DEF AgentsHold
<1>2. ASSUME A!SubagentsTypeOK, AgentsHold, UNCHANGED A!agentVars
      PROVE  (A!SubagentsTypeOK /\ AgentsHold)'
  <2>1. UNCHANGED <<row, live, waiting, runtime, agentDaemon, jobs, flying, effects, stopped>>
    BY <1>2 DEF A!agentVars
  <2>. QED
    BY <1>2, <2>1
    DEF A!SubagentsTypeOK, AgentsHold, RunKept, Ahead, Used, WaitsFit, A!JobsStopped
<1>3. ASSUME A!SubagentsTypeOK, AgentsHold, NEW r \in Run, A!Execution(r)
      PROVE  (A!SubagentsTypeOK /\ AgentsHold)'
  BY <1>3, AgentLeaseKeeps, AgentStoppedKeeps, AgentJobSeenKeeps, AgentLeaveKeeps,
     AgentRefusedKeeps, AgentAnswerKeeps, AgentDeclinedKeeps,
     AgentNeedsApprovalKeeps, AgentRejectedKeeps, AgentUnknownKeeps
  DEF A!Execution
<1>4. ASSUME A!SubagentsTypeOK, AgentsHold, A!SubagentsNext
      PROVE  (A!SubagentsTypeOK /\ AgentsHold)'
  BY <1>3, <1>4, AgentRuntimeOpensKeeps, AgentRuntimeClosesKeeps,
     AgentOpenRuntimeKeeps, AgentSpawnKeeps, AgentResumeKeeps, AgentResumedKeeps,
     AgentCanceledKeeps, AgentPauseKeeps, AgentCancelKeeps, AgentDeleteKeeps,
     AgentPumpKeeps, AgentJobExitsKeeps, AgentLandKeeps, AgentCloseKeeps,
     AgentClosedKeeps, AgentCrashKeeps, AgentRestartKeeps
  DEF A!SubagentsNext
<1>. QED
  BY <1>1, <1>2, <1>4

\* What the invariant says of the runs.
LEMMA AgentsSound == ASSUME A!SubagentsTypeOK, AgentsHold
      PROVE  A!EffectsOnce /\ A!JobsStopped
<1>1. A!EffectsOnce
  BY DEF AgentsHold, RunKept, A!EffectsOnce
<1>. QED
  BY <1>1 DEF AgentsHold

-----------------------------------------------------------------------------
(* Agent runs.                                                              *)

\* Both are inductive: intents that conflict are refused when one is acquired, and
\* rows and operations begin and end together.
AgentRunsHold == G!IntentsExclusive /\ G!ActionsTellTheTruth

RunStates == {"none"} \cup G!Open \cup G!Final
Evidence == [run : AgentRun, what : {"complete"} \cup Hyp]

LEMMA RunsAssumed ==
    /\ MaxTime \in Nat /\ MaxRestarts \in Nat /\ Wall \in Nat /\ MaxActions \in Nat
    /\ \A h \in Hyp : (CHOOSE r \in AgentRun : TRUE) \in AgentRun
<1>1. [h \in Hyp |-> CHOOSE r \in AgentRun : TRUE] \in [Hyp -> AgentRun]
  BY Assumed DEF G!AgentRunsAssumption
<1>2. ASSUME NEW h \in Hyp PROVE (CHOOSE r \in AgentRun : TRUE) \in AgentRun
  BY <1>1
<1>. QED
  BY <1>2, Assumed DEF G!AgentRunsAssumption

\* Runs that expire, and intents that do, stay what they may be.
LEMMA ExpiryIs ==
    ASSUME G!AgentRunsTypeOK
    PROVE  /\ G!Expired \in [AgentRun -> RunStates] /\ run \in [AgentRun -> RunStates]
           /\ G!Unexpired \subseteq intents
           /\ \A i \in intents : i.until \in Nat
           /\ now \in Nat
<1>1. "EXPIRED" \in RunStates
  BY DEF RunStates, G!Final
<1>2. run \in [AgentRun -> RunStates]
  BY DEF G!AgentRunsTypeOK, RunStates
<1>3. G!Expired \in [AgentRun -> RunStates]
  BY <1>1, <1>2 DEF G!Expired
<1>. QED
  BY <1>2, <1>3, RunsAssumed DEF G!AgentRunsTypeOK, G!Unexpired

\* Without a new intent or row both stay true, also as time passes.
LEMMA QuietKeeps ==
    ASSUME G!AgentRunsTypeOK, AgentRunsHold,
           run' \in [AgentRun -> RunStates], own' \subseteq AgentRun, hyp' \subseteq Hyp,
           intents' \subseteq intents, UNCHANGED <<action, inflight>>, checking' \subseteq Evidence,
           now' \in 0 .. MaxTime, now' >= now, restarts' \in 0 .. MaxRestarts
    PROVE  (G!AgentRunsTypeOK /\ AgentRunsHold)'
<1>1. G!AgentRunsTypeOK'
  BY DEF G!AgentRunsTypeOK, RunStates, Evidence
<1>2. G!Unexpired' \subseteq G!Unexpired
  BY ExpiryIs, RunsAssumed DEF G!Unexpired
<1>3. G!IntentsExclusive'
  BY <1>2 DEF AgentRunsHold, G!IntentsExclusive, G!Overlap, G!Within
<1>4. G!ActionsTellTheTruth'
  BY DEF AgentRunsHold, G!ActionsTellTheTruth
<1>. QED
  BY <1>1, <1>3, <1>4 DEF AgentRunsHold

\* What the quiet steps have in common.
LEMMA Unmoved ==
    ASSUME G!AgentRunsTypeOK
    PROVE  /\ run \in [AgentRun -> RunStates] /\ own \subseteq AgentRun /\ hyp \subseteq Hyp
           /\ checking \subseteq Evidence /\ now \in 0 .. MaxTime /\ now >= now /\ restarts \in 0 .. MaxRestarts
           /\ now \in Nat
BY RunsAssumed DEF G!AgentRunsTypeOK, RunStates, Evidence

LEMMA RunsOpenKeeps ==
    ASSUME G!AgentRunsTypeOK, AgentRunsHold, NEW r \in AgentRun, G!OpenRun(r)
    PROVE  (G!AgentRunsTypeOK /\ AgentRunsHold)'
<1>1. run' \in [AgentRun -> RunStates] /\ intents' \subseteq intents
  BY ExpiryIs, RunsAssumed DEF RunStates, G!Open, G!Final, G!OpenRun
<1>2. /\ own' \subseteq AgentRun /\ hyp' \subseteq Hyp /\ checking' \subseteq Evidence
      /\ UNCHANGED <<action, inflight>> /\ now' \in 0 .. MaxTime /\ now' >= now /\ restarts' \in 0 .. MaxRestarts
  BY Unmoved, RunsAssumed DEF G!OpenRun
<1>. QED
  BY <1>1, <1>2, QuietKeeps

LEMMA RunsOpenHypothesisKeeps ==
    ASSUME G!AgentRunsTypeOK, AgentRunsHold, NEW h \in Hyp, G!OpenHypothesis(h)
    PROVE  (G!AgentRunsTypeOK /\ AgentRunsHold)'
<1>1. run' \in [AgentRun -> RunStates] /\ intents' \subseteq intents
  BY ExpiryIs, RunsAssumed DEF RunStates, G!Open, G!Final, G!OpenHypothesis
<1>2. /\ own' \subseteq AgentRun /\ hyp' \subseteq Hyp /\ checking' \subseteq Evidence
      /\ UNCHANGED <<action, inflight>> /\ now' \in 0 .. MaxTime /\ now' >= now /\ restarts' \in 0 .. MaxRestarts
  BY Unmoved, RunsAssumed DEF G!OpenHypothesis
<1>. QED
  BY <1>1, <1>2, QuietKeeps

LEMMA RunsReleaseKeeps ==
    ASSUME G!AgentRunsTypeOK, AgentRunsHold, NEW i \in intents, G!ReleaseIntent(i)
    PROVE  (G!AgentRunsTypeOK /\ AgentRunsHold)'
<1>1. run' \in [AgentRun -> RunStates] /\ intents' \subseteq intents
  BY ExpiryIs, RunsAssumed DEF RunStates, G!Open, G!Final, G!ReleaseIntent
<1>2. /\ own' \subseteq AgentRun /\ hyp' \subseteq Hyp /\ checking' \subseteq Evidence
      /\ UNCHANGED <<action, inflight>> /\ now' \in 0 .. MaxTime /\ now' >= now /\ restarts' \in 0 .. MaxRestarts
  BY Unmoved, RunsAssumed DEF G!ReleaseIntent
<1>. QED
  BY <1>1, <1>2, QuietKeeps

LEMMA RunsControlledKeeps ==
    ASSUME G!AgentRunsTypeOK, AgentRunsHold, NEW r \in AgentRun, G!Pause(r) \/ G!Resume(r) \/ G!Recover(r) \/ G!Cancel(r)
    PROVE  (G!AgentRunsTypeOK /\ AgentRunsHold)'
<1>1. PICK to \in RunStates : run' = [G!Expired EXCEPT ![r] = to]
  BY DEF G!Pause, G!Resume, G!Recover, G!Cancel, G!Controlled, RunStates, G!Open, G!Final
<1>2. run' \in [AgentRun -> RunStates]
  BY <1>1, ExpiryIs
<1>3. intents' \subseteq intents /\ UNCHANGED <<hyp, action, inflight, checking, now, restarts>>
      /\ own' \subseteq AgentRun
  BY ExpiryIs, Unmoved DEF G!Pause, G!Resume, G!Recover, G!Cancel, G!Controlled, G!Released
<1>. QED
  BY <1>2, <1>3, Unmoved, QuietKeeps

LEMMA RunsCompleteKeeps ==
    ASSUME G!AgentRunsTypeOK, AgentRunsHold, NEW r \in AgentRun, G!Complete(r)
    PROVE  (G!AgentRunsTypeOK /\ AgentRunsHold)'
<1>1. run' \in [AgentRun -> RunStates] /\ intents' \subseteq intents
  BY ExpiryIs, RunsAssumed DEF RunStates, G!Open, G!Final, G!Complete
<1>2. /\ own' \subseteq AgentRun /\ hyp' \subseteq Hyp /\ checking' \subseteq Evidence
      /\ UNCHANGED <<action, inflight>> /\ now' \in 0 .. MaxTime /\ now' >= now /\ restarts' \in 0 .. MaxRestarts
  BY Unmoved, RunsAssumed DEF G!Complete, Evidence
<1>. QED
  BY <1>1, <1>2, QuietKeeps

LEMMA RunsCompletedKeeps ==
    ASSUME G!AgentRunsTypeOK, AgentRunsHold, NEW c \in checking, G!Completed(c)
    PROVE  (G!AgentRunsTypeOK /\ AgentRunsHold)'
<1>1. run' \in [AgentRun -> RunStates] /\ intents' \subseteq intents
  BY ExpiryIs, RunsAssumed DEF RunStates, G!Open, G!Final, G!Completed, G!Released
<1>2. /\ own' \subseteq AgentRun /\ hyp' \subseteq Hyp /\ checking' \subseteq Evidence
      /\ UNCHANGED <<action, inflight>> /\ now' \in 0 .. MaxTime /\ now' >= now /\ restarts' \in 0 .. MaxRestarts
  BY Unmoved, RunsAssumed DEF G!Completed
<1>. QED
  BY <1>1, <1>2, QuietKeeps

LEMMA RunsJudgeKeeps ==
    ASSUME G!AgentRunsTypeOK, AgentRunsHold, NEW h \in Hyp, G!Judge(h)
    PROVE  (G!AgentRunsTypeOK /\ AgentRunsHold)'
<1>1. run' \in [AgentRun -> RunStates] /\ intents' \subseteq intents
  BY ExpiryIs, RunsAssumed DEF RunStates, G!Open, G!Final, G!Judge
<1>2. /\ own' \subseteq AgentRun /\ hyp' \subseteq Hyp /\ checking' \subseteq Evidence
      /\ UNCHANGED <<action, inflight>> /\ now' \in 0 .. MaxTime /\ now' >= now /\ restarts' \in 0 .. MaxRestarts
  BY Unmoved, RunsAssumed DEF G!Judge, Evidence
<1>. QED
  BY <1>1, <1>2, QuietKeeps

LEMMA RunsJudgedKeeps ==
    ASSUME G!AgentRunsTypeOK, AgentRunsHold, NEW c \in checking, G!Judged(c)
    PROVE  (G!AgentRunsTypeOK /\ AgentRunsHold)'
<1>1. run' \in [AgentRun -> RunStates] /\ intents' \subseteq intents
  BY ExpiryIs, RunsAssumed DEF RunStates, G!Open, G!Final, G!Judged
<1>2. /\ own' \subseteq AgentRun /\ hyp' \subseteq Hyp /\ checking' \subseteq Evidence
      /\ UNCHANGED <<action, inflight>> /\ now' \in 0 .. MaxTime /\ now' >= now /\ restarts' \in 0 .. MaxRestarts
  BY Unmoved, RunsAssumed DEF G!Judged
<1>. QED
  BY <1>1, <1>2, QuietKeeps

LEMMA RunsNotCurrentKeeps ==
    ASSUME G!AgentRunsTypeOK, AgentRunsHold, NEW c \in checking, G!NotCurrent(c)
    PROVE  (G!AgentRunsTypeOK /\ AgentRunsHold)'
<1>1. run' \in [AgentRun -> RunStates] /\ intents' \subseteq intents
  BY ExpiryIs, RunsAssumed DEF RunStates, G!Open, G!Final, G!NotCurrent
<1>2. /\ own' \subseteq AgentRun /\ hyp' \subseteq Hyp /\ checking' \subseteq Evidence
      /\ UNCHANGED <<action, inflight>> /\ now' \in 0 .. MaxTime /\ now' >= now /\ restarts' \in 0 .. MaxRestarts
  BY Unmoved, RunsAssumed DEF G!NotCurrent
<1>. QED
  BY <1>1, <1>2, QuietKeeps

LEMMA RunsTickKeeps ==
    ASSUME G!AgentRunsTypeOK, AgentRunsHold, G!Tick
    PROVE  (G!AgentRunsTypeOK /\ AgentRunsHold)'
<1>1. run' \in [AgentRun -> RunStates] /\ intents' \subseteq intents
  BY ExpiryIs, RunsAssumed DEF RunStates, G!Open, G!Final, G!Tick
<1>2. /\ own' \subseteq AgentRun /\ hyp' \subseteq Hyp /\ checking' \subseteq Evidence
      /\ UNCHANGED <<action, inflight>> /\ now' \in 0 .. MaxTime /\ now' >= now /\ restarts' \in 0 .. MaxRestarts
  BY Unmoved, RunsAssumed DEF G!Tick
<1>. QED
  BY <1>1, <1>2, QuietKeeps

\* What overlaps with the intent of another is refused, of a directory or of all.
LEMMA RunsAcquireKeeps ==
    ASSUME G!AgentRunsTypeOK, AgentRunsHold, NEW h \in Hyp, NEW p \in G!IntentPath, NEW ttl \in 1 .. Wall, G!AcquireIntent(h, p, ttl)
    PROVE  (G!AgentRunsTypeOK /\ AgentRunsHold)'
<1>. DEFINE i == [hyp |-> h, path |-> p, until |-> IF now + ttl < Wall THEN now + ttl ELSE Wall]
<1>1. i \in [hyp : Hyp, path : G!IntentPath, until : 0 .. Wall]
  BY Unmoved, RunsAssumed
<1>2. i.hyp = h /\ i.path = p /\ i.until \in Nat
  BY <1>1
<1>3. /\ G!Conflicts(h, p) = {} /\ run' = G!Expired
      /\ intents' = G!Unexpired \/ intents' = G!Unexpired \cup {i}
      /\ UNCHANGED <<own, hyp, action, inflight, checking, now, restarts>>
  BY DEF G!AcquireIntent
<1>. HIDE DEF i
<1>4. intents' \subseteq intents \cup {i}
  BY <1>3, ExpiryIs
<1>5. G!AgentRunsTypeOK'
  BY <1>1, <1>3, <1>4, ExpiryIs DEF G!AgentRunsTypeOK, RunStates
<1>6. \A j \in G!Unexpired : j.hyp # h => ~ G!Overlap(j.path, p)
  BY <1>3 DEF G!Conflicts
<1>7. \A j \in G!Unexpired' : j \in G!Unexpired \/ j = i
  BY <1>3 DEF G!Unexpired
<1>8. \A j, k : G!Overlap(j, k) <=> G!Overlap(k, j)
  BY DEF G!Overlap
<1>9. \A j, k : G!Overlap(j, k)' <=> G!Overlap(j, k)
  BY DEF G!Overlap, G!Within
<1>10. \A j, k \in G!Unexpired : j.hyp # k.hyp => ~ G!Overlap(j.path, k.path)
  BY DEF AgentRunsHold, G!IntentsExclusive
<1>11. \A j, k \in G!Unexpired \cup {i} : j.hyp # k.hyp => ~ G!Overlap(j.path, k.path)
  BY <1>2, <1>6, <1>8, <1>10
<1>12. G!IntentsExclusive'
  BY <1>7, <1>9, <1>11 DEF G!IntentsExclusive
<1>13. G!ActionsTellTheTruth'
  BY <1>3 DEF AgentRunsHold, G!ActionsTellTheTruth
<1>. QED
  BY <1>5, <1>12, <1>13 DEF AgentRunsHold

LEMMA RunsBeginKeeps ==
    ASSUME G!AgentRunsTypeOK, AgentRunsHold, NEW h \in Hyp, NEW p \in G!IntentPath \cup {Command}, G!Begin(h, p)
    PROVE  (G!AgentRunsTypeOK /\ AgentRunsHold)'
<1>. DEFINE begun == [hyp |-> h, path |-> p, status |-> "RUNNING"]
<1>1. begun \in G!Action /\ begun.status = "RUNNING"
  BY DEF G!Action
<1>2. /\ action' = Append(action, begun) /\ inflight' = inflight \cup {Len(action) + 1}
      /\ run' \in [AgentRun -> RunStates] /\ intents' \subseteq intents
      /\ UNCHANGED <<own, hyp, checking, now, restarts>>
  BY ExpiryIs DEF G!Begin
<1>. HIDE DEF begun
<1>3. action \in Seq(G!Action) /\ inflight \subseteq DOMAIN action
  BY DEF G!AgentRunsTypeOK
<1>4. /\ action' \in Seq(G!Action) /\ DOMAIN action' = DOMAIN action \cup {Len(action) + 1}
      /\ Len(action) + 1 \notin DOMAIN action
      /\ action'[Len(action) + 1] = begun /\ \A i \in DOMAIN action : action'[i] = action[i]
  BY <1>1, <1>2, <1>3
<1>5. G!AgentRunsTypeOK'
  BY <1>2, <1>3, <1>4 DEF G!AgentRunsTypeOK, RunStates
<1>6. G!ActionsTellTheTruth'
  BY <1>1, <1>2, <1>3, <1>4 DEF AgentRunsHold, G!ActionsTellTheTruth
<1>7. G!Unexpired' \subseteq G!Unexpired
  BY <1>2 DEF G!Unexpired
<1>8. G!IntentsExclusive'
  BY <1>7 DEF AgentRunsHold, G!IntentsExclusive, G!Overlap, G!Within
<1>. QED
  BY <1>5, <1>6, <1>8 DEF AgentRunsHold

LEMMA RunsFinishKeeps ==
    ASSUME G!AgentRunsTypeOK, AgentRunsHold, NEW i \in inflight, G!Finish(i)
    PROVE  (G!AgentRunsTypeOK /\ AgentRunsHold)'
<1>1. action \in Seq(G!Action) /\ i \in DOMAIN action /\ action[i] \in G!Action /\ action[i].status = "RUNNING"
  BY DEF G!AgentRunsTypeOK, AgentRunsHold, G!ActionsTellTheTruth
<1>. DEFINE done == [action[i] EXCEPT !.status = "DONE"]
<1>2. done \in G!Action /\ done.status = "DONE"
  BY <1>1 DEF G!Action
<1>3. action' = [action EXCEPT ![i] = done] /\ inflight' = inflight \ {i}
      /\ UNCHANGED <<run, own, hyp, intents, checking, now, restarts>>
  BY <1>1 DEF G!Finish
<1>. HIDE DEF done
<1>4. /\ action' \in Seq(G!Action) /\ DOMAIN action' = DOMAIN action /\ action'[i] = done
      /\ \A j \in DOMAIN action \ {i} : action'[j] = action[j]
  BY <1>1, <1>2, <1>3
<1>5. G!AgentRunsTypeOK'
  BY <1>3, <1>4 DEF G!AgentRunsTypeOK
<1>6. G!ActionsTellTheTruth'
  BY <1>2, <1>3, <1>4 DEF AgentRunsHold, G!ActionsTellTheTruth
<1>7. G!IntentsExclusive'
  BY <1>3 DEF AgentRunsHold, G!IntentsExclusive, G!Unexpired, G!Overlap, G!Within
<1>. QED
  BY <1>5, <1>6, <1>7 DEF AgentRunsHold

\* No operation of the process that died is shown as running.
LEMMA RunsRestartKeeps ==
    ASSUME G!AgentRunsTypeOK, AgentRunsHold, G!Restart
    PROVE  (G!AgentRunsTypeOK /\ AgentRunsHold)'
<1>1. /\ action' = [i \in DOMAIN action |-> IF action[i].status = "RUNNING"
                                            THEN [action[i] EXCEPT !.status = "INTERRUPTED"] ELSE action[i]]
      /\ run' = [r \in AgentRun |-> IF G!Expired[r] = "ACTIVE" THEN "RECOVERY_REQUIRED" ELSE G!Expired[r]]
      /\ own' = {} /\ inflight' = {} /\ checking' = {} /\ intents' = G!Unexpired
      /\ restarts < MaxRestarts /\ restarts' = restarts + 1 /\ UNCHANGED <<hyp, now>>
  BY DEF G!Restart, G!Boot
<1>2. action \in Seq(G!Action)
  BY DEF G!AgentRunsTypeOK
<1>3. \A i \in DOMAIN action : action'[i] \in G!Action /\ action'[i].status # "RUNNING"
  <2>. SUFFICES ASSUME NEW i \in DOMAIN action PROVE action'[i] \in G!Action /\ action'[i].status # "RUNNING"
    OBVIOUS
  <2>1. action[i] \in G!Action
    BY <1>2
  <2>2. CASE action[i].status = "RUNNING"
    BY <1>1, <2>1, <2>2 DEF G!Action
  <2>3. CASE action[i].status # "RUNNING"
    BY <1>1, <2>1, <2>3
  <2>. QED
    BY <2>2, <2>3
<1>4. DOMAIN action' = DOMAIN action /\ DOMAIN action = 1 .. Len(action) /\ Len(action) \in Nat
  BY <1>1, <1>2
<1>5. action' \in Seq(G!Action)
  <2>1. action' \in [1 .. Len(action) -> G!Action]
    BY <1>1, <1>3, <1>4
  <2>. QED
    BY <1>4, <2>1
<1>6. run' \in [AgentRun -> RunStates]
  BY <1>1, ExpiryIs DEF RunStates, G!Open
<1>7. restarts' \in 0 .. MaxRestarts
  BY <1>1, Unmoved, RunsAssumed
<1>8. G!AgentRunsTypeOK'
  BY <1>1, <1>5, <1>6, <1>7, ExpiryIs DEF G!AgentRunsTypeOK, RunStates
<1>9. G!ActionsTellTheTruth'
  BY <1>1, <1>3, <1>4 DEF G!ActionsTellTheTruth
<1>10. G!Unexpired' \subseteq G!Unexpired
  BY <1>1 DEF G!Unexpired
<1>11. G!IntentsExclusive'
  BY <1>10 DEF AgentRunsHold, G!IntentsExclusive, G!Overlap, G!Within
<1>. QED
  BY <1>8, <1>9, <1>11 DEF AgentRunsHold

LEMMA AgentRunsInductive ==
    /\ G!AgentRunsInit => G!AgentRunsTypeOK /\ AgentRunsHold
    /\ G!AgentRunsTypeOK /\ AgentRunsHold /\ [G!AgentRunsNext]_(G!runVars)
         => (G!AgentRunsTypeOK /\ AgentRunsHold)'
<1>1. ASSUME G!AgentRunsInit PROVE G!AgentRunsTypeOK /\ AgentRunsHold
  <2>1. run \in [AgentRun -> {"none"} \cup G!Open \cup G!Final] /\ own = {} /\ hyp = {} /\ intents = {}
        /\ inflight = {} /\ checking = {} /\ action = <<>> /\ now = 0 /\ restarts = 0
    BY <1>1 DEF G!AgentRunsInit
  <2>2. action \in Seq(G!Action) /\ DOMAIN action = {}
    BY <2>1
  <2>3. 0 \in 0 .. MaxTime /\ 0 \in 0 .. MaxRestarts
    BY RunsAssumed
  <2>4. G!AgentRunsTypeOK
    BY <2>1, <2>2, <2>3 DEF G!AgentRunsTypeOK
  <2>. QED
    BY <2>1, <2>2, <2>4 DEF AgentRunsHold, G!IntentsExclusive, G!ActionsTellTheTruth, G!Unexpired
<1>2. ASSUME G!AgentRunsTypeOK, AgentRunsHold, UNCHANGED G!runVars
      PROVE  (G!AgentRunsTypeOK /\ AgentRunsHold)'
  <2>1. UNCHANGED <<run, own, hyp, intents, action, inflight, checking, now, restarts>>
    BY <1>2 DEF G!runVars
  <2>. QED
    BY <1>2, <2>1, Unmoved, QuietKeeps
<1>3. ASSUME G!AgentRunsTypeOK, AgentRunsHold, G!AgentRunsNext
      PROVE  (G!AgentRunsTypeOK /\ AgentRunsHold)'
  BY <1>3, RunsTickKeeps, RunsRestartKeeps, RunsOpenKeeps, RunsControlledKeeps, RunsCompleteKeeps,
     RunsOpenHypothesisKeeps, RunsJudgeKeeps, RunsBeginKeeps, RunsAcquireKeeps, RunsReleaseKeeps,
     RunsFinishKeeps, RunsCompletedKeeps, RunsJudgedKeeps, RunsNotCurrentKeeps
  DEF G!AgentRunsNext
<1>. QED
  BY <1>1, <1>2, <1>3

-----------------------------------------------------------------------------
(* The threads that read code.                                              *)

\* A request is at one place: posted once, worked at, or answered.
Posts == 1 .. Len(inbox)
AtOnePlace ==
    /\ \A x, y \in Posts : inbox[x] = inbox[y] => x = y
    /\ \A x \in Posts : inbox[x] # busy
    /\ \A m \in mail : m.of # busy /\ \A x \in Posts : inbox[x] # m.of

\* It is waited for as long as the worker has it, and a refactoring's answer is
\* of the text that was expected, in the mail and when it has come.
Awaited(r) == request[r].stage = "pending"
AsRead(r) == request[r].op = "refactor" => request[r].read = request[r].expected
AnswersAsRead(r) ==
    /\ request[r].stage \in {"answered", "planned"} => AsRead(r)
    /\ request[r].op = "refactor" /\ request[r].plan # None => request[r].plan = request[r].expected
Mailed(m) == request[m.of].stage # "idle" /\ (m.result = "ok" => AsRead(m.of))
WorkersHold ==
    /\ W!ParserStaysClosed
    /\ AtOnePlace
    /\ \A x \in Posts : Awaited(inbox[x])
    /\ busy # None => Awaited(busy)
    /\ \A m \in mail : Mailed(m)
    /\ \A r \in Request : AnswersAsRead(r)

LEMMA CodeAssumed == MaxText \in Nat /\ MaxFaults \in Nat /\ None \notin Request
BY Assumed DEF W!CodeWorkersAssumption

\* A request in the fields the type gives it.
LEMMA RequestIs ==
    ASSUME NEW st \in {"idle", "pending", "answered", "planned", "over"},
           NEW op \in {None, "parse", "read", "rename", "refactor"},
           NEW seen \in 0 .. MaxText, NEW got \in 0 .. MaxText, NEW plan \in {None} \cup 0 .. MaxText
    PROVE  [stage |-> st, op |-> op, expected |-> seen, read |-> got, plan |-> plan] \in W!Asked
BY DEF W!Asked

LEMMA OverIs ==
    /\ W!Over \in W!Asked
    /\ W!Over.stage = "over" /\ W!Over.read = W!Over.expected /\ W!Over.plan = None
<1>1. W!Over = [stage |-> "over", op |-> None, expected |-> 0, read |-> 0, plan |-> None]
  BY DEF W!Over, W!Fresh
<1>2. 0 \in 0 .. MaxText
  BY CodeAssumed
<1>. QED
  BY <1>1, <1>2, RequestIs

LEMMA PostsAre ==
    ASSUME W!WorkersTypeOK
    PROVE  /\ Posts = DOMAIN inbox /\ Len(inbox) \in Nat
           /\ \A x \in Posts : x \in Nat /\ inbox[x] \in Request /\ inbox[x] # None
           /\ \A r \in Request : request[r] \in W!Asked
           /\ \A m \in mail : m.of \in Request /\ m.of # None
BY CodeAssumed DEF W!WorkersTypeOK, Posts

\* One request changes.
LEMMA OneAsked ==
    ASSUME W!WorkersTypeOK, NEW r \in Request, NEW w \in W!Asked, request' = [request EXCEPT ![r] = w]
    PROVE  /\ request' \in [Request -> W!Asked] /\ request'[r] = w
           /\ \A q \in Request \ {r} : /\ request'[q] = request[q]
                                       /\ Awaited(q)' = Awaited(q) /\ AsRead(q)' = AsRead(q)
                                       /\ AnswersAsRead(q)' = AnswersAsRead(q)
<1>1. /\ request' \in [Request -> W!Asked] /\ request'[r] = w
      /\ \A q \in Request \ {r} : request'[q] = request[q]
  BY DEF W!WorkersTypeOK
<1>. QED
  BY <1>1 DEF Awaited, AsRead, AnswersAsRead

\* Where no request changes only the worker's two places matter.
LEMMA RequestsStay ==
    ASSUME UNCHANGED request
    PROVE  /\ \A r \in Request : /\ Awaited(r)' = Awaited(r) /\ AsRead(r)' = AsRead(r)
                                 /\ AnswersAsRead(r)' = AnswersAsRead(r)
           /\ \A m \in mail : Mailed(m)' = Mailed(m)
BY DEF Awaited, AsRead, AnswersAsRead, Mailed

\* A worker that is given up leaves no post.
LEMMA GivenUp ==
    ASSUME W!Forgotten
    PROVE  Posts' = {} /\ busy' = None /\ inbox' \in Seq(Request) /\ there' = FALSE
<1>1. <<>> \in Seq(Request)
  OBVIOUS
<1>. QED
  BY <1>1 DEF W!Forgotten, Posts

\* Whoever waited is answered.
LEMMA RestartKeeps ==
    ASSUME W!WorkersTypeOK, WorkersHold, W!Restarted, UNCHANGED <<host, codeText, mail>>,
           hostClosed' \in BOOLEAN, faults' \in 0 .. MaxFaults
    PROVE  (W!WorkersTypeOK /\ WorkersHold)'
<1>1. request' = [r \in Request |-> IF r \in W!Pending THEN W!Over ELSE request[r]]
      /\ failing' = there
  BY DEF W!Restarted
<1>2. Posts' = {} /\ busy' = None /\ inbox' \in Seq(Request) /\ there' = FALSE
  BY GivenUp DEF W!Restarted
<1>3. request' \in [Request -> W!Asked]
  BY <1>1, OverIs DEF W!WorkersTypeOK
<1>4. W!WorkersTypeOK'
  BY <1>1, <1>2, <1>3, CodeAssumed DEF W!WorkersTypeOK
<1>5. \A r \in Request : request'[r] = W!Over \/ (request'[r] = request[r] /\ ~ Awaited(r))
  BY <1>1 DEF W!Pending, Awaited
<1>6. \A r \in Request : AnswersAsRead(r)' /\ ~ Awaited(r)' /\ (AsRead(r) => AsRead(r)')
                         /\ (request[r].stage # "idle" => request'[r].stage # "idle")
  BY <1>5, OverIs DEF WorkersHold, AnswersAsRead, AsRead, Awaited
<1>7. \A m \in mail' : Mailed(m)'
  BY <1>6, PostsAre DEF WorkersHold, Mailed
<1>8. W!ParserStaysClosed'
  BY <1>2, <1>6 DEF W!ParserStaysClosed, W!Pending, Awaited
<1>9. AtOnePlace'
  BY <1>2, PostsAre DEF AtOnePlace
<1>. QED
  BY <1>2, <1>4, <1>6, <1>7, <1>8, <1>9 DEF WorkersHold

\* What is posted was asked for by nobody before.
LEMMA PostKeeps ==
    ASSUME W!WorkersTypeOK, WorkersHold, NEW r \in Request, NEW op \in {"parse", "read", "rename", "refactor"},
           NEW seen \in 0 .. MaxText, request[r].stage = "idle", host = "brain" => ~ hostClosed,
           W!Posted(r, op, seen)
    PROVE  (W!WorkersTypeOK /\ WorkersHold)'
<1>. DEFINE w == [stage |-> "pending", op |-> op, expected |-> seen, read |-> 0, plan |-> None]
<1>1. w = [W!Fresh EXCEPT !.stage = "pending", !.op = op, !.expected = seen]
  <2>. DEFINE y == [W!Fresh EXCEPT !.stage = "pending"]
              x == [y EXCEPT !.op = op]
  <2>1. y = [stage |-> "pending", op |-> None, expected |-> 0, read |-> 0, plan |-> None]
    BY DEF W!Fresh
  <2>2. [W!Fresh EXCEPT !.stage = "pending", !.op = op, !.expected = seen] = [x EXCEPT !.expected = seen]
    OBVIOUS
  <2>. HIDE DEF y
  <2>3. x = [stage |-> "pending", op |-> op, expected |-> 0, read |-> 0, plan |-> None]
    BY <2>1
  <2>. HIDE DEF x
  <2>4. [x EXCEPT !.expected = seen] = w
    BY <2>3
  <2>. QED
    BY <2>2, <2>4
<1>2. w \in W!Asked /\ w.stage = "pending" /\ w.plan = None
  BY RequestIs, CodeAssumed
<1>3. /\ request' = [request EXCEPT ![r] = w] /\ there' = TRUE /\ inbox' = Append(inbox, r)
      /\ UNCHANGED <<host, codeText, busy, mail, failing, hostClosed, faults>>
  BY <1>1 DEF W!Posted
<1>. HIDE DEF w
<1>4. /\ \A x \in Posts : inbox[x] # r
      /\ busy # r
      /\ \A m \in mail : m.of # r
  <2>1. ~ Awaited(r)
    BY DEF Awaited
  <2>. QED
    BY <2>1, CodeAssumed DEF WorkersHold, Mailed
<1>5. /\ inbox' \in Seq(Request) /\ Posts' = Posts \cup {Len(inbox) + 1} /\ Len(inbox) + 1 \notin Posts
      /\ inbox'[Len(inbox) + 1] = r /\ \A x \in Posts : inbox'[x] = inbox[x]
  BY <1>3 DEF W!WorkersTypeOK, Posts
<1>6. /\ request' \in [Request -> W!Asked] /\ request'[r] = w
      /\ \A q \in Request \ {r} : /\ request'[q] = request[q]
                                  /\ Awaited(q)' = Awaited(q) /\ AsRead(q)' = AsRead(q)
                                  /\ AnswersAsRead(q)' = AnswersAsRead(q)
  BY <1>2, <1>3, OneAsked
<1>7. W!WorkersTypeOK'
  BY <1>3, <1>5, <1>6 DEF W!WorkersTypeOK
<1>8. Awaited(r)' /\ AnswersAsRead(r)'
  BY <1>2, <1>6 DEF Awaited, AnswersAsRead
<1>9. AtOnePlace'
  <2>1. ASSUME NEW x \in Posts', NEW y \in Posts', inbox'[x] = inbox'[y] PROVE x = y
    BY <1>4, <1>5, <2>1 DEF WorkersHold, AtOnePlace
  <2>2. ASSUME NEW x \in Posts' PROVE inbox'[x] # busy' /\ \A m \in mail' : inbox'[x] # m.of
    BY <1>3, <1>4, <1>5 DEF WorkersHold, AtOnePlace
  <2>3. \A m \in mail' : m.of # busy'
    BY <1>3 DEF WorkersHold, AtOnePlace
  <2>. QED
    BY <2>1, <2>2, <2>3 DEF AtOnePlace
<1>10. \A m \in mail' : Mailed(m)'
  BY <1>3, <1>4, <1>6, PostsAre DEF WorkersHold, Mailed
<1>11. \A x \in Posts' : Awaited(inbox[x])'
  <2>1. ASSUME NEW x \in Posts PROVE Awaited(inbox[x])'
    BY <1>4, <1>5, <1>6, PostsAre DEF WorkersHold, Awaited
  <2>. SUFFICES ASSUME NEW x \in Posts' PROVE Awaited(inbox[x])'
    OBVIOUS
  <2>3. CASE x \in Posts
    BY <2>1, <2>3
  <2>4. CASE x = Len(inbox) + 1
    BY <1>5, <1>8, <2>4 DEF Awaited
  <2>. QED
    BY <1>5, <2>3, <2>4
<1>12. busy' # None => Awaited(busy)'
  BY <1>3, <1>4, <1>6 DEF WorkersHold, W!WorkersTypeOK, Awaited
<1>13. W!ParserStaysClosed'
  BY <1>3 DEF W!ParserStaysClosed
<1>14. \A q \in Request : AnswersAsRead(q)'
  BY <1>6, <1>8 DEF WorkersHold
<1>. QED
  BY <1>7, <1>9, <1>10, <1>11, <1>12, <1>13, <1>14 DEF WorkersHold

LEMMA CodeParseKeeps ==
    ASSUME W!WorkersTypeOK, WorkersHold, NEW r \in Request, W!Parse(r)
    PROVE  (W!WorkersTypeOK /\ WorkersHold)'
BY PostKeeps, CodeAssumed DEF W!Parse

LEMMA CodeAskKeeps ==
    ASSUME W!WorkersTypeOK, WorkersHold, NEW r \in Request, W!Ask(r)
    PROVE  (W!WorkersTypeOK /\ WorkersHold)'
<1>1. host = "intel" /\ request[r].stage = "idle" /\ 0 \in 0 .. MaxText /\ 0 .. codeText \subseteq 0 .. MaxText
  BY CodeAssumed DEF W!Ask, W!WorkersTypeOK
<1>2. PICK op \in {"read", "rename", "refactor"} : \E seen \in 0 .. MaxText : W!Posted(r, op, seen)
  BY <1>1 DEF W!Ask
<1>3. PICK seen \in 0 .. MaxText : W!Posted(r, op, seen)
  BY <1>2
<1>. QED
  BY <1>1, <1>2, <1>3, PostKeeps

LEMMA CodeTimeoutKeeps ==
    ASSUME W!WorkersTypeOK, WorkersHold, NEW r \in Request, W!Timeout(r)
    PROVE  (W!WorkersTypeOK /\ WorkersHold)'
<1>1. /\ W!Restarted /\ UNCHANGED <<host, codeText, mail>>
      /\ hostClosed' \in BOOLEAN /\ faults' \in 0 .. MaxFaults
  BY DEF W!Timeout, W!WorkersTypeOK
<1>. QED
  BY <1>1, RestartKeeps

LEMMA CodeFailsKeeps ==
    ASSUME W!WorkersTypeOK, WorkersHold, W!Fails
    PROVE  (W!WorkersTypeOK /\ WorkersHold)'
<1>1. /\ W!Restarted /\ UNCHANGED <<host, codeText, mail>>
      /\ hostClosed' \in BOOLEAN /\ faults' \in 0 .. MaxFaults
  BY CodeAssumed DEF W!Fails, W!WorkersTypeOK
<1>. QED
  BY <1>1, RestartKeeps

LEMMA CodeCancelKeeps ==
    ASSUME W!WorkersTypeOK, WorkersHold, W!Cancel
    PROVE  (W!WorkersTypeOK /\ WorkersHold)'
<1>1. /\ W!Restarted /\ UNCHANGED <<host, codeText, mail>>
      /\ hostClosed' \in BOOLEAN /\ faults' \in 0 .. MaxFaults
  BY DEF W!Cancel, W!WorkersTypeOK
<1>. QED
  BY <1>1, RestartKeeps

\* A worker that is gone, or ended with the semantic service, leaves those who wait.
LEMMA ForgetKeeps ==
    ASSUME W!WorkersTypeOK, WorkersHold, W!Forgotten, UNCHANGED <<host, codeText, mail, failing, request>>,
           hostClosed' \in BOOLEAN, faults' \in 0 .. MaxFaults,
           host = "brain" => UNCHANGED hostClosed
    PROVE  (W!WorkersTypeOK /\ WorkersHold)'
<1>1. Posts' = {} /\ busy' = None /\ inbox' \in Seq(Request) /\ there' = FALSE
  BY GivenUp
<1>2. W!WorkersTypeOK'
  BY <1>1, CodeAssumed DEF W!WorkersTypeOK
<1>3. AtOnePlace'
  BY <1>1, PostsAre DEF AtOnePlace
<1>4. W!ParserStaysClosed'
  BY <1>1 DEF WorkersHold, W!ParserStaysClosed, W!Pending
<1>. QED
  BY <1>1, <1>2, <1>3, <1>4, RequestsStay DEF WorkersHold

LEMMA CodeExitsKeeps ==
    ASSUME W!WorkersTypeOK, WorkersHold, W!Exits
    PROVE  (W!WorkersTypeOK /\ WorkersHold)'
<1>1. /\ W!Forgotten /\ UNCHANGED <<host, codeText, mail, failing, request, hostClosed>>
      /\ hostClosed' \in BOOLEAN /\ faults' \in 0 .. MaxFaults
  BY CodeAssumed DEF W!Exits, W!WorkersTypeOK
<1>. QED
  BY <1>1, ForgetKeeps

LEMMA CodeShutdownKeeps ==
    ASSUME W!WorkersTypeOK, WorkersHold, W!Shutdown
    PROVE  (W!WorkersTypeOK /\ WorkersHold)'
<1>1. UNCHANGED <<host, codeText, mail>> /\ hostClosed' \in BOOLEAN /\ faults' \in 0 .. MaxFaults
  BY DEF W!Shutdown, W!WorkersTypeOK
<1>2. CASE host = "brain"
  <2>1. W!Restarted
    BY <1>2 DEF W!Shutdown
  <2>. QED
    BY <1>1, <2>1, RestartKeeps
<1>3. CASE host # "brain"
  <2>1. W!Forgotten /\ UNCHANGED <<failing, request>>
    BY <1>3 DEF W!Shutdown
  <2>. QED
    BY <1>1, <1>3, <2>1, ForgetKeeps
<1>. QED
  BY <1>2, <1>3

LEMMA CodeEditKeeps ==
    ASSUME W!WorkersTypeOK, WorkersHold, W!Edit
    PROVE  (W!WorkersTypeOK /\ WorkersHold)'
<1>1. codeText' \in 0 .. MaxText
      /\ UNCHANGED <<host, there, inbox, busy, mail, failing, hostClosed, request, faults>>
  BY CodeAssumed DEF W!Edit, W!workerVars, W!WorkersTypeOK
<1>2. W!WorkersTypeOK'
  BY <1>1 DEF W!WorkersTypeOK
<1>3. WorkersHold'
  BY <1>1 DEF WorkersHold, AtOnePlace, Posts, Awaited, AsRead, AnswersAsRead, Mailed, W!ParserStaysClosed, W!Pending
<1>. QED
  BY <1>2, <1>3

\* The first that was posted is begun, on what the file is then.
LEMMA CodeTakeKeeps ==
    ASSUME W!WorkersTypeOK, WorkersHold, W!Take
    PROVE  (W!WorkersTypeOK /\ WorkersHold)'
<1>. DEFINE h == Head(inbox)
            got == IF host = "brain" THEN 0 ELSE codeText
            w == [request[h] EXCEPT !.read = got]
<1>1. /\ there /\ busy = None /\ inbox # <<>> /\ busy' = h /\ inbox' = Tail(inbox)
      /\ UNCHANGED <<host, codeText, there, mail, failing, hostClosed, faults>>
  BY DEF W!Take
<1>2. 1 \in Posts /\ h = inbox[1] /\ h \in Request /\ h # None /\ Awaited(h)
  <2>1. Len(inbox) >= 1 /\ h = inbox[1]
    BY <1>1 DEF W!WorkersTypeOK
  <2>2. 1 \in Posts
    BY <2>1, PostsAre DEF Posts
  <2>. QED
    BY <2>1, <2>2, PostsAre DEF WorkersHold
<1>3. got \in 0 .. MaxText
  BY CodeAssumed DEF W!WorkersTypeOK
<1>4. w \in W!Asked /\ w.stage = "pending" /\ w.op = request[h].op /\ w.plan = request[h].plan
      /\ w.expected = request[h].expected
  <2>1. request[h] \in W!Asked /\ request[h].stage = "pending"
    BY <1>2, PostsAre DEF Awaited
  <2>. HIDE DEF h, got
  <2>. QED
    BY <1>3, <2>1 DEF W!Asked
<1>5. request' = [request EXCEPT ![h] = w]
  BY <1>2 DEF W!Take, W!WorkersTypeOK
<1>6. /\ inbox' \in Seq(Request) /\ \A x \in Posts' : x + 1 \in Posts /\ inbox'[x] = inbox[x + 1] /\ x \in Nat
  BY <1>1, PostsAre DEF W!WorkersTypeOK, Posts
<1>. HIDE DEF h, got, w
<1>7. /\ request' \in [Request -> W!Asked] /\ request'[h] = w
      /\ \A q \in Request \ {h} : /\ request'[q] = request[q]
                                  /\ Awaited(q)' = Awaited(q) /\ AsRead(q)' = AsRead(q)
                                  /\ AnswersAsRead(q)' = AnswersAsRead(q)
  BY <1>2, <1>4, <1>5, OneAsked
<1>8. W!WorkersTypeOK'
  BY <1>1, <1>2, <1>6, <1>7 DEF W!WorkersTypeOK
<1>9. \A x \in Posts' : inbox'[x] # h
  <2>. SUFFICES ASSUME NEW x \in Posts', inbox[x + 1] = inbox[1] PROVE FALSE
    BY <1>2, <1>6
  <2>1. x + 1 \in Posts /\ x \in Nat /\ x \in Posts'
    BY <1>6
  <2>2. x + 1 = 1
    BY <1>2, <2>1 DEF WorkersHold, AtOnePlace
  <2>3. x >= 1
    BY DEF Posts
  <2>. QED
    BY <2>1, <2>2, <2>3
<1>10. \A m \in mail : m.of # h /\ \A x \in Posts' : inbox'[x] # m.of
  BY <1>2, <1>6 DEF WorkersHold, AtOnePlace
<1>11. AtOnePlace'
  <2>1. \A x, y \in Posts' : inbox'[x] = inbox'[y] => x = y
    BY <1>6 DEF WorkersHold, AtOnePlace
  <2>. QED
    BY <1>1, <1>9, <1>10, <2>1 DEF AtOnePlace
<1>12. request'[h].stage = "pending" /\ AnswersAsRead(h) /\ request'[h].op = request[h].op
       /\ request'[h].plan = request[h].plan /\ request'[h].expected = request[h].expected
  BY <1>2, <1>4, <1>7 DEF WorkersHold
<1>18. \A q \in Request : AnswersAsRead(q)'
  <2>1. ASSUME NEW q \in Request \ {h} PROVE AnswersAsRead(q)'
    BY <1>7 DEF WorkersHold
  <2>2. ASSUME NEW q \in Request, q = h PROVE AnswersAsRead(q)'
    BY <1>12, <2>2 DEF AnswersAsRead
  <2>. QED
    BY <2>1, <2>2
<1>13. \A x \in Posts' : Awaited(inbox[x])'
  BY <1>6, <1>7, <1>9, PostsAre DEF WorkersHold, Awaited
<1>14. Awaited(busy)'
  <2>1. busy' = h /\ request'[busy'].stage = "pending"
    BY <1>1, <1>12
  <2>. QED
    BY <2>1 DEF Awaited
<1>15. \A m \in mail' : Mailed(m)'
  BY <1>1, <1>7, <1>10, PostsAre DEF WorkersHold, Mailed
<1>16. W!ParserStaysClosed'
  BY <1>1 DEF WorkersHold, W!ParserStaysClosed
<1>. QED
  BY <1>8, <1>11, <1>13, <1>14, <1>15, <1>16, <1>18 DEF WorkersHold

\* A refactoring succeeds only on the text that was expected.
LEMMA CodeDoneKeeps ==
    ASSUME W!WorkersTypeOK, WorkersHold, W!Done
    PROVE  (W!WorkersTypeOK /\ WorkersHold)'
<1>1. PICK result \in {"ok", "refused"} :
          /\ result = "ok" => AsRead(busy)
          /\ mail' = mail \cup {[of |-> busy, result |-> result]}
  BY DEF W!Done, W!Answer, AsRead
<1>2. /\ busy # None /\ busy' = None /\ busy \in Request
      /\ UNCHANGED <<host, codeText, there, inbox, failing, hostClosed, request, faults>>
  BY DEF W!Done, W!Answer, W!WorkersTypeOK
<1>. DEFINE answer == [of |-> busy, result |-> result]
<1>3. answer.of = busy /\ answer.result = result /\ answer \in [of : Request, result : {"ok", "refused"}]
  BY <1>2
<1>4. mail' = mail \cup {answer}
  BY <1>1
<1>. HIDE DEF answer
<1>5. W!WorkersTypeOK'
  BY <1>2, <1>3, <1>4 DEF W!WorkersTypeOK
<1>6. Mailed(answer)
  BY <1>1, <1>2, <1>3 DEF WorkersHold, Mailed, Awaited, AsRead
<1>7. \A m \in mail' : Mailed(m)'
  BY <1>2, <1>4, <1>6 DEF WorkersHold, Mailed, AsRead
<1>8. Posts' = Posts /\ \A x \in Posts : inbox[x] # None
  BY <1>2, PostsAre DEF Posts
<1>9. AtOnePlace'
  <2>1. \A m \in mail' : m.of # None /\ \A x \in Posts : inbox[x] # m.of
    BY <1>2, <1>3, <1>4, PostsAre DEF WorkersHold, AtOnePlace
  <2>. QED
    BY <1>2, <1>8, <2>1 DEF WorkersHold, AtOnePlace
<1>10. W!ParserStaysClosed'
  BY <1>2 DEF WorkersHold, W!ParserStaysClosed, W!Pending
<1>11. /\ \A x \in Posts' : Awaited(inbox[x])'
       /\ \A q \in Request : AnswersAsRead(q)'
  BY <1>2, <1>8 DEF WorkersHold, Awaited, AnswersAsRead, AsRead
<1>. QED
  BY <1>2, <1>5, <1>7, <1>9, <1>10, <1>11 DEF WorkersHold

\* An answer is given to whoever still waits.
LEMMA CodeDeliverKeeps ==
    ASSUME W!WorkersTypeOK, WorkersHold, NEW m \in mail, W!Deliver(m)
    PROVE  (W!WorkersTypeOK /\ WorkersHold)'
<1>1. /\ mail' = mail \ {m} /\ UNCHANGED <<host, codeText, there, inbox, busy, failing, hostClosed, faults>>
  BY DEF W!Deliver, W!workerVars
<1>2. m.of \in Request /\ \A x \in Posts : inbox[x] # m.of
  BY PostsAre DEF WorkersHold, AtOnePlace
<1>3. m.of # busy /\ Posts' = Posts
  BY <1>1 DEF WorkersHold, AtOnePlace, Posts
<1>4. AtOnePlace'
  BY <1>1, <1>3 DEF WorkersHold, AtOnePlace
<1>5. CASE UNCHANGED request
  <2>1. W!WorkersTypeOK'
    BY <1>1, <1>5 DEF W!WorkersTypeOK
  <2>2. W!ParserStaysClosed'
    BY <1>1, <1>5 DEF WorkersHold, W!ParserStaysClosed, W!Pending
  <2>. QED
    BY <1>1, <1>3, <1>4, <1>5, <2>1, <2>2 DEF WorkersHold, Awaited, AsRead, AnswersAsRead, Mailed
<1>6. CASE m.of \in W!Pending
  <2>. DEFINE w == IF m.result = "ok" THEN [request[m.of] EXCEPT !.stage = "answered"] ELSE W!Over
  <2>0. request[m.of] \in W!Asked
    BY <1>2, PostsAre
  <2>1. /\ w \in W!Asked /\ w.stage \in {"answered", "over"} /\ request' = [request EXCEPT ![m.of] = w]
        /\ (w.op = "refactor" => w.read = w.expected)
        /\ (w.op = "refactor" /\ w.plan # None => w.plan = w.expected)
    <3>1. CASE m.result = "ok"
      <4>1. w = [request[m.of] EXCEPT !.stage = "answered"]
        BY <3>1
      <4>2. w \in W!Asked /\ w.stage = "answered" /\ w.op = request[m.of].op /\ w.read = request[m.of].read
            /\ w.expected = request[m.of].expected /\ w.plan = request[m.of].plan
        BY <2>0, <4>1 DEF W!Asked
      <4>3. request' = [request EXCEPT ![m.of] = w]
        BY <1>2, <1>6, <3>1 DEF W!Deliver, W!WorkersTypeOK
      <4>. HIDE DEF w
      <4>4. AsRead(m.of)
        BY <3>1 DEF WorkersHold, Mailed
      <4>. QED
        BY <1>2, <4>2, <4>3, <4>4 DEF WorkersHold, AnswersAsRead, AsRead
    <3>2. CASE m.result # "ok"
      <4>1. request' = [request EXCEPT ![m.of] = W!Over]
        BY <1>6, <3>2 DEF W!Deliver
      <4>. QED
        BY <3>2, <4>1, OverIs
    <3>. QED
      BY <3>1, <3>2
  <2>. HIDE DEF w
  <2>2. /\ request' \in [Request -> W!Asked] /\ request'[m.of] = w
        /\ \A q \in Request \ {m.of} : /\ request'[q] = request[q]
                                       /\ Awaited(q)' = Awaited(q) /\ AsRead(q)' = AsRead(q)
                                       /\ AnswersAsRead(q)' = AnswersAsRead(q)
    BY <1>2, <2>1, OneAsked
  <2>3. W!WorkersTypeOK'
    BY <1>1, <2>2 DEF W!WorkersTypeOK
  <2>4. AnswersAsRead(m.of)' /\ AsRead(m.of)' /\ request'[m.of].stage # "idle" /\ ~ Awaited(m.of)'
    BY <2>1, <2>2 DEF AnswersAsRead, AsRead, Awaited
  <2>5. \A q \in Request : AnswersAsRead(q)' /\ (Awaited(q)' => Awaited(q))
    BY <2>2, <2>4 DEF WorkersHold
  <2>6. \A n \in mail' : Mailed(n)'
    <3>. SUFFICES ASSUME NEW n \in mail PROVE Mailed(n)'
      BY <1>1
    <3>1. n.of \in Request /\ Mailed(n)
      BY PostsAre DEF WorkersHold
    <3>2. CASE n.of = m.of
      BY <2>4, <3>2 DEF Mailed
    <3>3. CASE n.of # m.of
      BY <2>2, <3>1, <3>3 DEF Mailed
    <3>. QED
      BY <3>2, <3>3
  <2>7. /\ \A x \in Posts' : Awaited(inbox[x])'
        /\ busy' # None => Awaited(busy)'
    BY <1>1, <1>2, <1>3, <2>2, PostsAre DEF WorkersHold, W!WorkersTypeOK, Awaited
  <2>8. W!ParserStaysClosed'
    BY <1>1, <1>6 DEF WorkersHold, W!ParserStaysClosed
  <2>. QED
    BY <1>4, <2>3, <2>5, <2>6, <2>7, <2>8 DEF WorkersHold
<1>. QED
  BY <1>5, <1>6 DEF W!Deliver

\* A plan is of the answer that has come.
LEMMA PlanKeeps ==
    ASSUME W!WorkersTypeOK, WorkersHold, NEW r \in Request, NEW op \in {"refactor", "rename"},
           W!Planned(r, op, codeText), op = "refactor" => codeText = request[r].read
    PROVE  (W!WorkersTypeOK /\ WorkersHold)'
<1>1. /\ request[r].stage = "answered" /\ request[r].op = op
      /\ request' = [request EXCEPT ![r].stage = "planned", ![r].plan = codeText]
      /\ UNCHANGED <<host, codeText, there, inbox, busy, mail, failing, hostClosed, faults>>
  BY DEF W!Planned, W!workerVars
<1>. DEFINE w == [stage |-> "planned", op |-> request[r].op, expected |-> request[r].expected,
                  read |-> request[r].read, plan |-> codeText]
<1>2. request[r] \in W!Asked /\ codeText \in 0 .. MaxText
  BY PostsAre DEF W!WorkersTypeOK
<1>3. w \in W!Asked
  BY <1>2 DEF W!Asked
<1>4. request' = [request EXCEPT ![r] = w]
  <2>. DEFINE y == [request[r] EXCEPT !.stage = "planned"]
  <2>1. y = [stage |-> "planned", op |-> request[r].op, expected |-> request[r].expected,
             read |-> request[r].read, plan |-> request[r].plan]
    BY <1>2 DEF W!Asked
  <2>2. request' = [request EXCEPT ![r] = [y EXCEPT !.plan = codeText]]
    BY <1>1 DEF W!WorkersTypeOK
  <2>. HIDE DEF y
  <2>3. [y EXCEPT !.plan = codeText] = w
    BY <2>1
  <2>. QED
    BY <2>2, <2>3
<1>5. w.stage = "planned" /\ w.op = op /\ w.read = request[r].read /\ w.expected = request[r].expected
      /\ w.plan = codeText
  BY <1>1
<1>. HIDE DEF w
<1>6. /\ request' \in [Request -> W!Asked] /\ request'[r] = w
      /\ \A q \in Request \ {r} : /\ request'[q] = request[q]
                                  /\ Awaited(q)' = Awaited(q) /\ AsRead(q)' = AsRead(q)
                                  /\ AnswersAsRead(q)' = AnswersAsRead(q)
  BY <1>3, <1>4, OneAsked
<1>7. AnswersAsRead(r)' /\ AsRead(r)'
  BY <1>1, <1>5, <1>6 DEF WorkersHold, AnswersAsRead, AsRead
<1>8. W!WorkersTypeOK'
  BY <1>1, <1>6 DEF W!WorkersTypeOK
<1>9. \A m \in mail' : Mailed(m)'
  <2>. SUFFICES ASSUME NEW m \in mail PROVE Mailed(m)'
    BY <1>1
  <2>1. m.of \in Request /\ Mailed(m)
    BY PostsAre DEF WorkersHold
  <2>2. CASE m.of = r
    BY <1>5, <1>6, <1>7, <2>2 DEF Mailed
  <2>3. CASE m.of # r
    BY <1>6, <2>1, <2>3 DEF Mailed
  <2>. QED
    BY <2>2, <2>3
<1>10. AtOnePlace' /\ Posts' = Posts
  BY <1>1 DEF WorkersHold, AtOnePlace, Posts
<1>11. ~ Awaited(r)
  BY <1>1 DEF Awaited
<1>12. /\ \A x \in Posts' : Awaited(inbox[x])'
       /\ busy' # None => Awaited(busy)'
  BY <1>1, <1>6, <1>10, <1>11, PostsAre DEF WorkersHold, W!WorkersTypeOK, Awaited
<1>13. W!ParserStaysClosed'
  BY <1>1, <1>5, <1>6 DEF WorkersHold, W!ParserStaysClosed, W!Pending
<1>. QED
  BY <1>6, <1>7, <1>8, <1>9, <1>10, <1>12, <1>13 DEF WorkersHold

LEMMA CodePlansKeep ==
    ASSUME W!WorkersTypeOK, WorkersHold, NEW r \in Request, W!PlanRefactor(r) \/ W!PlanRename(r)
    PROVE  (W!WorkersTypeOK /\ WorkersHold)'
BY PlanKeeps DEF W!PlanRefactor, W!PlanRename

LEMMA WorkersInductive ==
    /\ W!WorkersInit => W!WorkersTypeOK /\ WorkersHold
    /\ W!WorkersTypeOK /\ WorkersHold /\ [W!WorkersNext]_(W!workersVars)
         => (W!WorkersTypeOK /\ WorkersHold)'
<1>1. ASSUME W!WorkersInit PROVE W!WorkersTypeOK /\ WorkersHold
  <2>1. W!Fresh \in W!Asked /\ W!Fresh.stage = "idle" /\ W!Fresh.plan = None
    BY RequestIs, CodeAssumed DEF W!Fresh
  <2>2. request \in [Request -> W!Asked] /\ \A r \in Request : request[r] = W!Fresh
    BY <1>1, <2>1 DEF W!WorkersInit
  <2>e. <<>> \in Seq(Request)
    OBVIOUS
  <2>b. inbox \in Seq(Request) /\ busy \in Request \cup {None} /\ mail = {}
    BY <1>1, <2>e DEF W!WorkersInit
  <2>n. codeText \in 0 .. MaxText /\ faults \in 0 .. MaxFaults
    BY <1>1, CodeAssumed DEF W!WorkersInit
  <2>3. W!WorkersTypeOK
    BY <1>1, <2>b, <2>n, <2>2 DEF W!WorkersInit, W!WorkersTypeOK
  <2>4. Posts = {} /\ mail = {} /\ busy = None /\ ~ hostClosed
    BY <1>1 DEF W!WorkersInit, Posts
  <2>5. \A r \in Request : AnswersAsRead(r)
    BY <2>1, <2>2 DEF AnswersAsRead
  <2>. QED
    BY <2>3, <2>4, <2>5 DEF WorkersHold, AtOnePlace, W!ParserStaysClosed
<1>2. ASSUME W!WorkersTypeOK, WorkersHold, UNCHANGED W!workersVars
      PROVE  (W!WorkersTypeOK /\ WorkersHold)'
  <2>1. UNCHANGED <<host, codeText, there, inbox, busy, mail, failing, hostClosed, request, faults>>
    BY <1>2 DEF W!workersVars, W!workerVars
  <2>2. W!WorkersTypeOK'
    BY <1>2, <2>1 DEF W!WorkersTypeOK
  <2>3. WorkersHold'
    BY <1>2, <2>1
    DEF WorkersHold, AtOnePlace, Posts, Awaited, AsRead, AnswersAsRead, Mailed, W!ParserStaysClosed, W!Pending
  <2>. QED
    BY <2>2, <2>3
<1>3. ASSUME W!WorkersTypeOK, WorkersHold, W!WorkersNext
      PROVE  (W!WorkersTypeOK /\ WorkersHold)'
  BY <1>3, CodeEditKeeps, CodeFailsKeeps, CodeExitsKeeps, CodeCancelKeeps, CodeShutdownKeeps, CodeTakeKeeps,
     CodeDoneKeeps, CodeParseKeeps, CodeAskKeeps, CodeTimeoutKeeps, CodePlansKeep, CodeDeliverKeeps
  DEF W!WorkersNext
<1>. QED
  BY <1>1, <1>2, <1>3

\* What the invariant says of the worker and the plans.
LEMMA CodeSound == ASSUME W!WorkersTypeOK, WorkersHold PROVE W!WorkersSound
<1>1. W!ToSet(inbox) = {inbox[x] : x \in Posts}
  BY PostsAre DEF W!ToSet
<1>2. \A x \in Posts : inbox[x] \in W!Pending
  BY PostsAre DEF WorkersHold, W!Pending, Awaited
<1>3. busy # None => busy \in W!Pending
  BY DEF WorkersHold, W!WorkersTypeOK, W!Pending, Awaited
<1>4. W!WorksForSomebody
  BY <1>1, <1>2, <1>3 DEF W!WorksForSomebody
<1>5. W!RefactoredAsRead
  BY DEF WorkersHold, AnswersAsRead, W!RefactoredAsRead
<1>. QED
  BY <1>4, <1>5 DEF WorkersHold, W!WorkersSound

-----------------------------------------------------------------------------
(* Verification.                                                            *)

\* A run that is past its capture has its record, in the store and at hand; only
\* evidence that is bound is inspected, and only where there is recovery.  Once
\* stale was said, what says it again is kept: by recovery in the column, without
\* it in the record, which a run that is over no longer writes.
VerificationHolds ==
    /\ V!VerificationSound
    /\ recordAtHand # None => record # None
    /\ stage \in {"binding", "starting", "waiting"} => recordAtHand # None
    /\ bound => recovery /\ record # None
    /\ \A o \in Observer : inspection[o].stage # "idle" => bound
    /\ toldStale /\ recovery => stale
    /\ toldStale /\ ~recovery => stage = "over" /\ record # None /\ record.drift
    /\ stage = "binding" => recovery
    /\ stage = "idle" => ~toldStale
    /\ stage \in {"idle", "checkpoint", "capture", "binding"} => ~bound

LEMMA VerificationAssumed ==
    MaxRestarts \in Nat /\ None \notin V!Record
BY Assumed DEF V!VerificationAssumption

\* What was seen is a record, and its drift stays.
LEMMA SeenIs ==
    ASSUME NEW seen \in V!Record
    PROVE  V!Seen(seen) \in V!Record /\ V!Seen(seen) # None /\ V!Seen(seen).drift = V!Drifted(seen)
<1>1. seen.drift \in BOOLEAN /\ V!Drifted(seen) \in BOOLEAN
  BY DEF V!Record, V!Drifted
<1>2. V!Seen(seen) = [drift |-> V!Drifted(seen), started |-> seen.started]
  BY DEF V!Seen, V!Record
<1>3. V!Seen(seen) \in V!Record
  BY <1>1, <1>2 DEF V!Record
<1>. QED
  BY <1>2, <1>3, VerificationAssumed

\* Only what has not drifted passes, and what is stale has.
LEMMA WorthIs ==
    ASSUME NEW seen \in V!Record
    PROVE  /\ V!Worth(seen) = "stale" => V!Drifted(seen)
           /\ V!Worth(seen) = "passed" => ~ V!Drifted(seen)
BY DEF V!Worth

LEMMA InspectionsAre ==
    ASSUME V!VerificationTypeOK, NEW o \in Observer, NEW w \in [stage : {"idle", "reading", "compared"},
                                                              stale : BOOLEAN, matches : BOOLEAN],
           inspection' = [inspection EXCEPT ![o] = w]
    PROVE  /\ inspection' \in [Observer -> [stage : {"idle", "reading", "compared"},
                                            stale : BOOLEAN, matches : BOOLEAN]]
           /\ inspection'[o] = w /\ \A p \in Observer \ {o} : inspection'[p] = inspection[p]
BY DEF V!VerificationTypeOK

LEMMA VerificationEditKeeps ==
    ASSUME V!VerificationTypeOK /\ VerificationHolds, V!Edit
    PROVE  (V!VerificationTypeOK /\ VerificationHolds)'
<1>1. V!VerificationTypeOK'
  BY VerificationAssumed DEF V!Edit, V!VerificationTypeOK, V!runVars
<1>2. VerificationHolds'
  BY VerificationAssumed DEF V!Edit, V!VerificationTypeOK, VerificationHolds, V!VerificationSound, V!StaleForGood, V!ChecksRecorded, V!runVars
<1>. QED
  BY <1>1, <1>2

LEMMA VerificationBeginKeeps ==
    ASSUME V!VerificationTypeOK /\ VerificationHolds, V!Begin
    PROVE  (V!VerificationTypeOK /\ VerificationHolds)'
<1>1. V!VerificationTypeOK'
  BY VerificationAssumed DEF V!Begin, V!VerificationTypeOK, V!runVars
<1>2. VerificationHolds'
  BY VerificationAssumed DEF V!Begin, V!VerificationTypeOK, VerificationHolds, V!VerificationSound, V!StaleForGood, V!ChecksRecorded, V!runVars
<1>. QED
  BY <1>1, <1>2

LEMMA VerificationCheckpointKeeps ==
    ASSUME V!VerificationTypeOK /\ VerificationHolds, V!Checkpoint
    PROVE  (V!VerificationTypeOK /\ VerificationHolds)'
<1>1. V!VerificationTypeOK'
  BY VerificationAssumed DEF V!Checkpoint, V!VerificationTypeOK, V!runVars
<1>2. VerificationHolds'
  BY VerificationAssumed DEF V!Checkpoint, V!VerificationTypeOK, VerificationHolds, V!VerificationSound, V!StaleForGood, V!ChecksRecorded, V!runVars
<1>. QED
  BY <1>1, <1>2

LEMMA VerificationCaptureKeeps ==
    ASSUME V!VerificationTypeOK /\ VerificationHolds, V!Capture
    PROVE  (V!VerificationTypeOK /\ VerificationHolds)'
<1>. DEFINE fresh == [drift |-> FALSE, started |-> {}]
<1>1. fresh \in V!Record /\ fresh # None
  <2>1. fresh \in V!Record
    BY DEF V!Record
  <2>. QED
    BY <2>1, VerificationAssumed
<1>. HIDE DEF fresh
<1>2. /\ stage = "capture"
      /\ \/ stage' = "over" /\ UNCHANGED <<recordAtHand, record>>
         \/ /\ stage' = IF recovery THEN "binding" ELSE "starting"
            /\ record' = fresh /\ recordAtHand' = fresh
      /\ UNCHANGED <<verified, changed, boots, recovery, base, point, bound, stale, checkJob, inspection, toldStale, turned>>
  BY DEF V!Capture, fresh
<1>3. V!VerificationTypeOK'
  BY <1>1, <1>2 DEF V!VerificationTypeOK
<1>4. VerificationHolds'
  BY <1>1, <1>2 DEF V!VerificationTypeOK, VerificationHolds, V!VerificationSound, V!StaleForGood, V!ChecksRecorded
<1>. QED
  BY <1>3, <1>4

LEMMA VerificationBindKeeps ==
    ASSUME V!VerificationTypeOK /\ VerificationHolds, V!Bind
    PROVE  (V!VerificationTypeOK /\ VerificationHolds)'
<1>1. /\ stage = "binding" /\ recovery /\ record # None /\ recordAtHand # None
      /\ (toldStale => stale)
      /\ stage' \in {"starting", "over"} /\ bound' \in BOOLEAN
      /\ UNCHANGED <<verified, changed, boots, recovery, base, point, recordAtHand, record, stale, checkJob, inspection, toldStale, turned>>
  <2>1. (point = verified) \in BOOLEAN
    OBVIOUS
  <2>. QED
    BY <2>1 DEF V!Bind, VerificationHolds
<1>2. V!VerificationTypeOK'
  BY <1>1 DEF V!VerificationTypeOK
<1>3. stage' = "starting" \/ stage' = "over"
  BY <1>1
<1>4. \A o \in Observer : inspection[o].stage = "idle"
  BY <1>1 DEF VerificationHolds
<1>. QED
  BY <1>1, <1>2, <1>3, <1>4
  DEF VerificationHolds, V!VerificationSound, V!StaleForGood, V!ChecksRecorded

LEMMA VerificationStartKeeps ==
    ASSUME V!VerificationTypeOK /\ VerificationHolds, NEW c \in Check, V!Start(c)
    PROVE  (V!VerificationTypeOK /\ VerificationHolds)'
<1>1. /\ stage = "starting" /\ checkJob' = [checkJob EXCEPT ![c] = "running"]
      /\ recordAtHand \in V!Record /\ record \in V!Record /\ stage' \in {"starting", "waiting", "over"}
      /\ UNCHANGED <<verified, changed, boots, recovery, base, point, bound, stale, inspection, toldStale, turned>>
  BY DEF V!Start, V!Next, V!VerificationTypeOK, VerificationHolds
<1>. DEFINE saved == [recordAtHand EXCEPT !.started = @ \cup {c}]
<1>2. saved \in V!Record
  BY <1>1 DEF V!Record
<1>3. saved # None
  BY <1>2, VerificationAssumed
<1>4. \/ recordAtHand' = saved /\ record' = saved
      \/ stage' = "over" /\ UNCHANGED <<recordAtHand, record>>
  BY DEF V!Start
<1>. HIDE DEF saved
<1>5. V!VerificationTypeOK'
  BY <1>1, <1>2, <1>4 DEF V!VerificationTypeOK
<1>6. VerificationHolds'
  BY <1>1, <1>2, <1>3, <1>4, VerificationAssumed
  DEF V!VerificationTypeOK, VerificationHolds, V!VerificationSound, V!StaleForGood, V!ChecksRecorded
<1>. QED
  BY <1>5, <1>6

LEMMA VerificationStartFailsKeeps ==
    ASSUME V!VerificationTypeOK /\ VerificationHolds, NEW c \in Check, V!StartFails(c)
    PROVE  (V!VerificationTypeOK /\ VerificationHolds)'
<1>1. V!VerificationTypeOK'
  BY DEF V!StartFails, V!VerificationTypeOK
<1>2. VerificationHolds'
  BY DEF V!StartFails, V!Next, V!VerificationTypeOK, VerificationHolds, V!VerificationSound, V!StaleForGood,
         V!ChecksRecorded
<1>. QED
  BY <1>1, <1>2

LEMMA VerificationRestartKeeps ==
    ASSUME V!VerificationTypeOK /\ VerificationHolds, V!Restart
    PROVE  (V!VerificationTypeOK /\ VerificationHolds)'
<1>1. V!NoInspection \in [stage : {"idle", "reading", "compared"}, stale : BOOLEAN, matches : BOOLEAN]
      /\ V!NoInspection.stage = "idle"
  BY DEF V!NoInspection
<1>2. V!VerificationTypeOK'
  BY <1>1, VerificationAssumed DEF V!Restart, V!VerificationTypeOK
<1>3. VerificationHolds'
  BY <1>1 DEF V!Restart, V!VerificationTypeOK, VerificationHolds, V!VerificationSound, V!StaleForGood, V!ChecksRecorded
<1>. QED
  BY <1>2, <1>3

\* Without recovery the record is what remembers: once it has drifted, no report passes.
LEMMA VerificationReportKeeps ==
    ASSUME V!VerificationTypeOK /\ VerificationHolds, V!Report
    PROVE  (V!VerificationTypeOK /\ VerificationHolds)'
<1>1. /\ ~ recovery /\ record \in V!Record /\ stage \in {"waiting", "over"} /\ stage' = "over"
      /\ record' = V!Seen(record)
      /\ toldStale' = (toldStale \/ V!Worth(record) = "stale")
      /\ turned' = (turned \/ (toldStale /\ V!Worth(record) = "passed"))
      /\ UNCHANGED <<verified, changed, boots, recovery, base, point, recordAtHand, bound, stale, checkJob, inspection>>
  BY DEF V!Report, V!Told, V!VerificationTypeOK
<1>2. record' \in V!Record /\ record' # None /\ record'.drift = V!Drifted(record)
  BY <1>1, SeenIs
<1>3. toldStale => V!Drifted(record)
  BY <1>1 DEF VerificationHolds, V!Drifted
<1>4. ~ turned' /\ (toldStale' => record'.drift)
  BY <1>1, <1>2, <1>3, WorthIs DEF VerificationHolds, V!VerificationSound, V!StaleForGood, V!VerificationTypeOK
<1>5. toldStale' \in BOOLEAN /\ turned' \in BOOLEAN
  BY <1>1 DEF V!VerificationTypeOK
<1>6. V!VerificationTypeOK'
  BY <1>1, <1>2, <1>5 DEF V!VerificationTypeOK
<1>7. VerificationHolds'
  BY <1>1, <1>2, <1>4 DEF V!VerificationTypeOK, VerificationHolds, V!VerificationSound, V!StaleForGood, V!ChecksRecorded
<1>. QED
  BY <1>6, <1>7

LEMMA VerificationJobEndsKeeps ==
    ASSUME V!VerificationTypeOK /\ VerificationHolds, NEW c \in Check, V!JobEnds(c)
    PROVE  (V!VerificationTypeOK /\ VerificationHolds)'
<1>1. V!VerificationTypeOK'
  BY DEF V!JobEnds, V!VerificationTypeOK, V!runVars
<1>2. VerificationHolds'
  BY DEF V!JobEnds, V!VerificationTypeOK, VerificationHolds, V!VerificationSound, V!StaleForGood,
         V!ChecksRecorded, V!runVars
<1>. QED
  BY <1>1, <1>2

LEMMA VerificationInspectKeeps ==
    ASSUME V!VerificationTypeOK /\ VerificationHolds, NEW o \in Observer, V!Inspect(o)
    PROVE  (V!VerificationTypeOK /\ VerificationHolds)'
<1>. DEFINE w == [stage |-> "reading", stale |-> stale, matches |-> FALSE]
<1>1. w \in [stage : {"idle", "reading", "compared"}, stale : BOOLEAN, matches : BOOLEAN]
  BY DEF V!VerificationTypeOK
<1>2. /\ bound /\ recovery /\ record \in V!Record /\ record' = V!Seen(record)
      /\ inspection' = [inspection EXCEPT ![o] = w]
      /\ UNCHANGED <<verified, changed, boots, recovery, stage, base, point, recordAtHand, bound, stale, checkJob, toldStale, turned>>
  BY DEF V!Inspect, V!runVars, V!VerificationTypeOK, VerificationHolds
<1>. HIDE DEF w
<1>3. record' \in V!Record /\ record' # None
  BY <1>2, SeenIs
<1>4. inspection' \in [Observer -> [stage : {"idle", "reading", "compared"}, stale : BOOLEAN, matches : BOOLEAN]]
  BY <1>1, <1>2, InspectionsAre
<1>5. V!VerificationTypeOK'
  BY <1>2, <1>3, <1>4 DEF V!VerificationTypeOK
<1>6. VerificationHolds'
  BY <1>2, <1>3 DEF V!VerificationTypeOK, VerificationHolds, V!VerificationSound, V!StaleForGood, V!ChecksRecorded
<1>. QED
  BY <1>5, <1>6

LEMMA VerificationCompareKeeps ==
    ASSUME V!VerificationTypeOK /\ VerificationHolds, NEW o \in Observer, V!Compare(o)
    PROVE  (V!VerificationTypeOK /\ VerificationHolds)'
<1>. DEFINE w == [inspection[o] EXCEPT !.stage = "compared", !.matches = (point = verified)]
<1>1. w \in [stage : {"idle", "reading", "compared"}, stale : BOOLEAN, matches : BOOLEAN]
  <2>. DEFINE matches2 == (point = verified)
  <2>0. inspection[o] \in [stage : {"idle", "reading", "compared"}, stale : BOOLEAN, matches : BOOLEAN]
    BY DEF V!VerificationTypeOK
  <2>m. matches2 \in BOOLEAN /\ w = [inspection[o] EXCEPT !.stage = "compared", !.matches = matches2]
    OBVIOUS
  <2>. HIDE DEF matches2, w
  <2>1. w = [stage |-> "compared", stale |-> inspection[o].stale, matches |-> matches2]
    BY <2>0, <2>m
  <2>. QED
    BY <2>0, <2>m, <2>1
<1>2. inspection' = [inspection EXCEPT ![o].stage = "compared", ![o].matches = (point = verified)]
  BY DEF V!Compare
<1>3. inspection' = [inspection EXCEPT ![o] = w]
  BY <1>2 DEF V!VerificationTypeOK
<1>4. /\ inspection[o].stage = "reading"
      /\ UNCHANGED <<verified, changed, boots, recovery, stage, base, point, recordAtHand, record, bound, stale, checkJob, toldStale, turned>>
  BY DEF V!Compare, V!runVars
<1>. HIDE DEF w
<1>5. inspection' \in [Observer -> [stage : {"idle", "reading", "compared"}, stale : BOOLEAN, matches : BOOLEAN]]
  BY <1>1, <1>3, InspectionsAre
<1>6. V!VerificationTypeOK'
  BY <1>4, <1>5 DEF V!VerificationTypeOK
<1>7. bound
  BY <1>4 DEF VerificationHolds
<1>8. VerificationHolds'
  BY <1>4, <1>7 DEF V!VerificationTypeOK, VerificationHolds, V!VerificationSound, V!StaleForGood, V!ChecksRecorded
<1>. QED
  BY <1>6, <1>8

\* With recovery the column remembers: a verdict passes only where it is not set.
LEMMA VerificationConcludeKeeps ==
    ASSUME V!VerificationTypeOK /\ VerificationHolds, NEW o \in Observer, V!Conclude(o)
    PROVE  (V!VerificationTypeOK /\ VerificationHolds)'
<1>. DEFINE verdict == IF V!Verdict(o) = "passed" /\ stale THEN "stale" ELSE V!Verdict(o)
<1>1. /\ inspection[o].stage = "compared" /\ record' = V!Seen(record)
      /\ toldStale' = (toldStale \/ verdict = "stale")
      /\ turned' = (turned \/ (toldStale /\ verdict = "passed"))
      /\ stale' = (stale \/ verdict = "stale")
      /\ inspection' = [inspection EXCEPT ![o] = V!NoInspection]
      /\ UNCHANGED <<verified, changed, boots, recovery, stage, base, point, recordAtHand, bound, checkJob>>
  BY DEF V!Conclude, V!Concluded, V!Told, V!runVars
<1>2. verdict = "passed" => ~ stale
  OBVIOUS
<1>. HIDE DEF verdict
<1>3. bound /\ recovery /\ record \in V!Record
  BY <1>1 DEF VerificationHolds, V!VerificationTypeOK
<1>4. record' \in V!Record /\ record' # None
  BY <1>1, <1>3, SeenIs
<1>5. V!NoInspection \in [stage : {"idle", "reading", "compared"}, stale : BOOLEAN, matches : BOOLEAN]
  BY DEF V!NoInspection
<1>6. inspection' \in [Observer -> [stage : {"idle", "reading", "compared"}, stale : BOOLEAN, matches : BOOLEAN]]
  BY <1>1, <1>5, InspectionsAre
<1>7. stale' \in BOOLEAN /\ toldStale' \in BOOLEAN /\ turned' \in BOOLEAN
  BY <1>1 DEF V!VerificationTypeOK
<1>8. V!VerificationTypeOK'
  BY <1>1, <1>4, <1>6, <1>7 DEF V!VerificationTypeOK
<1>9. ~ turned' /\ (toldStale' => stale')
  BY <1>1, <1>2, <1>3 DEF VerificationHolds, V!VerificationSound, V!StaleForGood
<1>10. stage \notin {"idle", "checkpoint", "capture", "binding"}
  BY <1>1, <1>3 DEF VerificationHolds
<1>. QED
  BY <1>1, <1>3, <1>4, <1>8, <1>9, <1>10
  DEF VerificationHolds, V!VerificationSound, V!StaleForGood, V!ChecksRecorded

LEMMA VerificationInductive ==
    /\ V!VerificationInit => V!VerificationTypeOK /\ VerificationHolds
    /\ V!VerificationTypeOK /\ VerificationHolds /\ [V!VerificationNext]_(V!verificationVars)
         => (V!VerificationTypeOK /\ VerificationHolds)'
<1>1. V!VerificationInit => V!VerificationTypeOK /\ VerificationHolds
  <2>1. V!NoInspection \in [stage : {"idle", "reading", "compared"}, stale : BOOLEAN, matches : BOOLEAN]
        /\ V!NoInspection.stage = "idle"
    BY DEF V!NoInspection
  <2>. SUFFICES ASSUME V!VerificationInit PROVE V!VerificationTypeOK /\ VerificationHolds
    OBVIOUS
  <2>2. V!VerificationTypeOK
    <3>1. inspection \in [Observer -> [stage : {"idle", "reading", "compared"}, stale : BOOLEAN, matches : BOOLEAN]]
      BY <2>1 DEF V!VerificationInit
    <3>2. checkJob \in [Check -> {"none", "running", "ok", "bad"}]
      BY DEF V!VerificationInit
    <3>3. boots \in 0 .. MaxRestarts /\ verified \in 0 .. 1 /\ base \in 0 .. 1
      BY VerificationAssumed DEF V!VerificationInit
    <3>4. {recovery, bound, stale, toldStale, turned} \subseteq BOOLEAN
      BY DEF V!VerificationInit
    <3>5. stage = "idle" /\ point = None /\ recordAtHand = None /\ record = None
      BY DEF V!VerificationInit
    <3>. QED
      BY <3>1, <3>2, <3>3, <3>4, <3>5 DEF V!VerificationTypeOK
  <2>3. VerificationHolds
    BY <2>1 DEF V!VerificationInit, VerificationHolds, V!VerificationSound, V!StaleForGood, V!ChecksRecorded
  <2>. QED
    BY <2>2, <2>3
<1>2. ASSUME V!VerificationTypeOK, VerificationHolds, UNCHANGED V!verificationVars
      PROVE  (V!VerificationTypeOK /\ VerificationHolds)'
  BY <1>2
  DEF V!verificationVars, V!runVars, V!VerificationTypeOK, VerificationHolds, V!VerificationSound,
      V!StaleForGood, V!ChecksRecorded
<1>3. ASSUME V!VerificationTypeOK, VerificationHolds, V!VerificationNext
      PROVE  (V!VerificationTypeOK /\ VerificationHolds)'
  BY <1>3, VerificationEditKeeps, VerificationBeginKeeps, VerificationCheckpointKeeps, VerificationCaptureKeeps,
     VerificationBindKeeps, VerificationStartKeeps, VerificationStartFailsKeeps, VerificationRestartKeeps,
     VerificationReportKeeps, VerificationJobEndsKeeps, VerificationInspectKeeps, VerificationCompareKeeps,
     VerificationConcludeKeeps
  DEF V!VerificationNext
<1>. QED
  BY <1>1, <1>2, <1>3

-----------------------------------------------------------------------------
(* The context engine: a cached list is exact while its manifest is the present *)
(* one, and each call knows what it has read since its manifest.                *)

\* A candidate that was read since the manifest was: the text first, then the hash.
ReadSince(c, manifest, latest) ==
    /\ manifest[c.item] <= c.claim /\ c.claim <= c.hash /\ c.hash <= latest[c.item]
    /\ Q!Finds(c.item, c.term, c.claim)
Before(manifest, latest) == \A i \in Q!Item : manifest[i] <= latest[i]
\* A list is of what was read since its manifest, and while that is the present one
\* nothing of the goal is missing in it.
Listed(l, latest) ==
    /\ Before(l.base, latest)
    /\ \A c \in l.found : ReadSince(c, l.base, latest)
Whole(l, latest) == l.base = latest /\ ~ l.partial => Q!AllOf(latest) \subseteq l.found
Lists(l, latest) == Listed(l, latest) /\ Whole(l, latest)

\* A search has what its rounds found so far, unless something was edited since it began.
Searched(l, manifest, unread, term, matches, latest) ==
    /\ l.base = manifest /\ Listed(l, latest)
    /\ \A c \in matches : ReadSince(c, manifest, latest) /\ c.term = term
    /\ manifest = latest /\ ~ l.partial =>
          \A c \in Q!AllOf(latest) :
              /\ c.term < term => c \in l.found
              /\ c.term = term /\ c.item \notin unread => c \in matches

CallFits(where, c, manifest, l, holds, unread, term, matches, latest) ==
    /\ Before(manifest, latest)
    /\ c # None => Lists(c, latest)
    /\ where # "idle" /\ c # None => (c.base = manifest => Q!Exact(c, manifest))
    /\ where = "checking" => /\ Lists(l, latest)
                             /\ matches = {} /\ term = 1
                             /\ holds => l.base = manifest /\ Q!Exact(l, manifest)
    /\ where = "searching" => /\ Searched(l, manifest, unread, term, matches, latest)
                              /\ ~ holds
    /\ where \in {"idle", "answered"} => matches = {} /\ term = 1
    /\ where = "answered" => /\ holds => Q!Exact(l, manifest)
                             /\ c # None /\ ~ c.partial => l.found \subseteq c.found
CallHolds(q) ==
    CallFits(queryAt[q], queryCursor[q], queryBase[q], queryList[q], queryValid[q],
             queryLeft[q], queryRound[q], queryHits[q], itemVersions)

ContextHolds ==
    /\ cachedList # None => Lists(cachedList, itemVersions)
    /\ pageToken # None => Lists(pageToken, itemVersions)
    /\ \A q \in Asker : CallHolds(q)

LEMMA ContextAssumed ==
    /\ File \cap Entry = {} /\ Terms \in Nat \ {0} /\ MaxVersion \in Nat
    /\ Versions \in [Q!Item -> [Q!Version -> SUBSET Q!Term]]
BY Assumed DEF Q!ContextAssumption, Q!Item, Q!Version, Q!Term

LEMMA ListingParts ==
    ASSUME NEW l \in Q!Listing
    PROVE  /\ l.base \in [Q!Item -> Q!Version] /\ l.found \subseteq Q!Candidate /\ l.partial \in BOOLEAN
           /\ \A c \in l.found : /\ c.item \in Q!Item /\ c.term \in Q!Round
                                 /\ c.claim \in Q!Version /\ c.hash \in Q!Version
BY DEF Q!Listing, Q!Candidate

LEMMA ListingIs ==
    ASSUME NEW b \in [Q!Item -> Q!Version], NEW f \in SUBSET Q!Candidate, NEW p \in BOOLEAN
    PROVE  [base |-> b, found |-> f, partial |-> p] \in Q!Listing
BY DEF Q!Listing

\* While its manifest is the present one, a list is exactly what a search would give.
LEMMA ListsExact ==
    ASSUME NEW l \in Q!Listing, NEW latest \in [Q!Item -> Q!Version],
           Lists(l, latest), l.base = latest
    PROVE  Q!Exact(l, latest)
<1>1. ASSUME NEW c \in l.found PROVE c \in Q!AllOf(latest)
  <2>1. /\ c \in Q!Candidate /\ c.item \in Q!Item
        /\ c.claim \in Q!Version /\ c.hash \in Q!Version /\ latest[c.item] \in Q!Version
    BY ListingParts
  <2>2. ReadSince(c, latest, latest)
    BY DEF Lists, Listed
  <2>3. c.claim = latest[c.item] /\ c.hash = c.claim
    BY <2>1, <2>2, ContextAssumed DEF ReadSince, Q!Version
  <2>. QED
    BY <2>1, <2>2, <2>3 DEF ReadSince, Q!AllOf, Q!Present
<1>. QED
  BY <1>1 DEF Q!Exact, Lists, Whole

\* An edit leaves what was read since a manifest so, and no manifest is the present one.
LEMMA EditedManifest ==
    ASSUME NEW manifest \in [Q!Item -> Q!Version], NEW latest \in [Q!Item -> Q!Version],
           NEW i \in Q!Item, latest[i] < MaxVersion, Before(manifest, latest),
           NEW edited, edited = [latest EXCEPT ![i] = @ + 1]
    PROVE  edited \in [Q!Item -> Q!Version] /\ Before(manifest, edited) /\ manifest # edited
<1>1. \A j \in Q!Item : manifest[j] \in Nat /\ latest[j] \in Nat
  BY ContextAssumed DEF Q!Version
<1>2. edited \in [Q!Item -> Q!Version]
  BY ContextAssumed DEF Q!Version
<1>3. edited[i] = latest[i] + 1 /\ \A j \in Q!Item : j # i => edited[j] = latest[j]
  OBVIOUS
<1>4. Before(manifest, edited)
  BY <1>1, <1>3 DEF Before
<1>5. manifest[i] # edited[i]
  BY <1>1, <1>3 DEF Before
<1>. QED
  BY <1>2, <1>4, <1>5

LEMMA EditedRead ==
    ASSUME NEW c \in Q!Candidate, NEW manifest, NEW latest \in [Q!Item -> Q!Version],
           NEW i \in Q!Item, latest[i] < MaxVersion, ReadSince(c, manifest, latest),
           NEW edited, edited = [latest EXCEPT ![i] = @ + 1]
    PROVE  ReadSince(c, manifest, edited)
<1>1. c.item \in Q!Item /\ c.hash \in Nat /\ latest[c.item] \in Nat /\ latest[i] \in Nat
  BY ContextAssumed DEF Q!Candidate, Q!Version
<1>2. edited[c.item] = IF c.item = i THEN latest[c.item] + 1 ELSE latest[c.item]
  BY <1>1
<1>3. c.hash <= edited[c.item]
  BY <1>1, <1>2 DEF ReadSince
<1>. QED
  BY <1>3 DEF ReadSince

LEMMA EditedList ==
    ASSUME NEW l \in Q!Listing, NEW latest \in [Q!Item -> Q!Version],
           NEW i \in Q!Item, latest[i] < MaxVersion, Listed(l, latest),
           NEW edited, edited = [latest EXCEPT ![i] = @ + 1]
    PROVE  Lists(l, edited)
<1>1. Before(l.base, edited) /\ l.base # edited
  BY ListingParts, EditedManifest DEF Listed
<1>2. \A c \in l.found : ReadSince(c, l.base, edited)
  BY ListingParts, EditedRead DEF Listed
<1>. QED
  BY <1>1, <1>2 DEF Lists, Listed, Whole

LEMMA EditedCall ==
    ASSUME NEW where, NEW c \in Q!Listing \cup {None}, NEW manifest \in [Q!Item -> Q!Version],
           NEW l \in Q!Listing, NEW holds, NEW unread, NEW term, NEW matches \in SUBSET Q!Candidate,
           NEW latest \in [Q!Item -> Q!Version], NEW i \in Q!Item, latest[i] < MaxVersion,
           CallFits(where, c, manifest, l, holds, unread, term, matches, latest),
           NEW edited, edited = [latest EXCEPT ![i] = @ + 1]
    PROVE  CallFits(where, c, manifest, l, holds, unread, term, matches, edited)
<1>1. Before(manifest, edited) /\ manifest # edited
  BY EditedManifest DEF CallFits
<1>2. c # None => Lists(c, edited)
  BY EditedList DEF CallFits, Lists
<1>3. where = "checking" => Lists(l, edited)
  BY EditedList DEF CallFits, Lists
<1>4. ASSUME where = "searching" PROVE Searched(l, manifest, unread, term, matches, edited)
  <2>1. Searched(l, manifest, unread, term, matches, latest)
    BY <1>4 DEF CallFits
  <2>2. Listed(l, edited)
    BY <2>1, EditedList DEF Searched, Lists
  <2>3. \A r \in matches : ReadSince(r, manifest, edited)
    BY <2>1, EditedRead DEF Searched
  <2>. QED
    BY <1>1, <2>1, <2>2, <2>3 DEF Searched
<1>. QED
  BY <1>1, <1>2, <1>3, <1>4 DEF CallFits

-----------------------------------------------------------------------------
LEMMA NothingTypes == Q!Nothing \in Q!Listing /\ Q!Nothing.found = {} /\ Q!Nothing.partial = FALSE
                      /\ Q!Nothing.base = [i \in Q!Item |-> 0]
                      /\ Q!Nothing.base \in [Q!Item -> Q!Version]
<1>1. [i \in Q!Item |-> 0] \in [Q!Item -> Q!Version]
  BY ContextAssumed DEF Q!Version
<1>. QED
  BY <1>1 DEF Q!Nothing, Q!Listing

\* A call that is over claims nothing.
LEMMA EndedQuery ==
    ASSUME NEW latest \in [Q!Item -> Q!Version], NEW l, NEW unread
    PROVE  CallFits("idle", None, Q!Nothing.base, l, FALSE, unread, 1, {}, latest)
<1>1. Before(Q!Nothing.base, latest)
  BY NothingTypes, ContextAssumed DEF Before, Q!Version
<1>. QED
  BY <1>1 DEF CallFits

LEMMA BegunQuery ==
    ASSUME NEW manifest \in [Q!Item -> Q!Version], NEW latest \in [Q!Item -> Q!Version],
           NEW c \in Q!Listing \cup {None}, NEW l, l = [Q!Nothing EXCEPT !.base = manifest],
           Before(manifest, latest), c # None => Lists(c, latest),
           c # None => (c.base = manifest => Q!Exact(c, manifest))
    PROVE  l \in Q!Listing /\ CallFits("searching", c, manifest, l, FALSE, File, 1, {}, latest)
<1>1. l = [base |-> manifest, found |-> {}, partial |-> FALSE]
  BY DEF Q!Nothing
<1>2. l \in Q!Listing
  <2>1. {} \in SUBSET Q!Candidate /\ FALSE \in BOOLEAN
    OBVIOUS
  <2>2. [base |-> manifest, found |-> {}, partial |-> FALSE] \in Q!Listing
    BY <2>1, ListingIs
  <2>. QED
    BY <1>1, <2>2
<1>3. 1 \in Q!Term
  BY ContextAssumed DEF Q!Term
<1>4. \A r \in Q!AllOf(latest) : ~ (r.term < 1) /\ (r.term = 1 => r.item \in File)
  BY <1>3, ContextAssumed DEF Q!AllOf, Q!Candidate, Q!Present, Q!Finds, Q!Sought, Q!Round
<1>5. Searched(l, manifest, File, 1, {}, latest)
  BY <1>1, <1>4 DEF Searched, Listed
<1>. QED
  BY <1>2, <1>5 DEF CallFits

\* What a page shows that is given for a cursor was in the list of the first page.
LEMMA GoesOnSearched ==
    ASSUME NEW c \in Q!Listing, NEW l \in Q!Listing, NEW manifest \in [Q!Item -> Q!Version],
           NEW latest, l.base = manifest, Listed(l, latest),
           c.base = manifest => Q!Exact(c, manifest), Q!Index(c) = Q!Index(l), ~ c.partial
    PROVE  l.found \subseteq c.found
<1>1. c.base = l.base /\ {<<r.item, r.hash>> : r \in c.found} = {<<r.item, r.hash>> : r \in l.found}
  BY DEF Q!Index
<1>2. Q!Exact(c, manifest)
  BY <1>1
<1>3. ASSUME NEW r \in l.found PROVE r \in c.found
  <2>0. <<r.item, r.hash>> \in {<<s.item, s.hash>> : s \in c.found}
    BY <1>1, Zenon
  <2>1. PICK s \in c.found : s.item = r.item /\ s.hash = r.hash
    BY <2>0
  <2>2. s.hash = manifest[r.item]
    BY <1>2, <2>1 DEF Q!Exact, Q!AllOf, Q!Present
  <2>3. /\ r \in Q!Candidate /\ r.item \in Q!Item /\ r.claim \in Nat /\ r.hash \in Nat
        /\ manifest[r.item] \in Nat
    BY ListingParts, ContextAssumed DEF Q!Version
  <2>4. ReadSince(r, manifest, latest)
    BY DEF Listed
  <2>5. r.claim = manifest[r.item] /\ r.hash = r.claim
    BY <2>1, <2>2, <2>3, <2>4 DEF ReadSince
  <2>6. r \in Q!AllOf(manifest)
    BY <2>3, <2>4, <2>5 DEF ReadSince, Q!AllOf, Q!Present
  <2>. QED
    BY <1>2, <2>6 DEF Q!Exact
<1>. QED
  BY <1>3

LEMMA GoesOnCached ==
    ASSUME NEW c \in Q!Listing, NEW l \in Q!Listing, NEW manifest,
           l.base = manifest, Q!Exact(l, manifest),
           c.base = manifest => Q!Exact(c, manifest), Q!Index(c) = Q!Index(l), ~ c.partial
    PROVE  l.found \subseteq c.found
<1>1. c.base = l.base
  BY DEF Q!Index
<1>. QED
  BY <1>1 DEF Q!Exact

\* What a round adds, and the list it leaves to the next one.
LEMMA RoundOver ==
    ASSUME NEW l \in Q!Listing, NEW manifest \in [Q!Item -> Q!Version],
           NEW latest \in [Q!Item -> Q!Version], NEW unread, NEW term \in Q!Round,
           NEW matches \in SUBSET Q!Candidate, NEW new \in SUBSET Q!Candidate, NEW cut \in BOOLEAN,
           Searched(l, manifest, {}, term, matches, latest),
           \A c \in new : ReadSince(c, manifest, latest),
           cut \/ \A c \in matches : c \in Q!AllOf(latest) => c \in new,
           unread = Q!Sought(term + 1)
    PROVE  /\ Q!Adds(l, new, cut) \in Q!Listing
           /\ Searched(Q!Adds(l, new, cut), manifest, unread, term + 1, {}, latest)
<1>. DEFINE next == Q!Adds(l, new, cut)
<1>1. /\ next = [base |-> l.base, found |-> l.found \cup new, partial |-> (l.partial \/ cut)]
      /\ (l.partial \/ cut) \in BOOLEAN /\ l.found \cup new \in SUBSET Q!Candidate
  BY ListingParts DEF Q!Adds
<1>2. next \in Q!Listing /\ next.base = l.base /\ next.found = l.found \cup new
      /\ (~ next.partial => ~ l.partial /\ ~ cut)
  BY <1>1, ListingParts, ListingIs
<1>. HIDE DEF next
<1>3. l.base = manifest /\ Listed(next, latest)
  BY <1>2 DEF Searched, Listed
<1>4. ASSUME manifest = latest, ~ next.partial, NEW c \in Q!AllOf(latest)
      PROVE  /\ c.term < term + 1 => c \in next.found
             /\ c.term = term + 1 /\ c.item \notin unread => c \in {}
  <2>1. c.term \in Nat /\ term \in Nat
    BY ContextAssumed DEF Q!AllOf, Q!Candidate, Q!Round
  <2>2. c.term < term => c \in l.found
    BY <1>2, <1>4 DEF Searched
  <2>3. c.term = term => c \in new
    BY <1>2, <1>4 DEF Searched
  <2>4. c.term < term + 1 => c.term < term \/ c.term = term
    BY <2>1
  <2>5. c.term = term + 1 => c.item \in unread
    BY DEF Q!AllOf, Q!Present, Q!Finds
  <2>. QED
    BY <1>2, <2>2, <2>3, <2>4, <2>5
<1>5. Searched(next, manifest, unread, term + 1, {}, latest)
  BY <1>2, <1>3, <1>4 DEF Searched
<1>. QED
  BY <1>2, <1>5 DEF next

\* After the last round nothing of the goal is missing.
LEMMA SearchEnds ==
    ASSUME NEW l \in Q!Listing, NEW manifest, NEW latest, NEW unread, NEW term \in Q!Round,
           Searched(l, manifest, unread, term + 1, {}, latest), term \notin Q!Term
    PROVE  l.base = manifest /\ Lists(l, latest)
<1>1. \A c \in Q!AllOf(latest) : c.term < term + 1
  BY ContextAssumed DEF Q!AllOf, Q!Candidate, Q!Round, Q!Term
<1>. QED
  BY <1>1 DEF Searched, Lists, Whole

-----------------------------------------------------------------------------
(* The actions.                                                                *)

LEMMA ContextEditKeeps ==
    ASSUME Q!ContextTypeOK /\ ContextHolds, NEW i \in Q!Item, Q!Edit(i)
    PROVE  (Q!ContextTypeOK /\ ContextHolds)'
<1>1. /\ itemVersions[i] < MaxVersion /\ itemVersions' = [itemVersions EXCEPT ![i] = @ + 1]
      /\ UNCHANGED <<cachedList, pageToken, queryAt, queryCursor, queryBase, queryList, queryValid,
                     queryLeft, queryRound, queryHits>>
  BY DEF Q!Edit, Q!pageVars, Q!callVars, Q!workVars
<1>2. itemVersions' \in [Q!Item -> Q!Version]
  <2>1. itemVersions[i] + 1 \in Q!Version
    BY <1>1, ContextAssumed DEF Q!ContextTypeOK, Q!Version
  <2>. QED
    BY <1>1, <2>1 DEF Q!ContextTypeOK
<1>3. Q!ContextTypeOK'
  BY <1>1, <1>2 DEF Q!ContextTypeOK
<1>4. /\ cachedList # None => Lists(cachedList, itemVersions')
      /\ pageToken # None => Lists(pageToken, itemVersions')
  BY <1>1, EditedList DEF ContextHolds, Lists, Q!ContextTypeOK
<1>5. ASSUME NEW q \in Asker PROVE CallHolds(q)'
  <2>1. CallFits(queryAt[q], queryCursor[q], queryBase[q], queryList[q], queryValid[q],
                 queryLeft[q], queryRound[q], queryHits[q], itemVersions')
    BY <1>1, EditedCall DEF ContextHolds, CallHolds, Q!ContextTypeOK
  <2>. QED
    BY <1>1, <2>1 DEF CallHolds
<1>. QED
  BY <1>1, <1>3, <1>4, <1>5 DEF ContextHolds

\* One call moves: what is its own changes in its place, and the sources do not.
OneQuery(q) ==
    /\ itemVersions' = itemVersions
    /\ queryAt' = [queryAt EXCEPT ![q] = queryAt'[q]]
    /\ queryCursor' = [queryCursor EXCEPT ![q] = queryCursor'[q]]
    /\ queryBase' = [queryBase EXCEPT ![q] = queryBase'[q]]
    /\ queryList' = [queryList EXCEPT ![q] = queryList'[q]]
    /\ queryValid' = [queryValid EXCEPT ![q] = queryValid'[q]]
    /\ queryLeft' = [queryLeft EXCEPT ![q] = queryLeft'[q]]
    /\ queryRound' = [queryRound EXCEPT ![q] = queryRound'[q]]
    /\ queryHits' = [queryHits EXCEPT ![q] = queryHits'[q]]

LEMMA OneQueryKeeps ==
    ASSUME Q!ContextTypeOK, ContextHolds, NEW q \in Asker, OneQuery(q),
           /\ queryAt'[q] \in {"idle", "checking", "searching", "answered"}
           /\ queryCursor'[q] \in Q!Listing \cup {None}
           /\ queryBase'[q] \in [Q!Item -> Q!Version] /\ queryList'[q] \in Q!Listing
           /\ queryValid'[q] \in BOOLEAN /\ queryLeft'[q] \in SUBSET Q!Item
           /\ queryRound'[q] \in Q!Round /\ queryHits'[q] \in SUBSET Q!Candidate,
           /\ cachedList' \in Q!Listing \cup {None} /\ pageToken' \in Q!Listing \cup {None}
           /\ cachedList' # None => Lists(cachedList', itemVersions)
           /\ pageToken' # None => Lists(pageToken', itemVersions),
           CallFits(queryAt'[q], queryCursor'[q], queryBase'[q], queryList'[q], queryValid'[q],
                    queryLeft'[q], queryRound'[q], queryHits'[q], itemVersions)
    PROVE  (Q!ContextTypeOK /\ ContextHolds)'
<1>1. Q!ContextTypeOK'
  BY DEF Q!ContextTypeOK, OneQuery
<1>2. ASSUME NEW r \in Asker PROVE CallHolds(r)'
  <2>1. CASE r = q
    BY <2>1 DEF CallHolds, OneQuery
  <2>2. CASE r # q
    <3>1. /\ queryAt'[r] = queryAt[r] /\ queryCursor'[r] = queryCursor[r] /\ queryBase'[r] = queryBase[r]
          /\ queryList'[r] = queryList[r] /\ queryValid'[r] = queryValid[r] /\ queryLeft'[r] = queryLeft[r]
          /\ queryRound'[r] = queryRound[r] /\ queryHits'[r] = queryHits[r]
      BY <2>2 DEF Q!ContextTypeOK, OneQuery
    <3>2. CallHolds(r) /\ itemVersions' = itemVersions
      BY DEF ContextHolds, OneQuery
    <3>. QED
      BY <3>1, <3>2 DEF CallHolds
  <2>. QED
    BY <2>1, <2>2
<1>3. itemVersions' = itemVersions
  BY DEF OneQuery
<1>. QED
  BY <1>1, <1>2, <1>3 DEF ContextHolds

\* A call stands with what it had.
LEMMA StandsAsWas ==
    ASSUME Q!ContextTypeOK, ContextHolds, NEW q \in Asker
    PROVE  /\ queryAt[q] \in {"idle", "checking", "searching", "answered"}
           /\ queryCursor[q] \in Q!Listing \cup {None}
           /\ queryBase[q] \in [Q!Item -> Q!Version] /\ queryList[q] \in Q!Listing
           /\ queryValid[q] \in BOOLEAN /\ queryLeft[q] \in SUBSET Q!Item
           /\ queryRound[q] \in Q!Round /\ queryHits[q] \in SUBSET Q!Candidate
           /\ itemVersions \in [Q!Item -> Q!Version]
           /\ cachedList \in Q!Listing \cup {None} /\ pageToken \in Q!Listing \cup {None}
           /\ cachedList # None => Lists(cachedList, itemVersions)
           /\ pageToken # None => Lists(pageToken, itemVersions)
           /\ CallFits(queryAt[q], queryCursor[q], queryBase[q], queryList[q], queryValid[q],
                       queryLeft[q], queryRound[q], queryHits[q], itemVersions)
BY DEF Q!ContextTypeOK, ContextHolds, CallHolds

LEMMA ContextAskKeeps ==
    ASSUME Q!ContextTypeOK, ContextHolds, NEW q \in Asker, Q!Ask(q)
    PROVE  (Q!ContextTypeOK /\ ContextHolds)'
<1>. USE StandsAsWas
<1>1. PICK c \in {None, pageToken} : queryCursor' = [queryCursor EXCEPT ![q] = c]
  BY DEF Q!Ask
<1>2. /\ queryAt[q] = "idle" /\ queryBase' = [queryBase EXCEPT ![q] = itemVersions]
      /\ UNCHANGED <<itemVersions, cachedList, pageToken, queryRound, queryHits>>
  BY DEF Q!Ask, Q!pageVars
<1>3. /\ c \in Q!Listing \cup {None}
      /\ c # None => Lists(c, itemVersions)
      /\ c # None => (c.base = itemVersions => Q!Exact(c, itemVersions))
      /\ Before(itemVersions, itemVersions)
      /\ queryRound[q] = 1 /\ queryHits[q] = {}
  <2>1. c \in Q!Listing \cup {None} /\ (c # None => Lists(c, itemVersions))
    OBVIOUS
  <2>2. c # None => (c.base = itemVersions => Q!Exact(c, itemVersions))
    BY <2>1, ListsExact
  <2>3. Before(itemVersions, itemVersions)
    BY ContextAssumed DEF Before, Q!Version
  <2>4. queryRound[q] = 1 /\ queryHits[q] = {}
    BY <1>2 DEF CallFits
  <2>. QED
    BY <2>1, <2>2, <2>3, <2>4
<1>4. CASE Q!Search(q, itemVersions)
  <2>1. /\ queryAt' = [queryAt EXCEPT ![q] = "searching"]
        /\ queryList' = [queryList EXCEPT ![q] = [Q!Nothing EXCEPT !.base = itemVersions]]
        /\ queryLeft' = [queryLeft EXCEPT ![q] = File]
        /\ queryValid' = [queryValid EXCEPT ![q] = FALSE]
    BY <1>4 DEF Q!Search
  <2>2. /\ queryAt'[q] = "searching" /\ queryList'[q] = [Q!Nothing EXCEPT !.base = itemVersions]
        /\ queryLeft'[q] = File /\ queryValid'[q] = FALSE /\ queryCursor'[q] = c
        /\ queryBase'[q] = itemVersions /\ queryRound'[q] = 1 /\ queryHits'[q] = {}
    BY <1>1, <1>2, <1>3, <2>1 DEF Q!ContextTypeOK
  <2>3. OneQuery(q)
    BY <1>1, <1>2, <2>1, <2>2 DEF OneQuery, Q!ContextTypeOK
  <2>4. /\ queryList'[q] \in Q!Listing
        /\ CallFits("searching", c, itemVersions, queryList'[q], FALSE, File, 1, {}, itemVersions)
    BY <1>3, <2>2, BegunQuery
  <2>. QED
    BY <1>2, <1>3, <2>2, <2>3, <2>4, ContextAssumed, OneQueryKeeps DEF Q!Item
<1>5. CASE /\ cachedList # None
           /\ queryAt' = [queryAt EXCEPT ![q] = "checking"]
           /\ queryList' = [queryList EXCEPT ![q] = cachedList]
           /\ queryLeft' = [queryLeft EXCEPT ![q] = {r.item : r \in cachedList.found}]
           /\ queryValid' = [queryValid EXCEPT ![q] = (cachedList.base = itemVersions)]
  <2>1. /\ queryAt'[q] = "checking" /\ queryList'[q] = cachedList
        /\ queryLeft'[q] = {r.item : r \in cachedList.found}
        /\ queryValid'[q] = (cachedList.base = itemVersions) /\ queryCursor'[q] = c
        /\ queryBase'[q] = itemVersions /\ queryRound'[q] = 1 /\ queryHits'[q] = {}
    BY <1>1, <1>2, <1>3, <1>5 DEF Q!ContextTypeOK
  <2>2. OneQuery(q)
    BY <1>1, <1>2, <1>5, <2>1 DEF OneQuery, Q!ContextTypeOK
  <2>3. cachedList \in Q!Listing /\ Lists(cachedList, itemVersions)
    BY <1>5
  <2>4. {r.item : r \in cachedList.found} \subseteq Q!Item
    BY <2>3, ListingParts
  <2>5. cachedList.base = itemVersions => Q!Exact(cachedList, itemVersions)
    BY <2>3, ListsExact
  <2>6. (cachedList.base = itemVersions) \in BOOLEAN
    OBVIOUS
  <2>7. CallFits("checking", c, itemVersions, cachedList, (cachedList.base = itemVersions),
                 {r.item : r \in cachedList.found}, 1, {}, itemVersions)
    BY <1>3, <2>3, <2>5 DEF CallFits
  <2>8. 1 \in Q!Round /\ {} \in SUBSET Q!Candidate
    BY ContextAssumed DEF Q!Round
  <2>9. CallFits(queryAt'[q], queryCursor'[q], queryBase'[q], queryList'[q], queryValid'[q],
                 queryLeft'[q], queryRound'[q], queryHits'[q], itemVersions)
    BY <2>1, <2>7
  <2>. QED
    BY <1>2, <1>3, <2>1, <2>2, <2>3, <2>4, <2>6, <2>8, <2>9, OneQueryKeeps
<1>. QED
  BY <1>4, <1>5 DEF Q!Ask

LEMMA RecheckKeeps ==
    ASSUME Q!ContextTypeOK, ContextHolds, NEW q \in Asker, NEW i \in Q!Item, Q!Recheck(q, i)
    PROVE  (Q!ContextTypeOK /\ ContextHolds)'
<1>. USE StandsAsWas
<1>1. /\ queryAt[q] = "checking"
      /\ queryLeft' = [queryLeft EXCEPT ![q] = @ \ {i}]
      /\ queryValid' = [queryValid EXCEPT ![q] = queryValid[q] /\ \A c \in queryList[q].found :
             c.item = i => c.hash = itemVersions[i]]
      /\ UNCHANGED <<itemVersions, cachedList, pageToken, queryAt, queryCursor, queryBase, queryList,
                     queryRound, queryHits>>
  BY DEF Q!Recheck, Q!pageVars
<1>2. /\ queryLeft'[q] = queryLeft[q] \ {i}
      /\ queryValid'[q] = (queryValid[q] /\ \A c \in queryList[q].found :
             c.item = i => c.hash = itemVersions[i])
  BY <1>1 DEF Q!ContextTypeOK
<1>3. queryValid'[q] \in BOOLEAN /\ (queryValid'[q] => queryValid[q])
  BY <1>2
<1>4. OneQuery(q)
  BY <1>1, <1>2 DEF OneQuery, Q!ContextTypeOK
<1>5. CallFits(queryAt[q], queryCursor[q], queryBase[q], queryList[q], queryValid'[q],
               queryLeft'[q], queryRound[q], queryHits[q], itemVersions)
  BY <1>1, <1>3 DEF CallFits
<1>. QED
  BY <1>1, <1>2, <1>3, <1>4, <1>5, OneQueryKeeps

LEMMA LookKeeps ==
    ASSUME Q!ContextTypeOK, ContextHolds, NEW q \in Asker, NEW i \in Q!Item, Q!Look(q, i)
    PROVE  (Q!ContextTypeOK /\ ContextHolds)'
<1>. USE StandsAsWas
<1>. DEFINE read == [item |-> i, term |-> queryRound[q], claim |-> itemVersions[i], hash |-> itemVersions[i]]
            more == IF Q!Finds(i, queryRound[q], itemVersions[i])
                    THEN queryHits[q] \cup {read} ELSE queryHits[q]
<1>1. /\ queryAt[q] = "searching" /\ i \in queryLeft[q]
      /\ queryLeft' = [queryLeft EXCEPT ![q] = @ \ {i}]
      /\ queryHits' = [queryHits EXCEPT ![q] = more]
      /\ UNCHANGED <<itemVersions, cachedList, pageToken, queryAt, queryCursor, queryBase, queryList,
                     queryValid, queryRound>>
  BY DEF Q!Look, Q!pageVars
<1>2. queryLeft'[q] = queryLeft[q] \ {i} /\ queryHits'[q] = more
  BY <1>1 DEF Q!ContextTypeOK
<1>3. OneQuery(q)
  BY <1>1, <1>2 DEF OneQuery, Q!ContextTypeOK
<1>4. /\ Searched(queryList[q], queryBase[q], queryLeft[q], queryRound[q], queryHits[q], itemVersions)
      /\ ~ queryValid[q]
  BY <1>1 DEF CallFits
<1>5. itemVersions[i] \in Q!Version /\ queryRound[q] \in Q!Round
  OBVIOUS
<1>6. read \in Q!Candidate
  BY <1>5 DEF Q!Candidate
<1>7. more \subseteq Q!Candidate
  BY <1>6
<1>8. ASSUME NEW c \in more
      PROVE  ReadSince(c, queryBase[q], itemVersions) /\ c.term = queryRound[q]
  <2>1. CASE c \in queryHits[q]
    BY <1>4, <2>1 DEF Searched
  <2>2. CASE c = read /\ Q!Finds(i, queryRound[q], itemVersions[i])
    <3>1. queryBase[q][i] <= itemVersions[i] /\ itemVersions[i] \in Nat
      BY <1>4, <1>5, ContextAssumed DEF Searched, Listed, Before, Q!Version
    <3>. QED
      BY <2>2, <3>1, <1>5 DEF ReadSince
  <2>. QED
    BY <2>1, <2>2
<1>9. ASSUME queryBase[q] = itemVersions, ~ queryList[q].partial, NEW c \in Q!AllOf(itemVersions),
             c.term = queryRound[q], c.item \notin queryLeft[q] \ {i}
      PROVE  c \in more
  <2>1. CASE c.item # i
    BY <1>4, <1>9, <2>1 DEF Searched
  <2>2. CASE c.item = i
    <3>1. c \in Q!Candidate /\ c.claim = itemVersions[i] /\ c.hash = itemVersions[i]
      BY <2>2 DEF Q!AllOf, Q!Present
    <3>2. Q!Finds(i, queryRound[q], itemVersions[i])
      BY <1>9, <2>2 DEF Q!AllOf, Q!Present
    <3>3. c = read
      BY <1>9, <2>2, <3>1 DEF Q!Candidate
    <3>. QED
      BY <3>2, <3>3
  <2>. QED
    BY <2>1, <2>2
<1>10. Searched(queryList[q], queryBase[q], queryLeft[q] \ {i}, queryRound[q], more, itemVersions)
  <2>. HIDE DEF more
  <2>. QED
    BY <1>4, <1>8, <1>9 DEF Searched
<1>11. CallFits("searching", queryCursor[q], queryBase[q], queryList[q], queryValid[q],
                queryLeft[q] \ {i}, queryRound[q], more, itemVersions)
  <2>. HIDE DEF more
  <2>. QED
    BY <1>1, <1>4, <1>10 DEF CallFits
<1>. HIDE DEF more
<1>. QED
  BY <1>1, <1>2, <1>3, <1>7, <1>11, OneQueryKeeps

-----------------------------------------------------------------------------
(* The answer.                                                                 *)

LEMMA QueryEnds ==
    ASSUME Q!ContextTypeOK, ContextHolds, NEW q \in Asker, Q!End(q),
           UNCHANGED <<itemVersions, pageToken, queryLeft>>,
           cachedList' \in Q!Listing \cup {None}, cachedList' # None => Lists(cachedList', itemVersions),
           queryRound' = [queryRound EXCEPT ![q] = 1], queryHits' = [queryHits EXCEPT ![q] = {}]
    PROVE  (Q!ContextTypeOK /\ ContextHolds)'
<1>. USE StandsAsWas
<1>1. /\ queryAt' = [queryAt EXCEPT ![q] = "idle"] /\ queryCursor' = [queryCursor EXCEPT ![q] = None]
      /\ queryBase' = [queryBase EXCEPT ![q] = Q!Nothing.base]
      /\ queryList' = [queryList EXCEPT ![q] = Q!Nothing]
      /\ queryValid' = [queryValid EXCEPT ![q] = FALSE]
  BY DEF Q!End
<1>2. /\ queryAt'[q] = "idle" /\ queryCursor'[q] = None /\ queryBase'[q] = Q!Nothing.base
      /\ queryList'[q] = Q!Nothing /\ queryValid'[q] = FALSE /\ queryRound'[q] = 1
      /\ queryHits'[q] = {} /\ queryLeft'[q] = queryLeft[q]
  BY <1>1 DEF Q!ContextTypeOK
<1>3. OneQuery(q)
  BY <1>1, <1>2 DEF OneQuery, Q!ContextTypeOK
<1>4. CallFits("idle", None, Q!Nothing.base, Q!Nothing, FALSE, queryLeft[q], 1, {}, itemVersions)
  BY EndedQuery
<1>5. 1 \in Q!Round /\ {} \in SUBSET Q!Candidate /\ FALSE \in BOOLEAN
  BY ContextAssumed DEF Q!Round
<1>6. CallFits(queryAt'[q], queryCursor'[q], queryBase'[q], queryList'[q], queryValid'[q],
               queryLeft'[q], queryRound'[q], queryHits'[q], itemVersions)
  BY <1>2, <1>4
<1>7. pageToken' = pageToken
  OBVIOUS
<1>. QED
  BY <1>2, <1>3, <1>5, <1>6, <1>7, NothingTypes, OneQueryKeeps

\* An answer with a list that is as it should be leaves everything so.
LEMMA QueryAnswered ==
    ASSUME Q!ContextTypeOK, ContextHolds, NEW q \in Asker, NEW l \in Q!Listing, Q!Answer(q, l),
           UNCHANGED <<itemVersions, queryLeft>>,
           cachedList' \in Q!Listing \cup {None}, cachedList' # None => Lists(cachedList', itemVersions),
           queryRound' = [queryRound EXCEPT ![q] = 1], queryHits' = [queryHits EXCEPT ![q] = {}],
           queryAt[q] # "idle", Lists(l, itemVersions),
           queryValid[q] => Q!Exact(l, queryBase[q]),
           ASSUME queryCursor[q] # None, Q!Index(queryCursor[q]) = Q!Index(l), ~ queryCursor[q].partial
           PROVE  l.found \subseteq queryCursor[q].found
    PROVE  (Q!ContextTypeOK /\ ContextHolds)'
<1>. USE StandsAsWas
<1>1. CASE Q!End(q) /\ UNCHANGED pageToken
  BY <1>1, QueryEnds
<1>2. CASE /\ ~ Q!Refused(q, l)
           /\ queryAt' = [queryAt EXCEPT ![q] = "answered"]
           /\ queryList' = [queryList EXCEPT ![q] = l]
           /\ pageToken' \in {pageToken, IF queryCursor[q] = None THEN l ELSE queryCursor[q]}
           /\ UNCHANGED <<queryCursor, queryBase, queryValid>>
  <2>1. /\ queryAt'[q] = "answered" /\ queryList'[q] = l /\ queryRound'[q] = 1 /\ queryHits'[q] = {}
        /\ queryCursor'[q] = queryCursor[q] /\ queryBase'[q] = queryBase[q]
        /\ queryValid'[q] = queryValid[q] /\ queryLeft'[q] = queryLeft[q]
    BY <1>2 DEF Q!ContextTypeOK
  <2>2. OneQuery(q)
    BY <1>2, <2>1 DEF OneQuery, Q!ContextTypeOK
  <2>3. queryCursor[q] # None => Q!Index(queryCursor[q]) = Q!Index(l)
    BY <1>2 DEF Q!Refused
  <2>4. queryCursor[q] # None => Lists(queryCursor[q], itemVersions)
    BY DEF CallFits
  <2>5. queryCursor[q] # None /\ ~ queryCursor[q].partial => l.found \subseteq queryCursor[q].found
    BY <2>3
  <2>6. CallFits("answered", queryCursor[q], queryBase[q], l, queryValid[q], queryLeft[q], 1, {}, itemVersions)
    BY <2>5 DEF CallFits
  <2>7. /\ pageToken' \in Q!Listing \cup {None}
        /\ pageToken' # None => Lists(pageToken', itemVersions)
    BY <1>2, <2>4
  <2>8. 1 \in Q!Round /\ {} \in SUBSET Q!Candidate
    BY ContextAssumed DEF Q!Round
  <2>9. CallFits(queryAt'[q], queryCursor'[q], queryBase'[q], queryList'[q], queryValid'[q],
                 queryLeft'[q], queryRound'[q], queryHits'[q], itemVersions)
    BY <2>1, <2>6
  <2>10. /\ queryCursor[q] \in Q!Listing \cup {None} /\ queryBase[q] \in [Q!Item -> Q!Version]
         /\ queryValid[q] \in BOOLEAN /\ queryLeft[q] \in SUBSET Q!Item
    OBVIOUS
  <2>. QED
    BY <2>1, <2>2, <2>7, <2>8, <2>9, <2>10, OneQueryKeeps
<1>. QED
  BY <1>1, <1>2 DEF Q!Answer

LEMMA HitKeeps ==
    ASSUME Q!ContextTypeOK, ContextHolds, NEW q \in Asker, Q!Hit(q)
    PROVE  (Q!ContextTypeOK /\ ContextHolds)'
<1>. USE StandsAsWas
<1>1. /\ queryAt[q] = "checking" /\ queryValid[q] /\ Q!Answer(q, queryList[q])
      /\ UNCHANGED <<itemVersions, cachedList, queryLeft, queryRound, queryHits>>
  BY DEF Q!Hit, Q!workVars
<1>2. /\ Lists(queryList[q], itemVersions) /\ queryHits[q] = {} /\ queryRound[q] = 1
      /\ queryList[q].base = queryBase[q] /\ Q!Exact(queryList[q], queryBase[q])
      /\ queryCursor[q] # None => (queryCursor[q].base = queryBase[q] => Q!Exact(queryCursor[q], queryBase[q]))
  BY <1>1 DEF CallFits
<1>3. queryRound' = [queryRound EXCEPT ![q] = 1] /\ queryHits' = [queryHits EXCEPT ![q] = {}]
  BY <1>1, <1>2 DEF Q!ContextTypeOK
<1>4. ASSUME queryCursor[q] # None, Q!Index(queryCursor[q]) = Q!Index(queryList[q]), ~ queryCursor[q].partial
      PROVE  queryList[q].found \subseteq queryCursor[q].found
  <2>1. queryCursor[q] \in Q!Listing /\ queryList[q] \in Q!Listing
    BY <1>4
  <2>. QED
    BY <1>2, <1>4, <2>1, GoesOnCached
<1>5. queryList[q] \in Q!Listing /\ queryAt[q] # "idle" /\ cachedList' = cachedList
  BY <1>1
<1>. QED
  BY <1>1, <1>2, <1>3, <1>4, <1>5, QueryAnswered

LEMMA MissKeeps ==
    ASSUME Q!ContextTypeOK, ContextHolds, NEW q \in Asker, Q!Miss(q)
    PROVE  (Q!ContextTypeOK /\ ContextHolds)'
<1>. USE StandsAsWas
<1>1. /\ queryAt[q] = "checking" /\ cachedList' = None
      /\ queryAt' = [queryAt EXCEPT ![q] = "searching"]
      /\ queryList' = [queryList EXCEPT ![q] = [Q!Nothing EXCEPT !.base = queryBase[q]]]
      /\ queryLeft' = [queryLeft EXCEPT ![q] = File]
      /\ queryValid' = [queryValid EXCEPT ![q] = FALSE]
      /\ UNCHANGED <<itemVersions, pageToken, queryCursor, queryBase, queryRound, queryHits>>
  BY DEF Q!Miss, Q!Search
<1>2. /\ queryAt'[q] = "searching" /\ queryList'[q] = [Q!Nothing EXCEPT !.base = queryBase[q]]
      /\ queryLeft'[q] = File /\ queryValid'[q] = FALSE
  BY <1>1 DEF Q!ContextTypeOK
<1>3. OneQuery(q)
  BY <1>1, <1>2 DEF OneQuery, Q!ContextTypeOK
<1>4. /\ Before(queryBase[q], itemVersions) /\ queryHits[q] = {} /\ queryRound[q] = 1
      /\ queryCursor[q] # None => Lists(queryCursor[q], itemVersions)
      /\ queryCursor[q] # None => (queryCursor[q].base = queryBase[q] => Q!Exact(queryCursor[q], queryBase[q]))
  BY <1>1 DEF CallFits
<1>5. /\ queryList'[q] \in Q!Listing
      /\ CallFits("searching", queryCursor[q], queryBase[q], queryList'[q], FALSE, File, 1, {}, itemVersions)
  BY <1>2, <1>4, BegunQuery
<1>6. File \in SUBSET Q!Item /\ FALSE \in BOOLEAN
  BY DEF Q!Item
<1>7. CallFits(queryAt'[q], queryCursor'[q], queryBase'[q], queryList'[q], queryValid'[q],
               queryLeft'[q], queryRound'[q], queryHits'[q], itemVersions)
  BY <1>1, <1>2, <1>4, <1>5
<1>. QED
  BY <1>1, <1>2, <1>3, <1>5, <1>6, <1>7, OneQueryKeeps

LEMMA HashKeeps ==
    ASSUME Q!ContextTypeOK, ContextHolds, NEW q \in Asker, Q!Hash(q)
    PROVE  (Q!ContextTypeOK /\ ContextHolds)'
<1>. USE StandsAsWas
<1>1. PICK kept \in SUBSET queryHits[q], cut \in BOOLEAN :
          /\ cut \/ kept = queryHits[q]
          /\ queryList' = [queryList EXCEPT ![q] =
                 Q!Adds(queryList[q], {[c EXCEPT !.hash = itemVersions[c.item]] : c \in kept}, cut)]
  BY DEF Q!Hash
<1>. DEFINE hashed == {[c EXCEPT !.hash = itemVersions[c.item]] : c \in kept}
            new == Q!Adds(queryList[q], hashed, cut)
            unread == Q!Sought(queryRound[q] + 1)
<1>2. /\ queryAt[q] = "searching" /\ queryRound[q] \in Q!Term /\ queryLeft[q] = {}
      /\ queryRound' = [queryRound EXCEPT ![q] = @ + 1]
      /\ queryLeft' = [queryLeft EXCEPT ![q] = unread]
      /\ queryHits' = [queryHits EXCEPT ![q] = {}]
      /\ UNCHANGED <<itemVersions, cachedList, pageToken, queryAt, queryCursor, queryBase, queryValid>>
  BY DEF Q!Hash, Q!pageVars
<1>3. queryList'[q] = new /\ queryRound'[q] = queryRound[q] + 1 /\ queryLeft'[q] = unread /\ queryHits'[q] = {}
  BY <1>1, <1>2 DEF Q!ContextTypeOK
<1>4. OneQuery(q)
  BY <1>1, <1>2, <1>3 DEF OneQuery, Q!ContextTypeOK
<1>5. /\ Searched(queryList[q], queryBase[q], {}, queryRound[q], queryHits[q], itemVersions)
      /\ ~ queryValid[q]
  BY <1>2 DEF CallFits
<1>6. ASSUME NEW c \in queryHits[q]
      PROVE  /\ [c EXCEPT !.hash = itemVersions[c.item]] \in Q!Candidate
             /\ ReadSince([c EXCEPT !.hash = itemVersions[c.item]], queryBase[q], itemVersions)
  <2>1. c \in Q!Candidate /\ ReadSince(c, queryBase[q], itemVersions) /\ itemVersions[c.item] \in Q!Version
    BY <1>5 DEF Searched, Q!Candidate
  <2>2. /\ [c EXCEPT !.hash = itemVersions[c.item]].item = c.item
        /\ [c EXCEPT !.hash = itemVersions[c.item]].term = c.term
        /\ [c EXCEPT !.hash = itemVersions[c.item]].claim = c.claim
        /\ [c EXCEPT !.hash = itemVersions[c.item]].hash = itemVersions[c.item]
    BY <2>1 DEF Q!Candidate
  <2>3. c.claim <= itemVersions[c.item] /\ itemVersions[c.item] <= itemVersions[c.item]
    BY <2>1, ContextAssumed DEF Q!Candidate, Q!Version, ReadSince
  <2>. QED
    BY <2>1, <2>2, <2>3 DEF Q!Candidate, ReadSince
<1>7. hashed \in SUBSET Q!Candidate /\ \A c \in hashed : ReadSince(c, queryBase[q], itemVersions)
  BY <1>6
<1>8. cut \/ \A c \in queryHits[q] : c \in Q!AllOf(itemVersions) => c \in hashed
  <2>1. ASSUME NEW c \in queryHits[q], c \in Q!AllOf(itemVersions), kept = queryHits[q] PROVE c \in hashed
    <3>1. [c EXCEPT !.hash = itemVersions[c.item]] = c
      BY <2>1 DEF Q!AllOf, Q!Present, Q!Candidate
    <3>. QED
      BY <2>1, <3>1
  <2>. QED
    BY <1>1, <2>1
<1>9. new \in Q!Listing /\ Searched(new, queryBase[q], unread, queryRound[q] + 1, {}, itemVersions)
  <2>1. queryList[q] \in Q!Listing /\ queryRound[q] \in Q!Round /\ queryHits[q] \in SUBSET Q!Candidate
    OBVIOUS
  <2>. HIDE DEF hashed
  <2>. QED
    BY <1>5, <1>7, <1>8, <2>1, RoundOver
<1>10. unread \subseteq Q!Item /\ queryRound[q] + 1 \in Q!Round /\ {} \in SUBSET Q!Candidate
  BY <1>2, ContextAssumed DEF Q!Item, Q!Term, Q!Round, Q!Sought
<1>. HIDE DEF new, unread
<1>11. CallFits("searching", queryCursor[q], queryBase[q], new, queryValid[q],
                unread, queryRound[q] + 1, {}, itemVersions)
  BY <1>2, <1>5, <1>9 DEF CallFits
<1>12. CallFits(queryAt'[q], queryCursor'[q], queryBase'[q], queryList'[q], queryValid'[q],
                queryLeft'[q], queryRound'[q], queryHits'[q], itemVersions)
  BY <1>2, <1>3, <1>11
<1>. QED
  BY <1>2, <1>3, <1>4, <1>9, <1>10, <1>12, OneQueryKeeps

LEMMA StoreKeeps ==
    ASSUME Q!ContextTypeOK, ContextHolds, NEW q \in Asker, Q!Store(q)
    PROVE  (Q!ContextTypeOK /\ ContextHolds)'
<1>. USE StandsAsWas
<1>1. PICK kept \in SUBSET queryHits[q], cut \in BOOLEAN :
          /\ cut \/ kept = queryHits[q]
          /\ cachedList' = Q!Adds(queryList[q], kept, cut)
          /\ Q!Answer(q, Q!Adds(queryList[q], kept, cut))
  BY DEF Q!Store
<1>. DEFINE new == Q!Adds(queryList[q], kept, cut)
<1>2. /\ queryAt[q] = "searching" /\ queryRound[q] \notin Q!Term /\ queryLeft[q] = {}
      /\ queryRound' = [queryRound EXCEPT ![q] = 1]
      /\ queryHits' = [queryHits EXCEPT ![q] = {}]
      /\ UNCHANGED <<itemVersions, queryLeft>>
  BY DEF Q!Store
<1>3. /\ Searched(queryList[q], queryBase[q], {}, queryRound[q], queryHits[q], itemVersions)
      /\ ~ queryValid[q]
      /\ queryCursor[q] # None => (queryCursor[q].base = queryBase[q] => Q!Exact(queryCursor[q], queryBase[q]))
  BY <1>2 DEF CallFits
<1>4. new \in Q!Listing /\ new.base = queryBase[q] /\ Lists(new, itemVersions)
  <2>1. /\ queryList[q] \in Q!Listing /\ queryRound[q] \in Q!Round /\ kept \in SUBSET Q!Candidate
        /\ queryHits[q] \in SUBSET Q!Candidate
    OBVIOUS
  <2>2. \A c \in kept : ReadSince(c, queryBase[q], itemVersions)
    BY <1>3 DEF Searched
  <2>3. /\ new \in Q!Listing
        /\ Searched(new, queryBase[q], Q!Sought(queryRound[q] + 1), queryRound[q] + 1, {}, itemVersions)
    BY <1>1, <1>3, <2>1, <2>2, RoundOver
  <2>. QED
    BY <1>2, <2>1, <2>3, SearchEnds
<1>. HIDE DEF new
<1>5. ASSUME queryCursor[q] # None, Q!Index(queryCursor[q]) = Q!Index(new), ~ queryCursor[q].partial
      PROVE  new.found \subseteq queryCursor[q].found
  <2>1. queryCursor[q] \in Q!Listing /\ Listed(new, itemVersions)
    BY <1>4, <1>5 DEF Lists
  <2>. QED
    BY <1>3, <1>4, <1>5, <2>1, GoesOnSearched
<1>6. cachedList' = new /\ Q!Answer(q, new)
  BY <1>1 DEF new
<1>. QED
  BY <1>2, <1>3, <1>4, <1>5, <1>6, QueryAnswered

LEMMA DoneKeeps ==
    ASSUME Q!ContextTypeOK, ContextHolds, NEW q \in Asker, Q!Done(q)
    PROVE  (Q!ContextTypeOK /\ ContextHolds)'
<1>. USE StandsAsWas
<1>1. /\ queryAt[q] = "answered" /\ Q!End(q)
      /\ UNCHANGED <<itemVersions, cachedList, pageToken, queryLeft, queryRound, queryHits>>
  BY DEF Q!Done, Q!pageVars, Q!workVars
<1>2. queryHits[q] = {} /\ queryRound[q] = 1
  BY <1>1 DEF CallFits
<1>3. queryRound' = [queryRound EXCEPT ![q] = 1] /\ queryHits' = [queryHits EXCEPT ![q] = {}]
  BY <1>1, <1>2 DEF Q!ContextTypeOK
<1>4. cachedList' = cachedList
  BY <1>1
<1>. QED
  BY <1>1, <1>3, <1>4, QueryEnds

LEMMA EvictKeeps ==
    ASSUME Q!ContextTypeOK, ContextHolds, Q!Evict
    PROVE  (Q!ContextTypeOK /\ ContextHolds)'
<1>1. cachedList' = None /\ UNCHANGED <<itemVersions, pageToken, queryAt, queryCursor, queryBase, queryList,
                                        queryValid, queryLeft, queryRound, queryHits>>
  BY DEF Q!Evict, Q!callVars, Q!workVars
<1>. QED
  BY <1>1 DEF Q!ContextTypeOK, ContextHolds, CallHolds

LEMMA ReopenKeeps ==
    ASSUME Q!ContextTypeOK, ContextHolds, Q!Reopen
    PROVE  (Q!ContextTypeOK /\ ContextHolds)'
<1>1. /\ queryAt' = [q \in Asker |-> "idle"] /\ queryCursor' = [q \in Asker |-> None]
      /\ queryBase' = [q \in Asker |-> Q!Nothing.base] /\ queryList' = [q \in Asker |-> Q!Nothing]
      /\ queryValid' = [q \in Asker |-> FALSE] /\ queryLeft' = [q \in Asker |-> {}]
      /\ queryRound' = [q \in Asker |-> 1] /\ queryHits' = [q \in Asker |-> {}]
      /\ UNCHANGED <<itemVersions, cachedList, pageToken>>
  BY DEF Q!Reopen, Q!pageVars
<1>2. itemVersions \in [Q!Item -> Q!Version]
  BY DEF Q!ContextTypeOK
<1>3. Q!ContextTypeOK'
  <2>1. 1 \in Q!Round
    BY ContextAssumed DEF Q!Round
  <2>. QED
    BY <1>1, <2>1, NothingTypes DEF Q!ContextTypeOK
<1>4. ASSUME NEW q \in Asker PROVE CallHolds(q)'
  <2>1. CallFits("idle", None, Q!Nothing.base, Q!Nothing, FALSE, {}, 1, {}, itemVersions)
    BY <1>2, EndedQuery
  <2>. QED
    BY <1>1, <2>1 DEF CallHolds
<1>. QED
  BY <1>1, <1>3, <1>4 DEF ContextHolds

-----------------------------------------------------------------------------
LEMMA ContextInductive ==
    /\ Q!ContextInit => Q!ContextTypeOK /\ ContextHolds
    /\ (Q!ContextTypeOK /\ ContextHolds) /\ (Q!ContextNext \/ UNCHANGED Q!contextVars)
          => (Q!ContextTypeOK /\ ContextHolds)'
<1>1. ASSUME Q!ContextInit PROVE Q!ContextTypeOK /\ ContextHolds
  <2>1. 1 \in Q!Round
    BY ContextAssumed DEF Q!Round
  <2>2. Q!ContextTypeOK
    BY <1>1, <2>1, NothingTypes DEF Q!ContextInit, Q!ContextTypeOK
  <2>3. ASSUME NEW q \in Asker PROVE CallHolds(q)
    <3>1. CallFits("idle", None, Q!Nothing.base, Q!Nothing, FALSE, {}, 1, {}, itemVersions)
      BY <2>2, EndedQuery DEF Q!ContextTypeOK
    <3>. QED
      BY <1>1, <3>1 DEF CallHolds, Q!ContextInit
  <2>. QED
    BY <1>1, <2>2, <2>3 DEF Q!ContextInit, ContextHolds
<1>2. ASSUME Q!ContextTypeOK, ContextHolds, Q!ContextNext PROVE (Q!ContextTypeOK /\ ContextHolds)'
  BY <1>2, ContextEditKeeps, ContextAskKeeps, HitKeeps, MissKeeps, HashKeeps, StoreKeeps, DoneKeeps,
     RecheckKeeps, LookKeeps, EvictKeeps, ReopenKeeps DEF Q!ContextNext
<1>3. ASSUME Q!ContextTypeOK, ContextHolds, UNCHANGED Q!contextVars
      PROVE  (Q!ContextTypeOK /\ ContextHolds)'
  BY <1>3 DEF Q!contextVars, Q!pageVars, Q!callVars, Q!workVars, Q!ContextTypeOK, ContextHolds, CallHolds
<1>. QED
  BY <1>1, <1>2, <1>3

LEMMA ContextSoundHolds == Q!ContextTypeOK /\ ContextHolds => Q!ContextSound
BY DEF Q!ContextTypeOK, ContextHolds, CallHolds, CallFits, Q!ContextSound, Q!HitsExact, Q!PagesContinue

-----------------------------------------------------------------------------
(* The services together.  A behaviour is of one of them: its steps are steps *)
(* of that one, and no other moves.                                         *)

MemoryPart == part = "memory" => MemoryTypeOK /\ MemoryHolds
LspPart == part = "lsp" => LspHold
AgentsPart == part = "agents" => A!SubagentsTypeOK /\ AgentsHold
BrainPart == part = "brain" => B!BrainTypeOK /\ BrainHolds
TunnelPart == part = "tunnel" => T!TunnelTypeOK /\ TunnelHolds
RunsPart == part = "runs" => G!AgentRunsTypeOK /\ AgentRunsHold
ResourcesPart == part = "resources" => R!ResourcesTypeOK /\ ResourcesHold
DaemonsPart == part = "daemons" => DaemonsHold
CodePart == part = "code" => W!WorkersTypeOK /\ WorkersHold
VerificationPart == part = "verification" => V!VerificationTypeOK /\ VerificationHolds
ContextPart == part = "context" => Q!ContextTypeOK /\ ContextHolds

\* The initial state of the whole is one of every part.
LEMMA EveryBegins ==
    servicesInit => /\ MemoryInit
                    /\ L!LspInit
                    /\ A!SubagentsInit
                    /\ B!BrainInit
                    /\ T!TunnelInit
                    /\ G!AgentRunsInit
                    /\ R!ResourcesInit
                    /\ P!DaemonsInit
                    /\ W!WorkersInit
                    /\ V!VerificationInit
                    /\ Q!ContextInit
BY DEF servicesInit

\* A step is one of the part whose behaviour it is.
LEMMA OneMoves ==
    ASSUME [servicesNext]_servicesVars
    PROVE  /\ part' = part
           /\ part = "memory" => [MemoryNext]_(memoryVars)
           /\ part = "lsp" => [L!LspNext]_(L!lspVars)
           /\ part = "agents" => [A!SubagentsNext]_(A!agentVars)
           /\ part = "brain" => [B!BrainNext]_(B!brainVars)
           /\ part = "tunnel" => [T!TunnelNext]_(T!tunnelVars)
           /\ part = "runs" => [G!AgentRunsNext]_(G!runVars)
           /\ part = "resources" => [R!ResourcesNext]_(R!casVars)
           /\ part = "daemons" => [P!DaemonsNext]_(P!daemonVars)
           /\ part = "code" => [W!WorkersNext]_(W!workersVars)
           /\ part = "verification" => [V!VerificationNext]_(V!verificationVars)
           /\ part = "context" => [Q!ContextNext]_(Q!contextVars)
<1>1. CASE UNCHANGED servicesVars
  BY <1>1
  DEF servicesVars, memoryVars, lspVars, agentVars, brainVars, tunnelVars, runVars,
      casVars, daemonVars, workersVars, verificationVars, L!lspVars, A!agentVars,
      B!brainVars, T!tunnelVars, G!runVars, R!casVars, P!daemonVars, W!workersVars,
      V!verificationVars, P!processVars, P!fileVars, V!runVars, contextVars, Q!contextVars,
      Q!pageVars, Q!callVars, Q!workVars
<1>2. CASE servicesNext
  BY <1>2 DEF servicesNext
<1>. QED
  BY <1>1, <1>2

\* What is remembered is what the owner approved, of proposals that were verified
\* against the source (memory/memoryService.ts), whichever service moves.
THEOREM MemoriesCorrect == ServicesSafety => []MemoriesTrue
<1>1. servicesInit => MemoryTypeOK /\ MemoryHolds
  BY EveryBegins, MemoryInductive
<1>2. [servicesNext]_servicesVars => [MemoryNext]_memoryVars
  BY DEF servicesNext, servicesVars
<1>3. MemoryTypeOK /\ MemoryHolds /\ [servicesNext]_servicesVars => (MemoryTypeOK /\ MemoryHolds)'
  BY <1>2, MemoryInductive
<1>4. MemoryHolds => MemoriesTrue
  BY DEF MemoryHolds
<1>. QED
  BY <1>1, <1>3, <1>4, PTL DEF ServicesSafety

\* Records of the memory keep their form; the graph of files is the one a rebuild
\* of the cached files would give, and no two files share an identity
\* (brain/brainService.ts); a reference has its bytes (resources/casStore.ts); an answer
\* from the context cache is exact, and a page goes on in the list of the first one
\* (context/contextEngine.ts).
THEOREM StoresCorrect == ServicesSafety => []StoresSound
<1> DEFINE Inv == MemoryPart /\ BrainPart /\ ResourcesPart /\ ContextPart
<1>1. servicesInit => Inv
  BY EveryBegins, MemoryInductive, BrainInductive, ResourcesInductive, ContextInductive
  DEF MemoryPart, BrainPart, ResourcesPart, ContextPart
<1>2. Inv /\ [servicesNext]_servicesVars => Inv'
  <2>1. MemoryPart /\ [servicesNext]_servicesVars => MemoryPart'
    BY OneMoves, MemoryInductive DEF MemoryPart
  <2>2. BrainPart /\ [servicesNext]_servicesVars => BrainPart'
    BY OneMoves, BrainInductive DEF BrainPart
  <2>3. ResourcesPart /\ [servicesNext]_servicesVars => ResourcesPart'
    BY OneMoves, ResourcesInductive DEF ResourcesPart
  <2>4. ContextPart /\ [servicesNext]_servicesVars => ContextPart'
    BY OneMoves, ContextInductive DEF ContextPart
  <2>. QED
    BY <2>1, <2>2, <2>3, <2>4
<1>3. Inv => StoresSound
  BY ContextSoundHolds
  DEF Inv, MemoryPart, BrainPart, ResourcesPart, ContextPart, StoresSound, BrainHolds, ResourcesHold
<1> HIDE DEF Inv
<1>. QED
  BY <1>1, <1>2, <1>3, PTL DEF ServicesSafety

\* No process is left running unknown and none is shown as what it is not: language
\* servers (lsp/lspService.ts), tunnels (tunnel/supervisor.ts) and daemons with the
\* one who kills them (cli/kill.ts, server/projectLease.ts).
THEOREM ProcessesCorrect == ServicesSafety => []ProcessesSafe
<1> DEFINE Inv == LspPart /\ TunnelPart /\ DaemonsPart
<1>1. servicesInit => Inv
  BY EveryBegins, LspInductive, TunnelInductive, DaemonsInductive DEF LspPart, TunnelPart, DaemonsPart
<1>2. Inv /\ [servicesNext]_servicesVars => Inv'
  <2>1. LspPart /\ [servicesNext]_servicesVars => LspPart'
    BY OneMoves, LspInductive DEF LspPart
  <2>2. TunnelPart /\ [servicesNext]_servicesVars => TunnelPart'
    BY OneMoves, TunnelInductive DEF TunnelPart
  <2>3. DaemonsPart /\ [servicesNext]_servicesVars => DaemonsPart'
    BY OneMoves, DaemonsInductive DEF DaemonsPart
  <2>. QED
    BY <2>1, <2>2, <2>3
<1>3. Inv => ProcessesSafe
  BY DaemonsSound DEF Inv, LspPart, TunnelPart, DaemonsPart, ProcessesSafe, LspHold, TunnelHolds
<1> HIDE DEF Inv
<1>. QED
  BY <1>1, <1>2, <1>3, PTL DEF ServicesSafety

\* Those who work for a call do what is recorded and no more: subagents take each step
\* once and leave no job behind (ai/subagents.ts), hypotheses hold their paths alone and
\* rows say what runs (agent/agentService.ts), threads that read code work for those who
\* wait (intelligence/intelService.ts, brain/brainParser.ts), and evidence that was told
\* to be stale stays stale (assistance/verification.ts).
THEOREM WorkersCorrect == ServicesSafety => []WorkersTrue
<1> DEFINE Inv == AgentsPart /\ RunsPart /\ CodePart /\ VerificationPart
<1>1. servicesInit => Inv
  BY EveryBegins, AgentsInductive, AgentRunsInductive, WorkersInductive, VerificationInductive DEF AgentsPart, RunsPart, CodePart, VerificationPart
<1>2. Inv /\ [servicesNext]_servicesVars => Inv'
  <2>1. AgentsPart /\ [servicesNext]_servicesVars => AgentsPart'
    BY OneMoves, AgentsInductive DEF AgentsPart
  <2>2. RunsPart /\ [servicesNext]_servicesVars => RunsPart'
    BY OneMoves, AgentRunsInductive DEF RunsPart
  <2>3. CodePart /\ [servicesNext]_servicesVars => CodePart'
    BY OneMoves, WorkersInductive DEF CodePart
  <2>4. VerificationPart /\ [servicesNext]_servicesVars => VerificationPart'
    BY OneMoves, VerificationInductive DEF VerificationPart
  <2>. QED
    BY <2>1, <2>2, <2>3, <2>4
<1>3. Inv => WorkersTrue
  BY AgentsSound, CodeSound DEF Inv, AgentsPart, RunsPart, CodePart, VerificationPart, WorkersTrue, AgentRunsHold, VerificationHolds
<1> HIDE DEF Inv
<1>. QED
  BY <1>1, <1>2, <1>3, PTL DEF ServicesSafety

=============================================================================
