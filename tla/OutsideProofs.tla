---------------------------- MODULE OutsideProofs ----------------------------
(***************************************************************************)
(* What holds of the parts of MCOutside for all values of their constants: *)
(* an inductive invariant for each, and the invariants of the whole from   *)
(* them.                                                                   *)
(***************************************************************************)
EXTENDS MCOutside, FiniteSetTheorems, SequenceTheorems, TLAPS

-----------------------------------------------------------------------------
(* Git: commits and restores.                                              *)

\* Of a commit under way: what it will publish differs from the index it read
\* only where it was asked to; HEAD has moved since it looked when it landed;
\* and it publishes after that.
GitHolds ==
    /\ gitOp.kind = "commit" /\ gitOp.pc # "lock" =>
          /\ \A p \in TrackedPath \ gitOp.sel : gitOp.candidate[p] = gitOp.original[p]
          /\ gitOp.published <=> gitOp.pc = "report"
          /\ gitOp.pc = "stage" => ~gitOp.landed
          /\ gitOp.pc \in {"publish", "report"} => gitOp.landed
          /\ gitOp.before <= head.n
          /\ gitOp.pc = "git" /\ gitOp.landed => gitOp.before < head.n
    /\ G!CommitTrue

LEMMA GitAssumed == G!GitAssumption
BY Assumed

\* The operation under way is what its kind and its place say it is.
LEMMA OperationIs ==
    ASSUME gitOp \in G!Operation
    PROVE  /\ gitOp.kind = "commit" /\ gitOp.pc = "lock" => gitOp \in G!Start
           /\ gitOp.kind = "commit" /\ gitOp.pc # "lock" => gitOp \in G!Committing
           /\ gitOp.kind = "restore" /\ gitOp.pc = "status" => gitOp \in G!Status
           /\ gitOp.kind = "restore" /\ gitOp.pc = "add" => gitOp \in G!Saving
           /\ gitOp.kind = "restore" /\ gitOp.pc = "checkout" => gitOp \in G!Restoring
BY DEF G!Operation, G!Idle, G!Start, G!Committing, G!Status, G!Saving, G!Restoring

\* Every step keeps what the variables are.
LEMMA GitTypeStep ==
    ASSUME G!GitTypeOK, GitHolds, [G!GitNext]_(G!gitVars)
    PROVE  G!GitTypeOK'
<1>1. ASSUME NEW s \in SUBSET TrackedPath, G!Commit(s) PROVE G!GitTypeOK'
  <2>1. gitOp' \in G!Start
    BY <1>1 DEF G!Commit, G!Start
  <2>. QED
    BY <1>1, <2>1 DEF G!Commit, G!GitTypeOK, G!repo, G!history, G!Operation
<1>2. ASSUME NEW s \in SUBSET TrackedPath, G!Checkpoint(s) PROVE G!GitTypeOK'
  <2>1. gitOp \in G!Status
    BY <1>2, OperationIs DEF G!Checkpoint, G!GitTypeOK
  <2>2. gitOp' \in G!Saving
    BY <1>2, <2>1 DEF G!Checkpoint, G!GitTypeOK, G!Status, G!Saving
  <2>. QED
    BY <1>2, <2>2 DEF G!Checkpoint, G!GitTypeOK, G!repo, G!history, G!Operation
<1>3. ASSUME G!CommitAll PROVE G!GitTypeOK'
  <2>1. gitOp' \in G!Start
    BY <1>3 DEF G!CommitAll, G!Commit, G!Start, G!Changed
  <2>. QED
    BY <1>3, <2>1
    DEF G!CommitAll, G!Commit, G!GitTypeOK, G!repo, G!history, G!Operation
<1>4. ASSUME G!Busy PROVE G!GitTypeOK'
  <2>1. gitOp' = G!Idle /\ UNCHANGED <<head, gitIndex, worktree, unstaged, lost>>
    BY <1>4 DEF G!Busy, G!repo, G!history, G!Answer
  <2>. QED
    BY <1>4, <2>1, GitAssumed
    DEF G!Busy, G!GitTypeOK, G!Operation, G!GitAssumption, G!Answer, G!Happens
<1>5. ASSUME G!Lock PROVE G!GitTypeOK'
  <2>1. gitOp \in G!Start
    BY <1>5, OperationIs DEF G!Lock, G!GitTypeOK
  <2>2. gitOp' \in G!Committing
    BY <1>5, <2>1, GitAssumed
    DEF G!Lock, G!GitTypeOK, G!Start, G!Committing, G!GitAssumption
  <2>. QED
    BY <1>5, <2>2 DEF G!Lock, G!GitTypeOK, G!repo, G!history, G!Operation
<1>6. ASSUME G!Stage PROVE G!GitTypeOK'
  <2>1. gitOp \in G!Committing
    BY <1>6, OperationIs DEF G!Stage, G!GitTypeOK
  <2>2. G!Added(gitOp.sel, gitOp.original) \in G!Tree
    BY <2>1 DEF G!Committing, G!Added, G!GitTypeOK, G!Tree
  <2>3. [gitOp EXCEPT !.pc = "git", !.before = head.n,
                      !.candidate = G!Added(gitOp.sel, gitOp.original)] \in G!Committing
    <3>1. head.n \in Nat
      BY GitAssumed DEF G!GitTypeOK, G!GitAssumption
    <3>2. [gitOp EXCEPT !.pc = "git"] \in G!Committing
      BY <2>1 DEF G!Committing
    <3>3. [[gitOp EXCEPT !.pc = "git"] EXCEPT !.before = head.n] \in G!Committing
      BY <3>1, <3>2 DEF G!Committing
    <3>. QED
      BY <2>2, <3>3 DEF G!Committing
  <2>4. gitOp' \in G!Committing \cup {G!Idle}
    BY <2>3, <1>6, <2>1, <2>2, GitAssumed
    DEF G!Stage, G!GitTypeOK, G!Committing, G!GitAssumption, G!Answer
  <2>5. gitIndex' \in G!Tree /\ head'.tree \in G!Tree /\ head'.n \in 0 .. MaxCommits
    BY <1>6, <2>1, GitAssumed
    DEF G!Stage, G!GitTypeOK, G!Committing, G!repo, G!GitAssumption, G!Answer
  <2>6. unstaged' \subseteq TrackedPath
    BY <1>6 DEF G!Stage, G!GitTypeOK, G!history, G!Answer
  <2>. QED
    BY <1>6, <2>4, <2>5, <2>6, GitAssumed
    DEF G!Stage, G!GitTypeOK, G!Operation, G!repo, G!history, G!GitAssumption,
        G!Answer
<1>7. ASSUME G!Land PROVE G!GitTypeOK'
  <2>1. gitOp \in G!Committing
    BY <1>7, OperationIs DEF G!Land, G!GitTypeOK
  <2>4. gitOp' \in G!Committing \cup {G!Idle}
    BY <1>7, <2>1, GitAssumed DEF G!Land, G!GitTypeOK, G!Committing, G!GitAssumption
  <2>5. gitIndex' \in G!Tree /\ head'.tree \in G!Tree /\ head'.n \in 0 .. MaxCommits
    BY <1>7, <2>1, GitAssumed
    DEF G!Land, G!GitTypeOK, G!Committing, G!repo, G!GitAssumption
  <2>6. unstaged' \subseteq TrackedPath
    BY <1>7 DEF G!Land, G!GitTypeOK, G!history
  <2>. QED
    BY <1>7, <2>4, <2>5, <2>6, GitAssumed
    DEF G!Land, G!GitTypeOK, G!Operation, G!repo, G!history, G!GitAssumption
<1>8. ASSUME G!Succeeded PROVE G!GitTypeOK'
  <2>1. gitOp \in G!Committing
    BY <1>8, OperationIs DEF G!Succeeded, G!GitTypeOK
  <2>4. gitOp' \in G!Committing \cup {G!Idle}
    BY <1>8, <2>1, GitAssumed
    DEF G!Succeeded, G!GitTypeOK, G!Committing, G!GitAssumption
  <2>5. gitIndex' \in G!Tree /\ head'.tree \in G!Tree /\ head'.n \in 0 .. MaxCommits
    BY <1>8, <2>1, GitAssumed
    DEF G!Succeeded, G!GitTypeOK, G!Committing, G!repo, G!GitAssumption
  <2>6. unstaged' \subseteq TrackedPath
    BY <1>8 DEF G!Succeeded, G!GitTypeOK, G!history
  <2>. QED
    BY <1>8, <2>4, <2>5, <2>6, GitAssumed
    DEF G!Succeeded, G!GitTypeOK, G!Operation, G!repo, G!history, G!GitAssumption
<1>9. ASSUME G!Failed PROVE G!GitTypeOK'
  <2>1. gitOp' = G!Idle /\ UNCHANGED <<head, gitIndex, worktree, unstaged, lost>>
    BY <1>9 DEF G!Failed, G!repo, G!history, G!Answer
  <2>. QED
    BY <1>9, <2>1, GitAssumed
    DEF G!Failed, G!GitTypeOK, G!Operation, G!GitAssumption, G!Answer, G!Happens
<1>10. ASSUME G!Publish PROVE G!GitTypeOK'
  <2>1. gitOp \in G!Committing
    BY <1>10, OperationIs DEF G!Publish, G!GitTypeOK
  <2>4. gitOp' \in G!Committing \cup {G!Idle}
    BY <1>10, <2>1, GitAssumed, ZenonT(40)
    DEF G!Publish, G!GitTypeOK, G!Committing, G!GitAssumption, G!Answer
  <2>5. gitIndex' \in G!Tree /\ head'.tree \in G!Tree /\ head'.n \in 0 .. MaxCommits
    BY <1>10, <2>1, GitAssumed
    DEF G!Publish, G!GitTypeOK, G!Committing, G!repo, G!GitAssumption, G!Answer
  <2>6. unstaged' \subseteq TrackedPath
    BY <1>10 DEF G!Publish, G!GitTypeOK, G!history, G!Answer
  <2>. QED
    BY <1>10, <2>4, <2>5, <2>6, GitAssumed
    DEF G!Publish, G!GitTypeOK, G!Operation, G!repo, G!history, G!GitAssumption,
        G!Answer
<1>11. ASSUME G!Report PROVE G!GitTypeOK'
  <2>1. gitOp' = G!Idle /\ UNCHANGED <<head, gitIndex, worktree, unstaged, lost>>
    BY <1>11 DEF G!Report, G!repo, G!history, G!Answer
  <2>. QED
    BY <1>11, <2>1, GitAssumed
    DEF G!Report, G!GitTypeOK, G!Operation, G!GitAssumption, G!Answer, G!Happens
<1>12. ASSUME G!Timeout PROVE G!GitTypeOK'
  <2>1. gitOp' = G!Idle /\ UNCHANGED <<head, gitIndex, worktree, unstaged, lost>>
    BY <1>12 DEF G!Timeout, G!repo, G!history, G!Answer
  <2>. QED
    BY <1>12, <2>1, GitAssumed
    DEF G!Timeout, G!GitTypeOK, G!Operation, G!GitAssumption, G!Answer, G!Happens
<1>13. ASSUME G!BackUp PROVE G!GitTypeOK'
  <2>1. gitOp \in G!Saving
    BY <1>13, OperationIs DEF G!BackUp, G!GitTypeOK
  <2>2. G!Added(gitOp.entries, gitOp.base) \in G!Tree /\ gitOp.base \in G!Tree
    BY <2>1 DEF G!Saving, G!Added, G!GitTypeOK, G!Tree
  <2>3. gitOp' \in G!Restoring
    BY <1>13, <2>1, <2>2 DEF G!BackUp, G!Saving, G!Restoring
  <2>. QED
    BY <1>13, <2>3 DEF G!BackUp, G!GitTypeOK, G!repo, G!history, G!Operation
<1>14. ASSUME G!Checkout PROVE G!GitTypeOK'
  <2>1. gitOp \in G!Restoring
    BY <1>14, OperationIs DEF G!Checkout, G!GitTypeOK
  <2>2. worktree' \in G!Tree
    BY <1>14, <2>1 DEF G!Checkout, G!Restored, G!GitTypeOK, G!Restoring, G!Tree
  <2>. QED
    BY <1>14, <2>2 DEF G!Checkout, G!GitTypeOK, G!Operation
<1>15. ASSUME NEW tree \in G!Tree, NEW only \in SUBSET TrackedPath, G!Restore(tree, only)
      PROVE  G!GitTypeOK'
  <2>1. gitOp' \in G!Status
    BY <1>15 DEF G!Restore, G!Status
  <2>. QED
    BY <1>15, <2>1 DEF G!Restore, G!GitTypeOK, G!repo, G!history, G!Operation
<1>16. ASSUME NEW p \in TrackedPath, G!OwnerStages(p) PROVE G!GitTypeOK'
  <2>1. gitIndex' \in G!Tree
    BY <1>16 DEF G!OwnerStages, G!GitTypeOK, G!Tree
  <2>. QED
    BY <1>16, <2>1, GitAssumed
    DEF G!OwnerStages, G!GitTypeOK, G!history, G!Happens, G!GitAssumption
<1>17. ASSUME NEW p \in TrackedPath, NEW t \in Text \cup {None}, G!Edit(p, t)
      PROVE  G!GitTypeOK'
  <2>1. gitOp' \in G!Operation
    <3>1. CASE gitOp.kind = "restore" /\ gitOp.pc = "checkout"
      <4>1. gitOp \in G!Restoring
        BY <3>1, OperationIs DEF G!GitTypeOK
      <4>2. gitOp' \in G!Restoring
        BY <1>17, <3>1, <4>1 DEF G!Edit, G!Restoring
      <4>. QED
        BY <4>2 DEF G!Operation
    <3>. QED
      BY <1>17, <3>1 DEF G!Edit, G!GitTypeOK
  <2>2. worktree' \in G!Tree
    BY <1>17 DEF G!Edit, G!GitTypeOK, G!Tree
  <2>. QED
    BY <1>17, <2>1, <2>2, GitAssumed
    DEF G!Edit, G!GitTypeOK, G!history, G!Happens, G!GitAssumption
<1>18. ASSUME G!OwnerCommits PROVE G!GitTypeOK'
  <2>1. head'.tree \in G!Tree /\ head'.n \in 0 .. MaxCommits
    BY <1>18, GitAssumed DEF G!OwnerCommits, G!GitTypeOK, G!GitAssumption
  <2>. QED
    BY <1>18, <2>1, GitAssumed
    DEF G!OwnerCommits, G!GitTypeOK, G!history, G!Happens, G!GitAssumption
<1>19. ASSUME G!HeadMoves PROVE G!GitTypeOK'
  <2>1. head'.tree \in G!Tree /\ head'.n \in 0 .. MaxCommits
    BY <1>19, GitAssumed DEF G!HeadMoves, G!GitTypeOK, G!GitAssumption
  <2>. QED
    BY <1>19, <2>1, GitAssumed
    DEF G!HeadMoves, G!GitTypeOK, G!history, G!Happens, G!GitAssumption
<1>20. ASSUME G!Unlock PROVE G!GitTypeOK'
  BY <1>20, GitAssumed
  DEF G!Unlock, G!Happens, G!repo, G!history, G!GitTypeOK, G!GitAssumption
<1>21. ASSUME G!CrashGit PROVE G!GitTypeOK'
  <2>1. gitOp' = G!Idle /\ UNCHANGED <<head, gitIndex, worktree, unstaged, lost>>
    BY <1>21 DEF G!CrashGit, G!repo, G!history, G!Answer
  <2>. QED
    BY <1>21, <2>1, GitAssumed
    DEF G!CrashGit, G!GitTypeOK, G!Operation, G!GitAssumption, G!Answer, G!Happens
<1>u. ASSUME UNCHANGED G!gitVars PROVE G!GitTypeOK'
  BY <1>u DEF G!GitTypeOK, G!gitVars, G!repo, G!history
<1>. QED
  BY <1>1, <1>2, <1>3, <1>4, <1>5, <1>6, <1>7, <1>8, <1>9, <1>10, <1>11, <1>12,
     <1>13, <1>14, <1>15, <1>16, <1>17, <1>18, <1>19, <1>20, <1>21, <1>u
  DEF G!GitNext

\* Every step keeps commits true.
LEMMA GitStep ==
    ASSUME G!GitTypeOK, GitHolds, [G!GitNext]_(G!gitVars)
    PROVE  GitHolds'
<1>1. ASSUME NEW s \in SUBSET TrackedPath, G!Commit(s) PROVE GitHolds'
  BY <1>1, GitAssumed
  DEF G!Commit, G!Idle, G!repo, G!history, GitHolds, G!GitTypeOK, G!CommitTrue
<1>2. ASSUME NEW s \in SUBSET TrackedPath, G!Checkpoint(s) PROVE GitHolds'
  BY <1>2, GitAssumed
  DEF G!Checkpoint, G!Listing, G!repo, G!history, G!Changed, GitHolds, G!GitTypeOK,
      G!CommitTrue
<1>3. ASSUME G!CommitAll PROVE GitHolds'
  BY <1>3, GitAssumed
  DEF G!CommitAll, G!Changed, G!Commit, G!Idle, G!repo, G!history, GitHolds,
      G!GitTypeOK, G!CommitTrue
<1>4. ASSUME G!Busy PROVE GitHolds'
  BY <1>4, GitAssumed
  DEF G!Busy, G!Idle, G!repo, G!history, GitHolds, G!GitTypeOK, G!CommitTrue
<1>5. ASSUME G!Lock PROVE GitHolds'
  BY <1>5, GitAssumed
  DEF G!Lock, G!repo, G!history, GitHolds, G!GitTypeOK, G!CommitTrue
<1>6. ASSUME G!Stage PROVE GitHolds'
  <2>1. gitOp \in G!Committing
    BY <1>6, OperationIs DEF G!Stage, G!GitTypeOK
  <2>2. CASE G!Valid(gitOp.original) /\ G!Matches(gitOp.sel, gitOp.original)
    <3>1. gitOp' = [gitOp EXCEPT !.pc = "git", !.before = head.n,
                                 !.candidate = G!Added(gitOp.sel, gitOp.original)]
      BY <1>6, <2>2 DEF G!Stage
    <3>2. gitOp'.pc = "git" /\ gitOp'.before = head.n /\ gitOp'.sel = gitOp.sel
          /\ gitOp'.candidate = G!Added(gitOp.sel, gitOp.original)
          /\ gitOp'.original = gitOp.original /\ gitOp'.landed = gitOp.landed
          /\ gitOp'.published = gitOp.published
      BY <2>1, <3>1 DEF G!Committing
    <3>3. \A p \in TrackedPath \ gitOp.sel : G!Added(gitOp.sel, gitOp.original)[p] = gitOp.original[p]
      BY <2>1 DEF G!Added, G!Committing
    <3>4. UNCHANGED <<unstaged, lastCommit, head>> /\ head.n \in Nat
      BY <1>6, <2>2, GitAssumed
      DEF G!Stage, G!repo, G!history, G!GitTypeOK, G!GitAssumption
    <3>. QED
      BY <1>6, <3>2, <3>3, <3>4 DEF G!Stage, GitHolds, G!CommitTrue
  <2>3. CASE ~(G!Valid(gitOp.original) /\ G!Matches(gitOp.sel, gitOp.original))
    BY <1>6, <2>1, <2>3
    DEF G!Stage, G!Answer, GitHolds, G!CommitTrue, G!Idle, G!history, G!repo
  <2>. QED
    BY <2>2, <2>3
<1>7. ASSUME G!Land PROVE GitHolds'
  <2>1. gitOp \in G!Committing
    BY <1>7, OperationIs DEF G!Land, G!GitTypeOK
  <2>. QED
    BY <1>7, <2>1, GitAssumed
    DEF G!Land, GitHolds, G!CommitTrue, G!GitTypeOK, G!Committing, G!Idle, G!repo,
        G!history, G!GitAssumption
<1>8. ASSUME G!Succeeded PROVE GitHolds'
  <2>1. gitOp \in G!Committing
    BY <1>8, OperationIs DEF G!Succeeded, G!GitTypeOK
  <2>. QED
    BY <1>8, <2>1, GitAssumed
    DEF G!Succeeded, GitHolds, G!CommitTrue, G!GitTypeOK, G!Committing, G!Idle,
        G!repo, G!history, G!GitAssumption
<1>9. ASSUME G!Failed PROVE GitHolds'
  BY <1>9, GitAssumed
  DEF G!Failed, G!Answer, G!repo, G!history, G!Idle, GitHolds, G!GitTypeOK,
      G!CommitTrue
<1>10. ASSUME G!Publish PROVE GitHolds'
  <2>1. gitOp \in G!Committing
    BY <1>10, OperationIs DEF G!Publish, G!GitTypeOK
  <2>2. CASE gitIndex = gitOp.original /\ indexLock = "commit"
    <3>1. gitOp' = [gitOp EXCEPT !.pc = "report", !.published = TRUE]
      BY <1>10, <2>2 DEF G!Publish
    <3>2. gitOp'.pc = "report" /\ gitOp'.published /\ gitOp'.landed /\ gitOp'.sel = gitOp.sel
          /\ gitOp'.candidate = gitOp.candidate /\ gitOp'.original = gitOp.original
          /\ gitOp'.before = gitOp.before
      BY <1>10, <2>1, <3>1 DEF G!Committing, GitHolds, G!Publish
    <3>3. unstaged' = {} /\ lastCommit' = lastCommit /\ head' = head
      BY <1>10, <2>1, <2>2 DEF G!Publish, GitHolds, G!CommitTrue
    <3>. QED
      BY <1>10, <3>2, <3>3 DEF G!Publish, GitHolds, G!CommitTrue
  <2>3. CASE ~(gitIndex = gitOp.original /\ indexLock = "commit")
    BY <1>10, <2>1, <2>3 DEF G!Publish, G!Answer, GitHolds, G!CommitTrue, G!Idle
  <2>. QED
    BY <2>2, <2>3
<1>11. ASSUME G!Report PROVE GitHolds'
  BY <1>11, GitAssumed
  DEF G!Report, G!Idle, G!repo, G!history, GitHolds, G!GitTypeOK, G!CommitTrue
<1>12. ASSUME G!Timeout PROVE GitHolds'
  BY <1>12, GitAssumed
  DEF G!Timeout, G!Idle, G!repo, G!history, GitHolds, G!GitTypeOK, G!CommitTrue
<1>13. ASSUME G!BackUp PROVE GitHolds'
  BY <1>13, GitAssumed
  DEF G!BackUp, G!Matches, G!Added, G!repo, G!history, GitHolds, G!GitTypeOK,
      G!CommitTrue
<1>14. ASSUME G!Checkout PROVE GitHolds'
  BY <1>14, GitAssumed
  DEF G!Checkout, G!Restored, G!Idle, GitHolds, G!GitTypeOK, G!CommitTrue
<1>15. ASSUME NEW tree \in G!Tree, NEW only \in SUBSET TrackedPath, G!Restore(tree, only)
      PROVE  GitHolds'
  BY <1>15, GitAssumed
  DEF G!Restore, G!Idle, G!Differs, G!repo, G!history, GitHolds, G!GitTypeOK,
      G!CommitTrue
<1>16. ASSUME NEW p \in TrackedPath, G!OwnerStages(p) PROVE GitHolds'
  BY <1>16, GitAssumed
  DEF G!OwnerStages, G!Happens, G!history, GitHolds, G!GitTypeOK, G!CommitTrue
<1>17. ASSUME NEW p \in TrackedPath, NEW t \in Text \cup {None}, G!Edit(p, t)
      PROVE  GitHolds'
  BY <1>17, GitAssumed
  DEF G!Edit, G!Happens, G!history, GitHolds, G!GitTypeOK, G!CommitTrue
<1>18. ASSUME G!OwnerCommits PROVE GitHolds'
  <2>1. gitOp.kind = "commit" /\ gitOp.pc # "lock" => gitOp \in G!Committing
    BY OperationIs DEF G!GitTypeOK
  <2>2. head.n \in Nat /\ head'.n = head.n + 1 /\ UNCHANGED <<gitOp, lastCommit, unstaged>>
    BY <1>18, GitAssumed DEF G!OwnerCommits, G!history, G!GitTypeOK, G!GitAssumption
  <2>. QED
    BY <2>1, <2>2 DEF GitHolds, G!CommitTrue, G!Committing
<1>19. ASSUME G!HeadMoves PROVE GitHolds'
  <2>1. gitOp.kind = "commit" /\ gitOp.pc # "lock" => gitOp \in G!Committing
    BY OperationIs DEF G!GitTypeOK
  <2>2. head.n \in Nat /\ head'.n = head.n + 1 /\ UNCHANGED <<gitOp, lastCommit, unstaged>>
    BY <1>19, GitAssumed DEF G!HeadMoves, G!history, G!GitTypeOK, G!GitAssumption
  <2>. QED
    BY <2>1, <2>2 DEF GitHolds, G!CommitTrue, G!Committing
<1>20. ASSUME G!Unlock PROVE GitHolds'
  BY <1>20, GitAssumed
  DEF G!Unlock, G!Happens, G!repo, G!history, GitHolds, G!GitTypeOK, G!CommitTrue
<1>21. ASSUME G!CrashGit PROVE GitHolds'
  BY <1>21, GitAssumed
  DEF G!CrashGit, G!Happens, G!Idle, G!repo, G!history, GitHolds, G!GitTypeOK,
      G!CommitTrue
<1>u. ASSUME UNCHANGED G!gitVars PROVE GitHolds'
  BY <1>u DEF GitHolds, G!GitTypeOK, G!CommitTrue, G!gitVars, G!repo, G!history
<1>. QED
  BY <1>1, <1>2, <1>3, <1>4, <1>5, <1>6, <1>7, <1>8, <1>9, <1>10, <1>11, <1>12,
     <1>13, <1>14, <1>15, <1>16, <1>17, <1>18, <1>19, <1>20, <1>21, <1>u
  DEF G!GitNext

LEMMA GitSound ==
    /\ G!GitInit => G!GitTypeOK /\ GitHolds
    /\ G!GitTypeOK /\ GitHolds /\ [G!GitNext]_(G!gitVars) => (G!GitTypeOK /\ GitHolds)'
<1>1. G!GitInit => G!GitTypeOK /\ GitHolds
  BY GitAssumed
  DEF G!GitInit, G!GitTypeOK, GitHolds, G!CommitTrue, G!GitAssumption, G!Tree,
      G!Idle, G!Operation
<1>. QED
  BY <1>1, GitTypeStep, GitStep

-----------------------------------------------------------------------------
(* The owner's page.                                                       *)

\* Of one request: a change carries the context it was decided in, is answered
\* in that one, under the lease it came in, while that is open.
Consistent(q) ==
    /\ q.kind \in {"post", "action"} => q.context = q.of
    /\ q.kind \in {"post", "action"} /\ q.stage = "answered" => q.got = q.of
    /\ q.kind \in {"none", "state", "load"} => q.token = 0
    /\ q.token # 0 /\ q.stage \in {"forwarded", "accepted", "answered"} => q.capability = q.token
    /\ q.kind = "action" /\ q.stage = "answered" => q.live

\* The gateway accepts the cookie of the open lease only.
ConsoleHolds ==
    /\ ~ready => current <= MaxSwitches
    /\ known \in {0, lease}
    /\ \A r \in Request : Consistent(request[r])
RequestsOK ==
    request \in [Request -> C!RequestRow] /\ \A r \in Request : Consistent(request[r])

LEMMA ConsoleAssumed == MaxOpens \in Nat /\ MaxSwitches \in Nat
BY Assumed DEF C!ConsoleAssumption

LEMMA Replaced ==
    ASSUME C!ConsoleTypeOK, ConsoleHolds, NEW r \in Request,
           NEW v \in C!RequestRow, Consistent(v), request' = [request EXCEPT ![r] = v]
    PROVE  RequestsOK'
BY DEF RequestsOK, ConsoleHolds, C!ConsoleTypeOK

LEMMA FreshRow == C!Fresh \in C!RequestRow /\ Consistent(C!Fresh)
BY ConsoleAssumed DEF C!Fresh, C!Blank, C!RequestRow, Consistent, C!Context

\* A request whose stage alone changes.
LEMMA RowMoves ==
    ASSUME C!ConsoleTypeOK, ConsoleHolds, NEW r \in Request,
           NEW stage \in {"forwarded", "accepted"},
           request[r].token = 0 \/ request[r].stage = "forwarded",
           request' = [request EXCEPT ![r].stage = stage]
    PROVE  RequestsOK'
<1> DEFINE v == [request[r] EXCEPT !.stage = stage]
<1>1. request' = [request EXCEPT ![r] = v]
  BY DEF C!ConsoleTypeOK
<1>2. v \in C!RequestRow
  BY DEF C!RequestRow, C!ConsoleTypeOK
<1>3. Consistent(v)
  BY DEF Consistent, C!RequestRow, C!ConsoleTypeOK, ConsoleHolds
<1> HIDE DEF v
<1>. QED
  BY <1>1, <1>2, <1>3, Replaced

LEMMA RefusedStep ==
    ASSUME C!ConsoleTypeOK, ConsoleHolds, NEW r \in Request, C!Refused(r)
    PROVE  RequestsOK'
<1>1. CASE request[r].kind \in {"state", "load"}
  <2>1. request' = [request EXCEPT ![r] = C!Fresh]
    BY <1>1 DEF C!Refused, C!ConsoleTypeOK
  <2>. QED
    BY <2>1, FreshRow, Replaced
<1>2. CASE request[r].kind \notin {"state", "load"}
  <2> DEFINE v == C!Blank(request[r].kind, "over")
  <2>1. request' = [request EXCEPT ![r] = v]
    BY <1>2 DEF C!Refused, C!ConsoleTypeOK
  <2>2. request[r].kind \in {"none", "post", "action"}
    BY <1>2 DEF C!ConsoleTypeOK, C!RequestRow
  <2>4. v \in C!RequestRow /\ Consistent(v)
    BY <2>2, ConsoleAssumed DEF C!Blank, C!RequestRow, Consistent, C!Context
  <2> HIDE DEF v
  <2>. QED
    BY <2>1, <2>4, Replaced
<1>. QED
  BY <1>1, <1>2

LEMMA AnsweredStep ==
    ASSUME C!ConsoleTypeOK, ConsoleHolds, NEW r \in Request, C!Answered(r),
           request[r].kind \in {"post", "action"} => request[r].context = current,
           request[r].kind = "action" => C!Live(request[r].capability),
           request[r].token # 0 => request[r].capability = request[r].token
    PROVE  RequestsOK'
<1> DEFINE q == request[r]
           v == [[[q EXCEPT !.stage = "answered"] EXCEPT !.got = current]
                    EXCEPT !.live = C!Live(q.capability)]
<1>1. request' = [request EXCEPT ![r] = v]
  BY DEF C!Answered, C!ConsoleTypeOK
<1>2. C!Live(q.capability) \in BOOLEAN
  BY DEF C!Live, C!ConsoleTypeOK
<1>3. v \in C!RequestRow
  BY <1>2, ConsoleAssumed, ZenonT(40) DEF C!RequestRow, C!ConsoleTypeOK
<1>4. Consistent(v)
  BY DEF Consistent, C!RequestRow, C!ConsoleTypeOK, ConsoleHolds
<1> HIDE DEF v
<1>. QED
  BY <1>1, <1>3, <1>4, Replaced

\* Every step keeps requests consistent.
LEMMA RequestsStep ==
    ASSUME C!ConsoleTypeOK, ConsoleHolds, [C!ConsoleNext]_(C!consoleVars)
    PROVE  RequestsOK'
<1>1. ASSUME C!OpenLease PROVE RequestsOK'
  BY <1>1, ConsoleAssumed
  DEF C!OpenLease, RequestsOK, ConsoleHolds, C!ConsoleTypeOK, C!Context
<1>2. ASSUME C!CloseLease PROVE RequestsOK'
  BY <1>2, ConsoleAssumed
  DEF C!CloseLease, RequestsOK, ConsoleHolds, C!ConsoleTypeOK, C!Context
<1>3. ASSUME C!Pair PROVE RequestsOK'
  BY <1>3, ConsoleAssumed
  DEF C!Pair, RequestsOK, ConsoleHolds, C!ConsoleTypeOK, C!Context
<1>4. ASSUME C!LocalExpires PROVE RequestsOK'
  BY <1>4, ConsoleAssumed
  DEF C!LocalExpires, RequestsOK, ConsoleHolds, C!ConsoleTypeOK, C!Context
<1>5. ASSUME C!SwitchStarts PROVE RequestsOK'
  BY <1>5, ConsoleAssumed
  DEF C!SwitchStarts, C!gatewayVars, RequestsOK, ConsoleHolds, C!ConsoleTypeOK,
      C!Context
<1>6. ASSUME C!SwitchEnds PROVE RequestsOK'
  BY <1>6, ConsoleAssumed
  DEF C!SwitchEnds, C!gatewayVars, RequestsOK, ConsoleHolds, C!ConsoleTypeOK,
      C!Context
<1>7. ASSUME NEW r \in Request, C!Refresh(r) PROVE RequestsOK'
  <2> DEFINE v == [kind |-> "state", stage |-> "sent", of |-> 0, context |-> 0, token |-> 0,
              capability |-> 0, got |-> 0, live |-> TRUE]
  <2>1. request' = [request EXCEPT ![r] = v]
    BY <1>7 DEF C!Refresh, C!Sent
  <2>2. v \in C!RequestRow /\ Consistent(v)
    BY ConsoleAssumed DEF C!RequestRow, Consistent, C!ConsoleTypeOK, C!Context
  <2> HIDE DEF v
  <2>. QED
    BY <2>1, <2>2, Replaced
<1>8. ASSUME NEW r \in Request, C!Render(r) PROVE RequestsOK'
  <2>1. request' = [request EXCEPT ![r] = C!Fresh]
    BY <1>8 DEF C!Render
  <2>. QED
    BY <2>1, FreshRow, Replaced
<1>9. ASSUME NEW r \in Request, C!Load(r) PROVE RequestsOK'
  <2> DEFINE v == [kind |-> "load", stage |-> "sent", of |-> 0, context |-> shown, token |-> 0,
              capability |-> 0, got |-> 0, live |-> TRUE]
  <2>1. request' = [request EXCEPT ![r] = v]
    BY <1>9 DEF C!Load, C!Sent
  <2>2. v \in C!RequestRow /\ Consistent(v)
    BY ConsoleAssumed DEF C!RequestRow, Consistent, C!ConsoleTypeOK, C!Context
  <2> HIDE DEF v
  <2>. QED
    BY <2>1, <2>2, Replaced
<1>10. ASSUME NEW r \in Request, C!Loaded(r) PROVE RequestsOK'
  <2>1. request' = [request EXCEPT ![r] = C!Fresh]
    BY <1>10 DEF C!Loaded
  <2>. QED
    BY <2>1, FreshRow, Replaced
<1>11. ASSUME NEW r \in Request, C!Decide(r) PROVE RequestsOK'
  <2>1. PICK token \in {0, cookie} : C!Sent(r, "post", token, loadedList.of, loadedList.of)
    BY <1>11 DEF C!Decide
  <2> DEFINE v == [kind |-> "post", stage |-> "sent", of |-> loadedList.of, context |-> loadedList.of, token |-> token,
              capability |-> 0, got |-> 0, live |-> TRUE]
  <2>2. request' = [request EXCEPT ![r] = v]
    BY <2>1 DEF C!Sent
  <2>3. v \in C!RequestRow /\ Consistent(v)
    BY ConsoleAssumed DEF C!RequestRow, Consistent, C!ConsoleTypeOK, C!Context
  <2> HIDE DEF v
  <2>. QED
    BY <2>2, <2>3, Replaced
<1>12. ASSUME NEW r \in Request, C!Command(r) PROVE RequestsOK'
  <2>1. PICK token \in {0, cookie} : C!Sent(r, "action", token, shown, shown)
    BY <1>12 DEF C!Command
  <2> DEFINE v == [kind |-> "action", stage |-> "sent", of |-> shown, context |-> shown, token |-> token,
              capability |-> 0, got |-> 0, live |-> TRUE]
  <2>2. request' = [request EXCEPT ![r] = v]
    BY <2>1 DEF C!Sent
  <2>3. v \in C!RequestRow /\ Consistent(v)
    BY ConsoleAssumed DEF C!RequestRow, Consistent, C!ConsoleTypeOK, C!Context
  <2> HIDE DEF v
  <2>. QED
    BY <2>2, <2>3, Replaced
<1>13. ASSUME NEW r \in Request, C!Forward(r) PROVE RequestsOK'
  <2>1. CASE request[r].token = 0 /\ request' = [request EXCEPT ![r].stage = "forwarded"]
    BY <2>1, RowMoves DEF Consistent, C!ConsoleTypeOK, ConsoleHolds
  <2>2. CASE /\ lease # 0 /\ known = request[r].token
             /\ request' = [request EXCEPT ![r].stage = "forwarded", ![r].capability = lease]
    <3> DEFINE v == [[request[r] EXCEPT !.stage = "forwarded"] EXCEPT !.capability = lease]
    <3>1. request' = [request EXCEPT ![r] = v]
      BY <2>2 DEF C!ConsoleTypeOK
    <3>2. v \in C!RequestRow
      BY ConsoleAssumed DEF C!RequestRow, C!ConsoleTypeOK
    <3>3. Consistent(v)
      BY <1>13, <2>2
      DEF C!Forward, C!Change, Consistent, C!RequestRow, C!ConsoleTypeOK,
          ConsoleHolds
    <3> HIDE DEF v
    <3>. QED
      BY <3>1, <3>2, <3>3, Replaced
  <2>3. CASE C!Refused(r)
    BY <2>3, RefusedStep
  <2>. QED
    BY <1>13, <2>1, <2>2, <2>3 DEF C!Forward
<1>14. ASSUME NEW r \in Request, C!Accept(r) PROVE RequestsOK'
  <2>1. CASE C!Refused(r)
    BY <2>1, RefusedStep
  <2>2. CASE request[r].stage = "forwarded" /\ request' = [request EXCEPT ![r].stage = "accepted"]
    BY <2>2, RowMoves DEF Consistent, C!ConsoleTypeOK, ConsoleHolds
  <2>. QED
    BY <1>14, <2>1, <2>2 DEF C!Accept
<1>15. ASSUME NEW r \in Request, C!Read(r) PROVE RequestsOK'
  <2>1. CASE C!Refused(r)
    BY <2>1, RefusedStep
  <2>2. CASE request[r].kind \in {"state", "load"} /\ C!Answered(r)
    BY <2>2, AnsweredStep DEF Consistent, ConsoleHolds
  <2>. QED
    BY <1>15, <2>1, <2>2 DEF C!Read
<1>16. ASSUME NEW r \in Request, C!Post(r) PROVE RequestsOK'
  <2>1. CASE C!Refused(r)
    BY <2>1, RefusedStep
  <2>2. CASE C!Reviewed(r) /\ C!Answered(r)
    BY <1>16, <2>2, AnsweredStep DEF C!Post, C!Reviewed, Consistent, ConsoleHolds
  <2>. QED
    BY <1>16, <2>1, <2>2 DEF C!Post
<1>17. ASSUME NEW r \in Request, C!Act(r) PROVE RequestsOK'
  <2>1. CASE C!Refused(r)
    BY <2>1, RefusedStep
  <2>2. CASE C!Live(request[r].capability) /\ request[r].context = current /\ C!Answered(r)
    BY <1>17, <2>2, AnsweredStep DEF C!Act, Consistent, ConsoleHolds
  <2>. QED
    BY <1>17, <2>1, <2>2 DEF C!Act
<1>u. ASSUME UNCHANGED C!consoleVars PROVE RequestsOK'
  BY <1>u
  DEF RequestsOK, ConsoleHolds, C!ConsoleTypeOK, C!Context, C!consoleVars,
      C!gatewayVars
<1>. QED
  BY <1>1, <1>2, <1>3, <1>4, <1>5, <1>6, <1>7, <1>8, <1>9, <1>10, <1>11, <1>12,
     <1>13, <1>14, <1>15, <1>16, <1>17, <1>u
  DEF C!ConsoleNext

\* Every step keeps the lease, the page and the workspace what they are.
LEMMA ConsoleStep ==
    ASSUME C!ConsoleTypeOK, ConsoleHolds, RequestsOK', [C!ConsoleNext]_(C!consoleVars)
    PROVE  (C!ConsoleTypeOK /\ ConsoleHolds)'
<1>1. ASSUME C!OpenLease PROVE (C!ConsoleTypeOK /\ ConsoleHolds)'
  BY <1>1, ConsoleAssumed
  DEF C!OpenLease, ConsoleHolds, C!ConsoleTypeOK, C!Context, RequestsOK
<1>2. ASSUME C!CloseLease PROVE (C!ConsoleTypeOK /\ ConsoleHolds)'
  <2>1. lease' = 0 /\ known' = 0 /\ code' = FALSE
        /\ UNCHANGED <<current, ready, leases, cookie, localOpen, shown, loadedList>>
    BY <1>2 DEF C!CloseLease
  <2>2. lease' \in 0 .. MaxOpens /\ known' \in 0 .. MaxOpens
    BY <2>1, ConsoleAssumed
  <2>3. known' \in {0, lease'} /\ code' \in BOOLEAN
    BY <2>1
  <2>4. C!ConsoleTypeOK'
    BY <2>1, <2>2, <2>3 DEF C!ConsoleTypeOK, RequestsOK
  <2>. QED
    BY <2>1, <2>3, <2>4 DEF RequestsOK, ConsoleHolds
<1>3. ASSUME C!Pair PROVE (C!ConsoleTypeOK /\ ConsoleHolds)'
  BY <1>3, ConsoleAssumed
  DEF C!Pair, ConsoleHolds, C!ConsoleTypeOK, C!Context, RequestsOK
<1>4. ASSUME C!LocalExpires PROVE (C!ConsoleTypeOK /\ ConsoleHolds)'
  BY <1>4, ConsoleAssumed
  DEF C!LocalExpires, ConsoleHolds, C!ConsoleTypeOK, C!Context, RequestsOK
<1>5. ASSUME C!SwitchStarts PROVE (C!ConsoleTypeOK /\ ConsoleHolds)'
  BY <1>5, ConsoleAssumed
  DEF C!SwitchStarts, C!gatewayVars, ConsoleHolds, C!ConsoleTypeOK, C!Context,
      RequestsOK
<1>6. ASSUME C!SwitchEnds PROVE (C!ConsoleTypeOK /\ ConsoleHolds)'
  BY <1>6, ConsoleAssumed
  DEF C!SwitchEnds, C!gatewayVars, ConsoleHolds, C!ConsoleTypeOK, C!Context,
      RequestsOK
<1>7. ASSUME NEW r \in Request, C!Refresh(r) PROVE (C!ConsoleTypeOK /\ ConsoleHolds)'
  BY <1>7, ConsoleAssumed
  DEF C!Refresh, C!gatewayVars, ConsoleHolds, C!ConsoleTypeOK, C!Context, RequestsOK
<1>8. ASSUME NEW r \in Request, C!Render(r) PROVE (C!ConsoleTypeOK /\ ConsoleHolds)'
  BY <1>8, ConsoleAssumed
  DEF C!Render, C!ConsoleTypeOK, RequestsOK, ConsoleHolds, C!gatewayVars,
      C!RequestRow, C!Context
<1>9. ASSUME NEW r \in Request, C!Load(r) PROVE (C!ConsoleTypeOK /\ ConsoleHolds)'
  BY <1>9, ConsoleAssumed
  DEF C!Load, C!gatewayVars, ConsoleHolds, C!ConsoleTypeOK, C!Context, RequestsOK
<1>10. ASSUME NEW r \in Request, C!Loaded(r) PROVE (C!ConsoleTypeOK /\ ConsoleHolds)'
  BY <1>10, ConsoleAssumed
  DEF C!Loaded, C!ConsoleTypeOK, RequestsOK, ConsoleHolds, C!gatewayVars,
      C!RequestRow, C!Context
<1>11. ASSUME NEW r \in Request, C!Decide(r) PROVE (C!ConsoleTypeOK /\ ConsoleHolds)'
  BY <1>11, ConsoleAssumed
  DEF C!Decide, C!gatewayVars, ConsoleHolds, C!ConsoleTypeOK, C!Context, RequestsOK
<1>12. ASSUME NEW r \in Request, C!Command(r) PROVE (C!ConsoleTypeOK /\ ConsoleHolds)'
  BY <1>12, ConsoleAssumed
  DEF C!Command, C!gatewayVars, ConsoleHolds, C!ConsoleTypeOK, C!Context, RequestsOK
<1>13. ASSUME NEW r \in Request, C!Forward(r) PROVE (C!ConsoleTypeOK /\ ConsoleHolds)'
  BY <1>13, ConsoleAssumed
  DEF C!Forward, C!Change, C!gatewayVars, ConsoleHolds, C!ConsoleTypeOK, C!Context,
      RequestsOK
<1>14. ASSUME NEW r \in Request, C!Accept(r) PROVE (C!ConsoleTypeOK /\ ConsoleHolds)'
  BY <1>14, ConsoleAssumed
  DEF C!Accept, C!gatewayVars, ConsoleHolds, C!ConsoleTypeOK, C!Context, RequestsOK
<1>15. ASSUME NEW r \in Request, C!Read(r) PROVE (C!ConsoleTypeOK /\ ConsoleHolds)'
  BY <1>15, ConsoleAssumed
  DEF C!Read, C!Reviewed, C!gatewayVars, ConsoleHolds, C!ConsoleTypeOK, C!Context,
      RequestsOK
<1>16. ASSUME NEW r \in Request, C!Post(r) PROVE (C!ConsoleTypeOK /\ ConsoleHolds)'
  BY <1>16, ConsoleAssumed
  DEF C!Post, C!Reviewed, C!gatewayVars, ConsoleHolds, C!ConsoleTypeOK, C!Context,
      RequestsOK
<1>17. ASSUME NEW r \in Request, C!Act(r) PROVE (C!ConsoleTypeOK /\ ConsoleHolds)'
  BY <1>17, ConsoleAssumed
  DEF C!Act, C!gatewayVars, ConsoleHolds, C!ConsoleTypeOK, C!Context, RequestsOK
<1>u. ASSUME UNCHANGED C!consoleVars PROVE (C!ConsoleTypeOK /\ ConsoleHolds)'
  BY <1>u
  DEF ConsoleHolds, C!ConsoleTypeOK, C!Context, RequestsOK, C!consoleVars,
      C!gatewayVars
<1>. QED
  BY <1>1, <1>2, <1>3, <1>4, <1>5, <1>6, <1>7, <1>8, <1>9, <1>10, <1>11, <1>12,
     <1>13, <1>14, <1>15, <1>16, <1>17, <1>u
  DEF C!ConsoleNext

LEMMA ConsoleInductive ==
    /\ C!ConsoleInit => C!ConsoleTypeOK /\ ConsoleHolds
    /\ C!ConsoleTypeOK /\ ConsoleHolds /\ [C!ConsoleNext]_(C!consoleVars) => (C!ConsoleTypeOK /\ ConsoleHolds)'
<1>1. ASSUME C!ConsoleInit PROVE C!ConsoleTypeOK /\ ConsoleHolds
  <2>1. request \in [Request -> C!RequestRow] /\ \A r \in Request : Consistent(request[r])
    BY <1>1, FreshRow DEF C!ConsoleInit
  <2>2. loadedList \in [of: C!Context, load: Request \cup {None}] /\ current \in C!Context \ {0}
    BY <1>1, ConsoleAssumed DEF C!ConsoleInit, C!Context
  <2>3. shown \in C!Context
    BY <1>1, ConsoleAssumed DEF C!ConsoleInit, C!Context
  <2>. QED
    <3>0. /\ lease \in 0 .. MaxOpens /\ leases \in 0 .. MaxOpens
          /\ known \in 0 .. MaxOpens /\ cookie \in 0 .. MaxOpens
      BY <1>1, ConsoleAssumed DEF C!ConsoleInit
    <3>1. C!ConsoleTypeOK
      BY <1>1, <2>1, <2>2, <2>3, <3>0 DEF C!ConsoleInit, C!ConsoleTypeOK
    <3>2. ConsoleHolds
      BY <1>1, <2>1 DEF C!ConsoleInit, ConsoleHolds
    <3>. QED
      BY <3>1, <3>2
<1>. QED
  BY <1>1, RequestsStep, ConsoleStep

-----------------------------------------------------------------------------
(* The registry of projects.                                               *)

\* Each registered project has the level that was last chosen for its directory,
\* wherever that is by now.
LevelsHold ==
    \A p \in K!Active : projects[p].level = chosen[projects[p].directory]
RegistryHolds ==
    LevelsHold /\ K!AddressedOnce /\ K!ReadsAsRegistered

LEMMA RegistryAssumed == MaxBirths \in Nat /\ None \notin K!Row
BY Assumed DEF K!RegistryAssumption

\* What is registered of one project is told from all others.
LEMMA Registered ==
    ASSUME K!RegistryTypeOK, RegistryHolds, NEW p \in Project, NEW w \in K!Row, w.active,
           \A q \in K!Active \ {p} : /\ projects[q].root # w.root /\ projects[q].title # w.title
                                     /\ projects[q].directory[1] # w.directory[1],
           projects' = [projects EXCEPT ![p] = w],
           chosen' = [chosen EXCEPT ![w.directory] = w.level],
           UNCHANGED <<directories, made, contexts, runtimes, served, routed>>
    PROVE  K!RegistryTypeOK' /\ RegistryHolds'
<1>1. w.directory \in K!Directory /\ w.level \in K!Level
  BY DEF K!Row
<1>2. K!Active' = K!Active \cup {p} /\ projects'[p] = w /\ \A q \in Project \ {p} : projects'[q] = projects[q]
  BY RegistryAssumed DEF K!Active, K!RegistryTypeOK
<1>3. K!RegistryTypeOK'
  BY <1>1 DEF K!RegistryTypeOK
<1>4. K!Active \subseteq Project /\ \A q \in K!Active : projects[q].directory \in K!Directory
  BY DEF K!Active, K!RegistryTypeOK, K!Row
<1>5. LevelsHold'
  <2>1. SUFFICES ASSUME NEW q \in K!Active \cup {p}
      PROVE  projects'[q].level = chosen'[projects'[q].directory]
    BY <1>2 DEF LevelsHold
  <2>2. CASE q = p
    BY <1>1, <1>2, <2>2 DEF K!RegistryTypeOK
  <2>3. CASE q # p
    <3>1. projects[q].level = chosen[projects[q].directory] /\ projects[q].directory # w.directory
      BY <2>3 DEF RegistryHolds, LevelsHold
    <3>. QED
      BY <1>1, <1>2, <1>4, <2>3, <3>1 DEF K!RegistryTypeOK
  <2>. QED
    BY <2>2, <2>3
<1>6. K!AddressedOnce'
  BY <1>2, <1>4 DEF RegistryHolds, K!AddressedOnce
<1>. QED
  BY <1>3, <1>5, <1>6 DEF RegistryHolds, K!ReadsAsRegistered

\* Every step keeps the registry true.
LEMMA RegistryStep ==
    ASSUME K!RegistryTypeOK, RegistryHolds, [K!RegistryNext]_(K!registryVars)
    PROVE  K!RegistryTypeOK' /\ RegistryHolds'
<1>1. ASSUME NEW l \in Location, K!Delete(l) PROVE K!RegistryTypeOK' /\ RegistryHolds'
  BY <1>1, RegistryAssumed
  DEF K!Delete, K!ownerVars, RegistryHolds, LevelsHold, K!AddressedOnce, K!Active,
      K!ReadsAsRegistered, K!RegistryTypeOK
<1>2. ASSUME NEW l \in Location, NEW i \in Inode, K!Make(l, i)
      PROVE  K!RegistryTypeOK' /\ RegistryHolds'
  <2>1. /\ made \in 0 .. MaxBirths /\ made < MaxBirths /\ made' = made + 1
        /\ directories' = [directories EXCEPT ![l] = <<i, made + 1>>]
        /\ UNCHANGED <<projects, chosen, contexts, runtimes, served, routed>>
    BY <1>2 DEF K!Make, K!RegistryTypeOK, K!ownerVars
  <2>2. made' \in 0 .. MaxBirths /\ made + 1 \in 1 .. MaxBirths
    BY <2>1, RegistryAssumed
  <2>3. <<i, made + 1>> \in K!Directory
    BY <2>2 DEF K!Directory
  <2>4. directories' \in [Location -> K!Directory \cup {None}]
    BY <2>1, <2>3 DEF K!RegistryTypeOK
  <2>5. K!RegistryTypeOK'
    BY <2>1, <2>2, <2>4 DEF K!RegistryTypeOK
  <2>. QED
    BY <2>1, <2>5
    DEF RegistryHolds, LevelsHold, K!AddressedOnce, K!Active, K!ReadsAsRegistered
<1>3. ASSUME NEW l \in Location, NEW k \in Location, K!Rename(l, k)
      PROVE  K!RegistryTypeOK' /\ RegistryHolds'
  BY <1>3, RegistryAssumed
  DEF K!Rename, K!ownerVars, RegistryHolds, LevelsHold, K!AddressedOnce, K!Active,
      K!ReadsAsRegistered, K!RegistryTypeOK
<1>4. ASSUME NEW l \in Location, NEW n \in Title \cup {None}, NEW v \in K!Level \cup {None}, K!Add(l, n, v)
      PROVE  K!RegistryTypeOK' /\ RegistryHolds'
  <2>1. PICK p \in Project : K!AddKnown(p, l, n, v) \/ K!AddMoved(p, l, n, v) \/ K!AddNew(p, l, n, v)
    BY <1>4 DEF K!Add
  <2>2. directories[l] \in K!Directory /\ UNCHANGED <<directories, made, contexts, runtimes, served, routed>>
    BY <1>4 DEF K!Add, K!RegistryTypeOK, K!ownerVars
  <2> DEFINE row == projects[p]
             title == K!Given(n, row.title)
             level == K!Given(v, row.level)
  <2>3. ASSUME p \in K!Active, row.directory = directories[l], K!Chooses(directories[l], v)
        PROVE  /\ row \in K!Row /\ title \in Title /\ level \in K!Level
               /\ chosen' = [chosen EXCEPT ![directories[l]] = level]
               /\ (n # None => K!NameFree(n, {p})) => \A q \in K!Active \ {p} : projects[q].title # title
    <3>1. row \in K!Row /\ row.level = chosen[directories[l]]
      BY <2>3, RegistryAssumed
      DEF K!Active, K!RegistryTypeOK, RegistryHolds, LevelsHold
    <3>2. title \in Title /\ level \in K!Level
      BY <3>1 DEF K!Given, K!Row
    <3>3. chosen' = [chosen EXCEPT ![directories[l]] = level]
      BY <2>2, <2>3, <3>1 DEF K!Chooses, K!Given, K!RegistryTypeOK, K!Row, K!Level
    <3>4. (n # None => K!NameFree(n, {p})) => \A q \in K!Active \ {p} : projects[q].title # title
      BY <2>3 DEF K!NameFree, K!Given, RegistryHolds, K!AddressedOnce
    <3>. QED
      BY <3>1, <3>2, <3>3, <3>4
  <2>4. CASE K!AddKnown(p, l, n, v)
    <3> DEFINE w == [[row EXCEPT !.title = title] EXCEPT !.level = level]
    <3>1. projects' = [projects EXCEPT ![p] = w]
      BY <2>4 DEF K!AddKnown, K!RegistryTypeOK
    <3>2. /\ row \in K!Row /\ title \in Title /\ level \in K!Level /\ row.active
          /\ chosen' = [chosen EXCEPT ![directories[l]] = level] /\ row.directory = directories[l]
          /\ \A q \in K!Active \ {p} : projects[q].title # title
      BY <2>3, <2>4 DEF K!AddKnown, K!Active
    <3>3. /\ w \in K!Row /\ w.active /\ w.title = title /\ w.level = level
          /\ w.root = row.root /\ w.directory = directories[l]
      BY <3>2 DEF K!Row
    <3>4. \A q \in K!Active \ {p} :
             projects[q].root # row.root /\ projects[q].directory[1] # row.directory[1]
      BY <2>4 DEF K!AddKnown, RegistryHolds, K!AddressedOnce
    <3>5. /\ chosen' = [chosen EXCEPT ![w.directory] = w.level]
          /\ \A q \in K!Active \ {p} : /\ projects[q].root # w.root /\ projects[q].title # w.title
                                       /\ projects[q].directory[1] # w.directory[1]
      BY <3>2, <3>3, <3>4
    <3> HIDE DEF w
    <3>. QED
      BY <2>2, <3>1, <3>3, <3>5, Registered
  <2>5. CASE K!AddMoved(p, l, n, v)
    <3> DEFINE w == [root |-> l, directory |-> directories[l], title |-> title,
                     level |-> level, active |-> TRUE]
    <3>1. projects' = [projects EXCEPT ![p] = w]
      BY <2>5 DEF K!AddMoved
    <3>2. /\ title \in Title /\ level \in K!Level
          /\ chosen' = [chosen EXCEPT ![directories[l]] = level] /\ row.directory = directories[l]
          /\ \A q \in K!Active \ {p} : projects[q].title # title
      BY <2>3, <2>5 DEF K!AddMoved, K!Active
    <3>3. w \in K!Row
      BY <2>2, <3>2 DEF K!Row
    <3>4. \A q \in K!Active \ {p} :
             projects[q].root # l /\ projects[q].directory[1] # row.directory[1]
      BY <2>5 DEF K!AddMoved, RegistryHolds, K!AddressedOnce
    <3>5. /\ w.active /\ chosen' = [chosen EXCEPT ![w.directory] = w.level]
          /\ \A q \in K!Active \ {p} : /\ projects[q].root # w.root /\ projects[q].title # w.title
                                       /\ projects[q].directory[1] # w.directory[1]
      BY <3>2, <3>4
    <3> HIDE DEF w
    <3>. QED
      BY <2>2, <3>1, <3>3, <3>5, Registered
  <2>6. CASE K!AddNew(p, l, n, v)
    <3> DEFINE w == [root |-> l, directory |-> directories[l], title |-> n,
                     level |-> K!Given(v, "full"), active |-> TRUE]
    <3>1. projects' = [projects EXCEPT ![p] = w] /\ chosen' = [chosen EXCEPT ![directories[l]] = w.level]
      BY <2>6 DEF K!AddNew
    <3>2. w \in K!Row /\ w.active /\ w.directory = directories[l] /\ w.root = l /\ w.title = n
      BY <2>2, <2>6 DEF K!AddNew, K!Row, K!Given, K!Level
    <3>3. \A q \in K!Active \ {p} : /\ projects[q].root # l /\ projects[q].title # n
                                     /\ projects[q].directory[1] # directories[l][1]
      BY <2>6 DEF K!AddNew, K!NameFree
    <3> HIDE DEF w
    <3>. QED
      BY <2>2, <3>1, <3>2, <3>3, Registered
  <2>. QED
    BY <2>1, <2>4, <2>5, <2>6
<1>5. ASSUME NEW p \in Project, K!Remove(p) PROVE K!RegistryTypeOK' /\ RegistryHolds'
  <2> DEFINE w == [projects[p] EXCEPT !.active = FALSE]
  <2>1. projects' = [projects EXCEPT ![p] = w] /\ projects[p] \in K!Row
        /\ UNCHANGED <<directories, made, chosen, contexts, runtimes, served, routed>>
    BY <1>5 DEF K!Remove, K!Active, K!RegistryTypeOK, K!ownerVars
  <2>2. w \in K!Row /\ ~w.active
    BY <2>1 DEF K!Row
  <2> HIDE DEF w
  <2>3. K!Active' \subseteq K!Active /\ \A q \in K!Active' : projects'[q] = projects[q]
    BY <2>1, <2>2, RegistryAssumed DEF K!Active, K!RegistryTypeOK
  <2>4. K!RegistryTypeOK'
    BY <2>1, <2>2 DEF K!RegistryTypeOK
  <2>. QED
    BY <2>1, <2>3, <2>4
    DEF RegistryHolds, LevelsHold, K!AddressedOnce, K!ReadsAsRegistered
<1>6. ASSUME NEW p \in Project, K!Read(p) PROVE K!RegistryTypeOK' /\ RegistryHolds'
  <2>1. served' = [from |-> directories[projects[p].root], registered |-> projects[p].directory]
        /\ directories[projects[p].root] = projects[p].directory
        /\ UNCHANGED <<directories, made, projects, chosen, runtimes, routed>>
    BY <1>6 DEF K!Read, K!Ready, K!Context, K!ContextKey
  <2>. QED
    BY <2>1
    DEF K!RegistryTypeOK, RegistryHolds, LevelsHold, K!AddressedOnce,
        K!ReadsAsRegistered, K!Active
<1>7. ASSUME NEW p \in Project, K!Forget(p) PROVE K!RegistryTypeOK' /\ RegistryHolds'
  BY <1>7, RegistryAssumed
  DEF K!Forget, RegistryHolds, LevelsHold, K!AddressedOnce, K!Active,
      K!ReadsAsRegistered, K!RegistryTypeOK
<1>8. ASSUME NEW p \in Project, K!CloseRuntime(p)
      PROVE  K!RegistryTypeOK' /\ RegistryHolds'
  BY <1>8, RegistryAssumed
  DEF K!CloseRuntime, RegistryHolds, LevelsHold, K!AddressedOnce, K!Active,
      K!ReadsAsRegistered, K!RegistryTypeOK
<1>9. ASSUME NEW p \in Project, NEW v2 \in K!Level, K!SetLevel(p, v2)
      PROVE  K!RegistryTypeOK' /\ RegistryHolds'
  <2> DEFINE w == [projects[p] EXCEPT !.level = v2]
  <2>1. projects[p] \in K!Row /\ projects[p].active /\ UNCHANGED <<directories, made, contexts, runtimes, served, routed>>
    BY <1>9 DEF K!SetLevel, K!Active, K!RegistryTypeOK, K!ownerVars
  <2>2. projects' = [projects EXCEPT ![p] = w] /\ chosen' = [chosen EXCEPT ![projects[p].directory] = v2]
    BY <1>9 DEF K!SetLevel, K!RegistryTypeOK
  <2>3. /\ w \in K!Row /\ w.active /\ w.title = projects[p].title /\ w.level = v2
        /\ w.root = projects[p].root /\ w.directory = projects[p].directory
    BY <2>1 DEF K!Row
  <2>4. \A q \in K!Active \ {p} :
             projects[q].root # w.root /\ projects[q].directory[1] # w.directory[1] /\ projects[q].title # w.title
    BY <1>9, <2>3 DEF K!SetLevel, RegistryHolds, K!AddressedOnce
  <2> HIDE DEF w
  <2>. QED
    BY <2>1, <2>2, <2>3, <2>4, Registered
<1>10. ASSUME NEW n2 \in Title, K!Route(n2) PROVE K!RegistryTypeOK' /\ RegistryHolds'
  <2>1. PICK p \in Project : /\ K!Ready(p)
                            /\ runtimes' = [runtimes EXCEPT ![p] = IF @ = None THEN projects[p].root ELSE @]
                            /\ UNCHANGED <<directories, made, projects, chosen, contexts, served>>
    BY <1>10 DEF K!Route
  <2>2. projects[p].root \in Location
    BY <2>1 DEF K!Ready, K!Active, K!RegistryTypeOK, K!Row
  <2>. QED
    BY <2>1, <2>2
    DEF K!RegistryTypeOK, RegistryHolds, LevelsHold, K!AddressedOnce,
        K!ReadsAsRegistered, K!Active
<1>u. ASSUME UNCHANGED K!registryVars PROVE K!RegistryTypeOK' /\ RegistryHolds'
  BY <1>u
  DEF RegistryHolds, LevelsHold, K!AddressedOnce, K!Active, K!ReadsAsRegistered,
      K!RegistryTypeOK, K!registryVars, K!ownerVars
<1>. QED
  BY <1>1, <1>2, <1>3, <1>4, <1>5, <1>6, <1>7, <1>8, <1>9, <1>10, <1>u
  DEF K!RegistryNext

LEMMA RegistryInductive ==
    /\ K!RegistryInit => K!RegistryTypeOK /\ RegistryHolds
    /\ K!RegistryTypeOK /\ RegistryHolds /\ [K!RegistryNext]_(K!registryVars) => (K!RegistryTypeOK /\ RegistryHolds)'
<1>1. K!RegistryInit => K!RegistryTypeOK /\ RegistryHolds
  BY RegistryAssumed
  DEF K!RegistryInit, K!RegistryTypeOK, RegistryHolds, LevelsHold, K!AddressedOnce,
      K!ReadsAsRegistered, K!Active
<1>. QED
  BY <1>1, RegistryStep

LEMMA RegistryLevels == K!RegistryTypeOK /\ RegistryHolds => K!RegistryTrue
BY DEF RegistryHolds, K!RegistryTrue, K!OwnersLevel, LevelsHold, K!Ready, K!Active

-----------------------------------------------------------------------------
(* Devices.                                                                *)

\* The runtime of a snapshot has sent no input since it was taken.
ScreensShown ==
    \A w \in Runtime : \A s \in snapshots[w] : s.seen = inputs[w]
\* ADB runs one operation at a time.
Alone ==
    kind = "adb" => \A c, d \in V!Running : c = d
\* The desktop's receipts: a key that was not used has had no effect, what was
\* sent under a key has a receipt and no effect yet, and no two are sent under one.
Receipts ==
    kind = "desktop" =>
       /\ \A k \in Key : effects[k] <= 1 /\ (ledger[k] = "none" => effects[k] = 0)
       /\ \A c \in Call : deviceCall[c].phase # "staging"
       /\ \A c \in V!Sent : /\ ledger[deviceCall[c].key] # "none"
                            /\ deviceCall[c].phase = "sent" => effects[deviceCall[c].key] = 0
       /\ \A c, d \in V!Sent : deviceCall[c].key = deviceCall[d].key => c = d
DevicesHold ==
    ScreensShown /\ Alone /\ Receipts /\ V!UnderConsent /\ V!ClosedIsQuiet

LEMMA DevicesAssumed ==
    /\ MaxSaves \in Nat /\ MaxInputs \in Nat /\ MaxEffects \in Nat /\ MaxCrashes \in Nat
    /\ IsFiniteSet(Call)
BY Assumed DEF V!DevicesAssumption, V!IsFiniteSet, IsFiniteSet

\* What an operation is is told by its phase.
LEMMA DeviceOperationIs ==
    /\ V!Idle \in V!Operation /\ V!Idle.phase = "idle"
    /\ \A r \in V!Operation :
          /\ r.phase \in {"idle", "reading", "staging", "sent", "landed"}
          /\ r.phase = "idle" <=> r = V!Idle
          /\ r.phase = "reading" => r \in V!Reading
          /\ r.phase = "staging" => r \in V!Staging
          /\ r.phase \in {"sent", "landed"} => r \in V!Effect
    /\ \A r \in V!Reading : r \in V!Operation /\ r.runtime \in Runtime /\ r.policy \in V!Consent /\ r.phase = "reading"
    /\ \A r \in V!Staging : r \in V!Operation /\ r.runtime \in Runtime /\ r.key \in Key /\ r.phase = "staging"
    /\ \A r \in V!Effect : r \in V!Operation /\ r.runtime \in Runtime /\ r.key \in Key /\ r.phase \in {"sent", "landed"}
BY DEF V!Operation, V!Idle, V!Reading, V!Staging, V!Effect

\* The policy that holds is a policy.
LEMMA PolicyIs ==
    ASSUME V!DevicesTypeOK, NEW w \in Runtime
    PROVE  V!Policy(w) \in V!Consent /\ V!Policy(w).mode \in V!Mode /\ V!Policy(w).rev \in 0 .. MaxSaves
BY DevicesAssumed DEF V!Policy, V!Consent, V!Mode, V!Off, V!DevicesTypeOK

\* What is sent is an effect.
LEMMA DispatchedIs ==
    ASSUME V!DevicesTypeOK, NEW w \in Runtime, NEW k \in Key
    PROVE  /\ V!Dispatched(w, k) \in V!Effect
           /\ \A b \in BOOLEAN : [V!Dispatched(w, k) EXCEPT !.fresh = b] \in V!Effect
BY PolicyIs DEF V!Dispatched, V!Effect

\* The variables stay what they are.
LEMMA DeviceTypeStep ==
    ASSUME V!DevicesTypeOK, [V!DevicesNext]_(V!deviceVars)
    PROVE  V!DevicesTypeOK'
<1>1. ASSUME NEW w \in Runtime, NEW m \in V!Mode, NEW b \in BOOLEAN, V!SavePolicy(w, m, b)
      PROVE  V!DevicesTypeOK'
  <2>1. saves' \in 0 .. MaxSaves /\ [mode |-> m, rev |-> saves + 1] \in V!Consent
    BY <1>1, DevicesAssumed DEF V!SavePolicy, V!DevicesTypeOK, V!Consent
  <2>2. /\ temporary' \in [Runtime -> V!Consent \cup {None}] /\ installed' \in V!Consent \cup {None}
        /\ snapshots' \in [Runtime -> SUBSET V!Snapshot]
    BY <1>1, <2>1 DEF V!SavePolicy, V!DevicesTypeOK
  <2>. QED
    BY <1>1, <2>1, <2>2 DEF V!SavePolicy, V!DevicesTypeOK
<1>2. ASSUME NEW w \in Runtime, V!Expire(w) PROVE V!DevicesTypeOK'
  BY <1>2, DevicesAssumed, DeviceOperationIs DEF V!Expire, V!DevicesTypeOK
<1>3. ASSUME NEW w \in Runtime, V!Close(w) PROVE V!DevicesTypeOK'
  BY <1>3, DevicesAssumed, DeviceOperationIs
  DEF V!Close, V!consentVars, V!DevicesTypeOK
<1>4. ASSUME NEW w \in Runtime, V!Closed(w) PROVE V!DevicesTypeOK'
  BY <1>4, DevicesAssumed, DeviceOperationIs
  DEF V!Closed, V!WaitedFor, V!consentVars, V!Mine, V!Running, V!DevicesTypeOK
<1>5. ASSUME NEW w \in Runtime, NEW s \in snapshots[w], V!Lapse(w, s)
      PROVE  V!DevicesTypeOK'
  BY <1>5, DevicesAssumed, DeviceOperationIs
  DEF V!Lapse, V!consentVars, V!DevicesTypeOK
<1>6. ASSUME NEW w \in Runtime, NEW s \in snapshots[w], V!InputRefused(w, s)
      PROVE  V!DevicesTypeOK'
  BY <1>6, DevicesAssumed, DeviceOperationIs
  DEF V!InputRefused, V!Busy, V!Dropped, V!consentVars, V!Running, V!DevicesTypeOK
<1>7. ASSUME NEW c \in Call, V!Captured(c) PROVE V!DevicesTypeOK'
  <2>1. deviceCall[c].runtime \in Runtime
    BY <1>7, DeviceOperationIs DEF V!Captured, V!DevicesTypeOK
  <2>2. [rev |-> V!Policy(deviceCall[c].runtime).rev, seen |-> inputs[deviceCall[c].runtime]] \in V!Snapshot
    BY <2>1, PolicyIs DEF V!DevicesTypeOK, V!Snapshot
  <2>. QED
    BY <1>7, <2>1, <2>2, DeviceOperationIs
    DEF V!Captured, V!consentVars, V!DevicesTypeOK
<1>8. ASSUME NEW c \in Call, V!Staged(c) PROVE V!DevicesTypeOK'
  <2>1. deviceCall[c].runtime \in Runtime /\ deviceCall[c].key \in Key
    BY <1>8, DeviceOperationIs DEF V!Staged, V!DevicesTypeOK
  <2>2. V!Dispatched(deviceCall[c].runtime, deviceCall[c].key) \in V!Operation /\ V!Idle \in V!Operation
    BY <2>1, DispatchedIs, DeviceOperationIs
  <2>3. deviceCall' \in [Call -> V!Operation] /\ ledger' \in [Key -> {"none", "reserved", "done"}]
    BY <1>8, <2>2 DEF V!Staged, V!DevicesTypeOK
  <2>. QED
    BY <1>8, <2>3 DEF V!Staged, V!consentVars, V!DevicesTypeOK
<1>9. ASSUME NEW c \in Call, V!StageFails(c) PROVE V!DevicesTypeOK'
  BY <1>9, DevicesAssumed, DeviceOperationIs
  DEF V!StageFails, V!consentVars, V!DevicesTypeOK
<1>10. ASSUME NEW c \in Call, V!Land(c) PROVE V!DevicesTypeOK'
  <2>1. deviceCall[c] \in V!Effect /\ deviceCall[c].key \in Key
    BY <1>10, DeviceOperationIs DEF V!Land, V!DevicesTypeOK
  <2>2. [deviceCall[c] EXCEPT !.phase = "landed"] \in V!Operation
    BY <2>1, DeviceOperationIs DEF V!Effect
  <2>3. deviceCall' \in [Call -> V!Operation]
    BY <1>10, <2>2 DEF V!Land, V!DevicesTypeOK
  <2>4. effects' \in [Key -> 0 .. MaxEffects]
    BY <1>10, <2>1, DevicesAssumed DEF V!Land, V!DevicesTypeOK
  <2>. QED
    BY <1>10, <2>3, <2>4 DEF V!Land, V!consentVars, V!DevicesTypeOK
<1>11. ASSUME NEW c \in Call, V!Done(c) PROVE V!DevicesTypeOK'
  BY <1>11, DevicesAssumed, DeviceOperationIs
  DEF V!Done, V!consentVars, V!DevicesTypeOK
<1>12. ASSUME NEW c \in Call, V!Uncertain(c) PROVE V!DevicesTypeOK'
  BY <1>12, DevicesAssumed, DeviceOperationIs
  DEF V!Uncertain, V!consentVars, V!DevicesTypeOK
<1>13. ASSUME NEW c \in Call, V!Refused(c) PROVE V!DevicesTypeOK'
  BY <1>13, DevicesAssumed, DeviceOperationIs
  DEF V!Refused, V!consentVars, V!DevicesTypeOK
<1>14. ASSUME NEW c \in Call, NEW w \in Runtime, V!Capture(c, w)
      PROVE  V!DevicesTypeOK'
  <2>1. [phase |-> "reading", runtime |-> w, policy |-> V!Policy(w)] \in V!Reading
    BY PolicyIs DEF V!Reading
  <2>. QED
    BY <1>14, <2>1, DeviceOperationIs DEF V!Capture, V!consentVars, V!DevicesTypeOK
<1>15. ASSUME NEW c \in Call, NEW w \in Runtime, NEW k \in Key, V!App(c, w, k)
      PROVE  V!DevicesTypeOK'
  BY <1>15, DispatchedIs, DeviceOperationIs
  DEF V!App, V!Receipt, V!consentVars, V!DevicesTypeOK
<1>16. ASSUME NEW c \in Call, NEW w \in Runtime, NEW k \in Key, V!Stage(c, w, k)
      PROVE  V!DevicesTypeOK'
  <2>1. [phase |-> "staging", runtime |-> w, key |-> k] \in V!Staging
    BY DEF V!Staging
  <2>. QED
    BY <1>16, <2>1, DeviceOperationIs
    DEF V!Stage, V!Receipt, V!consentVars, V!DevicesTypeOK
<1>17. ASSUME NEW c \in Call, NEW w \in Runtime, NEW k \in Key, NEW s \in snapshots[w], V!Input(c, w, k, s)
      PROVE  V!DevicesTypeOK'
  <2>1. inputs' \in [Runtime -> 0 .. MaxInputs]
    BY <1>17, DevicesAssumed DEF V!Input, V!DevicesTypeOK
  <2>2. deviceCall' \in [Call -> V!Operation]
    BY <1>17, DispatchedIs, DeviceOperationIs DEF V!Input, V!DevicesTypeOK
  <2>. QED
    BY <1>17, <2>1, <2>2
    DEF V!Input, V!Receipt, V!Dropped, V!consentVars, V!DevicesTypeOK
<1>18. ASSUME V!Crash PROVE V!DevicesTypeOK'
  BY <1>18, DevicesAssumed, DeviceOperationIs DEF V!Crash, V!DevicesTypeOK
<1>u. ASSUME UNCHANGED V!deviceVars PROVE V!DevicesTypeOK'
  BY <1>u DEF V!DevicesTypeOK, V!deviceVars
<1>. QED
  BY <1>1, <1>2, <1>3, <1>4, <1>5, <1>6, <1>7, <1>8, <1>9, <1>10, <1>11, <1>12,
     <1>13, <1>14, <1>15, <1>16, <1>17, <1>18, <1>u
  DEF V!DevicesNext

\* Snapshots stay true of the screen.
LEMMA ScreenStep ==
    ASSUME V!DevicesTypeOK, DevicesHold, [V!DevicesNext]_(V!deviceVars)
    PROVE  ScreensShown'
<1>1. ASSUME NEW w \in Runtime, NEW m \in V!Mode, NEW b \in BOOLEAN, V!SavePolicy(w, m, b)
      PROVE  ScreensShown'
  BY <1>1, DevicesAssumed, DeviceOperationIs
  DEF V!SavePolicy, DevicesHold, ScreensShown, V!DevicesTypeOK
<1>2. ASSUME NEW w \in Runtime, V!Expire(w) PROVE ScreensShown'
  BY <1>2, DevicesAssumed, DeviceOperationIs
  DEF V!Expire, DevicesHold, ScreensShown, V!DevicesTypeOK
<1>3. ASSUME NEW w \in Runtime, V!Close(w) PROVE ScreensShown'
  BY <1>3, DevicesAssumed, DeviceOperationIs
  DEF V!Close, V!consentVars, DevicesHold, ScreensShown, V!DevicesTypeOK
<1>4. ASSUME NEW w \in Runtime, V!Closed(w) PROVE ScreensShown'
  BY <1>4, DevicesAssumed, DeviceOperationIs
  DEF V!Closed, V!WaitedFor, V!consentVars, V!Mine, V!Running, DevicesHold,
      ScreensShown, V!DevicesTypeOK
<1>5. ASSUME NEW w \in Runtime, NEW s \in snapshots[w], V!Lapse(w, s)
      PROVE  ScreensShown'
  BY <1>5, DevicesAssumed, DeviceOperationIs
  DEF V!Lapse, V!consentVars, DevicesHold, ScreensShown, V!DevicesTypeOK
<1>6. ASSUME NEW w \in Runtime, NEW s \in snapshots[w], V!InputRefused(w, s)
      PROVE  ScreensShown'
  BY <1>6, DevicesAssumed, DeviceOperationIs
  DEF V!InputRefused, V!Busy, V!Dropped, V!consentVars, V!Running, DevicesHold,
      ScreensShown, V!DevicesTypeOK
<1>7. ASSUME NEW c \in Call, V!Captured(c) PROVE ScreensShown'
  BY <1>7, DevicesAssumed, DeviceOperationIs
  DEF V!Captured, V!consentVars, DevicesHold, ScreensShown, V!DevicesTypeOK
<1>8. ASSUME NEW c \in Call, V!Staged(c) PROVE ScreensShown'
  BY <1>8, DevicesAssumed, DeviceOperationIs
  DEF V!Staged, V!Dispatched, V!consentVars, DevicesHold, ScreensShown,
      V!DevicesTypeOK
<1>9. ASSUME NEW c \in Call, V!StageFails(c) PROVE ScreensShown'
  BY <1>9, DevicesAssumed, DeviceOperationIs
  DEF V!StageFails, V!consentVars, DevicesHold, ScreensShown, V!DevicesTypeOK
<1>10. ASSUME NEW c \in Call, V!Land(c) PROVE ScreensShown'
  BY <1>10, DevicesAssumed, DeviceOperationIs
  DEF V!Land, V!consentVars, DevicesHold, ScreensShown, V!DevicesTypeOK
<1>11. ASSUME NEW c \in Call, V!Done(c) PROVE ScreensShown'
  BY <1>11, DevicesAssumed, DeviceOperationIs
  DEF V!Done, V!consentVars, DevicesHold, ScreensShown, V!DevicesTypeOK
<1>12. ASSUME NEW c \in Call, V!Uncertain(c) PROVE ScreensShown'
  BY <1>12, DevicesAssumed, DeviceOperationIs
  DEF V!Uncertain, V!consentVars, DevicesHold, ScreensShown, V!DevicesTypeOK
<1>13. ASSUME NEW c \in Call, V!Refused(c) PROVE ScreensShown'
  BY <1>13, DevicesAssumed, DeviceOperationIs
  DEF V!Refused, V!consentVars, DevicesHold, ScreensShown, V!DevicesTypeOK
<1>14. ASSUME NEW c \in Call, NEW w \in Runtime, V!Capture(c, w) PROVE ScreensShown'
  BY <1>14, DevicesAssumed, DeviceOperationIs
  DEF V!Capture, V!Busy, V!consentVars, V!Running, DevicesHold, ScreensShown,
      V!DevicesTypeOK
<1>15. ASSUME NEW c \in Call, NEW w \in Runtime, NEW k \in Key, V!App(c, w, k)
      PROVE  ScreensShown'
  BY <1>15, DevicesAssumed, DeviceOperationIs
  DEF V!App, V!Busy, V!Receipt, V!Dispatched, V!consentVars, V!Running, DevicesHold,
      ScreensShown, V!DevicesTypeOK
<1>16. ASSUME NEW c \in Call, NEW w \in Runtime, NEW k \in Key, V!Stage(c, w, k)
      PROVE  ScreensShown'
  BY <1>16, DevicesAssumed, DeviceOperationIs
  DEF V!Stage, V!Busy, V!Receipt, V!consentVars, V!Running, DevicesHold,
      ScreensShown, V!DevicesTypeOK
<1>17. ASSUME NEW c \in Call, NEW w \in Runtime, NEW k \in Key, NEW s \in snapshots[w], V!Input(c, w, k, s)
      PROVE  ScreensShown'
  BY <1>17, DevicesAssumed, DeviceOperationIs
  DEF V!Input, V!Busy, V!Receipt, V!Dropped, V!Dispatched, V!consentVars, V!Running,
      DevicesHold, ScreensShown, V!DevicesTypeOK
<1>18. ASSUME V!Crash PROVE ScreensShown'
  BY <1>18, DevicesAssumed, DeviceOperationIs
  DEF V!Crash, DevicesHold, ScreensShown, V!DevicesTypeOK
<1>u. ASSUME UNCHANGED V!deviceVars PROVE ScreensShown'
  BY <1>u DEF DevicesHold, ScreensShown, V!DevicesTypeOK, V!deviceVars
<1>. QED
  BY <1>1, <1>2, <1>3, <1>4, <1>5, <1>6, <1>7, <1>8, <1>9, <1>10, <1>11, <1>12,
     <1>13, <1>14, <1>15, <1>16, <1>17, <1>18, <1>u
  DEF V!DevicesNext

\* ADB stays with one operation.
LEMMA AloneStep ==
    ASSUME V!DevicesTypeOK, DevicesHold, [V!DevicesNext]_(V!deviceVars)
    PROVE  Alone'
<1>1. ASSUME NEW w \in Runtime, NEW m \in V!Mode, NEW b \in BOOLEAN, V!SavePolicy(w, m, b)
      PROVE  Alone'
  BY <1>1, DevicesAssumed, DeviceOperationIs
  DEF V!SavePolicy, DevicesHold, Alone, V!DevicesTypeOK, V!Running
<1>2. ASSUME NEW w \in Runtime, V!Expire(w) PROVE Alone'
  BY <1>2, DevicesAssumed, DeviceOperationIs
  DEF V!Expire, DevicesHold, Alone, V!DevicesTypeOK, V!Running
<1>3. ASSUME NEW w \in Runtime, V!Close(w) PROVE Alone'
  BY <1>3, DevicesAssumed, DeviceOperationIs
  DEF V!Close, V!consentVars, DevicesHold, Alone, V!DevicesTypeOK, V!Running
<1>4. ASSUME NEW w \in Runtime, V!Closed(w) PROVE Alone'
  BY <1>4, DevicesAssumed, DeviceOperationIs
  DEF V!Closed, V!WaitedFor, V!consentVars, V!Mine, V!Running, DevicesHold, Alone,
      V!DevicesTypeOK
<1>5. ASSUME NEW w \in Runtime, NEW s \in snapshots[w], V!Lapse(w, s) PROVE Alone'
  BY <1>5, DevicesAssumed, DeviceOperationIs
  DEF V!Lapse, V!consentVars, DevicesHold, Alone, V!DevicesTypeOK, V!Running
<1>6. ASSUME NEW w \in Runtime, NEW s \in snapshots[w], V!InputRefused(w, s)
      PROVE  Alone'
  BY <1>6, DevicesAssumed, DeviceOperationIs
  DEF V!InputRefused, V!Busy, V!Dropped, V!consentVars, V!Running, DevicesHold,
      Alone, V!DevicesTypeOK
<1>7. ASSUME NEW c \in Call, V!Captured(c) PROVE Alone'
  BY <1>7, DevicesAssumed, DeviceOperationIs
  DEF V!Captured, V!consentVars, DevicesHold, Alone, V!DevicesTypeOK, V!Running
<1>8. ASSUME NEW c \in Call, V!Staged(c) PROVE Alone'
  BY <1>8, DevicesAssumed, DeviceOperationIs
  DEF V!Staged, V!Dispatched, V!consentVars, DevicesHold, Alone, V!DevicesTypeOK,
      V!Running
<1>9. ASSUME NEW c \in Call, V!StageFails(c) PROVE Alone'
  BY <1>9, DevicesAssumed, DeviceOperationIs
  DEF V!StageFails, V!consentVars, DevicesHold, Alone, V!DevicesTypeOK, V!Running
<1>10. ASSUME NEW c \in Call, V!Land(c) PROVE Alone'
  BY <1>10, DevicesAssumed, DeviceOperationIs
  DEF V!Land, V!consentVars, DevicesHold, Alone, V!DevicesTypeOK, V!Running
<1>11. ASSUME NEW c \in Call, V!Done(c) PROVE Alone'
  BY <1>11, DevicesAssumed, DeviceOperationIs
  DEF V!Done, V!consentVars, DevicesHold, Alone, V!DevicesTypeOK, V!Running
<1>12. ASSUME NEW c \in Call, V!Uncertain(c) PROVE Alone'
  BY <1>12, DevicesAssumed, DeviceOperationIs
  DEF V!Uncertain, V!consentVars, DevicesHold, Alone, V!DevicesTypeOK, V!Running
<1>13. ASSUME NEW c \in Call, V!Refused(c) PROVE Alone'
  BY <1>13, DevicesAssumed, DeviceOperationIs
  DEF V!Refused, V!consentVars, DevicesHold, Alone, V!DevicesTypeOK, V!Running
<1>14. ASSUME NEW c \in Call, NEW w \in Runtime, V!Capture(c, w) PROVE Alone'
  BY <1>14, DevicesAssumed, DeviceOperationIs
  DEF V!Capture, V!Busy, V!consentVars, V!Running, DevicesHold, Alone,
      V!DevicesTypeOK
<1>15. ASSUME NEW c \in Call, NEW w \in Runtime, NEW k \in Key, V!App(c, w, k)
      PROVE  Alone'
  BY <1>15, DevicesAssumed, DeviceOperationIs
  DEF V!App, V!Busy, V!Receipt, V!Dispatched, V!consentVars, V!Running, DevicesHold,
      Alone, V!DevicesTypeOK
<1>16. ASSUME NEW c \in Call, NEW w \in Runtime, NEW k \in Key, V!Stage(c, w, k)
      PROVE  Alone'
  BY <1>16, DevicesAssumed, DeviceOperationIs
  DEF V!Stage, V!Busy, V!Receipt, V!consentVars, V!Running, DevicesHold, Alone,
      V!DevicesTypeOK
<1>17. ASSUME NEW c \in Call, NEW w \in Runtime, NEW k \in Key, NEW s \in snapshots[w], V!Input(c, w, k, s)
      PROVE  Alone'
  BY <1>17, DevicesAssumed, DeviceOperationIs
  DEF V!Input, V!Busy, V!Receipt, V!Dropped, V!Dispatched, V!consentVars, V!Running,
      DevicesHold, Alone, V!DevicesTypeOK
<1>18. ASSUME V!Crash PROVE Alone'
  BY <1>18, DevicesAssumed, DeviceOperationIs
  DEF V!Crash, DevicesHold, Alone, V!DevicesTypeOK, V!Running
<1>u. ASSUME UNCHANGED V!deviceVars PROVE Alone'
  BY <1>u DEF DevicesHold, Alone, V!DevicesTypeOK, V!Running, V!deviceVars
<1>. QED
  BY <1>1, <1>2, <1>3, <1>4, <1>5, <1>6, <1>7, <1>8, <1>9, <1>10, <1>11, <1>12,
     <1>13, <1>14, <1>15, <1>16, <1>17, <1>18, <1>u
  DEF V!DevicesNext

\* A closed runtime stays quiet.
LEMMA QuietStep ==
    ASSUME V!DevicesTypeOK, DevicesHold, [V!DevicesNext]_(V!deviceVars)
    PROVE  V!ClosedIsQuiet'
<1>1. ASSUME NEW w \in Runtime, NEW m \in V!Mode, NEW b \in BOOLEAN, V!SavePolicy(w, m, b)
      PROVE  V!ClosedIsQuiet'
  BY <1>1, DevicesAssumed, DeviceOperationIs
  DEF V!SavePolicy, DevicesHold, V!ClosedIsQuiet, V!Mine, V!Running, V!DevicesTypeOK
<1>2. ASSUME NEW w \in Runtime, V!Expire(w) PROVE V!ClosedIsQuiet'
  BY <1>2, DevicesAssumed, DeviceOperationIs
  DEF V!Expire, DevicesHold, V!ClosedIsQuiet, V!Mine, V!Running, V!DevicesTypeOK
<1>3. ASSUME NEW w \in Runtime, V!Close(w) PROVE V!ClosedIsQuiet'
  BY <1>3, DevicesAssumed, DeviceOperationIs
  DEF V!Close, V!consentVars, DevicesHold, V!ClosedIsQuiet, V!Mine, V!Running,
      V!DevicesTypeOK
<1>4. ASSUME NEW w \in Runtime, V!Closed(w) PROVE V!ClosedIsQuiet'
  BY <1>4, DevicesAssumed, DeviceOperationIs
  DEF V!Closed, V!WaitedFor, V!consentVars, V!Mine, V!Running, DevicesHold,
      V!ClosedIsQuiet, V!DevicesTypeOK
<1>5. ASSUME NEW w \in Runtime, NEW s \in snapshots[w], V!Lapse(w, s)
      PROVE  V!ClosedIsQuiet'
  BY <1>5, DevicesAssumed, DeviceOperationIs
  DEF V!Lapse, V!consentVars, DevicesHold, V!ClosedIsQuiet, V!Mine, V!Running,
      V!DevicesTypeOK
<1>6. ASSUME NEW w \in Runtime, NEW s \in snapshots[w], V!InputRefused(w, s)
      PROVE  V!ClosedIsQuiet'
  BY <1>6, DevicesAssumed, DeviceOperationIs
  DEF V!InputRefused, V!Busy, V!Dropped, V!consentVars, V!Running, DevicesHold,
      V!ClosedIsQuiet, V!Mine, V!DevicesTypeOK
<1>7. ASSUME NEW c \in Call, V!Captured(c) PROVE V!ClosedIsQuiet'
  BY <1>7, DevicesAssumed, DeviceOperationIs
  DEF V!Captured, V!consentVars, DevicesHold, V!ClosedIsQuiet, V!Mine, V!Running,
      V!DevicesTypeOK
<1>8. ASSUME NEW c \in Call, V!Staged(c) PROVE V!ClosedIsQuiet'
  BY <1>8, DevicesAssumed, DeviceOperationIs
  DEF V!Staged, V!Dispatched, V!consentVars, DevicesHold, V!ClosedIsQuiet, V!Mine,
      V!Running, V!DevicesTypeOK
<1>9. ASSUME NEW c \in Call, V!StageFails(c) PROVE V!ClosedIsQuiet'
  BY <1>9, DevicesAssumed, DeviceOperationIs
  DEF V!StageFails, V!consentVars, DevicesHold, V!ClosedIsQuiet, V!Mine, V!Running,
      V!DevicesTypeOK
<1>10. ASSUME NEW c \in Call, V!Land(c) PROVE V!ClosedIsQuiet'
  BY <1>10, DevicesAssumed, DeviceOperationIs
  DEF V!Land, V!consentVars, DevicesHold, V!ClosedIsQuiet, V!Mine, V!Running,
      V!DevicesTypeOK
<1>11. ASSUME NEW c \in Call, V!Done(c) PROVE V!ClosedIsQuiet'
  BY <1>11, DevicesAssumed, DeviceOperationIs
  DEF V!Done, V!consentVars, DevicesHold, V!ClosedIsQuiet, V!Mine, V!Running,
      V!DevicesTypeOK
<1>12. ASSUME NEW c \in Call, V!Uncertain(c) PROVE V!ClosedIsQuiet'
  BY <1>12, DevicesAssumed, DeviceOperationIs
  DEF V!Uncertain, V!consentVars, DevicesHold, V!ClosedIsQuiet, V!Mine, V!Running,
      V!DevicesTypeOK
<1>13. ASSUME NEW c \in Call, V!Refused(c) PROVE V!ClosedIsQuiet'
  BY <1>13, DevicesAssumed, DeviceOperationIs
  DEF V!Refused, V!consentVars, DevicesHold, V!ClosedIsQuiet, V!Mine, V!Running,
      V!DevicesTypeOK
<1>14. ASSUME NEW c \in Call, NEW w \in Runtime, V!Capture(c, w)
      PROVE  V!ClosedIsQuiet'
  BY <1>14, DevicesAssumed, DeviceOperationIs
  DEF V!Capture, V!Busy, V!consentVars, V!Running, DevicesHold, V!ClosedIsQuiet,
      V!Mine, V!DevicesTypeOK
<1>15. ASSUME NEW c \in Call, NEW w \in Runtime, NEW k \in Key, V!App(c, w, k)
      PROVE  V!ClosedIsQuiet'
  BY <1>15, DevicesAssumed, DeviceOperationIs
  DEF V!App, V!Busy, V!Receipt, V!Dispatched, V!consentVars, V!Running, DevicesHold,
      V!ClosedIsQuiet, V!Mine, V!DevicesTypeOK
<1>16. ASSUME NEW c \in Call, NEW w \in Runtime, NEW k \in Key, V!Stage(c, w, k)
      PROVE  V!ClosedIsQuiet'
  BY <1>16, DevicesAssumed, DeviceOperationIs
  DEF V!Stage, V!Busy, V!Receipt, V!consentVars, V!Running, DevicesHold,
      V!ClosedIsQuiet, V!Mine, V!DevicesTypeOK
<1>17. ASSUME NEW c \in Call, NEW w \in Runtime, NEW k \in Key, NEW s \in snapshots[w], V!Input(c, w, k, s)
      PROVE  V!ClosedIsQuiet'
  BY <1>17, DevicesAssumed, DeviceOperationIs
  DEF V!Input, V!Busy, V!Receipt, V!Dropped, V!Dispatched, V!consentVars, V!Running,
      DevicesHold, V!ClosedIsQuiet, V!Mine, V!DevicesTypeOK
<1>18. ASSUME V!Crash PROVE V!ClosedIsQuiet'
  BY <1>18, DevicesAssumed, DeviceOperationIs
  DEF V!Crash, DevicesHold, V!ClosedIsQuiet, V!Mine, V!Running, V!DevicesTypeOK
<1>u. ASSUME UNCHANGED V!deviceVars PROVE V!ClosedIsQuiet'
  BY <1>u
  DEF DevicesHold, V!ClosedIsQuiet, V!Mine, V!Running, V!DevicesTypeOK, V!deviceVars
<1>. QED
  BY <1>1, <1>2, <1>3, <1>4, <1>5, <1>6, <1>7, <1>8, <1>9, <1>10, <1>11, <1>12,
     <1>13, <1>14, <1>15, <1>16, <1>17, <1>18, <1>u
  DEF V!DevicesNext

\* What is sent is sent under a consent.
LEMMA ConsentStep ==
    ASSUME V!DevicesTypeOK, DevicesHold, [V!DevicesNext]_(V!deviceVars)
    PROVE  V!UnderConsent'
<1>1. ASSUME NEW w \in Runtime, NEW m \in V!Mode, NEW b \in BOOLEAN, V!SavePolicy(w, m, b)
      PROVE  V!UnderConsent'
  BY <1>1, DevicesAssumed, DeviceOperationIs
  DEF V!SavePolicy, DevicesHold, V!UnderConsent, V!Sent, ScreensShown,
      V!DevicesTypeOK
<1>2. ASSUME NEW w \in Runtime, V!Expire(w) PROVE V!UnderConsent'
  BY <1>2, DevicesAssumed, DeviceOperationIs
  DEF V!Expire, DevicesHold, V!UnderConsent, V!Sent, ScreensShown, V!DevicesTypeOK
<1>3. ASSUME NEW w \in Runtime, V!Close(w) PROVE V!UnderConsent'
  BY <1>3, DevicesAssumed, DeviceOperationIs
  DEF V!Close, V!consentVars, DevicesHold, V!UnderConsent, V!Sent, ScreensShown,
      V!DevicesTypeOK
<1>4. ASSUME NEW w \in Runtime, V!Closed(w) PROVE V!UnderConsent'
  BY <1>4, DevicesAssumed, DeviceOperationIs
  DEF V!Closed, V!WaitedFor, V!consentVars, V!Mine, V!Running, DevicesHold,
      V!UnderConsent, V!Sent, ScreensShown, V!DevicesTypeOK
<1>5. ASSUME NEW w \in Runtime, NEW s \in snapshots[w], V!Lapse(w, s)
      PROVE  V!UnderConsent'
  BY <1>5, DevicesAssumed, DeviceOperationIs
  DEF V!Lapse, V!consentVars, DevicesHold, V!UnderConsent, V!Sent, ScreensShown,
      V!DevicesTypeOK
<1>6. ASSUME NEW w \in Runtime, NEW s \in snapshots[w], V!InputRefused(w, s)
      PROVE  V!UnderConsent'
  BY <1>6, DevicesAssumed, DeviceOperationIs
  DEF V!InputRefused, V!Busy, V!Dropped, V!consentVars, V!Running, DevicesHold,
      V!UnderConsent, V!Sent, ScreensShown, V!DevicesTypeOK
<1>7. ASSUME NEW c \in Call, V!Captured(c) PROVE V!UnderConsent'
  BY <1>7, DevicesAssumed, DeviceOperationIs
  DEF V!Captured, V!consentVars, DevicesHold, V!UnderConsent, V!Sent, ScreensShown,
      V!DevicesTypeOK
<1>8. ASSUME NEW c \in Call, V!Staged(c) PROVE V!UnderConsent'
  BY <1>8, DevicesAssumed, DeviceOperationIs
  DEF V!Staged, V!Dispatched, V!consentVars, DevicesHold, V!UnderConsent, V!Sent,
      ScreensShown, V!DevicesTypeOK
<1>9. ASSUME NEW c \in Call, V!StageFails(c) PROVE V!UnderConsent'
  BY <1>9, DevicesAssumed, DeviceOperationIs
  DEF V!StageFails, V!consentVars, DevicesHold, V!UnderConsent, V!Sent,
      ScreensShown, V!DevicesTypeOK
<1>10. ASSUME NEW c \in Call, V!Land(c) PROVE V!UnderConsent'
  BY <1>10, DevicesAssumed, DeviceOperationIs
  DEF V!Land, V!consentVars, DevicesHold, V!UnderConsent, V!Sent, ScreensShown,
      V!DevicesTypeOK
<1>11. ASSUME NEW c \in Call, V!Done(c) PROVE V!UnderConsent'
  BY <1>11, DevicesAssumed, DeviceOperationIs
  DEF V!Done, V!consentVars, DevicesHold, V!UnderConsent, V!Sent, ScreensShown,
      V!DevicesTypeOK
<1>12. ASSUME NEW c \in Call, V!Uncertain(c) PROVE V!UnderConsent'
  BY <1>12, DevicesAssumed, DeviceOperationIs
  DEF V!Uncertain, V!consentVars, DevicesHold, V!UnderConsent, V!Sent, ScreensShown,
      V!DevicesTypeOK
<1>13. ASSUME NEW c \in Call, V!Refused(c) PROVE V!UnderConsent'
  BY <1>13, DevicesAssumed, DeviceOperationIs
  DEF V!Refused, V!consentVars, DevicesHold, V!UnderConsent, V!Sent, ScreensShown,
      V!DevicesTypeOK
<1>14. ASSUME NEW c \in Call, NEW w \in Runtime, V!Capture(c, w) PROVE V!UnderConsent'
  BY <1>14, DevicesAssumed, DeviceOperationIs
  DEF V!Capture, V!Busy, V!consentVars, V!Running, DevicesHold, V!UnderConsent,
      V!Sent, ScreensShown, V!DevicesTypeOK
<1>15. ASSUME NEW c \in Call, NEW w \in Runtime, NEW k \in Key, V!App(c, w, k)
      PROVE  V!UnderConsent'
  BY <1>15, DevicesAssumed, DeviceOperationIs
  DEF V!App, V!Busy, V!Receipt, V!Dispatched, V!consentVars, V!Running, DevicesHold,
      V!UnderConsent, V!Sent, ScreensShown, V!DevicesTypeOK
<1>16. ASSUME NEW c \in Call, NEW w \in Runtime, NEW k \in Key, V!Stage(c, w, k)
      PROVE  V!UnderConsent'
  BY <1>16, DevicesAssumed, DeviceOperationIs
  DEF V!Stage, V!Busy, V!Receipt, V!consentVars, V!Running, DevicesHold,
      V!UnderConsent, V!Sent, ScreensShown, V!DevicesTypeOK
<1>17. ASSUME NEW c \in Call, NEW w \in Runtime, NEW k \in Key, NEW s \in snapshots[w], V!Input(c, w, k, s)
      PROVE  V!UnderConsent'
  <2>. DEFINE row == [V!Dispatched(w, k) EXCEPT !.fresh = (s.seen = inputs[w])]
  <2>1. row = [phase |-> "sent", runtime |-> w, key |-> k, mode |-> V!Policy(w).mode,
               fresh |-> (s.seen = inputs[w])]
    BY DEF V!Dispatched
  <2>2. V!Policy(w).mode = "control" /\ deviceCall' = [deviceCall EXCEPT ![c] = row]
    BY <1>17 DEF V!Input
  <2>3. s.seen = inputs[w]
    BY DEF DevicesHold, ScreensShown
  <2>4. row.mode = "control" /\ row.fresh
    BY <2>1, <2>2, <2>3
  <2>. HIDE DEF row
  <2>5. \A d \in Call : deviceCall'[d] = IF d = c THEN row ELSE deviceCall[d]
    BY <2>2 DEF V!DevicesTypeOK
  <2>6. V!UnderConsent
    BY DEF DevicesHold
  <2>. QED
    BY <2>4, <2>5, <2>6 DEF V!UnderConsent, V!Sent
<1>18. ASSUME V!Crash PROVE V!UnderConsent'
  BY <1>18, DevicesAssumed, DeviceOperationIs
  DEF V!Crash, DevicesHold, V!UnderConsent, V!Sent, ScreensShown, V!DevicesTypeOK
<1>u. ASSUME UNCHANGED V!deviceVars PROVE V!UnderConsent'
  BY <1>u
  DEF DevicesHold, V!UnderConsent, V!Sent, ScreensShown, V!DevicesTypeOK,
      V!deviceVars
<1>. QED
  BY <1>1, <1>2, <1>3, <1>4, <1>5, <1>6, <1>7, <1>8, <1>9, <1>10, <1>11, <1>12,
     <1>13, <1>14, <1>15, <1>16, <1>17, <1>18, <1>u
  DEF V!DevicesNext

\* The receipts of the desktop stay true.
LEMMA ReceiptStep ==
    ASSUME V!DevicesTypeOK, DevicesHold, [V!DevicesNext]_(V!deviceVars)
    PROVE  Receipts'
<1>1. ASSUME NEW w \in Runtime, NEW m \in V!Mode, NEW b \in BOOLEAN, V!SavePolicy(w, m, b)
      PROVE  Receipts'
  BY <1>1, DevicesAssumed, DeviceOperationIs
  DEF V!SavePolicy, DevicesHold, Receipts, V!DevicesTypeOK, V!Sent
<1>2. ASSUME NEW w \in Runtime, V!Expire(w) PROVE Receipts'
  BY <1>2, DevicesAssumed, DeviceOperationIs
  DEF V!Expire, DevicesHold, Receipts, V!DevicesTypeOK, V!Sent
<1>3. ASSUME NEW w \in Runtime, V!Close(w) PROVE Receipts'
  BY <1>3, DevicesAssumed, DeviceOperationIs
  DEF V!Close, V!consentVars, DevicesHold, Receipts, V!DevicesTypeOK, V!Sent
<1>4. ASSUME NEW w \in Runtime, V!Closed(w) PROVE Receipts'
  BY <1>4, DevicesAssumed, DeviceOperationIs
  DEF V!Closed, V!WaitedFor, V!consentVars, V!Mine, V!Running, DevicesHold,
      Receipts, V!DevicesTypeOK, V!Sent
<1>5. ASSUME NEW w \in Runtime, NEW s \in snapshots[w], V!Lapse(w, s) PROVE Receipts'
  BY <1>5, DevicesAssumed, DeviceOperationIs
  DEF V!Lapse, V!consentVars, DevicesHold, Receipts, V!DevicesTypeOK, V!Sent
<1>6. ASSUME NEW w \in Runtime, NEW s \in snapshots[w], V!InputRefused(w, s)
      PROVE  Receipts'
  BY <1>6, DevicesAssumed, DeviceOperationIs
  DEF V!InputRefused, V!Busy, V!Dropped, V!consentVars, V!Running, DevicesHold,
      Receipts, V!DevicesTypeOK, V!Sent
<1>7. ASSUME NEW c \in Call, V!Captured(c) PROVE Receipts'
  BY <1>7, DevicesAssumed, DeviceOperationIs
  DEF V!Captured, V!consentVars, DevicesHold, Receipts, V!DevicesTypeOK, V!Sent
<1>8. ASSUME NEW c \in Call, V!Staged(c) PROVE Receipts'
  BY <1>8, DevicesAssumed, DeviceOperationIs
  DEF V!Staged, V!Dispatched, V!consentVars, DevicesHold, Receipts, V!DevicesTypeOK,
      V!Sent
<1>9. ASSUME NEW c \in Call, V!StageFails(c) PROVE Receipts'
  BY <1>9, DevicesAssumed, DeviceOperationIs
  DEF V!StageFails, V!consentVars, DevicesHold, Receipts, V!DevicesTypeOK, V!Sent
<1>10. ASSUME NEW c \in Call, V!Land(c) PROVE Receipts'
  <2>1. /\ c \in V!Sent /\ deviceCall[c].phase = "sent" /\ deviceCall[c] \in V!Effect /\ deviceCall[c].key \in Key
        /\ effects' = [effects EXCEPT ![deviceCall[c].key] = @ + 1] /\ UNCHANGED <<kind, ledger>>
    BY <1>10, DeviceOperationIs DEF V!Land, V!Sent, V!DevicesTypeOK, V!consentVars
  <2> DEFINE v == [deviceCall[c] EXCEPT !.phase = "landed"]
  <2>2. deviceCall' = [deviceCall EXCEPT ![c] = v] /\ v.phase = "landed" /\ v.key = deviceCall[c].key
    BY <1>10, <2>1 DEF V!Land, V!Effect, V!DevicesTypeOK
  <2> HIDE DEF v
  <2>3. V!Sent' = V!Sent /\ \A d \in Call : d # c => deviceCall'[d] = deviceCall[d]
    BY <2>1, <2>2 DEF V!Sent, V!DevicesTypeOK
  <2>4. deviceCall'[c] = v /\ effects'[v.key] = effects[v.key] + 1 /\ \A k \in Key : k # v.key => effects'[k] = effects[k]
    BY <2>1, <2>2 DEF V!DevicesTypeOK
  <2>5. SUFFICES ASSUME kind = "desktop" PROVE Receipts'
    BY <2>1 DEF Receipts
  <2>6. effects[v.key] = 0 /\ ledger[v.key] # "none"
    BY <2>1, <2>2, <2>5 DEF DevicesHold, Receipts
  <2>7. \A d \in V!Sent : d # c => deviceCall[d].key # v.key
    BY <2>1, <2>2, <2>5 DEF DevicesHold, Receipts
  <2>. QED
    BY <2>1, <2>2, <2>3, <2>4, <2>5, <2>6, <2>7 DEF DevicesHold, Receipts
<1>11. ASSUME NEW c \in Call, V!Done(c) PROVE Receipts'
  BY <1>11, DevicesAssumed, DeviceOperationIs
  DEF V!Done, V!consentVars, DevicesHold, Receipts, V!DevicesTypeOK, V!Sent
<1>12. ASSUME NEW c \in Call, V!Uncertain(c) PROVE Receipts'
  BY <1>12, DevicesAssumed, DeviceOperationIs
  DEF V!Uncertain, V!consentVars, DevicesHold, Receipts, V!DevicesTypeOK, V!Sent
<1>13. ASSUME NEW c \in Call, V!Refused(c) PROVE Receipts'
  BY <1>13, DevicesAssumed, DeviceOperationIs
  DEF V!Refused, V!consentVars, DevicesHold, Receipts, V!DevicesTypeOK, V!Sent
<1>14. ASSUME NEW c \in Call, NEW w \in Runtime, V!Capture(c, w) PROVE Receipts'
  BY <1>14, DevicesAssumed, DeviceOperationIs
  DEF V!Capture, V!Busy, V!consentVars, V!Running, DevicesHold, Receipts,
      V!DevicesTypeOK, V!Sent
<1>15. ASSUME NEW c \in Call, NEW w \in Runtime, NEW k \in Key, V!App(c, w, k)
      PROVE  Receipts'
  BY <1>15, DevicesAssumed, DeviceOperationIs
  DEF V!App, V!Busy, V!Receipt, V!Dispatched, V!consentVars, V!Running, DevicesHold,
      Receipts, V!DevicesTypeOK, V!Sent
<1>16. ASSUME NEW c \in Call, NEW w \in Runtime, NEW k \in Key, V!Stage(c, w, k)
      PROVE  Receipts'
  BY <1>16, DevicesAssumed, DeviceOperationIs
  DEF V!Stage, V!Busy, V!Receipt, V!consentVars, V!Running, DevicesHold, Receipts,
      V!DevicesTypeOK, V!Sent
<1>17. ASSUME NEW c \in Call, NEW w \in Runtime, NEW k \in Key, NEW s \in snapshots[w], V!Input(c, w, k, s)
      PROVE  Receipts'
  <2> DEFINE v == [V!Dispatched(w, k) EXCEPT !.fresh = (s.seen = inputs[w])]
  <2>1. /\ deviceCall' = [deviceCall EXCEPT ![c] = v] /\ v.phase = "sent" /\ v.key = k
        /\ ledger' = [ledger EXCEPT ![k] = "reserved"] /\ ledger[k] = "none" /\ UNCHANGED <<kind, effects>>
    BY <1>17 DEF V!Input, V!Receipt, V!Dispatched, V!consentVars
  <2> HIDE DEF v
  <2>2. V!Sent' = V!Sent \cup {c} /\ deviceCall'[c] = v /\ \A d \in Call : d # c => deviceCall'[d] = deviceCall[d]
    BY <2>1 DEF V!Sent, V!DevicesTypeOK
  <2>3. \A d \in V!Sent : deviceCall[d].key \in Key
    BY DeviceOperationIs DEF V!Sent, V!DevicesTypeOK
  <2>. QED
    BY <2>1, <2>2, <2>3 DEF DevicesHold, Receipts, V!DevicesTypeOK, V!Sent
<1>18. ASSUME V!Crash PROVE Receipts'
  BY <1>18, DevicesAssumed, DeviceOperationIs
  DEF V!Crash, DevicesHold, Receipts, V!DevicesTypeOK, V!Sent
<1>u. ASSUME UNCHANGED V!deviceVars PROVE Receipts'
  BY <1>u DEF DevicesHold, Receipts, V!DevicesTypeOK, V!Sent, V!deviceVars
<1>. QED
  BY <1>1, <1>2, <1>3, <1>4, <1>5, <1>6, <1>7, <1>8, <1>9, <1>10, <1>11, <1>12,
     <1>13, <1>14, <1>15, <1>16, <1>17, <1>18, <1>u
  DEF V!DevicesNext

LEMMA DevicesInductive ==
    /\ V!DevicesInit => V!DevicesTypeOK /\ DevicesHold
    /\ V!DevicesTypeOK /\ DevicesHold /\ [V!DevicesNext]_(V!deviceVars) => (V!DevicesTypeOK /\ DevicesHold)'
<1>1. V!DevicesInit => V!DevicesTypeOK
  BY DevicesAssumed, DeviceOperationIs DEF V!DevicesInit, V!DevicesTypeOK
<1>2. V!DevicesInit => DevicesHold
  BY DeviceOperationIs
  DEF V!DevicesInit, DevicesHold, ScreensShown, Alone, Receipts, V!UnderConsent,
      V!ClosedIsQuiet, V!Running, V!Sent, V!Mine
<1>. QED
  BY <1>1, <1>2, DeviceTypeStep, ScreenStep, AloneStep, QuietStep, ConsentStep,
     ReceiptStep
  DEF DevicesHold

\* What runs alone is not more than one operation.
LEMMA DevicesWell == V!DevicesTypeOK /\ DevicesHold => V!DevicesObeyed
<1>1. SUFFICES ASSUME V!DevicesTypeOK, DevicesHold PROVE V!DevicesObeyed
  OBVIOUS
<1>2. V!DesktopOnce
  BY <1>1 DEF DevicesHold, Receipts, V!DesktopOnce
<1>3. ASSUME kind = "adb" PROVE V!Cardinality(V!Running) <= 1
  <2>1. V!Cardinality(V!Running) = Cardinality(V!Running)
    BY DEF V!Cardinality, Cardinality
  <2>2. CASE V!Running = {}
    BY <2>1, <2>2, FS_EmptySet
  <2>3. CASE V!Running # {}
    <3>1. PICK c : c \in V!Running
      BY <2>3
    <3>2. V!Running = {c}
      BY <1>1, <1>3, <3>1 DEF DevicesHold, Alone
    <3>. QED
      BY <2>1, <3>2, FS_Singleton
  <2>. QED
    BY <2>2, <2>3
<1>. QED
  BY <1>1, <1>2, <1>3 DEF DevicesHold, V!DevicesObeyed, V!OneAtATime

-----------------------------------------------------------------------------
(* The owner's configuration.                                              *)

\* What a writer does at each place.
Places ==
    \A w \in O!Writer :
       /\ writer[w] = "idle" => missed[w] = {}
       /\ writer[w] \in {"storing", "stored"} => doing[w] = "token"
       /\ writer[w] = "checked" => doing[w] = "setup"
       /\ writer[w] = "opened" => doing[w] \notin {"setup", "start"}
       /\ writer[w] = "saved" => doing[w] = "removal"
\* Who looked at the file as it is has missed nothing.
Looks ==
    /\ \A w \in fresh : missed[w] = {}
    /\ O!SetupLooks
Holding == {"storing", "stored", "ready", "checked", "opened"}
Writing == {"ready", "checked", "opened"}
\* Every save is in the hand of whoever will write, or known to be missed.
HandsKnow ==
    /\ \A w \in O!Writer :
          /\ writer[w] \in Holding =>
                savers \subseteq ((hand[w].others \cup missed[w]) \cup overwritten)
                                 \cup (IF writer[w] = "checked" THEN written[w] ELSE {})
          /\ writer[w] \in Writing /\ doing[w] \in {"other", "setup"} => w \in hand[w].others
          /\ writer[w] \in Writing /\ doing[w] = "removal" => hand[w].ref = "none"
    /\ config.state = "none" => savers \subseteq overwritten
    /\ O!SavesStay
\* What is written is complete.
HandsComplete ==
    /\ \A w \in O!Writer :
          /\ writer[w] \in Writing => O!Complete(hand[w])
          /\ writer[w] \in {"storing", "stored"} => (hand[w].mode # "local" => hand[w].origin)
    /\ O!FileComplete
Behind(w) == missed[w] # {} \/ (writer[w] = "checked" /\ written[w] # {})
\* Who will write a reference to the credential has one to refer to, or missed
\* its removal; so has the file.
HandsBacked ==
    /\ \A w \in O!Writer :
          writer[w] \in Writing /\ hand[w].ref = "os" =>
             cred = "token" \/ spoiled \/ overlapped \/ Behind(w)
    /\ O!RefBacked
\* Before a removal takes the credential, only who missed it, or stores a new
\* one, refers to it.
RemovalSeen ==
    \A w \in O!Writer :
       writer[w] = "saved" /\ missed[w] = {} /\ ~overlapped =>
          /\ config.state = "whole" => config.config.ref # "os"
          /\ \A v \in O!Writer : writer[v] \in Writing /\ hand[v].ref = "os" =>
                                    doing[v] = "token" \/ Behind(v)
OwnerHolds ==
    Places /\ Looks /\ HandsKnow /\ HandsComplete /\ HandsBacked /\ RemovalSeen

LEMMA OwnerAssumed == MaxWriters \in Nat
BY Assumed DEF O!OwnerConfigAssumption

\* The defaults, and what is read, are configurations; the defaults are complete.
LEMMA DefaultsIs ==
    /\ O!Defaults \in O!Config /\ O!Defaults.others = {} /\ O!Defaults.ref = "none"
    /\ O!Complete(O!Defaults)
    /\ O!OwnerConfigTypeOK => O!Parsed \in O!Config
BY DEF O!Defaults, O!Config, O!Mode, O!Complete, O!Parsed, O!OwnerConfigTypeOK, O!File

LEMMA FileIs ==
    /\ \A s \in {"none", "empty", "mixed", "whole"}, c \in O!Config :
          [state |-> s, config |-> c] \in O!File
    /\ \A f \in O!File : f.state \in {"none", "empty", "mixed", "whole"} /\ f.config \in O!Config
BY DEF O!File

LEMMA ConfigIs ==
    ASSUME NEW c \in O!Config
    PROVE  c.mode \in O!Mode /\ c.ref \in {"none", "os", "file"} /\ c.origin \in BOOLEAN /\ c.others \subseteq O!Writer
BY DEF O!Config

\* What is read is what the file says.
LEMMA ParsedIs ==
    ASSUME O!OwnerConfigTypeOK, OwnerHolds, O!Readable
    PROVE  /\ O!Complete(O!Parsed)
           /\ savers \subseteq O!Parsed.others \cup overwritten
           /\ O!Parsed.ref = "os" => config.state = "whole" /\ config.config.ref = "os"
BY DefaultsIs
   DEF O!Readable, O!Parsed, OwnerHolds, HandsComplete, O!FileComplete, HandsKnow, O!SavesStay

\* A writer begins with what it read and its own change.
LEMMA LoadedStep ==
    ASSUME O!OwnerConfigTypeOK, OwnerHolds, NEW w \in O!Writer, NEW inPage \in BOOLEAN,
           NEW o \in O!Doing \cup {None}, NEW c \in O!Config, NEW there \in {"storing", "ready", "refused"},
           O!Loaded(w, inPage, o, c, there),
           there # "refused" => O!Parsed.others \subseteq c.others,
           there = "ready" /\ c.ref = "os" => O!Parsed.ref = "os",
           there # "refused" /\ o = "removal" => c.ref = "none",
           there # "refused" /\ o \in {"other", "setup"} => w \in c.others,
           there = "storing" => o = "token" /\ (c.mode # "local" => c.origin),
           there = "ready" => O!Complete(c)
    PROVE  O!OwnerConfigTypeOK' /\ OwnerHolds'
<1>1. /\ writer[w] = "idle" /\ writer' = [writer EXCEPT ![w] = there]
      /\ page' \subseteq page \cup {w}
      /\ doing' = [doing EXCEPT ![w] = o] /\ hand' = [hand EXCEPT ![w] = c] /\ fresh' = fresh \cup {w}
      /\ UNCHANGED <<config, cred, savers, overwritten, overlapped, spoiled, missed, written, kills>>
  BY DEF O!Loaded, O!Begins
<1>2. O!OwnerConfigTypeOK'
  <2>1. writer' \in [O!Writer -> {"idle", "storing", "stored", "ready", "checked", "opened", "saved", "done",
                          "up", "refused", "dead"}]
    BY <1>1 DEF O!OwnerConfigTypeOK
  <2>2. doing' \in [O!Writer -> O!Doing \cup {None}] /\ hand' \in [O!Writer -> O!Config]
    BY <1>1 DEF O!OwnerConfigTypeOK
  <2>. QED
    BY <1>1, <2>1, <2>2 DEF O!OwnerConfigTypeOK
<1>3. /\ writer'[w] = there /\ doing'[w] = o /\ hand'[w] = c
      /\ \A v \in O!Writer : v # w => writer'[v] = writer[v] /\ doing'[v] = doing[v] /\ hand'[v] = hand[v]
  BY <1>1 DEF O!OwnerConfigTypeOK
<1>4. O!Readable
  BY DEF O!Loaded
<1>5. Places' /\ Looks'
  BY <1>1, <1>3 DEF OwnerHolds, Places, Looks, O!SetupLooks
<1>6. HandsKnow'
  BY <1>1, <1>3, <1>4, ParsedIs
  DEF OwnerHolds, HandsKnow, O!SavesStay, Holding, Writing
<1>7. HandsComplete'
  BY <1>1, <1>3 DEF OwnerHolds, HandsComplete, O!FileComplete, Writing
<1>8. HandsBacked'
  BY <1>1, <1>3, <1>4, ParsedIs
  DEF OwnerHolds, HandsBacked, O!RefBacked, Writing, Behind
<1>9. RemovalSeen'
  BY <1>1, <1>3, <1>4, ParsedIs DEF OwnerHolds, RemovalSeen, Writing, Behind
<1>. QED
  BY <1>2, <1>5, <1>6, <1>7, <1>8, <1>9 DEF OwnerHolds

LEMMA LoadOtherStep ==
    ASSUME O!OwnerConfigTypeOK, OwnerHolds, NEW w \in O!Writer, O!LoadOther(w)
    PROVE  O!OwnerConfigTypeOK' /\ OwnerHolds'
<1> DEFINE c == [O!Parsed EXCEPT !.others = @ \cup {w}]
<1>1. PICK inPage \in BOOLEAN, o \in {"other", "setup"} : O!Loaded(w, inPage, o, c, "ready")
  BY DEF O!LoadOther
<1>2. O!Readable /\ O!Parsed \in O!Config
  BY <1>1, DefaultsIs DEF O!Loaded
<1>3. /\ c \in O!Config /\ c.others = O!Parsed.others \cup {w} /\ c.ref = O!Parsed.ref
      /\ c.mode = O!Parsed.mode /\ c.origin = O!Parsed.origin
  BY <1>2 DEF O!Config
<1> HIDE DEF c
<1>4. O!Complete(c)
  BY <1>2, <1>3, ParsedIs DEF O!Complete
<1>5. o \in O!Doing \cup {None} /\ o \notin {"removal", "token"}
  BY DEF O!Doing
<1>. QED
  BY <1>1, <1>3, <1>4, <1>5, LoadedStep

LEMMA LoadOriginStep ==
    ASSUME O!OwnerConfigTypeOK, OwnerHolds, NEW w \in O!Writer, O!LoadOrigin(w)
    PROVE  O!OwnerConfigTypeOK' /\ OwnerHolds'
<1> DEFINE c == [O!Parsed EXCEPT !.origin = TRUE]
<1>1. PICK inPage \in BOOLEAN : O!Loaded(w, inPage, "origin", c, "ready")
  BY DEF O!LoadOrigin
<1>2. O!Readable /\ O!Parsed \in O!Config
  BY <1>1, DefaultsIs DEF O!Loaded
<1>3. /\ c \in O!Config /\ c.others = O!Parsed.others /\ c.ref = O!Parsed.ref
      /\ c.mode = O!Parsed.mode /\ c.origin
  BY <1>2 DEF O!Config
<1> HIDE DEF c
<1>4. O!Complete(c)
  BY <1>2, <1>3, ParsedIs DEF O!Complete
<1>5. "origin" \in O!Doing \cup {None}
  BY DEF O!Doing
<1>. QED
  BY <1>1, <1>3, <1>4, <1>5, LoadedStep

LEMMA LoadTunnelStep ==
    ASSUME O!OwnerConfigTypeOK, OwnerHolds, NEW w \in O!Writer, O!LoadTunnel(w)
    PROVE  O!OwnerConfigTypeOK' /\ OwnerHolds'
<1>1. PICK mode \in O!Mode, gives \in {"token", "file", "nothing", "removal"}, url \in BOOLEAN, inPage \in BOOLEAN :
         LET origin == O!Parsed.origin \/ url
             stores == gives = "token" /\ (inPage => mode = "tunnel")
             ref == CASE gives = "removal" -> "none" [] gives = "file" -> "file" [] OTHER -> O!Parsed.ref
             c == [mode |-> mode, ref |-> ref, origin |-> origin, others |-> O!Parsed.others]
         IN  \/ /\ mode # "local" => origin
                /\ stores \/ O!Complete(c)
                /\ O!Loaded(w, inPage, gives, c, IF stores THEN "storing" ELSE "ready")
             \/ O!Loaded(w, inPage, None, O!Defaults, "refused")
  BY DEF O!LoadTunnel
<1> DEFINE origin == O!Parsed.origin \/ url
           stores == gives = "token" /\ (inPage => mode = "tunnel")
           ref == CASE gives = "removal" -> "none" [] gives = "file" -> "file" [] OTHER -> O!Parsed.ref
           c == [mode |-> mode, ref |-> ref, origin |-> origin, others |-> O!Parsed.others]
           there == IF stores THEN "storing" ELSE "ready"
<1>2. O!Parsed \in O!Config
  BY DefaultsIs
<1>3. CASE O!Loaded(w, inPage, None, O!Defaults, "refused")
  BY <1>3, DefaultsIs, LoadedStep
<1>4. CASE (mode # "local" => origin) /\ (stores \/ O!Complete(c)) /\ O!Loaded(w, inPage, gives, c, there)
  <2>1. c \in O!Config
    BY <1>2, ConfigIs DEF O!Config
  <2>2. /\ c.others = O!Parsed.others /\ (gives = "removal" => c.ref = "none")
        /\ (c.ref = "os" => O!Parsed.ref = "os") /\ (c.mode # "local" => c.origin)
    BY <1>4
  <2>3. there \in {"storing", "ready", "refused"} /\ (there = "storing" => gives = "token") /\ (there = "ready" => ~stores)
    OBVIOUS
  <2>4. gives \in O!Doing \cup {None} /\ gives \notin {"other", "setup"}
    BY DEF O!Doing
  <2> HIDE DEF c, there, origin, stores, ref
  <2>. QED
    BY <1>4, <2>1, <2>2, <2>3, <2>4, LoadedStep
<1>. QED
  BY <1>1, <1>3, <1>4

LEMMA LoadStartStep ==
    ASSUME O!OwnerConfigTypeOK, OwnerHolds, NEW w \in O!Writer, O!LoadStart(w)
    PROVE  O!OwnerConfigTypeOK' /\ OwnerHolds'
<1>1. O!Loaded(w, FALSE, "start", O!Parsed, IF O!Complete(O!Parsed) THEN "ready" ELSE "refused")
  BY DEF O!LoadStart
<1>2. O!Parsed \in O!Config /\ O!Complete(O!Parsed)
  BY <1>1, DefaultsIs, ParsedIs DEF O!Loaded
<1>3. "start" \in O!Doing \cup {None}
  BY DEF O!Doing
<1>. QED
  BY <1>1, <1>2, <1>3, LoadedStep

\* The variables stay what they are.
LEMMA OwnerTypeStep ==
    ASSUME O!OwnerConfigTypeOK, OwnerHolds, [O!OwnerConfigNext]_(O!ownerVars)
    PROVE  O!OwnerConfigTypeOK'
<1>1. ASSUME NEW w \in O!Writer, O!Unreadable(w) PROVE O!OwnerConfigTypeOK'
  BY <1>1, OwnerAssumed
  DEF O!Unreadable, O!Readable, O!Begins, O!Goes, O!fileVars, O!Over,
      O!OwnerConfigTypeOK
<1>2. ASSUME NEW w \in O!Writer, O!LoadOther(w) PROVE O!OwnerConfigTypeOK'
  BY <1>2, LoadOtherStep DEF OwnerHolds
<1>3. ASSUME NEW w \in O!Writer, O!LoadOrigin(w) PROVE O!OwnerConfigTypeOK'
  BY <1>3, LoadOriginStep DEF OwnerHolds
<1>4. ASSUME NEW w \in O!Writer, O!LoadTunnel(w) PROVE O!OwnerConfigTypeOK'
  BY <1>4, LoadTunnelStep DEF OwnerHolds
<1>5. ASSUME NEW w \in O!Writer, O!LoadStart(w) PROVE O!OwnerConfigTypeOK'
  BY <1>5, LoadStartStep DEF OwnerHolds
<1>6. ASSUME NEW w \in O!Writer, O!Put(w) PROVE O!OwnerConfigTypeOK'
  BY <1>6, OwnerAssumed DEF O!Put, O!Goes, O!OwnerConfigTypeOK, O!Over
<1>7. ASSUME NEW w \in O!Writer, O!ReadBack(w) PROVE O!OwnerConfigTypeOK'
  <2>1. hand' \in [O!Writer -> O!Config]
    <3>1. [hand[w] EXCEPT !.ref = "os"] \in O!Config
      BY DEF O!OwnerConfigTypeOK, O!Config
    <3>. QED
      BY <1>7, <3>1, DefaultsIs DEF O!ReadBack, O!Forget, O!OwnerConfigTypeOK
  <2>. QED
    BY <1>7, <2>1 DEF O!ReadBack, O!Goes, O!OwnerConfigTypeOK, O!Over
<1>8. ASSUME NEW w \in O!Writer, O!Truncate(w) PROVE O!OwnerConfigTypeOK'
  BY <1>8, OwnerAssumed, DefaultsIs, FileIs
  DEF O!Truncate, O!Goes, O!Over, O!writerVars, O!OwnerConfigTypeOK
<1>9. ASSUME NEW w \in O!Writer, O!Write(w) PROVE O!OwnerConfigTypeOK'
  <2>1. hand' \in [O!Writer -> O!Config]
    BY <1>9, DefaultsIs DEF O!Write, O!RenameOver, O!Forget, O!OwnerConfigTypeOK
  <2>2. config' \in O!File
    BY <1>9, DefaultsIs, FileIs DEF O!Write, O!RenameOver, O!OwnerConfigTypeOK
  <2>3. /\ missed' \in [O!Writer -> SUBSET O!Writer] /\ written' \in [O!Writer -> SUBSET O!Writer]
    BY <1>9 DEF O!Write, O!RenameOver, O!Saved, O!Missing, O!OwnerConfigTypeOK
  <2>4. overlapped' \in BOOLEAN /\ savers' \subseteq O!Writer /\ overwritten' \subseteq O!Writer
    BY <1>9 DEF O!Write, O!RenameOver, O!Saved, O!OwnerConfigTypeOK
  <2>. QED
    BY <1>9, <2>1, <2>2, <2>3, <2>4
    DEF O!Write, O!RenameOver, O!Goes, O!Over, O!OwnerConfigTypeOK
<1>10. ASSUME NEW w \in O!Writer, O!Remove(w) PROVE O!OwnerConfigTypeOK'
  BY <1>10, OwnerAssumed DEF O!Remove, O!Goes, O!Over, O!OwnerConfigTypeOK
<1>11. ASSUME NEW w \in O!Writer, O!LookAgain(w) PROVE O!OwnerConfigTypeOK'
  <2>1. hand' \in [O!Writer -> O!Config]
    BY <1>11, DefaultsIs DEF O!LookAgain, O!Die, O!Forget, O!OwnerConfigTypeOK
  <2>. QED
    BY <1>11, <2>1
    DEF O!LookAgain, O!Die, O!Goes, O!fileVars, O!Over, O!OwnerConfigTypeOK
<1>12. ASSUME NEW w \in O!Writer, O!RenameOver(w) PROVE O!OwnerConfigTypeOK'
  <2>1. hand' \in [O!Writer -> O!Config]
    BY <1>12, DefaultsIs DEF O!Write, O!RenameOver, O!Forget, O!OwnerConfigTypeOK
  <2>2. config' \in O!File
    BY <1>12, DefaultsIs, FileIs DEF O!Write, O!RenameOver, O!OwnerConfigTypeOK
  <2>3. /\ missed' \in [O!Writer -> SUBSET O!Writer] /\ written' \in [O!Writer -> SUBSET O!Writer]
    BY <1>12 DEF O!Write, O!RenameOver, O!Saved, O!Missing, O!OwnerConfigTypeOK
  <2>4. overlapped' \in BOOLEAN /\ savers' \subseteq O!Writer /\ overwritten' \subseteq O!Writer
    BY <1>12 DEF O!Write, O!RenameOver, O!Saved, O!OwnerConfigTypeOK
  <2>. QED
    BY <1>12, <2>1, <2>2, <2>3, <2>4
    DEF O!Write, O!RenameOver, O!Goes, O!Over, O!OwnerConfigTypeOK
<1>13. ASSUME NEW w \in O!Writer, O!Launch(w) PROVE O!OwnerConfigTypeOK'
  BY <1>13, OwnerAssumed DEF O!Launch, O!Goes, O!fileVars, O!Over, O!OwnerConfigTypeOK
<1>14. ASSUME NEW w \in O!Writer, O!Die(w) PROVE O!OwnerConfigTypeOK'
  <2>1. hand' \in [O!Writer -> O!Config]
    BY <1>14, DefaultsIs DEF O!LookAgain, O!Die, O!Forget, O!OwnerConfigTypeOK
  <2>. QED
    BY <1>14, <2>1
    DEF O!LookAgain, O!Die, O!Goes, O!fileVars, O!Over, O!OwnerConfigTypeOK
<1>15. ASSUME O!Discard PROVE O!OwnerConfigTypeOK'
  BY <1>15, OwnerAssumed, DefaultsIs, FileIs
  DEF O!Discard, O!Goes, O!Over, O!writerVars, O!OwnerConfigTypeOK
<1>u. ASSUME UNCHANGED O!ownerVars PROVE O!OwnerConfigTypeOK'
  BY <1>u DEF O!OwnerConfigTypeOK, O!ownerVars, O!fileVars, O!writerVars
<1>. QED
  BY <1>1, <1>2, <1>3, <1>4, <1>5, <1>6, <1>7, <1>8, <1>9, <1>10, <1>11, <1>12,
     <1>13, <1>14, <1>15, <1>u
  DEF O!OwnerConfigNext

\* Writers stay in their places.
LEMMA PlacesStep ==
    ASSUME O!OwnerConfigTypeOK, OwnerHolds, [O!OwnerConfigNext]_(O!ownerVars)
    PROVE  Places' /\ Looks'
<1>1. ASSUME NEW w \in O!Writer, O!Unreadable(w) PROVE Places' /\ Looks'
  BY <1>1, OwnerAssumed
  DEF O!Unreadable, O!Readable, O!Begins, O!Goes, O!fileVars, O!Over, OwnerHolds,
      Places, Looks, O!SetupLooks, O!OwnerConfigTypeOK
<1>2. ASSUME NEW w \in O!Writer, O!LoadOther(w) PROVE Places' /\ Looks'
  BY <1>2, LoadOtherStep DEF OwnerHolds
<1>3. ASSUME NEW w \in O!Writer, O!LoadOrigin(w) PROVE Places' /\ Looks'
  BY <1>3, LoadOriginStep DEF OwnerHolds
<1>4. ASSUME NEW w \in O!Writer, O!LoadTunnel(w) PROVE Places' /\ Looks'
  BY <1>4, LoadTunnelStep DEF OwnerHolds
<1>5. ASSUME NEW w \in O!Writer, O!LoadStart(w) PROVE Places' /\ Looks'
  BY <1>5, LoadStartStep DEF OwnerHolds
<1>6. ASSUME NEW w \in O!Writer, O!Put(w) PROVE Places' /\ Looks'
  BY <1>6, OwnerAssumed
  DEF O!Put, O!Goes, O!Over, OwnerHolds, Places, Looks, O!SetupLooks,
      O!OwnerConfigTypeOK
<1>7. ASSUME NEW w \in O!Writer, O!ReadBack(w) PROVE Places' /\ Looks'
  BY <1>7, OwnerAssumed
  DEF O!ReadBack, O!Goes, O!Forget, O!Over, OwnerHolds, Places, Looks, O!SetupLooks,
      O!OwnerConfigTypeOK
<1>8. ASSUME NEW w \in O!Writer, O!Truncate(w) PROVE Places' /\ Looks'
  BY <1>8, OwnerAssumed
  DEF O!Truncate, O!Goes, O!Over, OwnerHolds, Places, Looks, O!SetupLooks,
      O!OwnerConfigTypeOK
<1>9. ASSUME NEW w \in O!Writer, O!Write(w) PROVE Places' /\ Looks'
  BY <1>9, OwnerAssumed
  DEF O!Write, O!Goes, O!Saved, O!Forget, O!Over, O!Missing, OwnerHolds, Places,
      Looks, O!SetupLooks, O!OwnerConfigTypeOK
<1>10. ASSUME NEW w \in O!Writer, O!Remove(w) PROVE Places' /\ Looks'
  BY <1>10, OwnerAssumed
  DEF O!Remove, O!Goes, O!Over, OwnerHolds, Places, Looks, O!SetupLooks,
      O!OwnerConfigTypeOK
<1>11. ASSUME NEW w \in O!Writer, O!LookAgain(w) PROVE Places' /\ Looks'
  BY <1>11, OwnerAssumed
  DEF O!LookAgain, O!Goes, O!Forget, O!fileVars, O!Over, OwnerHolds, Places, Looks,
      O!SetupLooks, O!OwnerConfigTypeOK
<1>12. ASSUME NEW w \in O!Writer, O!RenameOver(w) PROVE Places' /\ Looks'
  BY <1>12, OwnerAssumed
  DEF O!RenameOver, O!Missing, O!Forget, OwnerHolds, Places, Looks, O!SetupLooks,
      O!OwnerConfigTypeOK
<1>13. ASSUME NEW w \in O!Writer, O!Launch(w) PROVE Places' /\ Looks'
  BY <1>13, OwnerAssumed
  DEF O!Launch, O!Goes, O!fileVars, O!Over, OwnerHolds, Places, Looks, O!SetupLooks,
      O!OwnerConfigTypeOK
<1>14. ASSUME NEW w \in O!Writer, O!Die(w) PROVE Places' /\ Looks'
  BY <1>14, OwnerAssumed
  DEF O!Die, O!Goes, O!Forget, O!fileVars, O!Over, OwnerHolds, Places, Looks,
      O!SetupLooks, O!OwnerConfigTypeOK
<1>15. ASSUME O!Discard PROVE Places' /\ Looks'
  BY <1>15, OwnerAssumed
  DEF O!Discard, O!writerVars, OwnerHolds, Places, Looks, O!SetupLooks,
      O!OwnerConfigTypeOK
<1>u. ASSUME UNCHANGED O!ownerVars PROVE Places' /\ Looks'
  BY <1>u
  DEF OwnerHolds, Places, Looks, O!SetupLooks, O!OwnerConfigTypeOK, O!ownerVars,
      O!fileVars, O!writerVars
<1>. QED
  BY <1>1, <1>2, <1>3, <1>4, <1>5, <1>6, <1>7, <1>8, <1>9, <1>10, <1>11, <1>12,
     <1>13, <1>14, <1>15, <1>u
  DEF O!OwnerConfigNext

\* What is in hand still knows of every save.
LEMMA KnowStep ==
    ASSUME O!OwnerConfigTypeOK, OwnerHolds, [O!OwnerConfigNext]_(O!ownerVars)
    PROVE  HandsKnow'
<1>1. ASSUME NEW w \in O!Writer, O!Unreadable(w) PROVE HandsKnow'
  BY <1>1, OwnerAssumed
  DEF O!Unreadable, O!Readable, O!Begins, O!Goes, O!fileVars, O!Over, OwnerHolds,
      HandsKnow, Places, Looks, O!SavesStay, O!SetupLooks, Holding, Writing,
      O!OwnerConfigTypeOK
<1>2. ASSUME NEW w \in O!Writer, O!LoadOther(w) PROVE HandsKnow'
  BY <1>2, LoadOtherStep DEF OwnerHolds
<1>3. ASSUME NEW w \in O!Writer, O!LoadOrigin(w) PROVE HandsKnow'
  BY <1>3, LoadOriginStep DEF OwnerHolds
<1>4. ASSUME NEW w \in O!Writer, O!LoadTunnel(w) PROVE HandsKnow'
  BY <1>4, LoadTunnelStep DEF OwnerHolds
<1>5. ASSUME NEW w \in O!Writer, O!LoadStart(w) PROVE HandsKnow'
  BY <1>5, LoadStartStep DEF OwnerHolds
<1>6. ASSUME NEW w \in O!Writer, O!Put(w) PROVE HandsKnow'
  BY <1>6, OwnerAssumed
  DEF O!Put, O!Goes, O!Over, OwnerHolds, HandsKnow, Places, Looks, O!SavesStay,
      O!SetupLooks, Holding, Writing, O!OwnerConfigTypeOK
<1>7. ASSUME NEW w \in O!Writer, O!ReadBack(w) PROVE HandsKnow'
  <2>1. /\ doing[w] = "token" /\ UNCHANGED <<config, missed, written, savers, overwritten, overlapped, doing>>
        /\ writer[w] = "stored"
    BY <1>7 DEF O!ReadBack, OwnerHolds, Places
  <2> DEFINE v == [hand[w] EXCEPT !.ref = "os"]
  <2>2. v.others = hand[w].others /\ v.mode = hand[w].mode /\ v.origin = hand[w].origin /\ v.ref = "os"
    BY DEF O!OwnerConfigTypeOK, O!Config
  <2>3. \/ hand' = [hand EXCEPT ![w] = v] /\ writer' = [writer EXCEPT ![w] = "ready"]
        \/ hand' = [hand EXCEPT ![w] = O!Defaults] /\ writer' = [writer EXCEPT ![w] = "refused"]
    BY <1>7 DEF O!ReadBack, O!Goes, O!Forget, O!OwnerConfigTypeOK
  <2> HIDE DEF v
  <2>4. \A u \in O!Writer \ {w} : hand'[u] = hand[u] /\ writer'[u] = writer[u]
    BY <2>3 DEF O!OwnerConfigTypeOK
  <2>5. writer'[w] = "refused" \/ (writer'[w] = "ready" /\ hand'[w] = v)
    BY <2>3 DEF O!OwnerConfigTypeOK
  <2>. QED
    BY <2>1, <2>2, <2>4, <2>5
    DEF OwnerHolds, HandsKnow, O!SavesStay, Holding, Writing, O!Complete
<1>8. ASSUME NEW w \in O!Writer, O!Truncate(w) PROVE HandsKnow'
  BY <1>8, OwnerAssumed
  DEF O!Truncate, O!Goes, O!Over, OwnerHolds, HandsKnow, Places, Looks, O!SavesStay,
      O!SetupLooks, Holding, Writing, O!OwnerConfigTypeOK
<1>9. ASSUME NEW w \in O!Writer, O!Write(w) PROVE HandsKnow'
  BY <1>9, OwnerAssumed
  DEF O!Write, O!Goes, O!Saved, O!Forget, O!Over, O!Missing, OwnerHolds, HandsKnow,
      Places, Looks, O!SavesStay, O!SetupLooks, Holding, Writing,
      O!OwnerConfigTypeOK
<1>10. ASSUME NEW w \in O!Writer, O!Remove(w) PROVE HandsKnow'
  BY <1>10, OwnerAssumed
  DEF O!Remove, O!Goes, O!Over, OwnerHolds, HandsKnow, Places, Looks, O!SavesStay,
      O!SetupLooks, Holding, Writing, O!OwnerConfigTypeOK
<1>11. ASSUME NEW w \in O!Writer, O!LookAgain(w) PROVE HandsKnow'
  BY <1>11, OwnerAssumed
  DEF O!LookAgain, O!Goes, O!Forget, O!fileVars, O!Over, OwnerHolds, HandsKnow,
      Places, Looks, O!SavesStay, O!SetupLooks, Holding, Writing,
      O!OwnerConfigTypeOK
<1>12. ASSUME NEW w \in O!Writer, O!RenameOver(w) PROVE HandsKnow'
  BY <1>12, OwnerAssumed
  DEF O!RenameOver, O!Missing, O!Forget, OwnerHolds, HandsKnow, Places, Looks,
      O!SavesStay, O!SetupLooks, Holding, Writing, O!OwnerConfigTypeOK
<1>13. ASSUME NEW w \in O!Writer, O!Launch(w) PROVE HandsKnow'
  BY <1>13, OwnerAssumed
  DEF O!Launch, O!Goes, O!fileVars, O!Over, OwnerHolds, HandsKnow, Places, Looks,
      O!SavesStay, O!SetupLooks, Holding, Writing, O!OwnerConfigTypeOK
<1>14. ASSUME NEW w \in O!Writer, O!Die(w) PROVE HandsKnow'
  BY <1>14, OwnerAssumed
  DEF O!Die, O!Goes, O!Forget, O!fileVars, O!Over, OwnerHolds, HandsKnow, Places,
      Looks, O!SavesStay, O!SetupLooks, Holding, Writing, O!OwnerConfigTypeOK
<1>15. ASSUME O!Discard PROVE HandsKnow'
  BY <1>15, OwnerAssumed
  DEF O!Discard, O!writerVars, OwnerHolds, HandsKnow, Places, Looks, O!SavesStay,
      O!SetupLooks, Holding, Writing, O!OwnerConfigTypeOK
<1>u. ASSUME UNCHANGED O!ownerVars PROVE HandsKnow'
  BY <1>u
  DEF OwnerHolds, HandsKnow, Places, Looks, O!SavesStay, O!SetupLooks, Holding,
      Writing, O!OwnerConfigTypeOK, O!ownerVars, O!fileVars, O!writerVars
<1>. QED
  BY <1>1, <1>2, <1>3, <1>4, <1>5, <1>6, <1>7, <1>8, <1>9, <1>10, <1>11, <1>12,
     <1>13, <1>14, <1>15, <1>u
  DEF O!OwnerConfigNext

\* What is in hand stays complete.
LEMMA CompleteStep ==
    ASSUME O!OwnerConfigTypeOK, OwnerHolds, [O!OwnerConfigNext]_(O!ownerVars)
    PROVE  HandsComplete'
<1>1. ASSUME NEW w \in O!Writer, O!Unreadable(w) PROVE HandsComplete'
  BY <1>1, OwnerAssumed
  DEF O!Unreadable, O!Readable, O!Begins, O!Goes, O!fileVars, O!Over, OwnerHolds,
      HandsComplete, Places, O!FileComplete, Holding, Writing, O!OwnerConfigTypeOK
<1>2. ASSUME NEW w \in O!Writer, O!LoadOther(w) PROVE HandsComplete'
  BY <1>2, LoadOtherStep DEF OwnerHolds
<1>3. ASSUME NEW w \in O!Writer, O!LoadOrigin(w) PROVE HandsComplete'
  BY <1>3, LoadOriginStep DEF OwnerHolds
<1>4. ASSUME NEW w \in O!Writer, O!LoadTunnel(w) PROVE HandsComplete'
  BY <1>4, LoadTunnelStep DEF OwnerHolds
<1>5. ASSUME NEW w \in O!Writer, O!LoadStart(w) PROVE HandsComplete'
  BY <1>5, LoadStartStep DEF OwnerHolds
<1>6. ASSUME NEW w \in O!Writer, O!Put(w) PROVE HandsComplete'
  BY <1>6, OwnerAssumed
  DEF O!Put, O!Goes, O!Over, OwnerHolds, HandsComplete, Places, O!FileComplete,
      Holding, Writing, O!OwnerConfigTypeOK
<1>7. ASSUME NEW w \in O!Writer, O!ReadBack(w) PROVE HandsComplete'
  <2>1. /\ doing[w] = "token" /\ UNCHANGED <<config, missed, written, savers, overwritten, overlapped, doing>>
        /\ writer[w] = "stored"
    BY <1>7 DEF O!ReadBack, OwnerHolds, Places
  <2> DEFINE v == [hand[w] EXCEPT !.ref = "os"]
  <2>2. v.others = hand[w].others /\ v.mode = hand[w].mode /\ v.origin = hand[w].origin /\ v.ref = "os"
    BY DEF O!OwnerConfigTypeOK, O!Config
  <2>3. \/ hand' = [hand EXCEPT ![w] = v] /\ writer' = [writer EXCEPT ![w] = "ready"]
        \/ hand' = [hand EXCEPT ![w] = O!Defaults] /\ writer' = [writer EXCEPT ![w] = "refused"]
    BY <1>7 DEF O!ReadBack, O!Goes, O!Forget, O!OwnerConfigTypeOK
  <2> HIDE DEF v
  <2>4. \A u \in O!Writer \ {w} : hand'[u] = hand[u] /\ writer'[u] = writer[u]
    BY <2>3 DEF O!OwnerConfigTypeOK
  <2>5. writer'[w] = "refused" \/ (writer'[w] = "ready" /\ hand'[w] = v)
    BY <2>3 DEF O!OwnerConfigTypeOK
  <2>. QED
    BY <2>1, <2>2, <2>4, <2>5
    DEF OwnerHolds, HandsComplete, O!FileComplete, Holding, Writing, O!Complete
<1>8. ASSUME NEW w \in O!Writer, O!Truncate(w) PROVE HandsComplete'
  BY <1>8, OwnerAssumed
  DEF O!Truncate, O!Goes, O!Over, OwnerHolds, HandsComplete, Places, O!FileComplete,
      Holding, Writing, O!OwnerConfigTypeOK
<1>9. ASSUME NEW w \in O!Writer, O!Write(w) PROVE HandsComplete'
  BY <1>9, OwnerAssumed
  DEF O!Write, O!Goes, O!Saved, O!Forget, O!Over, O!Missing, OwnerHolds,
      HandsComplete, Places, O!FileComplete, Holding, Writing, O!OwnerConfigTypeOK
<1>10. ASSUME NEW w \in O!Writer, O!Remove(w) PROVE HandsComplete'
  BY <1>10, OwnerAssumed
  DEF O!Remove, O!Goes, O!Over, OwnerHolds, HandsComplete, Places, O!FileComplete,
      Holding, Writing, O!OwnerConfigTypeOK
<1>11. ASSUME NEW w \in O!Writer, O!LookAgain(w) PROVE HandsComplete'
  BY <1>11, OwnerAssumed
  DEF O!LookAgain, O!Goes, O!Forget, O!fileVars, O!Over, OwnerHolds, HandsComplete,
      Places, O!FileComplete, Holding, Writing, O!OwnerConfigTypeOK
<1>12. ASSUME NEW w \in O!Writer, O!RenameOver(w) PROVE HandsComplete'
  BY <1>12, OwnerAssumed
  DEF O!RenameOver, O!Missing, O!Forget, OwnerHolds, HandsComplete, Places,
      O!FileComplete, Holding, Writing, O!OwnerConfigTypeOK
<1>13. ASSUME NEW w \in O!Writer, O!Launch(w) PROVE HandsComplete'
  BY <1>13, OwnerAssumed
  DEF O!Launch, O!Goes, O!fileVars, O!Over, OwnerHolds, HandsComplete, Places,
      O!FileComplete, Holding, Writing, O!OwnerConfigTypeOK
<1>14. ASSUME NEW w \in O!Writer, O!Die(w) PROVE HandsComplete'
  BY <1>14, OwnerAssumed
  DEF O!Die, O!Goes, O!Forget, O!fileVars, O!Over, OwnerHolds, HandsComplete,
      Places, O!FileComplete, Holding, Writing, O!OwnerConfigTypeOK
<1>15. ASSUME O!Discard PROVE HandsComplete'
  BY <1>15, OwnerAssumed
  DEF O!Discard, O!writerVars, OwnerHolds, HandsComplete, Places, O!FileComplete,
      Holding, Writing, O!OwnerConfigTypeOK
<1>u. ASSUME UNCHANGED O!ownerVars PROVE HandsComplete'
  BY <1>u
  DEF OwnerHolds, HandsComplete, Places, O!FileComplete, Holding, Writing,
      O!OwnerConfigTypeOK, O!ownerVars, O!fileVars, O!writerVars
<1>. QED
  BY <1>1, <1>2, <1>3, <1>4, <1>5, <1>6, <1>7, <1>8, <1>9, <1>10, <1>11, <1>12,
     <1>13, <1>14, <1>15, <1>u
  DEF O!OwnerConfigNext

\* References stay backed.
LEMMA BackedStep ==
    ASSUME O!OwnerConfigTypeOK, OwnerHolds, [O!OwnerConfigNext]_(O!ownerVars)
    PROVE  HandsBacked'
<1>1. ASSUME NEW w \in O!Writer, O!Unreadable(w) PROVE HandsBacked'
  BY <1>1, OwnerAssumed
  DEF O!Unreadable, O!Readable, O!Begins, O!Goes, O!fileVars, O!Over, OwnerHolds,
      HandsBacked, RemovalSeen, Behind, Places, O!RefBacked, Writing,
      O!OwnerConfigTypeOK
<1>2. ASSUME NEW w \in O!Writer, O!LoadOther(w) PROVE HandsBacked'
  BY <1>2, LoadOtherStep DEF OwnerHolds
<1>3. ASSUME NEW w \in O!Writer, O!LoadOrigin(w) PROVE HandsBacked'
  BY <1>3, LoadOriginStep DEF OwnerHolds
<1>4. ASSUME NEW w \in O!Writer, O!LoadTunnel(w) PROVE HandsBacked'
  BY <1>4, LoadTunnelStep DEF OwnerHolds
<1>5. ASSUME NEW w \in O!Writer, O!LoadStart(w) PROVE HandsBacked'
  BY <1>5, LoadStartStep DEF OwnerHolds
<1>6. ASSUME NEW w \in O!Writer, O!Put(w) PROVE HandsBacked'
  BY <1>6, OwnerAssumed
  DEF O!Put, O!Goes, O!Over, OwnerHolds, HandsBacked, RemovalSeen, Behind, Places,
      O!RefBacked, Writing, O!OwnerConfigTypeOK
<1>7. ASSUME NEW w \in O!Writer, O!ReadBack(w) PROVE HandsBacked'
  BY <1>7, OwnerAssumed
  DEF O!ReadBack, O!Goes, O!Forget, O!Over, OwnerHolds, HandsBacked, RemovalSeen,
      Behind, Places, O!RefBacked, Writing, O!OwnerConfigTypeOK
<1>8. ASSUME NEW w \in O!Writer, O!Truncate(w) PROVE HandsBacked'
  BY <1>8, OwnerAssumed
  DEF O!Truncate, O!Goes, O!Over, OwnerHolds, HandsBacked, RemovalSeen, Behind,
      Places, O!RefBacked, Writing, O!OwnerConfigTypeOK
<1>9. ASSUME NEW w \in O!Writer, O!Write(w) PROVE HandsBacked'
  <2>1. /\ writer[w] = "opened" /\ writer' = [writer EXCEPT ![w] = IF doing[w] = "removal" THEN "saved" ELSE "done"]
        /\ hand' = [u \in O!Writer |-> IF u = w THEN O!Defaults ELSE hand[u]]
        /\ O!Missing(w) /\ overlapped' = (overlapped \/ missed[w] # {}) /\ UNCHANGED <<cred, spoiled, doing>>
        /\ config' \in {[state |-> "whole", config |-> hand[w]], [state |-> "mixed", config |-> O!Defaults]}
    BY <1>9 DEF O!Write, O!Goes, O!Forget, O!Saved
  <2>2. \A u \in O!Writer \ {w} : hand'[u] = hand[u] /\ writer'[u] = writer[u]
    BY <2>1 DEF O!OwnerConfigTypeOK
  <2>3. writer'[w] \in {"saved", "done"} /\ (writer'[w] = "saved" => doing[w] = "removal")
    BY <2>1 DEF O!OwnerConfigTypeOK
  <2>4. \A u \in O!Writer \ {w} : /\ writer[u] \in Writing => Behind(u)'
                                  /\ writer[u] = "saved" => missed'[u] # {}
    BY <2>1, <2>2 DEF O!Missing, Behind, Writing
  <2>5. config'.state = "whole" => config'.config = hand[w]
    BY <2>1
  <2>6. writer[w] \in Writing /\ (doing[w] = "removal" => missed'[w] = missed[w] /\ hand[w].ref = "none")
    BY <2>1 DEF Writing, O!Missing, OwnerHolds, HandsKnow
  <2>. QED
    BY <2>1, <2>2, <2>3, <2>4, <2>5, <2>6
    DEF OwnerHolds, HandsBacked, O!RefBacked, Writing, Behind
<1>10. ASSUME NEW w \in O!Writer, O!Remove(w) PROVE HandsBacked'
  BY <1>10, OwnerAssumed
  DEF O!Remove, O!Goes, O!Over, OwnerHolds, HandsBacked, RemovalSeen, Behind,
      Places, O!RefBacked, Writing, O!OwnerConfigTypeOK
<1>11. ASSUME NEW w \in O!Writer, O!LookAgain(w) PROVE HandsBacked'
  BY <1>11, OwnerAssumed
  DEF O!LookAgain, O!Goes, O!Forget, O!fileVars, O!Over, OwnerHolds, HandsBacked,
      RemovalSeen, Behind, Places, O!RefBacked, Writing, O!OwnerConfigTypeOK
<1>12. ASSUME NEW w \in O!Writer, O!RenameOver(w) PROVE HandsBacked'
  BY <1>12, OwnerAssumed
  DEF O!RenameOver, O!Missing, O!Forget, OwnerHolds, HandsBacked, RemovalSeen,
      Behind, Places, O!RefBacked, Writing, O!OwnerConfigTypeOK
<1>13. ASSUME NEW w \in O!Writer, O!Launch(w) PROVE HandsBacked'
  BY <1>13, OwnerAssumed
  DEF O!Launch, O!Goes, O!fileVars, O!Over, OwnerHolds, HandsBacked, RemovalSeen,
      Behind, Places, O!RefBacked, Writing, O!OwnerConfigTypeOK
<1>14. ASSUME NEW w \in O!Writer, O!Die(w) PROVE HandsBacked'
  BY <1>14, OwnerAssumed
  DEF O!Die, O!Goes, O!Forget, O!fileVars, O!Over, OwnerHolds, HandsBacked,
      RemovalSeen, Behind, Places, O!RefBacked, Writing, O!OwnerConfigTypeOK
<1>15. ASSUME O!Discard PROVE HandsBacked'
  BY <1>15, OwnerAssumed
  DEF O!Discard, O!writerVars, OwnerHolds, HandsBacked, RemovalSeen, Behind, Places,
      O!RefBacked, Writing, O!OwnerConfigTypeOK
<1>u. ASSUME UNCHANGED O!ownerVars PROVE HandsBacked'
  BY <1>u
  DEF OwnerHolds, HandsBacked, RemovalSeen, Behind, Places, O!RefBacked, Writing,
      O!OwnerConfigTypeOK, O!ownerVars, O!fileVars, O!writerVars
<1>. QED
  BY <1>1, <1>2, <1>3, <1>4, <1>5, <1>6, <1>7, <1>8, <1>9, <1>10, <1>11, <1>12,
     <1>13, <1>14, <1>15, <1>u
  DEF O!OwnerConfigNext

\* A removal stays seen.
LEMMA RemovalStep ==
    ASSUME O!OwnerConfigTypeOK, OwnerHolds, [O!OwnerConfigNext]_(O!ownerVars)
    PROVE  RemovalSeen'
<1>1. ASSUME NEW w \in O!Writer, O!Unreadable(w) PROVE RemovalSeen'
  BY <1>1, OwnerAssumed
  DEF O!Unreadable, O!Readable, O!Begins, O!Goes, O!fileVars, O!Over, OwnerHolds,
      HandsKnow, RemovalSeen, Behind, Places, Writing, O!OwnerConfigTypeOK
<1>2. ASSUME NEW w \in O!Writer, O!LoadOther(w) PROVE RemovalSeen'
  BY <1>2, LoadOtherStep DEF OwnerHolds
<1>3. ASSUME NEW w \in O!Writer, O!LoadOrigin(w) PROVE RemovalSeen'
  BY <1>3, LoadOriginStep DEF OwnerHolds
<1>4. ASSUME NEW w \in O!Writer, O!LoadTunnel(w) PROVE RemovalSeen'
  BY <1>4, LoadTunnelStep DEF OwnerHolds
<1>5. ASSUME NEW w \in O!Writer, O!LoadStart(w) PROVE RemovalSeen'
  BY <1>5, LoadStartStep DEF OwnerHolds
<1>6. ASSUME NEW w \in O!Writer, O!Put(w) PROVE RemovalSeen'
  BY <1>6, OwnerAssumed
  DEF O!Put, O!Goes, O!Over, OwnerHolds, HandsKnow, RemovalSeen, Behind, Places,
      Writing, O!OwnerConfigTypeOK
<1>7. ASSUME NEW w \in O!Writer, O!ReadBack(w) PROVE RemovalSeen'
  BY <1>7, OwnerAssumed
  DEF O!ReadBack, O!Goes, O!Forget, O!Over, OwnerHolds, HandsKnow, RemovalSeen,
      Behind, Places, Writing, O!OwnerConfigTypeOK
<1>8. ASSUME NEW w \in O!Writer, O!Truncate(w) PROVE RemovalSeen'
  BY <1>8, OwnerAssumed
  DEF O!Truncate, O!Goes, O!Over, OwnerHolds, HandsKnow, RemovalSeen, Behind,
      Places, Writing, O!OwnerConfigTypeOK
<1>9. ASSUME NEW w \in O!Writer, O!Write(w) PROVE RemovalSeen'
  <2>1. /\ writer[w] = "opened" /\ writer' = [writer EXCEPT ![w] = IF doing[w] = "removal" THEN "saved" ELSE "done"]
        /\ hand' = [u \in O!Writer |-> IF u = w THEN O!Defaults ELSE hand[u]]
        /\ O!Missing(w) /\ overlapped' = (overlapped \/ missed[w] # {}) /\ UNCHANGED <<cred, spoiled, doing>>
        /\ config' \in {[state |-> "whole", config |-> hand[w]], [state |-> "mixed", config |-> O!Defaults]}
    BY <1>9 DEF O!Write, O!Goes, O!Forget, O!Saved
  <2>2. \A u \in O!Writer \ {w} : hand'[u] = hand[u] /\ writer'[u] = writer[u]
    BY <2>1 DEF O!OwnerConfigTypeOK
  <2>3. writer'[w] \in {"saved", "done"} /\ (writer'[w] = "saved" => doing[w] = "removal")
    BY <2>1 DEF O!OwnerConfigTypeOK
  <2>4. \A u \in O!Writer \ {w} : /\ writer[u] \in Writing => Behind(u)'
                                  /\ writer[u] = "saved" => missed'[u] # {}
    BY <2>1, <2>2 DEF O!Missing, Behind, Writing
  <2>5. config'.state = "whole" => config'.config = hand[w]
    BY <2>1
  <2>6. writer[w] \in Writing /\ (doing[w] = "removal" => missed'[w] = missed[w] /\ hand[w].ref = "none")
    BY <2>1 DEF Writing, O!Missing, OwnerHolds, HandsKnow
  <2>. QED
    BY <2>1, <2>2, <2>3, <2>4, <2>5, <2>6 DEF OwnerHolds, RemovalSeen, Writing, Behind
<1>10. ASSUME NEW w \in O!Writer, O!Remove(w) PROVE RemovalSeen'
  BY <1>10, OwnerAssumed
  DEF O!Remove, O!Goes, O!Over, OwnerHolds, HandsKnow, RemovalSeen, Behind, Places,
      Writing, O!OwnerConfigTypeOK
<1>11. ASSUME NEW w \in O!Writer, O!LookAgain(w) PROVE RemovalSeen'
  BY <1>11, OwnerAssumed
  DEF O!LookAgain, O!Goes, O!Forget, O!fileVars, O!Over, OwnerHolds, HandsKnow,
      RemovalSeen, Behind, Places, Writing, O!OwnerConfigTypeOK
<1>12. ASSUME NEW w \in O!Writer, O!RenameOver(w) PROVE RemovalSeen'
  BY <1>12, OwnerAssumed
  DEF O!RenameOver, O!Missing, O!Forget, OwnerHolds, HandsKnow, RemovalSeen, Behind,
      Places, Writing, O!OwnerConfigTypeOK
<1>13. ASSUME NEW w \in O!Writer, O!Launch(w) PROVE RemovalSeen'
  BY <1>13, OwnerAssumed
  DEF O!Launch, O!Goes, O!fileVars, O!Over, OwnerHolds, HandsKnow, RemovalSeen,
      Behind, Places, Writing, O!OwnerConfigTypeOK
<1>14. ASSUME NEW w \in O!Writer, O!Die(w) PROVE RemovalSeen'
  BY <1>14, OwnerAssumed
  DEF O!Die, O!Goes, O!Forget, O!fileVars, O!Over, OwnerHolds, HandsKnow,
      RemovalSeen, Behind, Places, Writing, O!OwnerConfigTypeOK
<1>15. ASSUME O!Discard PROVE RemovalSeen'
  BY <1>15, OwnerAssumed
  DEF O!Discard, O!writerVars, OwnerHolds, HandsKnow, RemovalSeen, Behind, Places,
      Writing, O!OwnerConfigTypeOK
<1>u. ASSUME UNCHANGED O!ownerVars PROVE RemovalSeen'
  BY <1>u
  DEF OwnerHolds, HandsKnow, RemovalSeen, Behind, Places, Writing,
      O!OwnerConfigTypeOK, O!ownerVars, O!fileVars, O!writerVars
<1>. QED
  BY <1>1, <1>2, <1>3, <1>4, <1>5, <1>6, <1>7, <1>8, <1>9, <1>10, <1>11, <1>12,
     <1>13, <1>14, <1>15, <1>u
  DEF O!OwnerConfigNext

LEMMA OwnerConfigInductive ==
    /\ O!OwnerConfigInit => O!OwnerConfigTypeOK /\ OwnerHolds
    /\ O!OwnerConfigTypeOK /\ OwnerHolds /\ [O!OwnerConfigNext]_(O!ownerVars) => (O!OwnerConfigTypeOK /\ OwnerHolds)'
<1>1. O!OwnerConfigInit => O!OwnerConfigTypeOK
  BY DefaultsIs, FileIs, ZenonT(40) DEF O!OwnerConfigInit, O!OwnerConfigTypeOK
<1>2. O!OwnerConfigInit => OwnerHolds
  BY DefaultsIs
  DEF O!OwnerConfigInit, OwnerHolds, Places, Looks, O!SetupLooks, HandsKnow,
      O!SavesStay, Holding, Writing, HandsComplete, O!FileComplete, HandsBacked,
      O!RefBacked, RemovalSeen
<1>. QED
  BY <1>1, <1>2, OwnerTypeStep, PlacesStep, KnowStep, CompleteStep, BackedStep,
     RemovalStep
  DEF OwnerHolds

LEMMA OwnerConfigWell == OwnerHolds => O!OwnerConfigSound
BY DEF OwnerHolds, Looks, HandsKnow, HandsBacked, HandsComplete, O!OwnerConfigSound

-----------------------------------------------------------------------------
(* Counting.                                                               *)

\* One element more, in two sets together.
LEMMA OneMore ==
    ASSUME NEW S, NEW T, NEW x, IsFiniteSet(S), IsFiniteSet(T)
    PROVE  Cardinality((S \cup T) \cup {x}) <= Cardinality(S) + Cardinality(T) + 1
<1> DEFINE X == S \cup T
<1>1. IsFiniteSet(X)
  BY FS_Union
<1>2. /\ Cardinality(X) = Cardinality(S) + Cardinality(T) - Cardinality(S \cap T)
      /\ Cardinality(S \cap T) \in Nat
  BY FS_Union, FS_Intersection, FS_CardinalityType
<1>3. Cardinality(X \cup {x}) <= Cardinality(X) + 1
  <2> HIDE DEF X
  <2>1. Cardinality(X) \in Nat
    BY <1>1, FS_CardinalityType
  <2>2. Cardinality(X \cup {x}) = IF x \in X THEN Cardinality(X) ELSE Cardinality(X) + 1
    BY <1>1, FS_AddElement
  <2>. QED
    BY <2>1, <2>2
<1>4. Cardinality(X \cup {x}) \in Nat
  BY <1>1, FS_AddElement, FS_CardinalityType
<1>. QED
  BY <1>2, <1>3, <1>4, FS_CardinalityType

-----------------------------------------------------------------------------
(* Browser sessions and the runs of workflows in them.                     *)

\* The call that has the session of run r is the one that acts for it.
Acting(r, stages) ==
    LET c == pageCall[workflow[r].session] IN
    c # None /\ c.run = r /\ c.what = "act" /\ c.stage \in stages

\* An observation that can be acted on is one session's, and was not; a call
\* that is to act names one.
PagesHold ==
    /\ \A s \in Session : observation[s] <= taken
    /\ \A s, t \in Session : s # t => observation[s] # observation[t] \/ observation[s] = 0
    /\ \A o \in 1 .. MaxObservations : used[o] <= 1 /\ (used[o] > 0 => o <= taken)
    /\ \A s \in Session : observation[s] # 0 => used[observation[s]] = 0
    /\ \A s \in Session : pageCall[s] # None =>
          /\ pageCall[s].stage \in {"checks", "acts"} => pageCall[s].what = "act"
          /\ pageCall[s].what = "act" => pageCall[s].on # 0

\* A run is for one session, where its calls are.  What it has not come to was
\* not done; and when its step was done it is being done now, or the run is not
\* ready.
RunsHold ==
    /\ \A s \in Session : pageCall[s] # None /\ pageCall[s].run # None =>
          workflow[pageCall[s].run] # None /\ workflow[pageCall[s].run].session = s
    /\ \A r \in Run, i \in 1 .. Steps :
          /\ acted[r][i] <= 1
          /\ acted[r][i] > 0 => workflow[r] # None /\ i <= workflow[r].index
    /\ \A r \in Run : workflow[r] # None =>
          /\ Acting(r, {"checks"}) => acted[r][workflow[r].index] = 0
          /\ acted[r][workflow[r].index] > 0 =>
                workflow[r].status # "ready" \/ Acting(r, {"acts", "captures"})

SessionsHold ==
    /\ W!NoStrayBrowser /\ W!WithinLimit
    /\ browserService # "open" => listed = {}

LEMMA BrowserAssumed ==
    /\ IsFiniteSet(Session) /\ SessionLimit \in Nat /\ Steps \in Nat \ {0}
    /\ MaxObservations \in Nat
    /\ None \notin Run /\ None \notin W!CallRow /\ None \notin W!RunRow
BY Assumed DEF W!BrowserAssumption, W!IsFiniteSet, IsFiniteSet

LEMMA BrowserCardinality == ASSUME NEW S PROVE W!Cardinality(S) = Cardinality(S)
BY DEF W!Cardinality, Cardinality

\* What a call is while it lasts.
LEMMA CallMade ==
    ASSUME NEW r \in Run \cup {None}, NEW what \in {"observe", "act"}, NEW o \in 0 .. MaxObservations
    PROVE  /\ W!By(r, what, o) \in W!CallRow /\ W!By(r, what, o) # None
           /\ W!By(r, what, o).run = r /\ W!By(r, what, o).what = what
           /\ W!By(r, what, o).on = o
           /\ W!By(r, what, o).stage = IF what = "act" THEN "checks" ELSE "captures"
BY BrowserAssumed DEF W!By, W!CallRow

LEMMA CallGoesOn ==
    ASSUME W!BrowserTypeOK, NEW s \in Session, pageCall[s] # None,
           NEW st \in {"acts", "captures"}
    PROVE  /\ [pageCall EXCEPT ![s].stage = st] \in [Session -> W!CallRow \cup {None}]
           /\ [pageCall EXCEPT ![s].stage = st][s] # None
           /\ [pageCall EXCEPT ![s].stage = st][s].stage = st
           /\ [pageCall EXCEPT ![s].stage = st][s].run = pageCall[s].run
           /\ [pageCall EXCEPT ![s].stage = st][s].what = pageCall[s].what
           /\ [pageCall EXCEPT ![s].stage = st][s].on = pageCall[s].on
           /\ \A t \in Session \ {s} : [pageCall EXCEPT ![s].stage = st][t] = pageCall[t]
<1>1. pageCall[s] \in W!CallRow
  BY DEF W!BrowserTypeOK
<1>2. [pageCall[s] EXCEPT !.stage = st] \in W!CallRow
  BY <1>1 DEF W!CallRow
<1>3. [pageCall EXCEPT ![s].stage = st] = [pageCall EXCEPT ![s] = [pageCall[s] EXCEPT !.stage = st]]
  BY DEF W!BrowserTypeOK
<1>4. /\ [pageCall[s] EXCEPT !.stage = st].stage = st
      /\ [pageCall[s] EXCEPT !.stage = st].run = pageCall[s].run
      /\ [pageCall[s] EXCEPT !.stage = st].what = pageCall[s].what
      /\ [pageCall[s] EXCEPT !.stage = st].on = pageCall[s].on
  BY <1>1 DEF W!CallRow
<1>. QED
  BY <1>2, <1>3, <1>4, BrowserAssumed DEF W!BrowserTypeOK

\* What becomes of a run.
Becomes(w, r, index, status) ==
    /\ w \in [Run -> W!RunRow \cup {None}] /\ w[r] # None
    /\ w[r].session = workflow[r].session /\ w[r].index = index /\ w[r].status = status
    /\ \A q \in Run \ {r} : w[q] = workflow[q]

LEMMA RowBecomes ==
    ASSUME W!BrowserTypeOK, NEW r \in Run, NEW v \in W!RunRow,
           v.session = workflow[r].session
    PROVE  Becomes([workflow EXCEPT ![r] = v], r, v.index, v.status)
BY BrowserAssumed DEF Becomes, W!BrowserTypeOK

LEMMA RunIs ==
    ASSUME W!BrowserTypeOK, NEW r \in Run, workflow[r] # None
    PROVE  /\ workflow[r] \in W!RunRow /\ workflow[r].session \in Session
           /\ workflow[r].index \in 1 .. Steps /\ workflow[r].on \in 0 .. MaxObservations
BY DEF W!BrowserTypeOK, W!RunRow

LEMMA RunBusy ==
    ASSUME W!BrowserTypeOK, NEW r \in Run, workflow[r] # None, NEW b \in BOOLEAN
    PROVE  Becomes([workflow EXCEPT ![r].busy = b], r, workflow[r].index, workflow[r].status)
<1> DEFINE v == [workflow[r] EXCEPT !.busy = b]
<1>1. v \in W!RunRow /\ v.session = workflow[r].session /\ v.index = workflow[r].index
      /\ v.status = workflow[r].status
  BY RunIs DEF W!RunRow
<1>2. [workflow EXCEPT ![r].busy = b] = [workflow EXCEPT ![r] = v]
  BY DEF W!BrowserTypeOK
<1> HIDE DEF v
<1>3. Becomes([workflow EXCEPT ![r] = v], r, v.index, v.status)
  BY <1>1, RowBecomes
<1>. QED
  BY <1>1, <1>2, <1>3

LEMMA RunStatus ==
    ASSUME W!BrowserTypeOK, NEW r \in Run, workflow[r] # None,
           NEW st \in {"needs_review", "stopped"}
    PROVE  Becomes([workflow EXCEPT ![r].status = st], r, workflow[r].index, st)
<1> DEFINE v == [workflow[r] EXCEPT !.status = st]
<1>1. v \in W!RunRow /\ v.session = workflow[r].session /\ v.index = workflow[r].index
      /\ v.status = st
  BY RunIs DEF W!RunRow
<1>2. [workflow EXCEPT ![r].status = st] = [workflow EXCEPT ![r] = v]
  BY DEF W!BrowserTypeOK
<1> HIDE DEF v
<1>3. Becomes([workflow EXCEPT ![r] = v], r, v.index, v.status)
  BY <1>1, RowBecomes
<1>. QED
  BY <1>1, <1>2, <1>3

LEMMA RunReviewed ==
    ASSUME W!BrowserTypeOK, NEW r \in Run, workflow[r] # None
    PROVE  Becomes(W!Reviewed(r), r, workflow[r].index, "needs_review")
<1> DEFINE v == [[workflow[r] EXCEPT !.busy = FALSE] EXCEPT !.status = "needs_review"]
<1>1. v \in W!RunRow /\ v.session = workflow[r].session /\ v.index = workflow[r].index
      /\ v.status = "needs_review"
  BY RunIs DEF W!RunRow
<1>2. W!Reviewed(r) = [workflow EXCEPT ![r] = v]
  BY DEF W!BrowserTypeOK, W!Reviewed
<1> HIDE DEF v
<1>3. Becomes([workflow EXCEPT ![r] = v], r, v.index, v.status)
  BY <1>1, RowBecomes
<1>. QED
  BY <1>1, <1>2, <1>3

LEMMA RunSeen ==
    ASSUME W!BrowserTypeOK, NEW r \in Run, workflow[r] # None, NEW o \in 0 .. MaxObservations
    PROVE  Becomes([workflow EXCEPT ![r].on = o, ![r].busy = FALSE], r,
                   workflow[r].index, workflow[r].status)
<1> DEFINE v == [[workflow[r] EXCEPT !.on = o] EXCEPT !.busy = FALSE]
<1>1. v \in W!RunRow /\ v.session = workflow[r].session /\ v.index = workflow[r].index
      /\ v.status = workflow[r].status
  BY RunIs DEF W!RunRow
<1>2. [workflow EXCEPT ![r].on = o, ![r].busy = FALSE] = [workflow EXCEPT ![r] = v]
  BY DEF W!BrowserTypeOK
<1> HIDE DEF v
<1>3. Becomes([workflow EXCEPT ![r] = v], r, v.index, v.status)
  BY <1>1, RowBecomes
<1>. QED
  BY <1>1, <1>2, <1>3

LEMMA RunAfter ==
    ASSUME W!BrowserTypeOK, NEW r \in Run, workflow[r] # None, NEW o \in 0 .. MaxObservations,
           NEW m \in BOOLEAN
    PROVE  LET end == workflow[r].index = Steps
           IN  Becomes(W!After(r, o, m), r,
                   IF m /\ ~end THEN workflow[r].index + 1 ELSE workflow[r].index,
                   IF ~m THEN "needs_review" ELSE IF end THEN "completed" ELSE workflow[r].status)
<1> DEFINE end == workflow[r].index = Steps
           i == IF m /\ ~end THEN workflow[r].index + 1 ELSE workflow[r].index
           st == IF ~m THEN "needs_review" ELSE IF end THEN "completed" ELSE workflow[r].status
           v == [session |-> workflow[r].session, on |-> o, busy |-> m /\ ~end,
                 index |-> i, status |-> st]
<1>1. i \in 1 .. Steps /\ st \in {"ready", "needs_review", "completed", "stopped"}
  BY RunIs, BrowserAssumed DEF W!RunRow
<1>2. v \in W!RunRow /\ v.session = workflow[r].session /\ v.index = i /\ v.status = st
  <2> HIDE DEF i, st, end
  <2>1. (m /\ ~end) \in BOOLEAN
    OBVIOUS
  <2> HIDE DEF v
  <2>. QED
    BY <1>1, <2>1, RunIs DEF v, W!RunRow
<1>3. W!After(r, o, m) = [workflow EXCEPT ![r] = v]
  BY DEF W!After
<1> HIDE DEF v
<1>4. Becomes([workflow EXCEPT ![r] = v], r, v.index, v.status)
  BY <1>2, RowBecomes
<1>. QED
  BY <1>2, <1>3, <1>4

LEMMA Acted ==
    ASSUME W!BrowserTypeOK, NEW r \in Run, NEW i \in 1 .. Steps
    PROVE  LET a == [acted EXCEPT ![r][i] = @ + 1] IN
           /\ a \in [Run -> [1 .. Steps -> Nat]] /\ a[r][i] = acted[r][i] + 1
           /\ \A j \in 1 .. Steps \ {i} : a[r][j] = acted[r][j]
           /\ \A q \in Run \ {r} : a[q] = acted[q]
<1> DEFINE v == [acted[r] EXCEPT ![i] = @ + 1]
<1>1. acted[r] \in [1 .. Steps -> Nat] /\ acted \in [Run -> [1 .. Steps -> Nat]]
  BY DEF W!BrowserTypeOK
<1>2. v \in [1 .. Steps -> Nat] /\ v[i] = acted[r][i] + 1 /\ \A j \in 1 .. Steps \ {i} : v[j] = acted[r][j]
  BY <1>1
<1>3. [acted EXCEPT ![r][i] = @ + 1] = [acted EXCEPT ![r] = v]
  BY <1>1
<1> HIDE DEF v
<1>. QED
  BY <1>1, <1>2, <1>3

\* A run may change as it is, and its call may end with it.
LEMMA RunChanges ==
    ASSUME W!BrowserTypeOK, RunsHold, UNCHANGED acted,
           NEW r \in Run, workflow[r] # None,
           NEW index \in {workflow[r].index, workflow[r].index + 1}, NEW status,
           Becomes(workflow', r, index, status),
           \/ UNCHANGED pageCall
           \/ /\ pageCall[workflow[r].session].run = r
              /\ pageCall'[workflow[r].session] = None
              /\ \A t \in Session \ {workflow[r].session} : pageCall'[t] = pageCall[t],
           index \in 1 .. Steps,
           acted[r][index] > 0 => status # "ready" \/
               (UNCHANGED pageCall /\ Acting(r, {"acts", "captures"})),
           Acting(r, {"checks"}) /\ UNCHANGED pageCall => index = workflow[r].index
    PROVE  RunsHold'
<1>1. /\ workflow'[r] # None /\ workflow'[r].session = workflow[r].session
      /\ workflow'[r].index = index /\ workflow'[r].status = status
      /\ \A q \in Run \ {r} : workflow'[q] = workflow[q]
  BY DEF Becomes
<1>2. /\ workflow[r].session \in Session /\ workflow[r].index \in 1 .. Steps
      /\ \A q \in Run : workflow[q] # None => workflow[q].session \in Session
  BY RunIs
<1>3. ASSUME NEW s \in Session, pageCall'[s] # None, pageCall'[s].run # None
      PROVE  workflow'[pageCall'[s].run] # None /\ workflow'[pageCall'[s].run].session = s
  <2>1. pageCall'[s] = pageCall[s]
    BY <1>3
  <2>2. pageCall[s].run \in Run
    BY <1>3, <2>1 DEF W!BrowserTypeOK, W!CallRow
  <2>3. workflow[pageCall[s].run] # None /\ workflow[pageCall[s].run].session = s
    BY <1>3, <2>1 DEF RunsHold
  <2>. QED
    BY <1>1, <2>1, <2>2, <2>3
<1>4. ASSUME NEW q \in Run, NEW i \in 1 .. Steps
      PROVE  /\ acted'[q][i] <= 1
             /\ acted'[q][i] > 0 => workflow'[q] # None /\ i <= workflow'[q].index
  <2>1. acted[q][i] <= 1 /\ (acted[q][i] > 0 => workflow[q] # None /\ i <= workflow[q].index)
    BY DEF RunsHold
  <2>2. CASE q = r
    BY <1>1, <1>2, <2>1, <2>2
  <2>3. CASE q # r
    BY <1>1, <2>1, <2>3
  <2>. QED
    BY <2>2, <2>3
<1>5. ASSUME NEW q \in Run, workflow'[q] # None
      PROVE  /\ Acting(q, {"checks"})' => acted'[q][workflow'[q].index] = 0
             /\ acted'[q][workflow'[q].index] > 0 =>
                   workflow'[q].status # "ready" \/ Acting(q, {"acts", "captures"})'
  <2>1. CASE q = r
    <3>1. Acting(r, {"checks"})' => Acting(r, {"checks"}) /\ UNCHANGED pageCall
      BY <1>1 DEF Acting
    <3>2. Acting(r, {"checks"}) => acted[r][workflow[r].index] = 0
      BY DEF RunsHold
    <3>3. UNCHANGED pageCall /\ Acting(r, {"acts", "captures"}) => Acting(r, {"acts", "captures"})'
      BY <1>1 DEF Acting
    <3>. QED
      BY <1>1, <2>1, <3>1, <3>2, <3>3
  <2>2. CASE q # r
    <3>1. workflow'[q] = workflow[q] /\ workflow[q] # None
      BY <1>1, <1>5, <2>2
    <3>2. pageCall'[workflow[q].session] = pageCall[workflow[q].session]
          \/ (pageCall'[workflow[q].session] = None /\ pageCall[workflow[q].session].run = r)
      BY <1>2, <3>1
    <3>3. Acting(q, {"checks"})' => Acting(q, {"checks"})
      BY <3>1, <3>2 DEF Acting
    <3>4. Acting(q, {"acts", "captures"}) => Acting(q, {"acts", "captures"})'
      BY <2>2, <3>1, <3>2 DEF Acting
    <3>. QED
      BY <3>1, <3>3, <3>4 DEF RunsHold
  <2>. QED
    BY <2>1, <2>2
<1>. QED
  BY <1>3, <1>4, <1>5 DEF RunsHold

\* A call that is no run's, or only looks, ends without one.
LEMMA CallEndsAlone ==
    ASSUME W!BrowserTypeOK, RunsHold, UNCHANGED <<acted, workflow>>, NEW s \in Session,
           pageCall[s].run = None \/ pageCall[s].what = "observe" \/ pageCall[s].stage = "checks",
           pageCall'[s] = None, \A t \in Session \ {s} : pageCall'[t] = pageCall[t]
    PROVE  RunsHold'
<1>1. \A q \in Run : workflow[q] # None => workflow[q].session \in Session
  BY RunIs
<1>2. ASSUME NEW q \in Run, workflow[q] # None
      PROVE  /\ Acting(q, {"checks"})' => Acting(q, {"checks"})
             /\ Acting(q, {"acts", "captures"}) => Acting(q, {"acts", "captures"})'
  <2>1. CASE workflow[q].session = s
    BY <1>1, <1>2, <2>1, BrowserAssumed DEF Acting
  <2>2. CASE workflow[q].session # s
    BY <1>1, <1>2, <2>2 DEF Acting
  <2>. QED
    BY <2>1, <2>2
<1>. QED
  BY <1>2 DEF RunsHold

\* Every step keeps what the variables are.
LEMMA BrowserTypeStep ==
    ASSUME W!BrowserTypeOK, PagesHold, RunsHold, [W!BrowserNext]_(W!browserVars)
    PROVE  W!BrowserTypeOK'
<1>1. ASSUME NEW s \in Session, W!Open(s) PROVE W!BrowserTypeOK'
  BY <1>1, BrowserAssumed
  DEF W!Open, W!Taken, W!pageVars, W!workflowVars, W!Opening, W!BrowserTypeOK
<1>2. ASSUME NEW s \in Session, W!Launch(s) PROVE W!BrowserTypeOK'
  BY <1>2, BrowserAssumed DEF W!Launch, W!pageVars, W!workflowVars, W!BrowserTypeOK
<1>3. ASSUME NEW s \in Session, W!Load(s) PROVE W!BrowserTypeOK'
  BY <1>3, BrowserAssumed DEF W!Load, W!pageVars, W!workflowVars, W!BrowserTypeOK
<1>4. ASSUME NEW s \in Session, W!Loaded(s) PROVE W!BrowserTypeOK'
  BY <1>4, BrowserAssumed DEF W!Loaded, W!workflowVars, W!BrowserTypeOK
<1>5. ASSUME NEW s \in Session, W!OpenFails(s) PROVE W!BrowserTypeOK'
  BY <1>5, BrowserAssumed DEF W!OpenFails, W!pageVars, W!workflowVars, W!BrowserTypeOK
<1>6. ASSUME NEW s \in Session, W!OpenFailed(s) PROVE W!BrowserTypeOK'
  BY <1>6, BrowserAssumed
  DEF W!OpenFailed, W!pageVars, W!workflowVars, W!BrowserTypeOK
<1>7. ASSUME NEW s \in Session, W!End(s) PROVE W!BrowserTypeOK'
  BY <1>7, BrowserAssumed DEF W!End, W!pageVars, W!workflowVars, W!BrowserTypeOK
<1>8. ASSUME NEW s \in Session, W!Ended(s) PROVE W!BrowserTypeOK'
  BY <1>8, BrowserAssumed DEF W!Ended, W!pageVars, W!workflowVars, W!BrowserTypeOK
<1>9. ASSUME NEW s \in Session, W!Deadline(s) PROVE W!BrowserTypeOK'
  BY <1>9, BrowserAssumed DEF W!Deadline, W!pageVars, W!workflowVars, W!BrowserTypeOK
<1>10. ASSUME NEW s \in Session, W!Observe(s) PROVE W!BrowserTypeOK'
  <2>1. W!By(None, "observe", 0) \in W!CallRow
    BY CallMade, BrowserAssumed
  <2>. QED
    BY <1>10, <2>1, BrowserAssumed
    DEF W!Observe, W!BrowserTypeOK, W!sessionVars, W!pageVars, W!workflowVars
<1>11. ASSUME NEW s \in Session, W!Send(s) PROVE W!BrowserTypeOK'
  <2> DEFINE r == pageCall[s].run
  <2>1. pageCall[s] \in W!CallRow /\ pageCall[s] # None
    BY <1>11 DEF W!Send, W!BrowserTypeOK
  <2>2. r \in Run \cup {None} /\ (r # None => r \in Run /\ workflow[r] # None)
    BY <2>1 DEF W!CallRow, RunsHold
  <2>3. pageCall[s].on \in 1 .. MaxObservations
    BY <1>11, <2>1, BrowserAssumed DEF W!Send, W!CallRow, PagesHold
  <2>4. acted' \in [Run -> [1 .. Steps -> Nat]]
    <3>1. CASE r = None
      BY <1>11, <3>1 DEF W!Send, W!BrowserTypeOK
    <3>2. CASE r # None
      <4>1. workflow[r].index \in 1 .. Steps
        BY <2>2, <3>2, RunIs
      <4>. QED
        BY <1>11, <2>2, <3>2, <4>1, Acted DEF W!Send
    <3>. QED
      BY <3>1, <3>2
  <2>5. used' \in [1 .. MaxObservations -> Nat] /\ observation' \in [Session -> 0 .. MaxObservations]
    BY <1>11, <2>3, BrowserAssumed DEF W!Send, W!Spent, W!BrowserTypeOK
  <2>6. pageCall' \in [Session -> W!CallRow \cup {None}]
    BY <1>11, <2>1, CallGoesOn DEF W!Send
  <2>. QED
    BY <1>11, <2>4, <2>5, <2>6, BrowserAssumed
    DEF W!Send, W!BrowserTypeOK, W!sessionVars, W!pageVars, W!workflowVars
<1>12. ASSUME NEW s \in Session, W!CheckFails(s) PROVE W!BrowserTypeOK'
  <2> DEFINE r == pageCall[s].run
  <2>1. pageCall[s] \in W!CallRow /\ pageCall[s] # None
    BY <1>12 DEF W!CheckFails, W!BrowserTypeOK
  <2>2. r \in Run \cup {None} /\ (r # None => r \in Run /\ workflow[r] # None)
    BY <2>1 DEF W!CallRow, RunsHold
  <2>3. workflow' \in [Run -> W!RunRow \cup {None}]
    <3>1. CASE UNCHANGED workflow
      BY <3>1 DEF W!BrowserTypeOK
    <3>2. CASE r # None
      BY <1>12, <2>2, <3>1, <3>2, RunBusy DEF W!CheckFails, Becomes
    <3>. QED
      BY <1>12, <3>1, <3>2 DEF W!CheckFails
  <2>4. pageCall' \in [Session -> W!CallRow \cup {None}]
    BY <1>12 DEF W!CheckFails, W!BrowserTypeOK
  <2>. QED
    BY <1>12, <2>3, <2>4, BrowserAssumed
    DEF W!CheckFails, W!BrowserTypeOK, W!sessionVars, W!pageVars, W!workflowVars
<1>13. ASSUME NEW s \in Session, W!Sent(s) PROVE W!BrowserTypeOK'
  <2>1. pageCall' \in [Session -> W!CallRow \cup {None}]
    BY <1>13, CallGoesOn DEF W!Sent
  <2>. QED
    BY <1>13, <2>1, BrowserAssumed
    DEF W!Sent, W!BrowserTypeOK, W!sessionVars, W!pageVars, W!workflowVars
<1>14. ASSUME NEW s \in Session, W!ActFails(s) PROVE W!BrowserTypeOK'
  <2> DEFINE r == pageCall[s].run
  <2>1. pageCall[s] \in W!CallRow /\ pageCall[s] # None
    BY <1>14 DEF W!ActFails, W!BrowserTypeOK
  <2>2. r \in Run \cup {None} /\ (r # None => r \in Run /\ workflow[r] # None)
    BY <2>1 DEF W!CallRow, RunsHold
  <2>3. workflow' \in [Run -> W!RunRow \cup {None}]
    <3>1. CASE UNCHANGED workflow
      BY <3>1 DEF W!BrowserTypeOK
    <3>2. CASE r # None
      BY <1>14, <2>2, <3>1, <3>2, RunReviewed DEF W!ActFails, Becomes
    <3>. QED
      BY <1>14, <3>1, <3>2 DEF W!ActFails
  <2>4. pageCall' \in [Session -> W!CallRow \cup {None}]
    BY <1>14 DEF W!ActFails, W!BrowserTypeOK
  <2>. QED
    BY <1>14, <2>3, <2>4, BrowserAssumed
    DEF W!ActFails, W!BrowserTypeOK, W!sessionVars, W!pageVars, W!workflowVars
<1>15. ASSUME NEW s \in Session, W!ObserveFails(s) PROVE W!BrowserTypeOK'
  <2> DEFINE r == pageCall[s].run
  <2>1. pageCall[s] \in W!CallRow /\ pageCall[s] # None
    BY <1>15 DEF W!ObserveFails, W!BrowserTypeOK
  <2>2. r \in Run \cup {None} /\ (r # None => r \in Run /\ workflow[r] # None)
    BY <2>1 DEF W!CallRow, RunsHold
  <2>3. workflow' \in [Run -> W!RunRow \cup {None}]
    <3>1. CASE UNCHANGED workflow
      BY <3>1 DEF W!BrowserTypeOK
    <3>2. CASE r # None
      BY <1>15, <2>2, <3>1, <3>2, RunReviewed DEF W!ObserveFails, Becomes
    <3>. QED
      BY <1>15, <3>1, <3>2 DEF W!ObserveFails
  <2>4. pageCall' \in [Session -> W!CallRow \cup {None}]
    BY <1>15 DEF W!ObserveFails, W!BrowserTypeOK
  <2>. QED
    BY <1>15, <2>3, <2>4, BrowserAssumed
    DEF W!ObserveFails, W!BrowserTypeOK, W!sessionVars, W!pageVars, W!workflowVars
<1>16. ASSUME NEW s \in Session, W!Captured(s) PROVE W!BrowserTypeOK'
  <2> DEFINE r == pageCall[s].run
  <2>1. pageCall[s] \in W!CallRow /\ pageCall[s] # None
    BY <1>16 DEF W!Captured, W!BrowserTypeOK
  <2>2. r \in Run \cup {None} /\ (r # None => r \in Run /\ workflow[r] # None)
    BY <2>1 DEF W!CallRow, RunsHold
  <2>3. workflow' \in [Run -> W!RunRow \cup {None}]
    <3>1. CASE r = None
      BY <1>16, <3>1 DEF W!Captured, W!BrowserTypeOK
    <3>2. CASE r # None /\ pageCall[s].what = "act"
      <4>1. PICK matches \in BOOLEAN : workflow' = W!After(r, taken + 1, matches)
        BY <1>16, <3>2 DEF W!Captured
      <4>2. taken + 1 \in 0 .. MaxObservations
        BY <1>16, BrowserAssumed DEF W!Captured, W!BrowserTypeOK
      <4>. QED
        BY <2>2, <3>2, <4>1, <4>2, RunAfter DEF Becomes
    <3>3. CASE r # None /\ pageCall[s].what # "act"
      <4>1. workflow' = [workflow EXCEPT ![r].on = taken + 1, ![r].busy = FALSE]
        BY <1>16, <3>3 DEF W!Captured
      <4>2. taken + 1 \in 0 .. MaxObservations
        BY <1>16, BrowserAssumed DEF W!Captured, W!BrowserTypeOK
      <4>. QED
        BY <2>2, <3>3, <4>1, <4>2, RunSeen DEF Becomes
    <3>. QED
      BY <3>1, <3>2, <3>3
  <2>4. pageCall' \in [Session -> W!CallRow \cup {None}]
    BY <1>16 DEF W!Captured, W!BrowserTypeOK
  <2>5. taken' \in 0 .. MaxObservations /\ observation' \in [Session -> 0 .. MaxObservations]
    BY <1>16, BrowserAssumed DEF W!Captured, W!BrowserTypeOK
  <2>. QED
    BY <1>16, <2>3, <2>4, <2>5, BrowserAssumed
    DEF W!Captured, W!BrowserTypeOK, W!sessionVars, W!pageVars, W!workflowVars
<1>17. ASSUME NEW s \in Session, NEW o \in 1 .. MaxObservations, W!Act(s, o)
      PROVE  W!BrowserTypeOK'
  <2>1. W!By(None, "act", o) \in W!CallRow
    BY CallMade, BrowserAssumed
  <2>. QED
    BY <1>17, <2>1, BrowserAssumed
    DEF W!Act, W!BrowserTypeOK, W!sessionVars, W!pageVars, W!workflowVars
<1>18. ASSUME NEW r \in Run, NEW s \in Session, W!StartRun(r, s)
      PROVE  W!BrowserTypeOK'
  <2>1. [session |-> s, index |-> 1, status |-> "ready", busy |-> FALSE, on |-> 0] \in W!RunRow
    BY BrowserAssumed DEF W!RunRow
  <2>. QED
    BY <1>18, <2>1, BrowserAssumed
    DEF W!StartRun, W!BrowserTypeOK, W!sessionVars, W!pageVars, W!workflowVars
<1>19. ASSUME NEW r \in Run, W!Inspect(r) PROVE W!BrowserTypeOK'
  <2>1. W!By(r, "observe", 0) \in W!CallRow
    BY CallMade, BrowserAssumed
  <2>. QED
    BY <1>19, <2>1, BrowserAssumed
    DEF W!Inspect, W!BrowserTypeOK, W!sessionVars, W!pageVars, W!workflowVars
<1>20. ASSUME NEW r \in Run, W!AfterUnseen(r) PROVE W!BrowserTypeOK'
  <2>1. workflow' \in [Run -> W!RunRow \cup {None}]
    BY <1>20, RunReviewed DEF W!AfterUnseen, Becomes
  <2>. QED
    BY <1>20, <2>1, BrowserAssumed
    DEF W!AfterUnseen, W!BrowserTypeOK, W!sessionVars, W!pageVars, W!workflowVars
<1>21. ASSUME NEW r \in Run, W!NextStep(r) PROVE W!BrowserTypeOK'
  <2>1. CASE workflow' = [workflow EXCEPT ![r].status = "needs_review"] /\ UNCHANGED pageCall
    <3>1. workflow' \in [Run -> W!RunRow \cup {None}]
      BY <1>21, <2>1, RunStatus DEF W!NextStep, Becomes
    <3>. QED
      BY <1>21, <2>1, <3>1 DEF W!NextStep, W!BrowserTypeOK, W!sessionVars
  <2>2. CASE /\ workflow' = [workflow EXCEPT ![r].busy = TRUE]
             /\ pageCall' = [pageCall EXCEPT ![workflow[r].session] = W!By(r, "act", workflow[r].on)]
    <3>1. workflow' \in [Run -> W!RunRow \cup {None}]
      BY <1>21, <2>2, RunBusy DEF W!NextStep, Becomes
    <3>2. W!By(r, "act", workflow[r].on) \in W!CallRow
      BY <1>21, RunIs, CallMade DEF W!NextStep
    <3>3. pageCall' \in [Session -> W!CallRow \cup {None}]
      BY <1>21, <2>2, <3>2, RunIs DEF W!NextStep, W!BrowserTypeOK
    <3>. QED
      BY <1>21, <3>1, <3>3 DEF W!NextStep, W!BrowserTypeOK, W!sessionVars
  <2>. QED
    BY <1>21, <2>1, <2>2 DEF W!NextStep
<1>22. ASSUME NEW r \in Run, W!Stop(r) PROVE W!BrowserTypeOK'
  <2>1. workflow' \in [Run -> W!RunRow \cup {None}]
    BY <1>22, RunStatus DEF W!Stop, Becomes
  <2>. QED
    BY <1>22, <2>1, BrowserAssumed
    DEF W!Stop, W!BrowserTypeOK, W!sessionVars, W!pageVars, W!workflowVars
<1>23. ASSUME W!Close PROVE W!BrowserTypeOK'
  BY <1>23, BrowserAssumed DEF W!Close, W!pageVars, W!workflowVars, W!BrowserTypeOK
<1>24. ASSUME W!Closed PROVE W!BrowserTypeOK'
  BY <1>24, BrowserAssumed DEF W!Closed, W!pageVars, W!workflowVars, W!BrowserTypeOK
<1>u. ASSUME UNCHANGED W!browserVars PROVE W!BrowserTypeOK'
  BY <1>u
  DEF W!BrowserTypeOK, W!browserVars, W!sessionVars, W!pageVars, W!workflowVars
<1>. QED
  BY <1>1, <1>2, <1>3, <1>4, <1>5, <1>6, <1>7, <1>8, <1>9, <1>10, <1>11, <1>12,
     <1>13, <1>14, <1>15, <1>16, <1>17, <1>18, <1>19, <1>20, <1>21, <1>22, <1>23,
     <1>24, <1>u
  DEF W!BrowserNext

\* Every step keeps what is known of observations.
LEMMA PagesStep ==
    ASSUME W!BrowserTypeOK, PagesHold, RunsHold, [W!BrowserNext]_(W!browserVars)
    PROVE  PagesHold'
<1>1. ASSUME NEW s \in Session, W!Open(s) PROVE PagesHold'
  BY <1>1, BrowserAssumed
  DEF W!Open, W!Taken, W!pageVars, W!workflowVars, W!Opening, PagesHold,
      W!BrowserTypeOK, W!CallRow
<1>2. ASSUME NEW s \in Session, W!Launch(s) PROVE PagesHold'
  BY <1>2, BrowserAssumed
  DEF W!Launch, W!pageVars, W!workflowVars, PagesHold, W!BrowserTypeOK, W!CallRow
<1>3. ASSUME NEW s \in Session, W!Load(s) PROVE PagesHold'
  BY <1>3, BrowserAssumed
  DEF W!Load, W!pageVars, W!workflowVars, PagesHold, W!BrowserTypeOK, W!CallRow
<1>4. ASSUME NEW s \in Session, W!Loaded(s) PROVE PagesHold'
  BY <1>4, BrowserAssumed
  DEF W!Loaded, W!workflowVars, PagesHold, W!BrowserTypeOK, W!CallRow
<1>5. ASSUME NEW s \in Session, W!OpenFails(s) PROVE PagesHold'
  BY <1>5, BrowserAssumed
  DEF W!OpenFails, W!pageVars, W!workflowVars, PagesHold, W!BrowserTypeOK, W!CallRow
<1>6. ASSUME NEW s \in Session, W!OpenFailed(s) PROVE PagesHold'
  BY <1>6, BrowserAssumed
  DEF W!OpenFailed, W!pageVars, W!workflowVars, PagesHold, W!BrowserTypeOK,
      W!CallRow
<1>7. ASSUME NEW s \in Session, W!End(s) PROVE PagesHold'
  BY <1>7, BrowserAssumed
  DEF W!End, W!pageVars, W!workflowVars, PagesHold, W!BrowserTypeOK, W!CallRow
<1>8. ASSUME NEW s \in Session, W!Ended(s) PROVE PagesHold'
  BY <1>8, BrowserAssumed
  DEF W!Ended, W!pageVars, W!workflowVars, PagesHold, W!BrowserTypeOK, W!CallRow
<1>9. ASSUME NEW s \in Session, W!Deadline(s) PROVE PagesHold'
  BY <1>9, BrowserAssumed
  DEF W!Deadline, W!pageVars, W!workflowVars, PagesHold, W!BrowserTypeOK, W!CallRow
<1>10. ASSUME NEW s \in Session, W!Observe(s) PROVE PagesHold'
  BY <1>10, BrowserAssumed
  DEF W!Observe, W!Free, W!By, W!sessionVars, W!workflowVars, PagesHold,
      W!BrowserTypeOK, W!CallRow
<1>11. ASSUME NEW s \in Session, W!Send(s) PROVE PagesHold'
  BY <1>11, BrowserAssumed
  DEF W!Send, W!Spent, W!sessionVars, PagesHold, W!BrowserTypeOK, W!CallRow
<1>12. ASSUME NEW s \in Session, W!CheckFails(s) PROVE PagesHold'
  BY <1>12, BrowserAssumed
  DEF W!CheckFails, W!sessionVars, PagesHold, W!BrowserTypeOK, W!CallRow
<1>13. ASSUME NEW s \in Session, W!Sent(s) PROVE PagesHold'
  BY <1>13, BrowserAssumed
  DEF W!Sent, W!sessionVars, W!workflowVars, PagesHold, W!BrowserTypeOK, W!CallRow
<1>14. ASSUME NEW s \in Session, W!ActFails(s) PROVE PagesHold'
  BY <1>14, BrowserAssumed
  DEF W!ActFails, W!Reviewed, W!sessionVars, PagesHold, W!BrowserTypeOK, W!CallRow
<1>15. ASSUME NEW s \in Session, W!ObserveFails(s) PROVE PagesHold'
  BY <1>15, BrowserAssumed
  DEF W!ObserveFails, W!Reviewed, W!sessionVars, PagesHold, W!BrowserTypeOK,
      W!CallRow
<1>16. ASSUME NEW s \in Session, W!Captured(s) PROVE PagesHold'
  <2>1. taken' = taken + 1 /\ observation' = [observation EXCEPT ![s] = taken + 1]
        /\ pageCall' = [pageCall EXCEPT ![s] = None] /\ used' = used
        /\ taken + 1 \in 1 .. MaxObservations
    BY <1>16, BrowserAssumed DEF W!Captured, W!BrowserTypeOK
  <2>2. used[taken + 1] = 0
    <3>1. used[taken + 1] \in Nat /\ taken \in Nat
      BY <2>1, BrowserAssumed DEF W!BrowserTypeOK
    <3>2. used[taken + 1] > 0 => taken + 1 <= taken
      BY <2>1 DEF PagesHold
    <3>. QED
      BY <3>1, <3>2
  <2>3. observation'[s] = taken + 1 /\ \A t \in Session \ {s} : observation'[t] = observation[t] /\ observation[t] <= taken /\ observation[t] \in Nat
    BY <2>1 DEF PagesHold, W!BrowserTypeOK
  <2>4. \A t \in Session : pageCall'[t] # None => pageCall'[t] = pageCall[t]
    BY <2>1 DEF W!BrowserTypeOK
  <2>. QED
    BY <2>1, <2>2, <2>3, <2>4, BrowserAssumed DEF PagesHold, W!BrowserTypeOK
<1>17. ASSUME NEW s \in Session, NEW o \in 1 .. MaxObservations, W!Act(s, o)
      PROVE  PagesHold'
  BY <1>17, BrowserAssumed
  DEF W!Act, W!Free, W!By, W!sessionVars, W!workflowVars, PagesHold,
      W!BrowserTypeOK, W!CallRow
<1>18. ASSUME NEW r \in Run, NEW s \in Session, W!StartRun(r, s) PROVE PagesHold'
  BY <1>18, BrowserAssumed
  DEF W!StartRun, W!sessionVars, W!pageVars, PagesHold, W!BrowserTypeOK, W!CallRow
<1>19. ASSUME NEW r \in Run, W!Inspect(r) PROVE PagesHold'
  BY <1>19, BrowserAssumed
  DEF W!Inspect, W!Free, W!By, W!sessionVars, W!workflowVars, PagesHold,
      W!BrowserTypeOK, W!CallRow
<1>20. ASSUME NEW r \in Run, W!AfterUnseen(r) PROVE PagesHold'
  BY <1>20, BrowserAssumed
  DEF W!AfterUnseen, W!Free, W!Reviewed, W!sessionVars, W!pageVars, PagesHold,
      W!BrowserTypeOK, W!CallRow
<1>21. ASSUME NEW r \in Run, W!NextStep(r) PROVE PagesHold'
  BY <1>21, BrowserAssumed
  DEF W!NextStep, W!Free, W!By, W!sessionVars, PagesHold, W!BrowserTypeOK, W!CallRow
<1>22. ASSUME NEW r \in Run, W!Stop(r) PROVE PagesHold'
  BY <1>22, BrowserAssumed
  DEF W!Stop, W!sessionVars, W!pageVars, PagesHold, W!BrowserTypeOK, W!CallRow
<1>23. ASSUME W!Close PROVE PagesHold'
  BY <1>23, BrowserAssumed
  DEF W!Close, W!pageVars, W!workflowVars, PagesHold, W!BrowserTypeOK, W!CallRow
<1>24. ASSUME W!Closed PROVE PagesHold'
  BY <1>24, BrowserAssumed
  DEF W!Closed, W!pageVars, W!workflowVars, PagesHold, W!BrowserTypeOK, W!CallRow
<1>u. ASSUME UNCHANGED W!browserVars PROVE PagesHold'
  BY <1>u
  DEF PagesHold, W!BrowserTypeOK, W!CallRow, W!browserVars, W!sessionVars,
      W!pageVars, W!workflowVars
<1>. QED
  BY <1>1, <1>2, <1>3, <1>4, <1>5, <1>6, <1>7, <1>8, <1>9, <1>10, <1>11, <1>12,
     <1>13, <1>14, <1>15, <1>16, <1>17, <1>18, <1>19, <1>20, <1>21, <1>22, <1>23,
     <1>24, <1>u
  DEF W!BrowserNext

\* Every step keeps what is known of runs.
LEMMA RunsStep ==
    ASSUME W!BrowserTypeOK, PagesHold, RunsHold, [W!BrowserNext]_(W!browserVars)
    PROVE  RunsHold'
<1>1. ASSUME NEW s \in Session, W!Open(s) PROVE RunsHold'
  BY <1>1, BrowserAssumed
  DEF W!Open, W!Taken, W!pageVars, W!workflowVars, W!Opening, RunsHold, Acting,
      W!BrowserTypeOK, W!CallRow, W!RunRow
<1>2. ASSUME NEW s \in Session, W!Launch(s) PROVE RunsHold'
  BY <1>2, BrowserAssumed
  DEF W!Launch, W!pageVars, W!workflowVars, RunsHold, Acting, W!BrowserTypeOK,
      W!CallRow, W!RunRow
<1>3. ASSUME NEW s \in Session, W!Load(s) PROVE RunsHold'
  BY <1>3, BrowserAssumed
  DEF W!Load, W!pageVars, W!workflowVars, RunsHold, Acting, W!BrowserTypeOK,
      W!CallRow, W!RunRow
<1>4. ASSUME NEW s \in Session, W!Loaded(s) PROVE RunsHold'
  BY <1>4, BrowserAssumed
  DEF W!Loaded, W!workflowVars, RunsHold, Acting, W!BrowserTypeOK, W!CallRow,
      W!RunRow
<1>5. ASSUME NEW s \in Session, W!OpenFails(s) PROVE RunsHold'
  BY <1>5, BrowserAssumed
  DEF W!OpenFails, W!pageVars, W!workflowVars, RunsHold, Acting, W!BrowserTypeOK,
      W!CallRow, W!RunRow
<1>6. ASSUME NEW s \in Session, W!OpenFailed(s) PROVE RunsHold'
  BY <1>6, BrowserAssumed
  DEF W!OpenFailed, W!pageVars, W!workflowVars, RunsHold, Acting, W!BrowserTypeOK,
      W!CallRow, W!RunRow
<1>7. ASSUME NEW s \in Session, W!End(s) PROVE RunsHold'
  BY <1>7, BrowserAssumed
  DEF W!End, W!pageVars, W!workflowVars, RunsHold, Acting, W!BrowserTypeOK,
      W!CallRow, W!RunRow
<1>8. ASSUME NEW s \in Session, W!Ended(s) PROVE RunsHold'
  BY <1>8, BrowserAssumed
  DEF W!Ended, W!pageVars, W!workflowVars, RunsHold, Acting, W!BrowserTypeOK,
      W!CallRow, W!RunRow
<1>9. ASSUME NEW s \in Session, W!Deadline(s) PROVE RunsHold'
  BY <1>9, BrowserAssumed
  DEF W!Deadline, W!pageVars, W!workflowVars, RunsHold, Acting, W!BrowserTypeOK,
      W!CallRow, W!RunRow
<1>10. ASSUME NEW s \in Session, W!Observe(s) PROVE RunsHold'
  <2> DEFINE v == W!By(None, "observe", 0)
  <2>1. v # None /\ v.run = None /\ pageCall' = [pageCall EXCEPT ![s] = v]
        /\ pageCall[s] = None /\ UNCHANGED <<workflow, acted>>
    BY <1>10, CallMade, BrowserAssumed DEF W!Observe, W!Free, W!workflowVars
  <2> HIDE DEF v
  <2>2. pageCall'[s] = v /\ \A t \in Session \ {s} : pageCall'[t] = pageCall[t]
    BY <2>1 DEF W!BrowserTypeOK
  <2>3. \A r \in Run : workflow[r] # None => workflow[r].session \in Session
    BY RunIs
  <2>. QED
    BY <2>1, <2>2, <2>3, BrowserAssumed DEF RunsHold, Acting
<1>11. ASSUME NEW s \in Session, W!Send(s) PROVE RunsHold'
  <2> DEFINE r == pageCall[s].run
  <2>1. pageCall[s] \in W!CallRow /\ pageCall[s] # None
    BY <1>11 DEF W!Send, W!BrowserTypeOK
  <2>2. r \in Run \cup {None} /\ (r # None => r \in Run /\ workflow[r] # None)
    BY <2>1 DEF W!CallRow, RunsHold
  <2>3. /\ pageCall[s].stage = "checks" /\ pageCall[s].what = "act" /\ UNCHANGED workflow
        /\ pageCall' = [pageCall EXCEPT ![s].stage = "acts"]
        /\ acted' = IF r = None THEN acted ELSE [acted EXCEPT ![r][workflow[r].index] = @ + 1]
    BY <1>11, <2>1 DEF W!Send, PagesHold
  <2>4. /\ pageCall'[s] # None /\ pageCall'[s].run = r /\ pageCall'[s].what = "act"
        /\ pageCall'[s].stage = "acts" /\ \A t \in Session \ {s} : pageCall'[t] = pageCall[t]
    BY <2>1, <2>3, CallGoesOn
  <2>5. \A q \in Run : workflow[q] # None => workflow[q].session \in Session /\ workflow[q].index \in 1 .. Steps
    BY RunIs
  <2>6. CASE r = None
    BY <2>1, <2>3, <2>4, <2>5, <2>6 DEF RunsHold, Acting, W!BrowserTypeOK
  <2>7. CASE r # None
    <3>1. r \in Run /\ workflow[r] # None /\ workflow[r].session = s
      BY <2>1, <2>2, <2>7 DEF RunsHold
    <3>2. acted[r][workflow[r].index] = 0
      BY <2>1, <2>3, <3>1 DEF RunsHold, Acting
    <3>3. /\ acted'[r][workflow[r].index] = 1
          /\ \A i \in 1 .. Steps : i # workflow[r].index => acted'[r][i] = acted[r][i]
          /\ \A q \in Run \ {r} : acted'[q] = acted[q]
      BY <2>3, <2>5, <2>7, <3>1, <3>2, Acted
    <3>4. \A q \in Run, i \in 1 .. Steps : acted'[q][i] <= 1 /\
              (acted'[q][i] > 0 => workflow[q] # None /\ i <= workflow[q].index)
      <4> TAKE q \in Run, i \in 1 .. Steps
      <4>1. CASE q = r /\ i = workflow[r].index
        BY <3>1, <3>3, <4>1, <2>5
      <4>2. CASE ~(q = r /\ i = workflow[r].index)
        BY <3>3, <4>2 DEF RunsHold
      <4>. QED
        BY <4>1, <4>2
    <3>5. \A q \in Run \ {r} : workflow[q] # None => pageCall'[workflow[q].session] = pageCall[workflow[q].session]
          \/ (workflow[q].session = s /\ pageCall'[s].run # q /\ pageCall[s].run # q)
      BY <2>4, <2>5
    <3>6. ASSUME NEW q \in Run, workflow[q] # None
          PROVE  /\ Acting(q, {"checks"})' => acted'[q][workflow[q].index] = 0
                 /\ acted'[q][workflow[q].index] > 0 =>
                       workflow[q].status # "ready" \/ Acting(q, {"acts", "captures"})'
      <4>1. CASE q = r
        BY <2>3, <2>4, <3>1, <4>1 DEF Acting
      <4>2. CASE q # r
        <5>1. acted'[q] = acted[q]
          BY <3>3, <4>2
        <5>2. /\ Acting(q, {"checks"}) => acted[q][workflow[q].index] = 0
              /\ acted[q][workflow[q].index] > 0 =>
                    workflow[q].status # "ready" \/ Acting(q, {"acts", "captures"})
          BY <3>6 DEF RunsHold
        <5>3. workflow' = workflow
          BY <2>3
        <5>4. \/ pageCall'[workflow[q].session] = pageCall[workflow[q].session]
              \/ workflow[q].session = s /\ pageCall'[s].run # q /\ pageCall[s].run # q
          BY <3>5, <3>6, <4>2
        <5>5. Acting(q, {"checks"})' => Acting(q, {"checks"})
          BY <5>3, <5>4 DEF Acting
        <5>6. Acting(q, {"acts", "captures"}) => Acting(q, {"acts", "captures"})'
          BY <5>3, <5>4 DEF Acting
        <5>. QED
          BY <5>1, <5>2, <5>5, <5>6
      <4>. QED
        BY <4>1, <4>2
    <3>. QED
      BY <2>1, <2>3, <2>4, <3>1, <3>4, <3>6, ZenonT(40) DEF RunsHold
  <2>. QED
    BY <2>6, <2>7, BrowserAssumed DEF RunsHold, Acting, W!BrowserTypeOK
<1>12. ASSUME NEW s \in Session, W!CheckFails(s) PROVE RunsHold'
  <2> DEFINE r == pageCall[s].run
  <2>1. pageCall[s] \in W!CallRow /\ pageCall[s] # None
    BY <1>12 DEF W!CheckFails, W!BrowserTypeOK
  <2>2. r \in Run \cup {None} /\ (r # None => r \in Run /\ workflow[r] # None)
    BY <2>1 DEF W!CallRow, RunsHold
  <2>3. pageCall' = [pageCall EXCEPT ![s] = None] /\ UNCHANGED acted
    BY <1>12 DEF W!CheckFails
  <2>4. /\ pageCall'[s] = None /\ \A t \in Session \ {s} : pageCall'[t] = pageCall[t]
    BY <2>3 DEF W!BrowserTypeOK
  <2>5. \A q \in Run : workflow[q] # None => workflow[q].session \in Session /\ workflow[q].index \in 1 .. Steps
    BY RunIs
  <2>6. \/ UNCHANGED workflow /\ pageCall[s].stage = "checks"
        \/ /\ r # None
           /\ pageCall[s].stage = "checks" /\ Becomes(workflow', r, workflow[r].index, workflow[r].status)
    BY <1>12, <2>2, RunBusy DEF W!CheckFails
  <2>7. CASE UNCHANGED workflow /\ pageCall[s].stage = "checks"
    BY <2>3, <2>4, <2>7, CallEndsAlone
  <2>8. CASE r # None /\ pageCall[s].stage = "checks" /\ Becomes(workflow', r, workflow[r].index, workflow[r].status)
    <3>1. r \in Run /\ workflow[r] # None /\ workflow[r].session = s
      BY <2>1, <2>2, <2>8 DEF RunsHold
    <3>2. workflow[r].index \in 1 .. Steps
      BY <2>5, <3>1
    <3>3. acted[r][workflow[r].index] > 0 => workflow[r].status # "ready"
      BY <2>1, <2>2, <2>6, <2>8, <3>1, <3>2, BrowserAssumed
      DEF RunsHold, Acting, PagesHold
    <3>. QED
      BY <2>3, <2>4, <2>6, <2>8, <3>1, <3>2, <3>3, RunChanges
  <2>. QED
    BY <2>6, <2>7, <2>8
<1>13. ASSUME NEW s \in Session, W!Sent(s) PROVE RunsHold'
  <2>1. pageCall[s] # None /\ pageCall[s].stage = "acts" /\ UNCHANGED <<workflow, acted>>
        /\ pageCall' = [pageCall EXCEPT ![s].stage = "captures"]
    BY <1>13 DEF W!Sent, W!workflowVars
  <2>2. /\ pageCall'[s] # None /\ pageCall'[s].run = pageCall[s].run
        /\ pageCall'[s].what = pageCall[s].what /\ pageCall'[s].stage = "captures"
        /\ \A t \in Session \ {s} : pageCall'[t] = pageCall[t]
    BY <2>1, CallGoesOn
  <2>3. \A r \in Run : workflow[r] # None => workflow[r].session \in Session
    BY RunIs
  <2>. QED
    BY <2>1, <2>2, <2>3, BrowserAssumed DEF RunsHold, Acting, W!BrowserTypeOK
<1>14. ASSUME NEW s \in Session, W!ActFails(s) PROVE RunsHold'
  <2> DEFINE r == pageCall[s].run
  <2>1. pageCall[s] \in W!CallRow /\ pageCall[s] # None
    BY <1>14 DEF W!ActFails, W!BrowserTypeOK
  <2>2. r \in Run \cup {None} /\ (r # None => r \in Run /\ workflow[r] # None)
    BY <2>1 DEF W!CallRow, RunsHold
  <2>3. pageCall' = [pageCall EXCEPT ![s] = None] /\ UNCHANGED acted
    BY <1>14 DEF W!ActFails
  <2>4. /\ pageCall'[s] = None /\ \A t \in Session \ {s} : pageCall'[t] = pageCall[t]
    BY <2>3 DEF W!BrowserTypeOK
  <2>5. \A q \in Run : workflow[q] # None => workflow[q].session \in Session /\ workflow[q].index \in 1 .. Steps
    BY RunIs
  <2>6. \/ UNCHANGED workflow /\ r = None
        \/ /\ r # None
           /\ Becomes(workflow', r, workflow[r].index, "needs_review")
    BY <1>14, <2>2, RunReviewed DEF W!ActFails
  <2>7. CASE UNCHANGED workflow /\ r = None
    BY <2>3, <2>4, <2>7, CallEndsAlone
  <2>8. CASE r # None /\ Becomes(workflow', r, workflow[r].index, "needs_review")
    <3>1. r \in Run /\ workflow[r] # None /\ workflow[r].session = s
      BY <2>1, <2>2, <2>8 DEF RunsHold
    <3>2. workflow[r].index \in 1 .. Steps
      BY <2>5, <3>1
    <3>3. TRUE
      BY <2>1, <2>2, <2>6, <2>8, <3>1, <3>2, BrowserAssumed
      DEF RunsHold, Acting, PagesHold
    <3>. QED
      BY <2>3, <2>4, <2>6, <2>8, <3>1, <3>2, <3>3, RunChanges
  <2>. QED
    BY <2>6, <2>7, <2>8
<1>15. ASSUME NEW s \in Session, W!ObserveFails(s) PROVE RunsHold'
  <2> DEFINE r == pageCall[s].run
  <2>1. pageCall[s] \in W!CallRow /\ pageCall[s] # None
    BY <1>15 DEF W!ObserveFails, W!BrowserTypeOK
  <2>2. r \in Run \cup {None} /\ (r # None => r \in Run /\ workflow[r] # None)
    BY <2>1 DEF W!CallRow, RunsHold
  <2>3. pageCall' = [pageCall EXCEPT ![s] = None] /\ UNCHANGED acted
    BY <1>15 DEF W!ObserveFails
  <2>4. /\ pageCall'[s] = None /\ \A t \in Session \ {s} : pageCall'[t] = pageCall[t]
    BY <2>3 DEF W!BrowserTypeOK
  <2>5. \A q \in Run : workflow[q] # None => workflow[q].session \in Session /\ workflow[q].index \in 1 .. Steps
    BY RunIs
  <2>6. \/ UNCHANGED workflow /\ pageCall[s].what = "observe"
        \/ /\ r # None
           /\ Becomes(workflow', r, workflow[r].index, "needs_review")
    BY <1>15, <2>2, RunReviewed DEF W!ObserveFails
  <2>7. CASE UNCHANGED workflow /\ pageCall[s].what = "observe"
    BY <2>3, <2>4, <2>7, CallEndsAlone
  <2>8. CASE r # None /\ Becomes(workflow', r, workflow[r].index, "needs_review")
    <3>1. r \in Run /\ workflow[r] # None /\ workflow[r].session = s
      BY <2>1, <2>2, <2>8 DEF RunsHold
    <3>2. workflow[r].index \in 1 .. Steps
      BY <2>5, <3>1
    <3>3. TRUE
      BY <2>1, <2>2, <2>6, <2>8, <3>1, <3>2, BrowserAssumed
      DEF RunsHold, Acting, PagesHold
    <3>. QED
      BY <2>3, <2>4, <2>6, <2>8, <3>1, <3>2, <3>3, RunChanges
  <2>. QED
    BY <2>6, <2>7, <2>8
<1>16. ASSUME NEW s \in Session, W!Captured(s) PROVE RunsHold'
  <2> DEFINE r == pageCall[s].run
  <2>1. pageCall[s] \in W!CallRow /\ pageCall[s] # None
    BY <1>16 DEF W!Captured, W!BrowserTypeOK
  <2>2. r \in Run \cup {None} /\ (r # None => r \in Run /\ workflow[r] # None)
    BY <2>1 DEF W!CallRow, RunsHold
  <2>3. pageCall' = [pageCall EXCEPT ![s] = None] /\ UNCHANGED acted
    BY <1>16 DEF W!Captured
  <2>4. /\ pageCall'[s] = None /\ \A t \in Session \ {s} : pageCall'[t] = pageCall[t]
    BY <2>3 DEF W!BrowserTypeOK
  <2>5. \A q \in Run : workflow[q] # None => workflow[q].session \in Session /\ workflow[q].index \in 1 .. Steps
    BY RunIs
  <2>6. \/ UNCHANGED workflow /\ r = None
        \/ /\ r # None /\ pageCall[s].what = "observe"
           /\ Becomes(workflow', r, workflow[r].index, workflow[r].status)
        \/ /\ r # None /\ pageCall[s].what = "act"
           /\ \/ \E st \in {"needs_review", "completed"} :
                    Becomes(workflow', r, workflow[r].index, st)
              \/ Becomes(workflow', r, workflow[r].index + 1, workflow[r].status)
    <3>0. taken + 1 \in 0 .. MaxObservations
      BY <1>16, BrowserAssumed DEF W!Captured, W!BrowserTypeOK
    <3>1. CASE r # None /\ pageCall[s].what = "act"
      <4>1. PICK matches \in BOOLEAN : workflow' = W!After(r, taken + 1, matches)
        BY <1>16, <3>1 DEF W!Captured
      <4>. QED
        BY <2>2, <3>0, <3>1, <4>1, RunAfter
    <3>2. CASE r # None /\ pageCall[s].what # "act"
      <4>1. workflow' = [workflow EXCEPT ![r].on = taken + 1, ![r].busy = FALSE]
        BY <1>16, <3>2 DEF W!Captured
      <4>. QED
        BY <2>1, <2>2, <3>0, <3>2, <4>1, RunSeen DEF W!CallRow
    <3>. QED
      BY <1>16, <3>1, <3>2 DEF W!Captured
  <2>7. CASE r = None
    BY <2>3, <2>4, <2>6, <2>7, CallEndsAlone DEF Becomes
  <2>8. CASE r # None
    <3>1. r \in Run /\ workflow[r] # None /\ workflow[r].session = s
      BY <2>1, <2>2, <2>8 DEF RunsHold
    <3>2. workflow[r].index \in 1 .. Steps
      BY <2>5, <3>1
    <3>3. CASE pageCall[s].what = "observe" /\ Becomes(workflow', r, workflow[r].index, workflow[r].status)
      <4>1. acted[r][workflow[r].index] > 0 => workflow[r].status # "ready"
        BY <3>1, <3>3 DEF RunsHold, Acting
      <4>. QED
        BY <2>3, <2>4, <3>1, <3>2, <3>3, <4>1, RunChanges
    <3>4. CASE \E st \in {"needs_review", "completed"} : Becomes(workflow', r, workflow[r].index, st)
      <4>1. PICK st \in {"needs_review", "completed"} : Becomes(workflow', r, workflow[r].index, st)
        BY <3>4
      <4>. QED
        BY <2>3, <2>4, <3>1, <3>2, <4>1, RunChanges
    <3>5. CASE pageCall[s].what = "act" /\ Becomes(workflow', r, workflow[r].index + 1, workflow[r].status)
      <4>1. workflow[r].index + 1 \in 1 .. Steps
        BY <3>1, <3>5, BrowserAssumed DEF Becomes, W!RunRow
      <4>2. ~(acted[r][workflow[r].index + 1] > 0)
        BY <3>1, <3>2, <4>1 DEF RunsHold
      <4>. QED
        BY <2>1, <2>3, <2>4, <3>1, <3>2, <3>5, <4>1, <4>2, RunChanges
    <3>. QED
      BY <2>6, <2>8, <3>3, <3>4, <3>5
  <2>. QED
    BY <2>6, <2>7, <2>8
<1>17. ASSUME NEW s \in Session, NEW o \in 1 .. MaxObservations, W!Act(s, o)
      PROVE  RunsHold'
  <2> DEFINE v == W!By(None, "act", o)
  <2>1. v # None /\ v.run = None /\ pageCall' = [pageCall EXCEPT ![s] = v]
        /\ pageCall[s] = None /\ UNCHANGED <<workflow, acted>>
    BY <1>17, CallMade, BrowserAssumed DEF W!Act, W!Free, W!workflowVars
  <2> HIDE DEF v
  <2>2. pageCall'[s] = v /\ \A t \in Session \ {s} : pageCall'[t] = pageCall[t]
    BY <2>1 DEF W!BrowserTypeOK
  <2>3. \A r \in Run : workflow[r] # None => workflow[r].session \in Session
    BY RunIs
  <2>. QED
    BY <2>1, <2>2, <2>3, BrowserAssumed DEF RunsHold, Acting
<1>18. ASSUME NEW r \in Run, NEW s \in Session, W!StartRun(r, s) PROVE RunsHold'
  <2>. DEFINE row == [session |-> s, index |-> 1, status |-> "ready", busy |-> FALSE, on |-> 0]
  <2>1. /\ workflow[r] = None /\ workflow' = [workflow EXCEPT ![r] = row]
        /\ UNCHANGED <<pageCall, acted>>
    BY <1>18 DEF W!StartRun, W!pageVars
  <2>2. /\ row.session = s /\ row.index = 1 /\ row.status = "ready"
        /\ row # None
    <3>1. row.session = s /\ row.index = 1 /\ row.status = "ready"
      OBVIOUS
    <3>2. 1 \in 1 .. Steps /\ 0 \in 0 .. MaxObservations
      BY BrowserAssumed
    <3>3. row \in W!RunRow
      BY <3>2 DEF W!RunRow
    <3>. QED
      BY <3>1, <3>3, BrowserAssumed
  <2>. HIDE DEF row
  <2>3. workflow'[r] = row /\ \A q \in Run \ {r} : workflow'[q] = workflow[q]
    BY <2>1 DEF W!BrowserTypeOK
  <2>4. \A i \in 1 .. Steps : ~(acted[r][i] > 0)
    BY <2>1 DEF RunsHold
  <2>5. \A t \in Session : pageCall[t] # None => pageCall[t].run # r
    BY <2>1, BrowserAssumed DEF RunsHold
  <2>6. /\ 1 \in 1 .. Steps /\ acted \in [Run -> [1 .. Steps -> Nat]]
        /\ \A q \in Run : workflow[q] # None =>
              workflow[q].session \in Session /\ workflow[q].index \in 1 .. Steps
    <3>1. \A q \in Run : workflow[q] # None =>
             workflow[q].session \in Session /\ workflow[q].index \in 1 .. Steps
      BY RunIs
    <3>2. 1 \in 1 .. Steps
      BY BrowserAssumed
    <3>. QED
      BY <3>1, <3>2 DEF W!BrowserTypeOK
  <2>7. \A q \in Run \ {r} : \A stages : Acting(q, stages)' <=> Acting(q, stages)
    BY <2>1, <2>3 DEF Acting
  <2>8. \A stages : ~Acting(r, stages)'
    BY <2>1, <2>2, <2>3, <2>5 DEF Acting
  <2>. QED
    BY <2>1, <2>2, <2>3, <2>4, <2>5, <2>6, <2>7, <2>8 DEF RunsHold
<1>19. ASSUME NEW r \in Run, W!Inspect(r) PROVE RunsHold'
  BY <1>19, BrowserAssumed, SMTT(30)
  DEF W!Inspect, W!Free, W!By, W!sessionVars, W!workflowVars, RunsHold, Acting,
      W!BrowserTypeOK, W!CallRow, W!RunRow
<1>20. ASSUME NEW r \in Run, W!AfterUnseen(r) PROVE RunsHold'
  <2>1. /\ Becomes(workflow', r, workflow[r].index, "needs_review") /\ workflow[r] # None
        /\ UNCHANGED <<pageCall, acted>>
    BY <1>20, RunReviewed DEF W!AfterUnseen, W!pageVars
  <2>2. workflow[r].index \in 1 .. Steps
    BY <2>1, RunIs
  <2>. QED
    BY <2>1, <2>2, RunChanges
<1>21. ASSUME NEW r \in Run, W!NextStep(r) PROVE RunsHold'
  <2> DEFINE s == workflow[r].session
  <2>1. /\ workflow[r] # None /\ workflow[r].status = "ready" /\ UNCHANGED acted
        /\ workflow[r].index \in 1 .. Steps /\ s \in Session
        /\ \A q \in Run : workflow[q] # None => workflow[q].session \in Session
    BY <1>21, RunIs DEF W!NextStep
  <2>2. CASE workflow' = [workflow EXCEPT ![r].status = "needs_review"] /\ UNCHANGED pageCall
    <3>1. Becomes(workflow', r, workflow[r].index, "needs_review")
      BY <2>1, <2>2, RunStatus
    <3>. QED
      BY <2>1, <2>2, <3>1, RunChanges
  <2>3. CASE /\ pageCall[s] = None /\ workflow' = [workflow EXCEPT ![r].busy = TRUE]
             /\ pageCall' = [pageCall EXCEPT ![s] = W!By(r, "act", workflow[r].on)]
    <3>1. Becomes(workflow', r, workflow[r].index, "ready")
      BY <2>1, <2>3, RunBusy
    <3>2. /\ pageCall'[s].run = r /\ pageCall'[s].what = "act" /\ pageCall'[s].stage = "checks"
          /\ \A t \in Session \ {s} : pageCall'[t] = pageCall[t]
      BY <2>1, <2>3, RunIs, CallMade DEF W!BrowserTypeOK
    <3>3. acted[r][workflow[r].index] = 0
      <4>1. acted[r][workflow[r].index] \in Nat
        BY <2>1 DEF W!BrowserTypeOK
      <4>2. ~ Acting(r, {"acts", "captures"})
        BY <2>3 DEF Acting
      <4>. QED
        BY <2>1, <4>1, <4>2 DEF RunsHold
    <3>4. ASSUME NEW t \in Session, pageCall'[t] # None, pageCall'[t].run # None
          PROVE  workflow'[pageCall'[t].run] # None /\ workflow'[pageCall'[t].run].session = t
      <4>1. CASE t = s
        BY <3>1, <3>2, <4>1 DEF Becomes
      <4>2. CASE t # s
        <5>1. pageCall[t] = pageCall'[t] /\ pageCall[t].run \in Run
          BY <3>2, <3>4, <4>2 DEF W!BrowserTypeOK, W!CallRow
        <5>. QED
          BY <3>1, <3>4, <5>1 DEF RunsHold, Becomes
      <4>. QED
        BY <4>1, <4>2
    <3>5. ASSUME NEW q \in Run, workflow'[q] # None
          PROVE  /\ Acting(q, {"checks"})' => acted'[q][workflow'[q].index] = 0
                 /\ acted'[q][workflow'[q].index] > 0 =>
                       workflow'[q].status # "ready" \/ Acting(q, {"acts", "captures"})'
      <4>1. CASE q = r
        BY <2>1, <3>1, <3>3, <4>1 DEF Becomes
      <4>2. CASE q # r
        <5>1. workflow'[q] = workflow[q] /\ workflow[q].session \in Session
          BY <2>1, <3>1, <3>5, <4>2 DEF Becomes
        <5>2. CASE workflow[q].session = s
          BY <2>1, <2>3, <3>2, <3>5, <4>2, <5>1, <5>2 DEF RunsHold, Acting
        <5>3. CASE workflow[q].session # s
          BY <2>1, <3>2, <3>5, <5>1, <5>3 DEF RunsHold, Acting
        <5>. QED
          BY <5>2, <5>3
      <4>. QED
        BY <4>1, <4>2
    <3>6. ASSUME NEW q \in Run, NEW i \in 1 .. Steps
          PROVE  /\ acted'[q][i] <= 1
                 /\ acted'[q][i] > 0 => workflow'[q] # None /\ i <= workflow'[q].index
      <4>1. workflow'[q] = workflow[q] \/ (q = r /\ workflow'[q] # None /\ workflow'[q].index = workflow[q].index)
        BY <3>1 DEF Becomes
      <4>. QED
        BY <2>1, <4>1 DEF RunsHold
    <3>. QED
      BY <3>4, <3>5, <3>6 DEF RunsHold
  <2>. QED
    BY <1>21, <2>2, <2>3 DEF W!NextStep, W!Free
<1>22. ASSUME NEW r \in Run, W!Stop(r) PROVE RunsHold'
  <2>1. /\ Becomes(workflow', r, workflow[r].index, "stopped") /\ workflow[r] # None
        /\ UNCHANGED <<pageCall, acted>>
    BY <1>22, RunStatus DEF W!Stop, W!pageVars
  <2>2. workflow[r].index \in 1 .. Steps
    BY <2>1, RunIs
  <2>. QED
    BY <2>1, <2>2, RunChanges
<1>23. ASSUME W!Close PROVE RunsHold'
  BY <1>23, BrowserAssumed
  DEF W!Close, W!pageVars, W!workflowVars, RunsHold, Acting, W!BrowserTypeOK,
      W!CallRow, W!RunRow
<1>24. ASSUME W!Closed PROVE RunsHold'
  BY <1>24, BrowserAssumed
  DEF W!Closed, W!pageVars, W!workflowVars, RunsHold, Acting, W!BrowserTypeOK,
      W!CallRow, W!RunRow
<1>u. ASSUME UNCHANGED W!browserVars PROVE RunsHold'
  BY <1>u
  DEF RunsHold, Acting, W!BrowserTypeOK, W!CallRow, W!RunRow, W!browserVars,
      W!sessionVars, W!pageVars, W!workflowVars
<1>. QED
  BY <1>1, <1>2, <1>3, <1>4, <1>5, <1>6, <1>7, <1>8, <1>9, <1>10, <1>11, <1>12,
     <1>13, <1>14, <1>15, <1>16, <1>17, <1>18, <1>19, <1>20, <1>21, <1>22, <1>23,
     <1>24, <1>u
  DEF W!BrowserNext

\* Every step leaves browsers with who ends them.
LEMMA StrayStep ==
    ASSUME W!BrowserTypeOK, SessionsHold, [W!BrowserNext]_(W!browserVars)
    PROVE  (W!NoStrayBrowser /\ (browserService # "open" => listed = {}))'
<1>1. ASSUME NEW s \in Session, W!Open(s)
      PROVE  (W!NoStrayBrowser /\ (browserService # "open" => listed = {}))'
  BY <1>1, BrowserAssumed
  DEF W!Open, W!Taken, W!pageVars, W!workflowVars, W!Opening, SessionsHold,
      W!NoStrayBrowser, W!BrowserTypeOK
<1>2. ASSUME NEW s \in Session, W!Launch(s)
      PROVE  (W!NoStrayBrowser /\ (browserService # "open" => listed = {}))'
  BY <1>2, BrowserAssumed
  DEF W!Launch, W!pageVars, W!workflowVars, SessionsHold, W!NoStrayBrowser,
      W!Opening, W!BrowserTypeOK
<1>3. ASSUME NEW s \in Session, W!Load(s)
      PROVE  (W!NoStrayBrowser /\ (browserService # "open" => listed = {}))'
  BY <1>3, BrowserAssumed
  DEF W!Load, W!pageVars, W!workflowVars, SessionsHold, W!NoStrayBrowser, W!Opening,
      W!BrowserTypeOK
<1>4. ASSUME NEW s \in Session, W!Loaded(s)
      PROVE  (W!NoStrayBrowser /\ (browserService # "open" => listed = {}))'
  BY <1>4, BrowserAssumed
  DEF W!Loaded, W!workflowVars, SessionsHold, W!NoStrayBrowser, W!Opening,
      W!BrowserTypeOK
<1>5. ASSUME NEW s \in Session, W!OpenFails(s)
      PROVE  (W!NoStrayBrowser /\ (browserService # "open" => listed = {}))'
  BY <1>5, BrowserAssumed
  DEF W!OpenFails, W!pageVars, W!workflowVars, SessionsHold, W!NoStrayBrowser,
      W!Opening, W!BrowserTypeOK
<1>6. ASSUME NEW s \in Session, W!OpenFailed(s)
      PROVE  (W!NoStrayBrowser /\ (browserService # "open" => listed = {}))'
  BY <1>6, BrowserAssumed
  DEF W!OpenFailed, W!pageVars, W!workflowVars, SessionsHold, W!NoStrayBrowser,
      W!Opening, W!BrowserTypeOK
<1>7. ASSUME NEW s \in Session, W!End(s)
      PROVE  (W!NoStrayBrowser /\ (browserService # "open" => listed = {}))'
  BY <1>7, BrowserAssumed
  DEF W!End, W!pageVars, W!workflowVars, SessionsHold, W!NoStrayBrowser, W!Opening,
      W!BrowserTypeOK
<1>8. ASSUME NEW s \in Session, W!Ended(s)
      PROVE  (W!NoStrayBrowser /\ (browserService # "open" => listed = {}))'
  BY <1>8, BrowserAssumed
  DEF W!Ended, W!pageVars, W!workflowVars, SessionsHold, W!NoStrayBrowser,
      W!Opening, W!BrowserTypeOK
<1>9. ASSUME NEW s \in Session, W!Deadline(s)
      PROVE  (W!NoStrayBrowser /\ (browserService # "open" => listed = {}))'
  BY <1>9, BrowserAssumed
  DEF W!Deadline, W!pageVars, W!workflowVars, SessionsHold, W!NoStrayBrowser,
      W!Opening, W!BrowserTypeOK
<1>10. ASSUME NEW s \in Session, W!Observe(s)
      PROVE  (W!NoStrayBrowser /\ (browserService # "open" => listed = {}))'
  BY <1>10, BrowserAssumed
  DEF W!Observe, W!Free, W!By, W!sessionVars, W!workflowVars, SessionsHold,
      W!NoStrayBrowser, W!Opening, W!BrowserTypeOK
<1>11. ASSUME NEW s \in Session, W!Send(s)
      PROVE  (W!NoStrayBrowser /\ (browserService # "open" => listed = {}))'
  BY <1>11, BrowserAssumed
  DEF W!Send, W!Spent, W!sessionVars, SessionsHold, W!NoStrayBrowser, W!Opening,
      W!BrowserTypeOK
<1>12. ASSUME NEW s \in Session, W!CheckFails(s)
      PROVE  (W!NoStrayBrowser /\ (browserService # "open" => listed = {}))'
  BY <1>12, BrowserAssumed
  DEF W!CheckFails, W!sessionVars, SessionsHold, W!NoStrayBrowser, W!Opening,
      W!BrowserTypeOK
<1>13. ASSUME NEW s \in Session, W!Sent(s)
      PROVE  (W!NoStrayBrowser /\ (browserService # "open" => listed = {}))'
  BY <1>13, BrowserAssumed
  DEF W!Sent, W!sessionVars, W!workflowVars, SessionsHold, W!NoStrayBrowser,
      W!Opening, W!BrowserTypeOK
<1>14. ASSUME NEW s \in Session, W!ActFails(s)
      PROVE  (W!NoStrayBrowser /\ (browserService # "open" => listed = {}))'
  BY <1>14, BrowserAssumed
  DEF W!ActFails, W!Reviewed, W!sessionVars, SessionsHold, W!NoStrayBrowser,
      W!Opening, W!BrowserTypeOK
<1>15. ASSUME NEW s \in Session, W!ObserveFails(s)
      PROVE  (W!NoStrayBrowser /\ (browserService # "open" => listed = {}))'
  BY <1>15, BrowserAssumed
  DEF W!ObserveFails, W!Reviewed, W!sessionVars, SessionsHold, W!NoStrayBrowser,
      W!Opening, W!BrowserTypeOK
<1>16. ASSUME NEW s \in Session, W!Captured(s)
      PROVE  (W!NoStrayBrowser /\ (browserService # "open" => listed = {}))'
  BY <1>16, BrowserAssumed
  DEF W!Captured, W!After, W!sessionVars, SessionsHold, W!NoStrayBrowser, W!Opening,
      W!BrowserTypeOK
<1>17. ASSUME NEW s \in Session, NEW o \in 1 .. MaxObservations, W!Act(s, o)
      PROVE  (W!NoStrayBrowser /\ (browserService # "open" => listed = {}))'
  BY <1>17, BrowserAssumed
  DEF W!Act, W!Free, W!By, W!sessionVars, W!workflowVars, SessionsHold,
      W!NoStrayBrowser, W!Opening, W!BrowserTypeOK
<1>18. ASSUME NEW r \in Run, NEW s \in Session, W!StartRun(r, s)
      PROVE  (W!NoStrayBrowser /\ (browserService # "open" => listed = {}))'
  BY <1>18, BrowserAssumed
  DEF W!StartRun, W!sessionVars, W!pageVars, SessionsHold, W!NoStrayBrowser,
      W!Opening, W!BrowserTypeOK
<1>19. ASSUME NEW r \in Run, W!Inspect(r)
      PROVE  (W!NoStrayBrowser /\ (browserService # "open" => listed = {}))'
  BY <1>19, BrowserAssumed
  DEF W!Inspect, W!Free, W!By, W!sessionVars, W!workflowVars, SessionsHold,
      W!NoStrayBrowser, W!Opening, W!BrowserTypeOK
<1>20. ASSUME NEW r \in Run, W!AfterUnseen(r)
      PROVE  (W!NoStrayBrowser /\ (browserService # "open" => listed = {}))'
  BY <1>20, BrowserAssumed
  DEF W!AfterUnseen, W!Free, W!Reviewed, W!sessionVars, W!pageVars, SessionsHold,
      W!NoStrayBrowser, W!Opening, W!BrowserTypeOK
<1>21. ASSUME NEW r \in Run, W!NextStep(r)
      PROVE  (W!NoStrayBrowser /\ (browserService # "open" => listed = {}))'
  BY <1>21, BrowserAssumed
  DEF W!NextStep, W!Free, W!By, W!sessionVars, SessionsHold, W!NoStrayBrowser,
      W!Opening, W!BrowserTypeOK
<1>22. ASSUME NEW r \in Run, W!Stop(r)
      PROVE  (W!NoStrayBrowser /\ (browserService # "open" => listed = {}))'
  BY <1>22, BrowserAssumed
  DEF W!Stop, W!sessionVars, W!pageVars, SessionsHold, W!NoStrayBrowser, W!Opening,
      W!BrowserTypeOK
<1>23. ASSUME W!Close
      PROVE  (W!NoStrayBrowser /\ (browserService # "open" => listed = {}))'
  BY <1>23, BrowserAssumed
  DEF W!Close, W!pageVars, W!workflowVars, SessionsHold, W!NoStrayBrowser,
      W!Opening, W!BrowserTypeOK
<1>24. ASSUME W!Closed
      PROVE  (W!NoStrayBrowser /\ (browserService # "open" => listed = {}))'
  BY <1>24, BrowserAssumed
  DEF W!Closed, W!pageVars, W!workflowVars, SessionsHold, W!NoStrayBrowser,
      W!Opening, W!BrowserTypeOK
<1>u. ASSUME UNCHANGED W!browserVars
      PROVE  (W!NoStrayBrowser /\ (browserService # "open" => listed = {}))'
  BY <1>u
  DEF SessionsHold, W!NoStrayBrowser, W!Opening, W!BrowserTypeOK, W!browserVars,
      W!sessionVars, W!pageVars, W!workflowVars
<1>. QED
  BY <1>1, <1>2, <1>3, <1>4, <1>5, <1>6, <1>7, <1>8, <1>9, <1>10, <1>11, <1>12,
     <1>13, <1>14, <1>15, <1>16, <1>17, <1>18, <1>19, <1>20, <1>21, <1>22, <1>23,
     <1>24, <1>u
  DEF W!BrowserNext

\* Only open() takes a place.
LEMMA PlaceStep ==
    ASSUME W!BrowserTypeOK, SessionsHold, [W!BrowserNext]_(W!browserVars)
    PROVE  (listed \cup W!Opening)' \subseteq listed \cup W!Opening \/ (\E z \in Session : W!Open(z))
<1>1. ASSUME NEW s \in Session, W!Open(s)
      PROVE  (listed \cup W!Opening)' \subseteq listed \cup W!Opening \/ (\E z \in Session : W!Open(z))
  BY <1>1, BrowserAssumed
  DEF W!Open, W!Taken, W!pageVars, W!workflowVars, W!Opening, SessionsHold,
      W!BrowserTypeOK
<1>2. ASSUME NEW s \in Session, W!Launch(s)
      PROVE  (listed \cup W!Opening)' \subseteq listed \cup W!Opening \/ (\E z \in Session : W!Open(z))
  BY <1>2, BrowserAssumed
  DEF W!Launch, W!pageVars, W!workflowVars, SessionsHold, W!BrowserTypeOK, W!Opening
<1>3. ASSUME NEW s \in Session, W!Load(s)
      PROVE  (listed \cup W!Opening)' \subseteq listed \cup W!Opening \/ (\E z \in Session : W!Open(z))
  BY <1>3, BrowserAssumed
  DEF W!Load, W!pageVars, W!workflowVars, SessionsHold, W!BrowserTypeOK, W!Opening
<1>4. ASSUME NEW s \in Session, W!Loaded(s)
      PROVE  (listed \cup W!Opening)' \subseteq listed \cup W!Opening \/ (\E z \in Session : W!Open(z))
  BY <1>4, BrowserAssumed
  DEF W!Loaded, W!workflowVars, SessionsHold, W!BrowserTypeOK, W!Opening
<1>5. ASSUME NEW s \in Session, W!OpenFails(s)
      PROVE  (listed \cup W!Opening)' \subseteq listed \cup W!Opening \/ (\E z \in Session : W!Open(z))
  BY <1>5, BrowserAssumed
  DEF W!OpenFails, W!pageVars, W!workflowVars, SessionsHold, W!BrowserTypeOK,
      W!Opening
<1>6. ASSUME NEW s \in Session, W!OpenFailed(s)
      PROVE  (listed \cup W!Opening)' \subseteq listed \cup W!Opening \/ (\E z \in Session : W!Open(z))
  BY <1>6, BrowserAssumed
  DEF W!OpenFailed, W!pageVars, W!workflowVars, SessionsHold, W!BrowserTypeOK,
      W!Opening
<1>7. ASSUME NEW s \in Session, W!End(s)
      PROVE  (listed \cup W!Opening)' \subseteq listed \cup W!Opening \/ (\E z \in Session : W!Open(z))
  BY <1>7, BrowserAssumed
  DEF W!End, W!pageVars, W!workflowVars, SessionsHold, W!BrowserTypeOK, W!Opening
<1>8. ASSUME NEW s \in Session, W!Ended(s)
      PROVE  (listed \cup W!Opening)' \subseteq listed \cup W!Opening \/ (\E z \in Session : W!Open(z))
  BY <1>8, BrowserAssumed
  DEF W!Ended, W!pageVars, W!workflowVars, SessionsHold, W!BrowserTypeOK, W!Opening
<1>9. ASSUME NEW s \in Session, W!Deadline(s)
      PROVE  (listed \cup W!Opening)' \subseteq listed \cup W!Opening \/ (\E z \in Session : W!Open(z))
  BY <1>9, BrowserAssumed
  DEF W!Deadline, W!pageVars, W!workflowVars, SessionsHold, W!BrowserTypeOK,
      W!Opening
<1>10. ASSUME NEW s \in Session, W!Observe(s)
      PROVE  (listed \cup W!Opening)' \subseteq listed \cup W!Opening \/ (\E z \in Session : W!Open(z))
  BY <1>10, BrowserAssumed
  DEF W!Observe, W!Free, W!By, W!sessionVars, W!workflowVars, SessionsHold,
      W!BrowserTypeOK, W!Opening
<1>11. ASSUME NEW s \in Session, W!Send(s)
      PROVE  (listed \cup W!Opening)' \subseteq listed \cup W!Opening \/ (\E z \in Session : W!Open(z))
  BY <1>11, BrowserAssumed
  DEF W!Send, W!Spent, W!sessionVars, SessionsHold, W!BrowserTypeOK, W!Opening
<1>12. ASSUME NEW s \in Session, W!CheckFails(s)
      PROVE  (listed \cup W!Opening)' \subseteq listed \cup W!Opening \/ (\E z \in Session : W!Open(z))
  BY <1>12, BrowserAssumed
  DEF W!CheckFails, W!sessionVars, SessionsHold, W!BrowserTypeOK, W!Opening
<1>13. ASSUME NEW s \in Session, W!Sent(s)
      PROVE  (listed \cup W!Opening)' \subseteq listed \cup W!Opening \/ (\E z \in Session : W!Open(z))
  BY <1>13, BrowserAssumed
  DEF W!Sent, W!sessionVars, W!workflowVars, SessionsHold, W!BrowserTypeOK,
      W!Opening
<1>14. ASSUME NEW s \in Session, W!ActFails(s)
      PROVE  (listed \cup W!Opening)' \subseteq listed \cup W!Opening \/ (\E z \in Session : W!Open(z))
  BY <1>14, BrowserAssumed
  DEF W!ActFails, W!Reviewed, W!sessionVars, SessionsHold, W!BrowserTypeOK,
      W!Opening
<1>15. ASSUME NEW s \in Session, W!ObserveFails(s)
      PROVE  (listed \cup W!Opening)' \subseteq listed \cup W!Opening \/ (\E z \in Session : W!Open(z))
  BY <1>15, BrowserAssumed
  DEF W!ObserveFails, W!Reviewed, W!sessionVars, SessionsHold, W!BrowserTypeOK,
      W!Opening
<1>16. ASSUME NEW s \in Session, W!Captured(s)
      PROVE  (listed \cup W!Opening)' \subseteq listed \cup W!Opening \/ (\E z \in Session : W!Open(z))
  BY <1>16, BrowserAssumed
  DEF W!Captured, W!After, W!sessionVars, SessionsHold, W!BrowserTypeOK, W!Opening
<1>17. ASSUME NEW s \in Session, NEW o \in 1 .. MaxObservations, W!Act(s, o)
      PROVE  (listed \cup W!Opening)' \subseteq listed \cup W!Opening \/ (\E z \in Session : W!Open(z))
  BY <1>17, BrowserAssumed
  DEF W!Act, W!Free, W!By, W!sessionVars, W!workflowVars, SessionsHold,
      W!BrowserTypeOK, W!Opening
<1>18. ASSUME NEW r \in Run, NEW s \in Session, W!StartRun(r, s)
      PROVE  (listed \cup W!Opening)' \subseteq listed \cup W!Opening \/ (\E z \in Session : W!Open(z))
  BY <1>18, BrowserAssumed
  DEF W!StartRun, W!sessionVars, W!pageVars, SessionsHold, W!BrowserTypeOK,
      W!Opening
<1>19. ASSUME NEW r \in Run, W!Inspect(r)
      PROVE  (listed \cup W!Opening)' \subseteq listed \cup W!Opening \/ (\E z \in Session : W!Open(z))
  BY <1>19, BrowserAssumed
  DEF W!Inspect, W!Free, W!By, W!sessionVars, W!workflowVars, SessionsHold,
      W!BrowserTypeOK, W!Opening
<1>20. ASSUME NEW r \in Run, W!AfterUnseen(r)
      PROVE  (listed \cup W!Opening)' \subseteq listed \cup W!Opening \/ (\E s \in Session : W!Open(s))
  BY <1>20, BrowserAssumed
  DEF W!AfterUnseen, W!Free, W!Reviewed, W!sessionVars, W!pageVars, SessionsHold,
      W!BrowserTypeOK, W!Opening
<1>21. ASSUME NEW r \in Run, W!NextStep(r)
      PROVE  (listed \cup W!Opening)' \subseteq listed \cup W!Opening \/ (\E s \in Session : W!Open(s))
  BY <1>21, BrowserAssumed
  DEF W!NextStep, W!Free, W!By, W!sessionVars, SessionsHold, W!BrowserTypeOK,
      W!Opening
<1>22. ASSUME NEW r \in Run, W!Stop(r)
      PROVE  (listed \cup W!Opening)' \subseteq listed \cup W!Opening \/ (\E s \in Session : W!Open(s))
  BY <1>22, BrowserAssumed
  DEF W!Stop, W!sessionVars, W!pageVars, SessionsHold, W!BrowserTypeOK, W!Opening
<1>23. ASSUME W!Close
      PROVE  (listed \cup W!Opening)' \subseteq listed \cup W!Opening \/ (\E s \in Session : W!Open(s))
  BY <1>23, BrowserAssumed
  DEF W!Close, W!pageVars, W!workflowVars, SessionsHold, W!BrowserTypeOK, W!Opening
<1>24. ASSUME W!Closed
      PROVE  (listed \cup W!Opening)' \subseteq listed \cup W!Opening \/ (\E s \in Session : W!Open(s))
  BY <1>24, BrowserAssumed
  DEF W!Closed, W!pageVars, W!workflowVars, SessionsHold, W!BrowserTypeOK, W!Opening
<1>u. ASSUME UNCHANGED W!browserVars
      PROVE  (listed \cup W!Opening)' \subseteq listed \cup W!Opening \/ (\E s \in Session : W!Open(s))
  BY <1>u
  DEF SessionsHold, W!BrowserTypeOK, W!Opening, W!browserVars, W!sessionVars,
      W!pageVars, W!workflowVars
<1>. QED
  BY <1>1, <1>2, <1>3, <1>4, <1>5, <1>6, <1>7, <1>8, <1>9, <1>10, <1>11, <1>12,
     <1>13, <1>14, <1>15, <1>16, <1>17, <1>18, <1>19, <1>20, <1>21, <1>22, <1>23,
     <1>24, <1>u
  DEF W!BrowserNext

\* There is a place for every session that is listed or opening.
LEMMA BrowserRoom ==
    ASSUME W!BrowserTypeOK, SessionsHold, [W!BrowserNext]_(W!browserVars)
    PROVE  W!WithinLimit'
<1>1. IsFiniteSet(listed) /\ IsFiniteSet(W!Opening) /\ IsFiniteSet(listed \cup W!Opening)
  BY BrowserAssumed, FS_Subset DEF W!BrowserTypeOK, W!Opening
<1>2. CASE (listed \cup W!Opening)' \subseteq listed \cup W!Opening
  <2>1. Cardinality((listed \cup W!Opening)') <= Cardinality(listed \cup W!Opening)
        /\ Cardinality((listed \cup W!Opening)') \in Nat
        /\ Cardinality(listed \cup W!Opening) \in Nat
    BY <1>1, <1>2, FS_Subset, FS_CardinalityType
  <2>. QED
    BY <2>1, BrowserAssumed, BrowserCardinality DEF SessionsHold, W!WithinLimit
<1>3. CASE \E s \in Session : W!Open(s)
  <2>1. PICK s \in Session : W!Open(s)
    BY <1>3
  <2>2. (listed \cup W!Opening)' = (listed \cup W!Opening) \cup {s}
    BY <2>1 DEF W!Open, W!Opening, W!BrowserTypeOK
  <2>3. Cardinality((listed \cup W!Opening)') <= Cardinality(listed) + Cardinality(W!Opening) + 1
    BY <1>1, <2>2, OneMore
  <2>4. Cardinality(listed) + Cardinality(W!Opening) < SessionLimit
    BY <2>1, BrowserCardinality DEF W!Open, W!Taken
  <2>5. IsFiniteSet((listed \cup W!Opening)')
    BY <1>1, <2>2, FS_AddElement
  <2>. QED
    BY <1>1, <2>3, <2>4, <2>5, BrowserAssumed, BrowserCardinality, FS_CardinalityType
    DEF W!WithinLimit
<1>. QED
  BY <1>2, <1>3, PlaceStep

LEMMA BrowserSound ==
    /\ W!BrowserInit => W!BrowserTypeOK /\ PagesHold /\ RunsHold /\ SessionsHold
    /\ W!BrowserTypeOK /\ PagesHold /\ RunsHold /\ SessionsHold /\ [W!BrowserNext]_(W!browserVars)
          => (W!BrowserTypeOK /\ PagesHold /\ RunsHold /\ SessionsHold)'
<1>1. ASSUME W!BrowserInit
      PROVE  W!BrowserTypeOK /\ PagesHold /\ RunsHold /\ SessionsHold
  <2>1. listed \cup W!Opening = {} /\ Cardinality({}) = 0
    BY <1>1, FS_EmptySet DEF W!BrowserInit, W!Opening
  <2>2. W!WithinLimit
    BY <2>1, BrowserAssumed, BrowserCardinality DEF W!WithinLimit
  <2>3. W!NoStrayBrowser
    BY <1>1 DEF W!BrowserInit, W!NoStrayBrowser
  <2>4. W!BrowserTypeOK
    BY <1>1, BrowserAssumed DEF W!BrowserInit, W!BrowserTypeOK
  <2>5. PagesHold /\ RunsHold
    BY <1>1, BrowserAssumed DEF W!BrowserInit, PagesHold, RunsHold
  <2>. QED
    BY <1>1, <2>2, <2>3, <2>4, <2>5 DEF W!BrowserInit, SessionsHold
<1>2. ASSUME W!BrowserTypeOK, PagesHold, RunsHold, SessionsHold, [W!BrowserNext]_(W!browserVars)
      PROVE (W!BrowserTypeOK /\ PagesHold /\ RunsHold /\ SessionsHold)'
  BY <1>2, BrowserTypeStep, PagesStep, RunsStep, StrayStep, BrowserRoom
  DEF SessionsHold
<1>. QED
  BY <1>1, <1>2

-----------------------------------------------------------------------------
(* Open media.                                                             *)

\* The sources that were begun: the cache is accounted for no more.
Touched == {s \in Source : media[s] # "none"}
MediaHolds ==
    /\ bytes <= Cardinality(Touched)
    /\ M!MediaKept

LEMMA MediaAssumed == IsFiniteSet(Source) /\ SourceLimit \in Nat /\ MaxClosers \in Nat
BY Assumed DEF M!MediaAssumption, M!IsFiniteSet, IsFiniteSet

LEMMA MediaCardinality == ASSUME NEW S PROVE M!Cardinality(S) = Cardinality(S)
BY DEF M!Cardinality, Cardinality

LEMMA TouchedFinite ==
    /\ IsFiniteSet(Touched) /\ Cardinality(Touched) \in Nat
    /\ Cardinality(Touched) <= Cardinality(Source)
BY MediaAssumed, FS_Subset, FS_CardinalityType DEF Touched

LEMMA BytesNatural == ASSUME M!MediaTypeOK PROVE bytes \in Nat
BY MediaAssumed, MediaCardinality, FS_CardinalityType DEF M!MediaTypeOK

LEMMA TouchedGrows ==
    ASSUME Touched \subseteq Touched'
    PROVE  /\ Cardinality(Touched) \in Nat /\ Cardinality(Touched') \in Nat
           /\ Cardinality(Touched) <= Cardinality(Touched')
<1>1. IsFiniteSet(Touched')
  BY MediaAssumed, FS_Subset DEF Touched
<1>. QED
  BY <1>1, FS_Subset, FS_CardinalityType

\* A source that was begun stays begun.
LEMMA TouchedStep ==
    ASSUME M!MediaTypeOK, [M!MediaNext]_(M!mediaVars)
    PROVE  Touched \subseteq Touched'
<1>1. ASSUME NEW s \in Source, M!Open(s) PROVE Touched \subseteq Touched'
  BY <1>1, MediaAssumed DEF M!Open, M!InUse, M!Copying, M!MediaTypeOK, Touched
<1>2. ASSUME NEW s \in Source, M!CopyFails(s) PROVE Touched \subseteq Touched'
  BY <1>2, MediaAssumed DEF M!CopyFails, M!Released, M!MediaTypeOK, Touched
<1>3. ASSUME NEW s \in Source, M!Copied(s) PROVE Touched \subseteq Touched'
  BY <1>3, MediaAssumed DEF M!Copied, M!MediaTypeOK, Touched
<1>4. ASSUME NEW s \in Source, M!Opened(s) PROVE Touched \subseteq Touched'
  BY <1>4, MediaAssumed DEF M!Opened, M!MediaTypeOK, Touched
<1>5. ASSUME NEW s \in Source, M!OpenFails(s) PROVE Touched \subseteq Touched'
  BY <1>5, MediaAssumed DEF M!OpenFails, M!Released, M!MediaTypeOK, Touched
<1>6. ASSUME NEW s \in Source, M!Exit(s) PROVE Touched \subseteq Touched'
  BY <1>6, MediaAssumed DEF M!Exit, M!MediaTypeOK, Touched
<1>7. ASSUME NEW s \in Source, M!Report(s) PROVE Touched \subseteq Touched'
  BY <1>7, MediaAssumed DEF M!Report, M!MediaTypeOK, Touched
<1>8. ASSUME NEW s \in Source, M!Extract(s) PROVE Touched \subseteq Touched'
  BY <1>8, MediaAssumed DEF M!Extract, M!MediaTypeOK, Touched
<1>9. ASSUME NEW s \in Source, M!CloseSource(s) PROVE Touched \subseteq Touched'
  BY <1>9, MediaAssumed DEF M!CloseSource, M!MediaTypeOK, Touched
<1>10. ASSUME NEW s \in Source, M!CloseDone(s) PROVE Touched \subseteq Touched'
  BY <1>10, MediaAssumed DEF M!CloseDone, M!Gone, M!Released, M!MediaTypeOK, Touched
<1>11. ASSUME NEW s \in Source, M!Sweep(s) PROVE Touched \subseteq Touched'
  BY <1>11, MediaAssumed DEF M!Sweep, M!MediaTypeOK, Touched
<1>12. ASSUME NEW s \in Source, M!Swept(s) PROVE Touched \subseteq Touched'
  BY <1>12, MediaAssumed DEF M!Swept, M!Gone, M!Released, M!MediaTypeOK, Touched
<1>13. ASSUME NEW s \in Source, M!SweepJob(s) PROVE Touched \subseteq Touched'
  BY <1>13, MediaAssumed DEF M!SweepJob, M!MediaTypeOK, Touched
<1>14. ASSUME M!Close PROVE Touched \subseteq Touched'
  BY <1>14, MediaAssumed DEF M!Close, M!MediaTypeOK, Touched
<1>15. ASSUME M!Closed PROVE Touched \subseteq Touched'
  BY <1>15, MediaAssumed DEF M!Closed, M!MediaTypeOK, Touched
<1>u. ASSUME UNCHANGED M!mediaVars PROVE Touched \subseteq Touched'
  BY <1>u DEF M!MediaTypeOK, Touched, M!mediaVars
<1>. QED
  BY <1>1, <1>2, <1>3, <1>4, <1>5, <1>6, <1>7, <1>8, <1>9, <1>10, <1>11, <1>12,
     <1>13, <1>14, <1>15, <1>u
  DEF M!MediaNext

\* Only open() takes room.
LEMMA RoomStep ==
    ASSUME M!MediaTypeOK, [M!MediaNext]_(M!mediaVars)
    PROVE  (listedMedia \cup M!Copying)' \subseteq listedMedia \cup M!Copying \/ (\E z \in Source : M!Open(z))
<1>1. ASSUME NEW s \in Source, M!Open(s)
      PROVE  (listedMedia \cup M!Copying)' \subseteq listedMedia \cup M!Copying \/ (\E z \in Source : M!Open(z))
  BY <1>1, MediaAssumed DEF M!Open, M!InUse, M!Copying, M!MediaTypeOK
<1>2. ASSUME NEW s \in Source, M!CopyFails(s)
      PROVE  (listedMedia \cup M!Copying)' \subseteq listedMedia \cup M!Copying \/ (\E z \in Source : M!Open(z))
  BY <1>2, MediaAssumed DEF M!CopyFails, M!Released, M!MediaTypeOK, M!Copying
<1>3. ASSUME NEW s \in Source, M!Copied(s)
      PROVE  (listedMedia \cup M!Copying)' \subseteq listedMedia \cup M!Copying \/ (\E z \in Source : M!Open(z))
  BY <1>3, MediaAssumed DEF M!Copied, M!MediaTypeOK, M!Copying
<1>4. ASSUME NEW s \in Source, M!Opened(s)
      PROVE  (listedMedia \cup M!Copying)' \subseteq listedMedia \cup M!Copying \/ (\E z \in Source : M!Open(z))
  BY <1>4, MediaAssumed DEF M!Opened, M!MediaTypeOK, M!Copying
<1>5. ASSUME NEW s \in Source, M!OpenFails(s)
      PROVE  (listedMedia \cup M!Copying)' \subseteq listedMedia \cup M!Copying \/ (\E z \in Source : M!Open(z))
  BY <1>5, MediaAssumed DEF M!OpenFails, M!Released, M!MediaTypeOK, M!Copying
<1>6. ASSUME NEW s \in Source, M!Exit(s)
      PROVE  (listedMedia \cup M!Copying)' \subseteq listedMedia \cup M!Copying \/ (\E z \in Source : M!Open(z))
  BY <1>6, MediaAssumed DEF M!Exit, M!MediaTypeOK, M!Copying
<1>7. ASSUME NEW s \in Source, M!Report(s)
      PROVE  (listedMedia \cup M!Copying)' \subseteq listedMedia \cup M!Copying \/ (\E z \in Source : M!Open(z))
  BY <1>7, MediaAssumed DEF M!Report, M!MediaTypeOK, M!Copying
<1>8. ASSUME NEW s \in Source, M!Extract(s)
      PROVE  (listedMedia \cup M!Copying)' \subseteq listedMedia \cup M!Copying \/ (\E z \in Source : M!Open(z))
  BY <1>8, MediaAssumed DEF M!Extract, M!MediaTypeOK, M!Copying
<1>9. ASSUME NEW s \in Source, M!CloseSource(s)
      PROVE  (listedMedia \cup M!Copying)' \subseteq listedMedia \cup M!Copying \/ (\E z \in Source : M!Open(z))
  BY <1>9, MediaAssumed DEF M!CloseSource, M!MediaTypeOK, M!Copying
<1>10. ASSUME NEW s \in Source, M!CloseDone(s)
      PROVE  (listedMedia \cup M!Copying)' \subseteq listedMedia \cup M!Copying \/ (\E z \in Source : M!Open(z))
  BY <1>10, MediaAssumed DEF M!CloseDone, M!Gone, M!Released, M!MediaTypeOK, M!Copying
<1>11. ASSUME NEW s \in Source, M!Sweep(s)
      PROVE  (listedMedia \cup M!Copying)' \subseteq listedMedia \cup M!Copying \/ (\E z \in Source : M!Open(z))
  BY <1>11, MediaAssumed DEF M!Sweep, M!MediaTypeOK, M!Copying
<1>12. ASSUME NEW s \in Source, M!Swept(s)
      PROVE  (listedMedia \cup M!Copying)' \subseteq listedMedia \cup M!Copying \/ (\E z \in Source : M!Open(z))
  BY <1>12, MediaAssumed DEF M!Swept, M!Gone, M!Released, M!MediaTypeOK, M!Copying
<1>13. ASSUME NEW s \in Source, M!SweepJob(s)
      PROVE  (listedMedia \cup M!Copying)' \subseteq listedMedia \cup M!Copying \/ (\E z \in Source : M!Open(z))
  BY <1>13, MediaAssumed DEF M!SweepJob, M!MediaTypeOK, M!Copying
<1>14. ASSUME M!Close
      PROVE  (listedMedia \cup M!Copying)' \subseteq listedMedia \cup M!Copying \/ (\E z \in Source : M!Open(z))
  BY <1>14, MediaAssumed DEF M!Close, M!MediaTypeOK, M!Copying
<1>15. ASSUME M!Closed
      PROVE  (listedMedia \cup M!Copying)' \subseteq listedMedia \cup M!Copying \/ (\E z \in Source : M!Open(z))
  BY <1>15, MediaAssumed DEF M!Closed, M!MediaTypeOK, M!Copying
<1>u. ASSUME UNCHANGED M!mediaVars
      PROVE  (listedMedia \cup M!Copying)' \subseteq listedMedia \cup M!Copying \/ (\E z \in Source : M!Open(z))
  BY <1>u DEF M!MediaTypeOK, M!Copying, M!mediaVars
<1>. QED
  BY <1>1, <1>2, <1>3, <1>4, <1>5, <1>6, <1>7, <1>8, <1>9, <1>10, <1>11, <1>12,
     <1>13, <1>14, <1>15, <1>u
  DEF M!MediaNext

\* What the cache is accounted for was begun.
LEMMA BytesStep ==
    ASSUME M!MediaTypeOK, MediaHolds, [M!MediaNext]_(M!mediaVars)
    PROVE  bytes' \in Nat /\ bytes' <= Cardinality(Touched')
<1>1. ASSUME NEW s \in Source, M!Open(s)
      PROVE  bytes' \in Nat /\ bytes' <= Cardinality(Touched')
  <2>1. Touched' = Touched \cup {s} /\ s \notin Touched /\ bytes' = bytes + 1
    BY <1>1 DEF M!Open, M!MediaTypeOK, Touched
  <2>2. Cardinality(Touched') = Cardinality(Touched) + 1
    BY <2>1, TouchedFinite, FS_AddElement
  <2>. QED
    BY <2>1, <2>2, TouchedFinite DEF MediaHolds, M!MediaTypeOK
<1>2. ASSUME NEW s \in Source, M!CopyFails(s)
      PROVE  bytes' \in Nat /\ bytes' <= Cardinality(Touched')
  <2>1. bytes' \in Nat /\ bytes' <= bytes
    BY <1>2, BytesNatural DEF M!CopyFails, M!Released
  <2>. QED
    BY <2>1, TouchedStep, TouchedGrows, BytesNatural DEF MediaHolds
<1>3. ASSUME NEW s \in Source, M!Copied(s)
      PROVE  bytes' \in Nat /\ bytes' <= Cardinality(Touched')
  <2>1. bytes' \in Nat /\ bytes' <= bytes
    BY <1>3, BytesNatural DEF M!Copied, M!Released
  <2>. QED
    BY <2>1, TouchedStep, TouchedGrows, BytesNatural DEF MediaHolds
<1>4. ASSUME NEW s \in Source, M!Opened(s)
      PROVE  bytes' \in Nat /\ bytes' <= Cardinality(Touched')
  <2>1. bytes' \in Nat /\ bytes' <= bytes
    BY <1>4, BytesNatural DEF M!Opened, M!Released
  <2>. QED
    BY <2>1, TouchedStep, TouchedGrows, BytesNatural DEF MediaHolds
<1>5. ASSUME NEW s \in Source, M!OpenFails(s)
      PROVE  bytes' \in Nat /\ bytes' <= Cardinality(Touched')
  <2>1. bytes' \in Nat /\ bytes' <= bytes
    BY <1>5, BytesNatural DEF M!OpenFails, M!Released
  <2>. QED
    BY <2>1, TouchedStep, TouchedGrows, BytesNatural DEF MediaHolds
<1>6. ASSUME NEW s \in Source, M!Exit(s)
      PROVE  bytes' \in Nat /\ bytes' <= Cardinality(Touched')
  <2>1. bytes' \in Nat /\ bytes' <= bytes
    BY <1>6, BytesNatural DEF M!Exit, M!Released
  <2>. QED
    BY <2>1, TouchedStep, TouchedGrows, BytesNatural DEF MediaHolds
<1>7. ASSUME NEW s \in Source, M!Report(s)
      PROVE  bytes' \in Nat /\ bytes' <= Cardinality(Touched')
  <2>1. bytes' \in Nat /\ bytes' <= bytes
    BY <1>7, BytesNatural DEF M!Report, M!Released
  <2>. QED
    BY <2>1, TouchedStep, TouchedGrows, BytesNatural DEF MediaHolds
<1>8. ASSUME NEW s \in Source, M!Extract(s)
      PROVE  bytes' \in Nat /\ bytes' <= Cardinality(Touched')
  <2>1. bytes' \in Nat /\ bytes' <= bytes
    BY <1>8, BytesNatural DEF M!Extract, M!Released
  <2>. QED
    BY <2>1, TouchedStep, TouchedGrows, BytesNatural DEF MediaHolds
<1>9. ASSUME NEW s \in Source, M!CloseSource(s)
      PROVE  bytes' \in Nat /\ bytes' <= Cardinality(Touched')
  <2>1. bytes' \in Nat /\ bytes' <= bytes
    BY <1>9, BytesNatural DEF M!CloseSource, M!Released
  <2>. QED
    BY <2>1, TouchedStep, TouchedGrows, BytesNatural DEF MediaHolds
<1>10. ASSUME NEW s \in Source, M!CloseDone(s)
      PROVE  bytes' \in Nat /\ bytes' <= Cardinality(Touched')
  <2>1. bytes' \in Nat /\ bytes' <= bytes
    BY <1>10, BytesNatural DEF M!CloseDone, M!Released
  <2>. QED
    BY <2>1, TouchedStep, TouchedGrows, BytesNatural DEF MediaHolds
<1>11. ASSUME NEW s \in Source, M!Sweep(s)
      PROVE  bytes' \in Nat /\ bytes' <= Cardinality(Touched')
  <2>1. bytes' \in Nat /\ bytes' <= bytes
    BY <1>11, BytesNatural DEF M!Sweep, M!Released
  <2>. QED
    BY <2>1, TouchedStep, TouchedGrows, BytesNatural DEF MediaHolds
<1>12. ASSUME NEW s \in Source, M!Swept(s)
      PROVE  bytes' \in Nat /\ bytes' <= Cardinality(Touched')
  <2>1. bytes' \in Nat /\ bytes' <= bytes
    BY <1>12, BytesNatural DEF M!Swept, M!Released
  <2>. QED
    BY <2>1, TouchedStep, TouchedGrows, BytesNatural DEF MediaHolds
<1>13. ASSUME NEW s \in Source, M!SweepJob(s)
      PROVE  bytes' \in Nat /\ bytes' <= Cardinality(Touched')
  <2>1. bytes' \in Nat /\ bytes' <= bytes
    BY <1>13, BytesNatural DEF M!SweepJob, M!Released
  <2>. QED
    BY <2>1, TouchedStep, TouchedGrows, BytesNatural DEF MediaHolds
<1>14. ASSUME M!Close PROVE bytes' \in Nat /\ bytes' <= Cardinality(Touched')
  <2>1. bytes' \in Nat /\ bytes' <= bytes
    BY <1>14, BytesNatural DEF M!Close, M!Released
  <2>. QED
    BY <2>1, TouchedStep, TouchedGrows, BytesNatural DEF MediaHolds
<1>15. ASSUME M!Closed PROVE bytes' \in Nat /\ bytes' <= Cardinality(Touched')
  <2>1. bytes' \in Nat /\ bytes' <= bytes
    BY <1>15, BytesNatural DEF M!Closed, M!Released
  <2>. QED
    BY <2>1, TouchedStep, TouchedGrows, BytesNatural DEF MediaHolds
<1>u. ASSUME UNCHANGED M!mediaVars
      PROVE  bytes' \in Nat /\ bytes' <= Cardinality(Touched')
  BY <1>u, BytesNatural DEF M!mediaVars, MediaHolds, Touched
<1>. QED
  BY <1>1, <1>2, <1>3, <1>4, <1>5, <1>6, <1>7, <1>8, <1>9, <1>10, <1>11, <1>12,
     <1>13, <1>14, <1>15, <1>u
  DEF M!MediaNext

\* The other variables stay what they are.
LEMMA MediaTypeStep ==
    ASSUME M!MediaTypeOK, MediaHolds, bytes' \in 0 .. M!Cardinality(Source), [M!MediaNext]_(M!mediaVars)
    PROVE  M!MediaTypeOK'
<1>1. ASSUME NEW s \in Source, M!Open(s) PROVE M!MediaTypeOK'
  BY <1>1, MediaAssumed DEF M!Open, M!InUse, M!Copying, M!MediaTypeOK
<1>2. ASSUME NEW s \in Source, M!CopyFails(s) PROVE M!MediaTypeOK'
  BY <1>2, MediaAssumed DEF M!CopyFails, M!Released, M!MediaTypeOK
<1>3. ASSUME NEW s \in Source, M!Copied(s) PROVE M!MediaTypeOK'
  BY <1>3, MediaAssumed DEF M!Copied, M!MediaTypeOK
<1>4. ASSUME NEW s \in Source, M!Opened(s) PROVE M!MediaTypeOK'
  BY <1>4, MediaAssumed DEF M!Opened, M!MediaTypeOK
<1>5. ASSUME NEW s \in Source, M!OpenFails(s) PROVE M!MediaTypeOK'
  BY <1>5, MediaAssumed DEF M!OpenFails, M!Released, M!MediaTypeOK
<1>6. ASSUME NEW s \in Source, M!Exit(s) PROVE M!MediaTypeOK'
  BY <1>6, MediaAssumed DEF M!Exit, M!MediaTypeOK
<1>7. ASSUME NEW s \in Source, M!Report(s) PROVE M!MediaTypeOK'
  BY <1>7, MediaAssumed DEF M!Report, M!MediaTypeOK
<1>8. ASSUME NEW s \in Source, M!Extract(s) PROVE M!MediaTypeOK'
  BY <1>8, MediaAssumed DEF M!Extract, M!MediaTypeOK
<1>9. ASSUME NEW s \in Source, M!CloseSource(s) PROVE M!MediaTypeOK'
  BY <1>9, MediaAssumed DEF M!CloseSource, M!MediaTypeOK
<1>10. ASSUME NEW s \in Source, M!CloseDone(s) PROVE M!MediaTypeOK'
  BY <1>10, MediaAssumed DEF M!CloseDone, M!Gone, M!Released, M!MediaTypeOK
<1>11. ASSUME NEW s \in Source, M!Sweep(s) PROVE M!MediaTypeOK'
  BY <1>11, MediaAssumed DEF M!Sweep, M!MediaTypeOK
<1>12. ASSUME NEW s \in Source, M!Swept(s) PROVE M!MediaTypeOK'
  BY <1>12, MediaAssumed DEF M!Swept, M!Gone, M!Released, M!MediaTypeOK
<1>13. ASSUME NEW s \in Source, M!SweepJob(s) PROVE M!MediaTypeOK'
  BY <1>13, MediaAssumed DEF M!SweepJob, M!MediaTypeOK
<1>14. ASSUME M!Close PROVE M!MediaTypeOK'
  BY <1>14, MediaAssumed DEF M!Close, M!MediaTypeOK
<1>15. ASSUME M!Closed PROVE M!MediaTypeOK'
  BY <1>15, MediaAssumed DEF M!Closed, M!MediaTypeOK
<1>u. ASSUME UNCHANGED M!mediaVars PROVE M!MediaTypeOK'
  BY <1>u DEF M!MediaTypeOK, M!mediaVars
<1>. QED
  BY <1>1, <1>2, <1>3, <1>4, <1>5, <1>6, <1>7, <1>8, <1>9, <1>10, <1>11, <1>12,
     <1>13, <1>14, <1>15, <1>u
  DEF M!MediaNext

\* Directories stay with those that remove them.
LEMMA KeptStep ==
    ASSUME M!MediaTypeOK, MediaHolds, [M!MediaNext]_(M!mediaVars)
    PROVE  copies' \subseteq (listedMedia \cup M!Copying)' /\ results' \subseteq {v \in Source : job[v] \in {"running", "ended"}}'
<1>1. ASSUME NEW s \in Source, M!Open(s)
      PROVE  copies' \subseteq (listedMedia \cup M!Copying)' /\ results' \subseteq {v \in Source : job[v] \in {"running", "ended"}}'
  BY <1>1, MediaAssumed
  DEF M!Open, M!InUse, M!Copying, MediaHolds, M!MediaKept, M!MediaTypeOK
<1>2. ASSUME NEW s \in Source, M!CopyFails(s)
      PROVE  copies' \subseteq (listedMedia \cup M!Copying)' /\ results' \subseteq {v \in Source : job[v] \in {"running", "ended"}}'
  BY <1>2, MediaAssumed
  DEF M!CopyFails, M!Released, MediaHolds, M!MediaKept, M!Copying, M!MediaTypeOK
<1>3. ASSUME NEW s \in Source, M!Copied(s)
      PROVE  copies' \subseteq (listedMedia \cup M!Copying)' /\ results' \subseteq {v \in Source : job[v] \in {"running", "ended"}}'
  BY <1>3, MediaAssumed
  DEF M!Copied, MediaHolds, M!MediaKept, M!Copying, M!MediaTypeOK
<1>4. ASSUME NEW s \in Source, M!Opened(s)
      PROVE  copies' \subseteq (listedMedia \cup M!Copying)' /\ results' \subseteq {v \in Source : job[v] \in {"running", "ended"}}'
  BY <1>4, MediaAssumed
  DEF M!Opened, MediaHolds, M!MediaKept, M!Copying, M!MediaTypeOK
<1>5. ASSUME NEW s \in Source, M!OpenFails(s)
      PROVE  copies' \subseteq (listedMedia \cup M!Copying)' /\ results' \subseteq {v \in Source : job[v] \in {"running", "ended"}}'
  BY <1>5, MediaAssumed
  DEF M!OpenFails, M!Released, MediaHolds, M!MediaKept, M!Copying, M!MediaTypeOK
<1>6. ASSUME NEW s \in Source, M!Exit(s)
      PROVE  copies' \subseteq (listedMedia \cup M!Copying)' /\ results' \subseteq {v \in Source : job[v] \in {"running", "ended"}}'
  BY <1>6, MediaAssumed DEF M!Exit, MediaHolds, M!MediaKept, M!Copying, M!MediaTypeOK
<1>7. ASSUME NEW s \in Source, M!Report(s)
      PROVE  copies' \subseteq (listedMedia \cup M!Copying)' /\ results' \subseteq {v \in Source : job[v] \in {"running", "ended"}}'
  BY <1>7, MediaAssumed
  DEF M!Report, MediaHolds, M!MediaKept, M!Copying, M!MediaTypeOK
<1>8. ASSUME NEW s \in Source, M!Extract(s)
      PROVE  copies' \subseteq (listedMedia \cup M!Copying)' /\ results' \subseteq {v \in Source : job[v] \in {"running", "ended"}}'
  BY <1>8, MediaAssumed
  DEF M!Extract, MediaHolds, M!MediaKept, M!Copying, M!MediaTypeOK
<1>9. ASSUME NEW s \in Source, M!CloseSource(s)
      PROVE  copies' \subseteq (listedMedia \cup M!Copying)' /\ results' \subseteq {v \in Source : job[v] \in {"running", "ended"}}'
  BY <1>9, MediaAssumed
  DEF M!CloseSource, MediaHolds, M!MediaKept, M!Copying, M!MediaTypeOK
<1>10. ASSUME NEW s \in Source, M!CloseDone(s)
      PROVE  copies' \subseteq (listedMedia \cup M!Copying)' /\ results' \subseteq {v \in Source : job[v] \in {"running", "ended"}}'
  BY <1>10, MediaAssumed
  DEF M!CloseDone, M!Gone, M!Released, MediaHolds, M!MediaKept, M!Copying,
      M!MediaTypeOK
<1>11. ASSUME NEW s \in Source, M!Sweep(s)
      PROVE  copies' \subseteq (listedMedia \cup M!Copying)' /\ results' \subseteq {v \in Source : job[v] \in {"running", "ended"}}'
  BY <1>11, MediaAssumed
  DEF M!Sweep, MediaHolds, M!MediaKept, M!Copying, M!MediaTypeOK
<1>12. ASSUME NEW s \in Source, M!Swept(s)
      PROVE  copies' \subseteq (listedMedia \cup M!Copying)' /\ results' \subseteq {v \in Source : job[v] \in {"running", "ended"}}'
  BY <1>12, MediaAssumed
  DEF M!Swept, M!Gone, M!Released, MediaHolds, M!MediaKept, M!Copying, M!MediaTypeOK
<1>13. ASSUME NEW s \in Source, M!SweepJob(s)
      PROVE  copies' \subseteq (listedMedia \cup M!Copying)' /\ results' \subseteq {v \in Source : job[v] \in {"running", "ended"}}'
  BY <1>13, MediaAssumed
  DEF M!SweepJob, MediaHolds, M!MediaKept, M!Copying, M!MediaTypeOK
<1>14. ASSUME M!Close
      PROVE  copies' \subseteq (listedMedia \cup M!Copying)' /\ results' \subseteq {v \in Source : job[v] \in {"running", "ended"}}'
  BY <1>14, MediaAssumed
  DEF M!Close, MediaHolds, M!MediaKept, M!Copying, M!MediaTypeOK
<1>15. ASSUME M!Closed
      PROVE  copies' \subseteq (listedMedia \cup M!Copying)' /\ results' \subseteq {v \in Source : job[v] \in {"running", "ended"}}'
  BY <1>15, MediaAssumed
  DEF M!Closed, MediaHolds, M!MediaKept, M!Copying, M!MediaTypeOK
<1>u. ASSUME UNCHANGED M!mediaVars
      PROVE  copies' \subseteq (listedMedia \cup M!Copying)' /\ results' \subseteq {v \in Source : job[v] \in {"running", "ended"}}'
  BY <1>u DEF MediaHolds, M!MediaKept, M!Copying, M!MediaTypeOK, M!mediaVars
<1>. QED
  BY <1>1, <1>2, <1>3, <1>4, <1>5, <1>6, <1>7, <1>8, <1>9, <1>10, <1>11, <1>12,
     <1>13, <1>14, <1>15, <1>u
  DEF M!MediaNext

\* There is room for every source that is listed or copied.
LEMMA MediaRoom ==
    ASSUME M!MediaTypeOK, MediaHolds, [M!MediaNext]_(M!mediaVars)
    PROVE  Cardinality((listedMedia \cup M!Copying)') <= SourceLimit
<1>1. IsFiniteSet(listedMedia) /\ IsFiniteSet(M!Copying) /\ IsFiniteSet(listedMedia \cup M!Copying)
  BY MediaAssumed, FS_Subset DEF M!MediaTypeOK, M!Copying
<1>2. CASE (listedMedia \cup M!Copying)' \subseteq listedMedia \cup M!Copying
  <2>1. Cardinality((listedMedia \cup M!Copying)') <= Cardinality(listedMedia \cup M!Copying)
        /\ Cardinality((listedMedia \cup M!Copying)') \in Nat
        /\ Cardinality(listedMedia \cup M!Copying) \in Nat
    BY <1>1, <1>2, FS_Subset, FS_CardinalityType
  <2>. QED
    BY <2>1, MediaAssumed, MediaCardinality DEF MediaHolds, M!MediaKept
<1>3. CASE \E s \in Source : M!Open(s)
  <2>1. PICK s \in Source : M!Open(s)
    BY <1>3
  <2>2. (listedMedia \cup M!Copying)' = (listedMedia \cup M!Copying) \cup {s}
    BY <2>1 DEF M!Open, M!Copying, M!MediaTypeOK
  <2>3. Cardinality(listedMedia \cup M!Copying) <= Cardinality(listedMedia) + Cardinality(M!Copying)
    <3>1. /\ Cardinality(listedMedia \cup M!Copying) =
               Cardinality(listedMedia) + Cardinality(M!Copying) - Cardinality(listedMedia \cap M!Copying)
          /\ Cardinality(listedMedia \cap M!Copying) \in Nat
      BY <1>1, FS_Union, FS_Intersection, FS_CardinalityType
    <3>. QED
      BY <1>1, <3>1, FS_CardinalityType
  <2>4. Cardinality((listedMedia \cup M!Copying)') <= Cardinality(listedMedia \cup M!Copying) + 1
    <3> DEFINE X == listedMedia \cup M!Copying
    <3>1. Cardinality(X) \in Nat
      BY <1>1, FS_CardinalityType
    <3>2. IsFiniteSet(X)
      BY <1>1
    <3>3. Cardinality(X \cup {s}) <= Cardinality(X) + 1
      <4> HIDE DEF X
      <4>1. Cardinality(X \cup {s}) = IF s \in X THEN Cardinality(X) ELSE Cardinality(X) + 1
        BY <3>2, FS_AddElement
      <4>. QED
        BY <3>1, <4>1
    <3>. QED
      BY <2>2, <3>3
  <2>5. Cardinality(listedMedia) + Cardinality(M!Copying) < SourceLimit
    BY <2>1, MediaCardinality DEF M!Open, M!InUse
  <2>6. IsFiniteSet((listedMedia \cup M!Copying)')
    BY <1>1, <2>2, FS_AddElement
  <2>. QED
    BY <1>1, <2>3, <2>4, <2>5, <2>6, MediaAssumed, FS_CardinalityType
<1>. QED
  BY <1>2, <1>3, RoomStep

LEMMA MediaSound ==
    /\ M!MediaInit => M!MediaTypeOK /\ MediaHolds
    /\ M!MediaTypeOK /\ MediaHolds /\ [M!MediaNext]_(M!mediaVars) => (M!MediaTypeOK /\ MediaHolds)'
<1>1. ASSUME M!MediaInit PROVE M!MediaTypeOK /\ MediaHolds
  <2>1. Touched = {} /\ listedMedia \cup M!Copying = {}
    BY <1>1 DEF M!MediaInit, Touched, M!Copying
  <2>2. Cardinality({}) = 0
    BY FS_EmptySet
  <2>. QED
    BY <1>1, <2>1, <2>2, MediaAssumed, MediaCardinality, FS_CardinalityType
    DEF M!MediaInit, M!MediaTypeOK, MediaHolds, M!MediaKept
<1>2. ASSUME M!MediaTypeOK, MediaHolds, [M!MediaNext]_(M!mediaVars)
      PROVE (M!MediaTypeOK /\ MediaHolds)'
  <2>1. bytes' \in Nat /\ bytes' <= Cardinality(Touched')
    BY <1>2, BytesStep
  <2>2. /\ Cardinality(Touched') <= Cardinality(Source)
        /\ Cardinality(Touched') \in Nat /\ Cardinality(Source) \in Nat
    BY MediaAssumed, FS_Subset, FS_CardinalityType DEF Touched
  <2>3. bytes' \in 0 .. M!Cardinality(Source)
    BY <2>1, <2>2, MediaCardinality
  <2>4. M!MediaTypeOK'
    BY <1>2, <2>3, MediaTypeStep
  <2>. QED
    BY <1>2, <2>1, <2>4, KeptStep, MediaRoom, MediaCardinality
    DEF MediaHolds, M!MediaKept
<1>. QED
  BY <1>1, <1>2

-----------------------------------------------------------------------------
(* What a job writes, and what is said of it.                                *)

\* Of one spool: the segments lie behind one another, each no longer than what was
\* written to it while it was not full, and so the oldest is not much beyond what the
\* limit made the spool drop.
SpoolHolds(total, segs, first, last) ==
    /\ segs = {} => total = 0 /\ first = 0
    /\ segs # {} => /\ first \in segs /\ last \in segs
                    /\ \A s \in segs : first <= s /\ s <= last
                    /\ last < total /\ total < last + Segment + Chunk
    /\ \A s \in segs : s = first \/ (\E p \in segs : p < s /\ s < p + Segment + Chunk)
    /\ total <= first + Keep
    /\ first = 0 \/ first + Page < total

\* Of an answer, with whether the job is live, its status and how much it wrote.
AnswerHolds(a, live, status, total) ==
    /\ a.exited => ~live /\ status \notin {"none", "running"}
    /\ a.exited /\ a.part # "gone" => a.bytes = total
    /\ a.part = "all" => {b \in Lead \cap J!Byte : b < a.bytes} \subseteq a.text
    /\ a.part = "raw" => a.exited /\ a.text = {b \in J!Byte : b < total}

\* Statuses and processes agree, and whoever waits knows who of its jobs has ended.
JobsKnown ==
    /\ \A j \in Job : jobStatus[j] = "running" => j \in alive
    /\ \A j \in alive : jobStatus[j] \in {"running", "stopped"}
    /\ \A c \in Waiter : waiting[c] # "idle" =>
          \A j \in mine[c] : jobStatus[j] # "none"
    /\ \A c \in Waiter : waiting[c] # "idle" => woken[c] \subseteq mine[c] /\ woken[c] \cap alive = {}
    /\ \A c \in Waiter : waiting[c] = "waiting" => mine[c] \ woken[c] \subseteq alive

OutputHolds ==
    /\ JobsKnown
    /\ \A j \in Job : SpoolHolds(spooled[j], segments[j], oldest[j], newest[j])
    /\ J!PagesComplete
    /\ \A c \in Waiter, j \in Job : replies[c][j] # None =>
          AnswerHolds(replies[c][j], j \in alive, jobStatus[j], spooled[j])

LEMMA OutputAssumed ==
    /\ Slots \in Nat /\ MaxBytes \in Nat /\ Total \in Nat /\ Keep \in Nat
    /\ Segment \in Nat \ {0} /\ Chunk \in Nat \ {0} /\ Page \in Nat \ {0}
    /\ Segment + Chunk + Page <= Keep
    /\ None \notin Job
BY Assumed DEF J!JobOutputAssumption

\* A spool that took n more bytes, as many as `sum` in all, and dropped what it must.
SpoolStep(total, segs, first, last, n, sum, cur, kept, low) ==
    /\ total \in Nat /\ segs \subseteq Nat /\ first \in Nat /\ last \in Nat
    /\ n \in 1 .. Chunk /\ sum = total + n
    /\ SpoolHolds(total, segs, first, last)
    /\ cur = IF segs # {} /\ total < last + Segment THEN last ELSE total
    /\ kept = {s \in segs \cup {cur} : s = cur \/ sum <= s + Keep}
    /\ low \in kept /\ \A s \in kept : low <= s

LEMMA SpoolTakes ==
    ASSUME NEW total, NEW segs, NEW first, NEW last, NEW n, NEW sum, NEW cur, NEW kept, NEW low,
           SpoolStep(total, segs, first, last, n, sum, cur, kept, low)
    PROVE  SpoolHolds(sum, kept, low, cur) /\ first <= low
<1>0. /\ total \in Nat /\ segs \subseteq Nat /\ first \in Nat /\ last \in Nat
      /\ n \in 1 .. Chunk /\ sum = total + n
      /\ SpoolHolds(total, segs, first, last)
      /\ cur = IF segs # {} /\ total < last + Segment THEN last ELSE total
      /\ kept = {s \in segs \cup {cur} : s = cur \/ total + n <= s + Keep}
      /\ low \in kept /\ \A s \in kept : low <= s
  BY DEF SpoolStep
<1>1. /\ cur \in Nat /\ cur <= total /\ total < cur + Segment
      /\ \A s \in segs : s <= cur
      /\ cur \in kept
  BY <1>0, OutputAssumed DEF SpoolHolds
<1>2. first <= low
  BY <1>0, <1>1 DEF SpoolHolds
<1>3. /\ \A s \in kept : low <= s /\ s <= cur
      /\ cur < total + n /\ total + n < cur + Segment + Chunk
  BY <1>0, <1>1, OutputAssumed
<1>4. ASSUME NEW s \in kept, s # low
      PROVE  \E p \in kept : p < s /\ s < p + Segment + Chunk
  <2>1. s \in Nat /\ low \in Nat /\ low < s /\ s <= cur
    BY <1>0, <1>1, <1>3, <1>4
  <2>2. low \in segs /\ total + n <= low + Keep
    BY <1>0, <1>1, <2>1
  <2>3. CASE s \in segs
    <3>1. s # first
      BY <1>0, <1>2, <2>1
    <3>2. PICK p \in segs : p < s /\ s < p + Segment + Chunk
      BY <1>0, <2>3, <3>1 DEF SpoolHolds
    <3>3. CASE p \in kept
      BY <1>0, <3>2, <3>3
    <3>4. CASE p \notin kept
      <4>1. p < low
        BY <1>0, <1>1, <2>1, <2>2, <3>4, OutputAssumed
      <4>. QED
        BY <1>0, <2>1, <3>2, <4>1, OutputAssumed
    <3>. QED
      BY <1>0, <3>3, <3>4
  <2>4. CASE s \notin segs
    <3>1. s = total /\ cur = total
      BY <1>0, <1>4, <2>4, <2>2 DEF SpoolHolds
    <3>2. last \in segs /\ last < total /\ total < last + Segment + Chunk /\ low <= last
      BY <1>0, <2>2 DEF SpoolHolds
    <3>3. last \in kept
      BY <1>0, <2>2, <3>2, OutputAssumed
    <3>. QED
      BY <1>0, <3>1, <3>2, <3>3
  <2>. QED
    BY <1>0, <2>3, <2>4
<1>5. total + n <= low + Keep
  BY <1>0, <1>1, <1>3, OutputAssumed
<1>6. low = 0 \/ low + Page < total + n
  <2>1. CASE low = first
    BY <1>0, <2>1, OutputAssumed DEF SpoolHolds
  <2>2. CASE low # first /\ segs = {}
    BY <1>0, <2>2 DEF SpoolHolds
  <2>3. CASE low # first /\ low \in segs
    <3>1. PICK p \in segs : p < low /\ low < p + Segment + Chunk
      BY <1>0, <2>3 DEF SpoolHolds
    <3>2. p \notin kept
      BY <1>0, <3>1
    <3>3. total + n > p + Keep
      BY <1>0, <3>2, OutputAssumed
    <3>. QED
      BY <1>0, <3>1, <3>3, OutputAssumed
  <2>4. CASE segs # {} /\ low \notin segs
    <3>1. low = total /\ cur = total
      BY <1>0, <2>4 DEF SpoolHolds
    <3>2. last \in segs /\ last < total /\ total < last + Segment + Chunk
      BY <1>0, <2>4 DEF SpoolHolds
    <3>3. total + n > last + Keep
      BY <1>0, <3>1, <3>2, OutputAssumed
    <3>. QED
      BY <1>0, <3>1, <3>2, <3>3, OutputAssumed
  <2>. QED
    BY <1>0, <2>1, <2>2, <2>3, <2>4
<1>. QED
  BY <1>0, <1>1, <1>2, <1>3, <1>4, <1>5, <1>6 DEF SpoolHolds

\* What a write does to its spool.
LEMMA WriteSpool ==
    ASSUME J!JobOutputTypeOK, OutputHolds, NEW j \in Job, NEW n \in 1 .. Chunk, J!Write(j, n)
    PROVE  /\ J!JobOutputTypeOK'
           /\ \A i \in Job : SpoolHolds(spooled[i], segments[i], oldest[i], newest[i])'
           /\ \A i \in Job : oldest[i] <= oldest'[i]
           /\ \A i \in Job : i # j => spooled'[i] = spooled[i]
<1> DEFINE cur == J!Current(j)
           kept == {s \in segments[j] \cup {cur} : s = cur \/ spooled[j] + n <= s + Keep}
<1>1. /\ spooled \in [Job -> 0 .. MaxBytes] /\ segments \in [Job -> SUBSET (0 .. MaxBytes)]
      /\ oldest \in [Job -> 0 .. MaxBytes] /\ newest \in [Job -> 0 .. MaxBytes]
  BY DEF J!JobOutputTypeOK, J!Byte
<1>2. cur = IF segments[j] # {} /\ spooled[j] < newest[j] + Segment THEN newest[j] ELSE spooled[j]
  BY DEF J!Current
<1>3. cur \in 0 .. MaxBytes
  BY <1>1, <1>2
<1>4. /\ spooled' = [spooled EXCEPT ![j] = @ + n] /\ spooled[j] + n <= MaxBytes
      /\ newest' = [newest EXCEPT ![j] = cur]
      /\ segments' = [segments EXCEPT ![j] = kept]
      /\ UNCHANGED <<jobStatus, alive, finished, waiting, mine, rest, woken, replies, polled, offset, pages>>
  BY DEF J!Write, J!waiterVars, J!readerVars
<1> HIDE DEF cur
<1>5. segments'[j] = kept
  BY <1>1, <1>4
<1>6. PICK low \in segments'[j] : (\A s \in segments'[j] : low <= s) /\ oldest' = [oldest EXCEPT ![j] = low]
  BY DEF J!Write
<1>7. kept \subseteq 0 .. MaxBytes
  BY <1>1, <1>3
<1> HIDE DEF kept
<1>8. SpoolHolds(spooled[j] + n, kept, low, cur) /\ oldest[j] <= low
  <2>1. low \in kept /\ \A s \in kept : low <= s
    BY <1>5, <1>6
  <2>2. SpoolHolds(spooled[j], segments[j], oldest[j], newest[j])
    BY DEF OutputHolds
  <2>3. /\ spooled[j] \in Nat /\ segments[j] \subseteq Nat
        /\ oldest[j] \in Nat /\ newest[j] \in Nat
    BY <1>1
  <2>4. kept = {s \in segments[j] \cup {cur} : s = cur \/ spooled[j] + n <= s + Keep}
    BY DEF kept
  <2>5. SpoolStep(spooled[j], segments[j], oldest[j], newest[j], n, spooled[j] + n, cur, kept, low)
    BY <1>2, <2>1, <2>2, <2>3, <2>4 DEF SpoolStep
  <2>. QED
    BY <2>5, SpoolTakes
<1>9. \A i \in Job : SpoolHolds(spooled[i], segments[i], oldest[i], newest[i])'
  <2> SUFFICES ASSUME NEW i \in Job PROVE SpoolHolds(spooled'[i], segments'[i], oldest'[i], newest'[i])
    OBVIOUS
  <2>1. CASE i = j
    BY <1>1, <1>4, <1>6, <1>8, <2>1
  <2>2. CASE i # j
    <3>1. spooled'[i] = spooled[i] /\ segments'[i] = segments[i] /\ oldest'[i] = oldest[i] /\ newest'[i] = newest[i]
      BY <1>1, <1>4, <1>6, <2>2
    <3>. QED
      BY <3>1 DEF OutputHolds
  <2>. QED
    BY <2>1, <2>2
<1>10. J!JobOutputTypeOK'
  BY <1>1, <1>3, <1>4, <1>5, <1>6, <1>7 DEF J!JobOutputTypeOK, J!Byte
<1>11. \A i \in Job : oldest[i] <= oldest'[i] /\ (i # j => spooled'[i] = spooled[i])
  BY <1>1, <1>4, <1>6, <1>8
<1>. QED
  BY <1>9, <1>10, <1>11

\* Every step keeps what the variables are.
LEMMA TextType ==
    ASSUME NEW x \in J!Byte, NEW y PROVE J!Decoded(x, y) \in SUBSET J!Byte
BY DEF J!Decoded

LEMMA PageType ==
    ASSUME J!JobOutputTypeOK, NEW j \in Job, NEW x \in J!Byte
    PROVE  J!PageEnd(j, x) \in J!Byte
BY OutputAssumed DEF J!PageEnd, J!Byte, J!JobOutputTypeOK

LEMMA FromType ==
    ASSUME J!JobOutputTypeOK, NEW j \in Job, NEW r \in Reader
    PROVE  J!From(r, j) \in J!Byte
BY DEF J!From, J!Byte, J!JobOutputTypeOK

LEMMA InlineType ==
    ASSUME J!JobOutputTypeOK, NEW j \in Job, NEW e \in BOOLEAN
    PROVE  J!Inline(j, e) \in J!Answer
<1>1. oldest[j] \in J!Byte /\ spooled[j] \in J!Byte /\ 0 \in J!Byte
  BY OutputAssumed DEF J!JobOutputTypeOK, J!Byte
<1>2. J!Decoded(oldest[j], J!PageEnd(j, oldest[j])) \in SUBSET J!Byte
  BY <1>1, TextType
<1>. QED
  BY <1>1, <1>2 DEF J!Inline, J!Answer

LEMMA OutputTypeStep ==
    ASSUME J!JobOutputTypeOK, OutputHolds, [J!JobOutputNext]_(J!outputVars)
    PROVE  J!JobOutputTypeOK'
<1>1. ASSUME NEW j \in Job, NEW n \in 1 .. Chunk, J!Write(j, n) PROVE J!JobOutputTypeOK'
  BY <1>1, WriteSpool
<1>2. ASSUME NEW j \in Job, J!Terminate(j) PROVE J!JobOutputTypeOK'
  BY <1>2 DEF J!Terminate, J!JobOutputTypeOK, J!spoolVars, J!waiterVars, J!readerVars
<1>3. ASSUME NEW j \in Job, J!Finish(j) PROVE J!JobOutputTypeOK'
  <2>1. finished' \in Seq(Job)
    <3>1. Append(finished, j) \in Seq(Job)
      BY DEF J!JobOutputTypeOK
    <3>2. PICK i \in 0 .. Len(Append(finished, j)) : finished' = J!After(Append(finished, j), i)
      BY <1>3 DEF J!Finish
    <3> DEFINE all == Append(finished, j)
    <3> HIDE DEF all
    <3>3. ASSUME NEW k \in (i + 1) .. Len(all) PROVE all[k] \in Job
      BY <3>1, <3>2, <3>3, LenProperties, ElementOfSeq DEF all
    <3>4. SubSeq(all, i + 1, Len(all)) \in Seq(Job)
      BY <3>1, <3>2, <3>3, SubSeqProperties, LenProperties DEF all
    <3>. QED
      BY <3>2, <3>4 DEF J!After, all
  <2>2. woken' \in [Waiter -> SUBSET Job]
    BY <1>3 DEF J!Finish, J!JobOutputTypeOK
  <2>3. jobStatus' \in [Job -> {"none", "running", "stopped", "exited"}] /\ alive' \subseteq Job
    BY <1>3 DEF J!Finish, J!JobOutputTypeOK
  <2>. QED
    BY <1>3, <2>1, <2>2, <2>3 DEF J!Finish, J!JobOutputTypeOK, J!spoolVars, J!readerVars
<1>4. ASSUME NEW c \in Waiter, NEW n \in 1 .. Slots, J!Begin(c, n) PROVE J!JobOutputTypeOK'
  <2>1. J!Unanswered \in [Job -> J!Answer \cup {None}]
    BY DEF J!Unanswered
  <2>. QED
    BY <1>4, <2>1, OutputAssumed DEF J!Begin, J!JobOutputTypeOK, J!spoolVars, J!readerVars
<1>5. ASSUME NEW c \in Waiter, NEW j \in Job, J!StartOne(c, j) PROVE J!JobOutputTypeOK'
  BY <1>5, OutputAssumed DEF J!StartOne, J!JobOutputTypeOK, J!spoolVars, J!readerVars
<1>6. ASSUME NEW c \in Waiter, J!StartFails(c) PROVE J!JobOutputTypeOK'
  BY <1>6 DEF J!StartFails, J!JobOutputTypeOK, J!spoolVars, J!readerVars
<1>7. ASSUME NEW c \in Waiter, J!Wait(c) PROVE J!JobOutputTypeOK'
  BY <1>7 DEF J!Wait, J!JobOutputTypeOK, J!spoolVars, J!readerVars
<1>8. ASSUME NEW c \in Waiter, J!Background(c) PROVE J!JobOutputTypeOK'
  BY <1>8 DEF J!Background, J!JobOutputTypeOK, J!spoolVars, J!readerVars
<1>9. ASSUME NEW c \in Waiter, NEW j \in Job, J!Ask(c, j) PROVE J!JobOutputTypeOK'
  <2>1. J!Unanswered \in [Job -> J!Answer \cup {None}]
    BY DEF J!Unanswered
  <2>. QED
    BY <1>9, <2>1 DEF J!Ask, J!JobOutputTypeOK, J!spoolVars, J!readerVars
<1>10. ASSUME NEW c \in Waiter, J!Reply(c) PROVE J!JobOutputTypeOK'
  <2> DEFINE answered == [j \in Job |-> IF j \in mine[c] THEN J!Inline(j, j \in woken[c]) ELSE None]
  <2>1. answered \in [Job -> J!Answer \cup {None}]
    <3> SUFFICES ASSUME NEW j \in Job
                 PROVE (IF j \in mine[c] THEN J!Inline(j, j \in woken[c]) ELSE None) \in J!Answer \cup {None}
      BY DEF answered
    <3>1. (j \in woken[c]) \in BOOLEAN
      OBVIOUS
    <3>. QED
      BY <3>1, InlineType
  <2>2. replies' = [replies EXCEPT ![c] = answered] /\ waiting' = [waiting EXCEPT ![c] = "idle"]
        /\ UNCHANGED <<jobStatus, alive, spooled, segments, oldest, newest, finished, mine, rest, woken, polled, offset, pages>>
    BY <1>10 DEF J!Reply, J!spoolVars, J!readerVars
  <2> HIDE DEF answered
  <2>. QED
    BY <2>1, <2>2 DEF J!JobOutputTypeOK
<1>11. ASSUME NEW c \in Waiter, NEW j \in Job, J!Whole(c, j) PROVE J!JobOutputTypeOK'
  <2> DEFINE a == [exited |-> TRUE, part |-> "raw", bytes |-> spooled[j],
                   text |-> {b \in J!Byte : oldest[j] <= b /\ b < spooled[j]}]
             answered == [J!Unanswered EXCEPT ![j] = a]
  <2>1. a \in J!Answer
    BY DEF J!JobOutputTypeOK, J!Answer
  <2>2. replies' = [replies EXCEPT ![c] = answered]
        /\ UNCHANGED <<jobStatus, alive, spooled, segments, oldest, newest, finished, waiting, mine, rest, woken, polled, offset, pages>>
    BY <1>11 DEF J!Whole, J!spoolVars, J!readerVars
  <2> HIDE DEF a
  <2>3. answered \in [Job -> J!Answer \cup {None}]
    BY <2>1 DEF J!Unanswered
  <2> HIDE DEF answered
  <2>. QED
    BY <2>2, <2>3 DEF J!JobOutputTypeOK
<1>12. ASSUME NEW r \in Reader, NEW j \in Job, J!Poll(r, j) PROVE J!JobOutputTypeOK'
  BY <1>12, OutputAssumed DEF J!Poll, J!JobOutputTypeOK, J!spoolVars, J!waiterVars, J!Byte
<1>13. ASSUME NEW r \in Reader, J!ReadOn(r) PROVE J!JobOutputTypeOK'
  <2> DEFINE j == polled[r]
             x == J!From(r, j)
             y == J!PageEnd(j, x)
             z == J!Decoded(x, y)
  <2>1. j \in Job
    BY <1>13 DEF J!ReadOn, J!JobOutputTypeOK
  <2>2. x \in J!Byte
    BY <2>1, FromType
  <2>3. y \in J!Byte /\ z \in SUBSET J!Byte
    BY <2>1, <2>2, PageType, TextType
  <2>4. pages' = [pages EXCEPT ![r] = @ \cup z] /\ offset' = [offset EXCEPT ![r] = y]
        /\ UNCHANGED <<jobStatus, alive, spooled, segments, oldest, newest, finished, waiting, mine, rest, woken, replies, polled>>
    BY <1>13 DEF J!ReadOn, J!spoolVars, J!waiterVars
  <2> HIDE DEF y, z
  <2>. QED
    BY <2>3, <2>4 DEF J!JobOutputTypeOK
<1>14. ASSUME J!Restart PROVE J!JobOutputTypeOK'
  <2>1. <<>> \in Seq(Job)
    OBVIOUS
  <2>. QED
    BY <1>14, <2>1 DEF J!Restart, J!JobOutputTypeOK, J!spoolVars, J!readerVars
<1>u. ASSUME UNCHANGED J!outputVars PROVE J!JobOutputTypeOK'
  BY <1>u DEF J!JobOutputTypeOK, J!outputVars, J!spoolVars, J!waiterVars, J!readerVars
<1>. QED
  BY <1>1, <1>2, <1>3, <1>4, <1>5, <1>6, <1>7, <1>8, <1>9, <1>10, <1>11, <1>12, <1>13, <1>14, <1>u
  DEF J!JobOutputNext

\* Jobs stay known to those that wait for them.
LEMMA JobsKnownStep ==
    ASSUME J!JobOutputTypeOK, JobsKnown, [J!JobOutputNext]_(J!outputVars)
    PROVE  JobsKnown'
<1>1. ASSUME NEW j \in Job, NEW n \in 1 .. Chunk, J!Write(j, n) PROVE JobsKnown'
  BY <1>1 DEF J!Write, J!JobOutputTypeOK, JobsKnown, J!waiterVars, J!readerVars
<1>2. ASSUME NEW j \in Job, J!Terminate(j) PROVE JobsKnown'
  BY <1>2 DEF J!Terminate, J!JobOutputTypeOK, JobsKnown, J!waiterVars
<1>3. ASSUME NEW j \in Job, J!Finish(j) PROVE JobsKnown'
  BY <1>3 DEF J!Finish, J!JobOutputTypeOK, JobsKnown
<1>4. ASSUME NEW c \in Waiter, NEW n \in 1 .. Slots, J!Begin(c, n) PROVE JobsKnown'
  BY <1>4 DEF J!Begin, J!JobOutputTypeOK, JobsKnown
<1>5. ASSUME NEW c \in Waiter, NEW j \in Job, J!StartOne(c, j) PROVE JobsKnown'
  <2>1. \A i \in Job : jobStatus'[i] = IF i = j THEN "running" ELSE jobStatus[i]
    BY <1>5 DEF J!StartOne, J!JobOutputTypeOK
  <2>2. \A x \in Waiter : mine'[x] = IF x = c THEN mine[c] \cup {j} ELSE mine[x]
    BY <1>5 DEF J!StartOne, J!JobOutputTypeOK
  <2>3. /\ waiting[c] = "starting" /\ jobStatus[j] = "none"
        /\ alive' = alive \cup {j} /\ UNCHANGED <<waiting, woken>>
    BY <1>5 DEF J!StartOne
  <2>4. \A x \in Waiter : waiting[x] # "idle" => j \notin woken[x]
    BY <2>3 DEF JobsKnown
  <2>5. \A x \in Waiter : waiting'[x] # "idle" => woken'[x] \subseteq mine'[x] /\ woken'[x] \cap alive' = {}
    <3> SUFFICES ASSUME NEW x \in Waiter, waiting[x] # "idle"
                 PROVE  woken[x] \subseteq mine'[x] /\ woken[x] \cap (alive \cup {j}) = {}
      BY <2>3
    <3>1. woken[x] \subseteq mine[x] /\ woken[x] \cap alive = {} /\ j \notin woken[x]
      BY <2>4 DEF JobsKnown
    <3>. QED
      BY <2>2, <3>1
  <2>6. \A x \in Waiter : waiting'[x] = "waiting" => mine'[x] \ woken'[x] \subseteq alive'
    BY <2>2, <2>3 DEF JobsKnown, J!JobOutputTypeOK
  <2>7. \A x \in Waiter : waiting'[x] # "idle" => \A i \in mine'[x] : jobStatus'[i] # "none"
    <3> SUFFICES ASSUME NEW x \in Waiter, waiting[x] # "idle", NEW i \in mine'[x]
                 PROVE  jobStatus'[i] # "none"
      BY <2>3
    <3>1. i = j \/ i \in mine[x]
      BY <2>2
    <3>2. i \in Job
      BY <3>1 DEF J!JobOutputTypeOK
    <3>3. i \in mine[x] => jobStatus[i] # "none"
      BY DEF JobsKnown
    <3>. QED
      BY <2>1, <3>1, <3>2, <3>3
  <2>8. /\ \A i \in Job : jobStatus'[i] = "running" => i \in alive'
        /\ \A i \in alive' : jobStatus'[i] \in {"running", "stopped"}
    BY <2>1, <2>3 DEF JobsKnown, J!JobOutputTypeOK
  <2>. QED
    BY <2>5, <2>6, <2>7, <2>8 DEF JobsKnown
<1>6. ASSUME NEW c \in Waiter, J!StartFails(c) PROVE JobsKnown'
  BY <1>6 DEF J!StartFails, J!JobOutputTypeOK, JobsKnown
<1>7. ASSUME NEW c \in Waiter, J!Wait(c) PROVE JobsKnown'
  BY <1>7 DEF J!Wait, J!JobOutputTypeOK, JobsKnown
<1>8. ASSUME NEW c \in Waiter, J!Background(c) PROVE JobsKnown'
  BY <1>8 DEF J!Background, J!JobOutputTypeOK, JobsKnown
<1>9. ASSUME NEW c \in Waiter, NEW j \in Job, J!Ask(c, j) PROVE JobsKnown'
  BY <1>9 DEF J!Ask, J!JobOutputTypeOK, JobsKnown
<1>10. ASSUME NEW c \in Waiter, J!Reply(c) PROVE JobsKnown'
  BY <1>10 DEF J!Reply, J!JobOutputTypeOK, JobsKnown
<1>11. ASSUME NEW c \in Waiter, NEW j \in Job, J!Whole(c, j) PROVE JobsKnown'
  BY <1>11 DEF J!Whole, J!JobOutputTypeOK, JobsKnown
<1>12. ASSUME NEW r \in Reader, NEW j \in Job, J!Poll(r, j) PROVE JobsKnown'
  BY <1>12 DEF J!Poll, JobsKnown, J!waiterVars
<1>13. ASSUME NEW r \in Reader, J!ReadOn(r) PROVE JobsKnown'
  BY <1>13 DEF J!ReadOn, JobsKnown, J!waiterVars
<1>14. ASSUME J!Restart PROVE JobsKnown'
  BY <1>14 DEF J!Restart, J!JobOutputTypeOK, JobsKnown
<1>u. ASSUME UNCHANGED J!outputVars PROVE JobsKnown'
  BY <1>u DEF JobsKnown, J!outputVars, J!waiterVars
<1>. QED
  BY <1>1, <1>2, <1>3, <1>4, <1>5, <1>6, <1>7, <1>8, <1>9, <1>10, <1>11, <1>12, <1>13, <1>14, <1>u
  DEF J!JobOutputNext

\* Only the process writes to a spool, and while it lives.
LEMMA Untouched ==
    ASSUME J!JobOutputTypeOK, [J!JobOutputNext]_(J!outputVars)
    PROVE  (\E j \in Job, n \in 1 .. Chunk : J!Write(j, n))
           \/ UNCHANGED <<spooled, segments, oldest, newest>>
BY DEF J!JobOutputNext, J!outputVars, J!spoolVars, J!Terminate, J!Finish, J!StartOne, J!Ask, J!Whole,
       J!Poll, J!Begin, J!StartFails, J!Wait, J!Background, J!Reply, J!ReadOn, J!Restart

LEMMA SpoolsStep ==
    ASSUME J!JobOutputTypeOK, OutputHolds, [J!JobOutputNext]_(J!outputVars)
    PROVE  /\ \A j \in Job : SpoolHolds(spooled[j], segments[j], oldest[j], newest[j])'
           /\ \A j \in Job : oldest[j] <= oldest'[j]
           /\ \A j \in Job : j \notin alive => spooled'[j] = spooled[j]
<1>1. CASE \E j \in Job, n \in 1 .. Chunk : J!Write(j, n)
  <2>1. PICK j \in Job, n \in 1 .. Chunk : J!Write(j, n)
    BY <1>1
  <2>2. j \in alive
    BY <2>1 DEF J!Write
  <2>. QED
    BY <2>1, <2>2, WriteSpool
<1>2. CASE UNCHANGED <<spooled, segments, oldest, newest>>
  <2>1. \A j \in Job : SpoolHolds(spooled[j], segments[j], oldest[j], newest[j])
    BY DEF OutputHolds
  <2>2. \A j \in Job : oldest[j] <= oldest[j]
    BY DEF J!JobOutputTypeOK, J!Byte
  <2>. QED
    BY <1>2, <2>1, <2>2
<1>. QED
  BY <1>1, <1>2, Untouched

\* What is dropped before one has come to it, or was read, stays so.
LEMMA PagesStay ==
    ASSUME J!JobOutputTypeOK, J!PagesComplete, \A j \in Job : oldest[j] <= oldest'[j],
           oldest' \in [Job -> J!Byte], UNCHANGED J!readerVars
    PROVE  J!PagesComplete'
<1> SUFFICES ASSUME NEW r \in Reader, polled[r] # None, NEW b \in Lead \cap J!Byte, b < offset[r]
             PROVE  b \in pages[r] \/ b < oldest'[polled[r]]
  BY DEF J!PagesComplete, J!readerVars, J!Byte
<1>1. polled[r] \in Job /\ b \in Nat
  BY DEF J!JobOutputTypeOK, J!Byte
<1>2. b \in pages[r] \/ b < oldest[polled[r]]
  BY DEF J!PagesComplete
<1>. QED
  BY <1>1, <1>2 DEF J!JobOutputTypeOK, J!Byte

LEMMA PagesCompleteStep ==
    ASSUME J!JobOutputTypeOK, OutputHolds, [J!JobOutputNext]_(J!outputVars), J!JobOutputTypeOK'
    PROVE  J!PagesComplete'
<1>1. ASSUME NEW r \in Reader, NEW j \in Job, J!Poll(r, j) PROVE J!PagesComplete'
  <2> SUFFICES ASSUME NEW q \in Reader, polled'[q] # None, NEW b \in Lead \cap J!Byte, b < offset'[q]
               PROVE  b \in pages'[q] \/ b < oldest'[polled'[q]]
    BY DEF J!PagesComplete, J!Byte
  <2>1. q # r
    BY <1>1 DEF J!Poll, J!JobOutputTypeOK, J!Byte
  <2>2. polled'[q] = polled[q] /\ offset'[q] = offset[q] /\ pages'[q] = pages[q] /\ oldest' = oldest
    BY <1>1, <2>1 DEF J!Poll, J!JobOutputTypeOK, J!spoolVars
  <2>. QED
    BY <2>2 DEF OutputHolds, J!PagesComplete
<1>2. ASSUME NEW r \in Reader, J!ReadOn(r) PROVE J!PagesComplete'
  <2> DEFINE j == polled[r]
             x == J!From(r, j)
             y == J!PageEnd(j, x)
             z == J!Decoded(x, y)
  <2>1. j \in Job
    BY <1>2 DEF J!ReadOn, J!JobOutputTypeOK
  <2>2. pages' = [pages EXCEPT ![r] = @ \cup z] /\ offset' = [offset EXCEPT ![r] = y]
        /\ UNCHANGED <<oldest, polled>>
    BY <1>2 DEF J!ReadOn, J!spoolVars
  <2>3. x \in J!Byte /\ x = (IF offset[r] < oldest[j] THEN oldest[j] ELSE offset[r])
    BY <2>1, FromType DEF J!From
  <2>4. z = {b \in J!Byte : b < y /\ \E s \in Lead : x <= s /\ s <= b}
    BY DEF J!Decoded
  <2> HIDE DEF x, y, z
  <2> SUFFICES ASSUME NEW q \in Reader, polled[q] # None, NEW b \in Lead \cap J!Byte, b < offset'[q]
               PROVE  b \in pages'[q] \/ b < oldest[polled[q]]
    BY <2>2 DEF J!PagesComplete, J!Byte
  <2>5. CASE q # r
    <3>1. offset'[q] = offset[q] /\ pages'[q] = pages[q]
      BY <2>2, <2>5 DEF J!JobOutputTypeOK
    <3>. QED
      BY <3>1 DEF OutputHolds, J!PagesComplete
  <2>6. CASE q = r
    <3>1. offset'[r] = y /\ pages'[r] = pages[r] \cup z
      BY <2>2 DEF J!JobOutputTypeOK
    <3>2. CASE x <= b
      <4>1. b <= b
        BY DEF J!Byte
      <4>2. b \in z
        BY <2>4, <2>6, <3>1, <3>2, <4>1
      <4>. QED
        BY <2>6, <3>1, <4>2
    <3>3. CASE b < offset[r]
      <4>1. b \in pages[r] \/ b < oldest[j]
        BY <2>6, <3>3 DEF OutputHolds, J!PagesComplete
      <4>. QED
        BY <2>6, <3>1, <4>1
    <3>4. CASE ~(x <= b) /\ ~(b < offset[r])
      <4>1. b \in Nat /\ x \in Nat /\ oldest[j] \in Nat /\ offset[r] \in Nat
        BY <2>1, <2>3 DEF J!JobOutputTypeOK, J!Byte
      <4>2. b < x /\ offset[r] <= b
        BY <3>4, <4>1
      <4>5. b < oldest[j]
        <5>1. CASE offset[r] < oldest[j]
          <6>1. x = oldest[j]
            BY <2>3, <5>1
          <6>. QED
            BY <4>2, <6>1
        <5>2. CASE ~(offset[r] < oldest[j])
          <6>1. x = offset[r]
            BY <2>3, <5>2
          <6>. QED
            BY <4>1, <4>2, <6>1
        <5>. QED
          BY <5>1, <5>2
      <4>. QED
        BY <2>6, <4>5
    <3>. QED
      BY <3>2, <3>3, <3>4
  <2>. QED
    BY <2>5, <2>6
<1>3. CASE UNCHANGED J!readerVars
  BY <1>3, SpoolsStep, PagesStay DEF OutputHolds, J!JobOutputTypeOK
<1>4. \/ \E r \in Reader, j \in Job : J!Poll(r, j)
      \/ \E r \in Reader : J!ReadOn(r)
      \/ UNCHANGED J!readerVars
  BY DEF J!JobOutputNext, J!outputVars, J!Write, J!Terminate, J!Finish, J!StartOne, J!Ask, J!Whole,
         J!Begin, J!StartFails, J!Wait, J!Background, J!Reply, J!Restart
<1>. QED
  BY <1>1, <1>2, <1>3, <1>4

\* An answer is true when it is given.
LEMMA InlineTrue ==
    ASSUME J!JobOutputTypeOK, NEW j \in Job,
           SpoolHolds(spooled[j], segments[j], oldest[j], newest[j]),
           NEW e \in BOOLEAN, e => j \notin alive /\ jobStatus[j] \notin {"none", "running"}
    PROVE  AnswerHolds(J!Inline(j, e), j \in alive, jobStatus[j], spooled[j])
<1> DEFINE a == J!Inline(j, e)
           y == J!PageEnd(j, oldest[j])
<1>1. oldest[j] \in Nat /\ spooled[j] \in Nat /\ spooled[j] \in J!Byte
  BY DEF J!JobOutputTypeOK, J!Byte
<1>2. CASE ~J!Holds(j)
  <2>1. a = [exited |-> e, part |-> "gone", bytes |-> 0, text |-> {}]
    BY <1>2 DEF J!Inline
  <2>. QED
    BY <2>1 DEF AnswerHolds
<1>3. CASE J!Holds(j)
  <2>1. a = [exited |-> e, part |-> IF y < spooled[j] THEN "head" ELSE "all",
             bytes |-> spooled[j], text |-> J!Decoded(oldest[j], y)]
    BY <1>3 DEF J!Inline
  <2>2. y \in Nat /\ (~(y < spooled[j]) => oldest[j] = 0 /\ y = spooled[j])
    BY <1>1, OutputAssumed DEF J!PageEnd, SpoolHolds
  <2> HIDE DEF y
  <2>3. ~(y < spooled[j]) => {b \in Lead \cap J!Byte : b < spooled[j]} \subseteq J!Decoded(oldest[j], y)
    <3> SUFFICES ASSUME ~(y < spooled[j]), NEW b \in Lead \cap J!Byte, b < spooled[j]
                 PROVE  b \in J!Decoded(oldest[j], y)
      OBVIOUS
    <3>1. 0 <= b /\ b <= b /\ b \in J!Byte
      BY DEF J!Byte
    <3>. QED
      BY <2>2, <3>1 DEF J!Decoded
  <2>. QED
    BY <2>1, <2>3 DEF AnswerHolds
<1>. QED
  BY <1>2, <1>3

\* It stays true, for what it says of a job that has ended does not change.
LEMMA AnswerStays ==
    ASSUME NEW a, NEW live, NEW status, NEW total, NEW liveNow, NEW statusNow, NEW totalNow,
           AnswerHolds(a, live, status, total),
           ~live /\ status \notin {"none", "running"} =>
              ~liveNow /\ statusNow = status /\ totalNow = total
    PROVE  AnswerHolds(a, liveNow, statusNow, totalNow)
BY DEF AnswerHolds

LEMMA EndedStays ==
    ASSUME J!JobOutputTypeOK, [J!JobOutputNext]_(J!outputVars), NEW j \in Job,
           j \notin alive, jobStatus[j] \notin {"none", "running"}
    PROVE  j \notin alive' /\ jobStatus'[j] = jobStatus[j]
BY DEF J!JobOutputTypeOK, J!JobOutputNext, J!outputVars, J!Write, J!Terminate, J!Finish, J!StartOne,
       J!Ask, J!Whole, J!Poll, J!Begin, J!StartFails, J!Wait, J!Background, J!Reply, J!ReadOn,
       J!Restart

LEMMA AnswersStep ==
    ASSUME J!JobOutputTypeOK, OutputHolds, [J!JobOutputNext]_(J!outputVars)
    PROVE  \A c \in Waiter, j \in Job : replies'[c][j] # None =>
              AnswerHolds(replies'[c][j], j \in alive', jobStatus'[j], spooled'[j])
<1> SUFFICES ASSUME NEW c \in Waiter, NEW j \in Job, replies'[c][j] # None
             PROVE  AnswerHolds(replies'[c][j], j \in alive', jobStatus'[j], spooled'[j])
  OBVIOUS
<1>1. ASSUME NEW a, AnswerHolds(a, j \in alive, jobStatus[j], spooled[j])
      PROVE  AnswerHolds(a, j \in alive', jobStatus'[j], spooled'[j])
  <2>1. j \notin alive /\ jobStatus[j] \notin {"none", "running"} =>
           j \notin alive' /\ jobStatus'[j] = jobStatus[j] /\ spooled'[j] = spooled[j]
    BY EndedStays, SpoolsStep
  <2> DEFINE live == j \in alive
             liveNow == j \in alive'
  <2>2. /\ AnswerHolds(a, live, jobStatus[j], spooled[j])
        /\ ~live /\ jobStatus[j] \notin {"none", "running"} =>
              ~liveNow /\ jobStatus'[j] = jobStatus[j] /\ spooled'[j] = spooled[j]
    BY <1>1, <2>1
  <2> HIDE DEF live, liveNow
  <2>3. AnswerHolds(a, liveNow, jobStatus'[j], spooled'[j])
    BY <2>2, AnswerStays
  <2>. QED
    BY <2>3 DEF liveNow
<1>2. CASE replies'[c][j] = replies[c][j]
  BY <1>1, <1>2 DEF OutputHolds
<1>3. CASE J!Reply(c)
  <2>1. replies'[c][j] = IF j \in mine[c] THEN J!Inline(j, j \in woken[c]) ELSE None
    BY <1>3 DEF J!Reply, J!JobOutputTypeOK
  <2> DEFINE e == j \in woken[c]
  <2>2. j \in mine[c] /\ replies'[c][j] = J!Inline(j, e)
    BY <2>1
  <2>3. e \in BOOLEAN /\ (e => j \notin alive /\ jobStatus[j] \notin {"none", "running"})
    BY <1>3, <2>2 DEF J!Reply, OutputHolds, JobsKnown
  <2>4. SpoolHolds(spooled[j], segments[j], oldest[j], newest[j])
    BY DEF OutputHolds
  <2> HIDE DEF e
  <2>5. AnswerHolds(J!Inline(j, e), j \in alive, jobStatus[j], spooled[j])
    BY <2>3, <2>4, InlineTrue
  <2>. QED
    BY <1>1, <2>2, <2>5
<1>4. CASE J!Whole(c, j)
  <2> DEFINE a == [exited |-> TRUE, part |-> "raw", bytes |-> spooled[j],
                   text |-> {b \in J!Byte : oldest[j] <= b /\ b < spooled[j]}]
  <2>1. replies'[c][j] = a
    BY <1>4 DEF J!Whole, J!JobOutputTypeOK, J!Unanswered
  <2>2. j \notin alive /\ jobStatus[j] = "exited" /\ oldest[j] = 0
    BY <1>4 DEF J!Whole, OutputHolds, JobsKnown
  <2>3. a.text = {b \in J!Byte : b < spooled[j]}
    BY <2>2 DEF J!Byte
  <2>4. a.exited = TRUE /\ a.part = "raw" /\ a.bytes = spooled[j]
    OBVIOUS
  <2> HIDE DEF a
  <2>5. AnswerHolds(a, j \in alive, jobStatus[j], spooled[j])
    BY <2>2, <2>3, <2>4 DEF AnswerHolds
  <2>. QED
    BY <1>1, <2>1, <2>5
<1>5. \/ replies'[c][j] = replies[c][j]
      \/ J!Reply(c)
      \/ J!Whole(c, j)
  BY DEF J!JobOutputTypeOK, J!JobOutputNext, J!outputVars, J!waiterVars, J!Write, J!Terminate, J!Finish,
         J!StartOne, J!Ask, J!Whole, J!Poll, J!Begin, J!StartFails, J!Wait, J!Background, J!Reply,
         J!ReadOn, J!Restart, J!Unanswered
<1>. QED
  BY <1>2, <1>3, <1>4, <1>5

LEMMA OutputSound ==
    /\ J!JobOutputInit => J!JobOutputTypeOK /\ OutputHolds
    /\ J!JobOutputTypeOK /\ OutputHolds /\ [J!JobOutputNext]_(J!outputVars)
          => (J!JobOutputTypeOK /\ OutputHolds)'
<1>1. ASSUME J!JobOutputInit PROVE J!JobOutputTypeOK /\ OutputHolds
  <2>1. 0 \in J!Byte /\ 0 \in 0 .. Slots /\ <<>> \in Seq(Job)
    BY OutputAssumed DEF J!Byte
  <2>2. J!JobOutputTypeOK
    BY <1>1, <2>1 DEF J!JobOutputInit, J!JobOutputTypeOK, J!Unanswered
  <2>3. JobsKnown
    BY <1>1 DEF J!JobOutputInit, JobsKnown
  <2>4. \A j \in Job : SpoolHolds(spooled[j], segments[j], oldest[j], newest[j])
    BY <1>1, OutputAssumed DEF J!JobOutputInit, SpoolHolds
  <2>5. J!PagesComplete
    BY <1>1 DEF J!JobOutputInit, J!PagesComplete
  <2>6. \A c \in Waiter, j \in Job : replies[c][j] = None
    BY <1>1 DEF J!JobOutputInit, J!Unanswered
  <2>. QED
    BY <2>2, <2>3, <2>4, <2>5, <2>6 DEF OutputHolds
<1>2. ASSUME J!JobOutputTypeOK, OutputHolds, [J!JobOutputNext]_(J!outputVars)
      PROVE  (J!JobOutputTypeOK /\ OutputHolds)'
  <2>1. J!JobOutputTypeOK'
    BY <1>2, OutputTypeStep
  <2>2. JobsKnown'
    BY <1>2, JobsKnownStep DEF OutputHolds
  <2>3. J!PagesComplete'
    BY <1>2, <2>1, PagesCompleteStep
  <2>. QED
    BY <1>2, <2>1, <2>2, <2>3, SpoolsStep, AnswersStep DEF OutputHolds
<1>. QED
  BY <1>1, <1>2

\* What the run checks of it.
LEMMA OutputWell == J!JobOutputTypeOK /\ OutputHolds => J!OutputTrue
<1> SUFFICES ASSUME J!JobOutputTypeOK, OutputHolds PROVE J!OutputTrue
  OBVIOUS
<1>1. J!SpoolsBounded
  BY DEF OutputHolds, SpoolHolds, J!SpoolsBounded
<1>2. J!WaitersKnown
  BY DEF OutputHolds, JobsKnown, J!WaitersKnown
<1>3. J!AnswersWhole
  BY DEF OutputHolds, AnswerHolds, J!AnswersWhole
<1>. QED
  BY <1>1, <1>2, <1>3 DEF OutputHolds, J!OutputTrue

-----------------------------------------------------------------------------
(* The parts together.  A behaviour is of one of them: its steps are steps of  *)
(* that part, and no other part moves.                                       *)

GitPart == part = "git" => G!GitTypeOK /\ GitHolds
ConsolePart == part = "console" => C!ConsoleTypeOK /\ ConsoleHolds
RegistryPart == part = "registry" => K!RegistryTypeOK /\ RegistryHolds
DevicesPart == part = "devices" => V!DevicesTypeOK /\ DevicesHold
OwnerPart == part = "owner" => O!OwnerConfigTypeOK /\ OwnerHolds
BrowserPart == part = "browser" => W!BrowserTypeOK /\ PagesHold /\ RunsHold /\ SessionsHold
MediaPart == part = "media" => M!MediaTypeOK /\ MediaHolds
OutputPart == part = "output" => J!JobOutputTypeOK /\ OutputHolds

\* The initial state of the whole is one of every part.
LEMMA EveryBegins ==
    outsideInit => G!GitInit /\ C!ConsoleInit /\ K!RegistryInit /\ V!DevicesInit
                   /\ O!OwnerConfigInit /\ W!BrowserInit /\ M!MediaInit
                   /\ J!JobOutputInit
BY DEF outsideInit

\* A step is one of the part whose behaviour it is.
LEMMA OneMoves ==
    ASSUME [outsideNext]_outsideVars
    PROVE  /\ part' = part
           /\ part = "git" => [G!GitNext]_(G!gitVars)
           /\ part = "console" => [C!ConsoleNext]_(C!consoleVars)
           /\ part = "registry" => [K!RegistryNext]_(K!registryVars)
           /\ part = "devices" => [V!DevicesNext]_(V!deviceVars)
           /\ part = "owner" => [O!OwnerConfigNext]_(O!ownerVars)
           /\ part = "browser" => [W!BrowserNext]_(W!browserVars)
           /\ part = "media" => [M!MediaNext]_(M!mediaVars)
           /\ part = "output" => [J!JobOutputNext]_(J!outputVars)
<1>1. CASE UNCHANGED outsideVars
  BY <1>1 DEF outsideVars, gitVars, consoleVars, registryVars, deviceVars, ownerVars, browserVars, mediaVars, outputVars,
        G!gitVars, C!consoleVars, K!registryVars, V!deviceVars, O!ownerVars, W!browserVars, M!mediaVars,
        O!fileVars, O!writerVars, J!outputVars, J!spoolVars, J!waiterVars, J!readerVars
<1>2. CASE outsideNext
  BY <1>2 DEF outsideNext
<1>. QED
  BY <1>1, <1>2

\* What git_commit reports of a commit is what happened, and what others staged
\* meanwhile stays staged (gitService.ts, commitSelected).
THEOREM CommitsTrue == OutsideSpec => []CommitTrue
<1>1. outsideInit => GitPart
  BY EveryBegins, GitSound DEF GitPart
<1>2. GitPart /\ [outsideNext]_outsideVars => GitPart'
  BY OneMoves, GitSound DEF GitPart
<1>3. GitPart => CommitTrue
  BY DEF CommitTrue, GitPart, GitHolds
<1>. QED
  BY <1>1, <1>2, <1>3, PTL DEF OutsideSpec

\* A request of the Config page takes effect in the context it was decided in,
\* while the lease it came in is open, and leases are apart (configGateway.ts).
THEOREM ConsoleAlwaysSound == OutsideSpec => []ConsoleSound
<1>1. outsideInit => ConsolePart
  BY EveryBegins, ConsoleInductive DEF ConsolePart
<1>2. ConsolePart /\ [outsideNext]_outsideVars => ConsolePart'
  BY OneMoves, ConsoleInductive DEF ConsolePart
<1>3. ConsolePart => ConsoleSound
  <2>1. ASSUME \A r \in Request : Consistent(request[r])
        PROVE  C!DecidedAsShown /\ C!LeasesApart /\ C!ActedWhileOpen
    BY <2>1 DEF Consistent, C!DecidedAsShown, C!LeasesApart, C!ActedWhileOpen
  <2>. QED
    BY <2>1 DEF ConsoleSound, ConsolePart, ConsoleHolds, C!ConsoleSound
<1>. QED
  BY <1>1, <1>2, <1>3, PTL DEF OutsideSpec

\* The registry addresses each project once and with the owner's level; a device
\* is touched under the owner's consent, and once per key; and what a command
\* saved stays in the configuration, which is complete and whose credential is
\* there (registry.ts, androidService.ts, desktopService.ts, globalConfig.ts).
THEOREM OwnerAlwaysObeyed == OutsideSpec => []OwnerObeyed
<1> DEFINE Inv == RegistryPart /\ DevicesPart /\ OwnerPart
<1>1. outsideInit => Inv
  BY EveryBegins, RegistryInductive, DevicesInductive, OwnerConfigInductive DEF RegistryPart, DevicesPart, OwnerPart
<1>2. Inv /\ [outsideNext]_outsideVars => Inv'
  <2>1. RegistryPart /\ [outsideNext]_outsideVars => RegistryPart'
    BY OneMoves, RegistryInductive DEF RegistryPart
  <2>2. DevicesPart /\ [outsideNext]_outsideVars => DevicesPart'
    BY OneMoves, DevicesInductive DEF DevicesPart
  <2>3. OwnerPart /\ [outsideNext]_outsideVars => OwnerPart'
    BY OneMoves, OwnerConfigInductive DEF OwnerPart
  <2>. QED
    BY <2>1, <2>2, <2>3
<1>3. Inv => OwnerObeyed
  BY RegistryLevels, DevicesWell, OwnerConfigWell
  DEF OwnerObeyed, RegistryPart, DevicesPart, OwnerPart
<1> HIDE DEF Inv
<1>. QED
  BY <1>1, <1>2, <1>3, PTL DEF OutsideSpec

\* No browser outlives its session and none is over the limit; an observation is
\* acted on once, as is a step of a workflow; the copies and results of media stay
\* for those that remove them; and a spool keeps to its limit, whoever reads on
\* misses only what it says it dropped, and an answer about a job's output is true
\* (browserService.ts, mediaService.ts, spool.ts, jobManager.ts).
THEOREM SessionsAlwaysSafe == OutsideSpec => []SessionsSafe
<1> DEFINE Inv == BrowserPart /\ MediaPart /\ OutputPart
<1>1. outsideInit => Inv
  BY EveryBegins, BrowserSound, MediaSound, OutputSound DEF BrowserPart, MediaPart, OutputPart
<1>2. Inv /\ [outsideNext]_outsideVars => Inv'
  <2>1. BrowserPart /\ [outsideNext]_outsideVars => BrowserPart'
    BY OneMoves, BrowserSound DEF BrowserPart
  <2>2. MediaPart /\ [outsideNext]_outsideVars => MediaPart'
    BY OneMoves, MediaSound DEF MediaPart
  <2>3. OutputPart /\ [outsideNext]_outsideVars => OutputPart'
    BY OneMoves, OutputSound DEF OutputPart
  <2>. QED
    BY <2>1, <2>2, <2>3
<1>3. Inv => SessionsSafe
  <2>1. PagesHold /\ RunsHold => W!ActsOnce
    BY DEF PagesHold, RunsHold, W!ActsOnce
  <2>. QED
    BY <2>1, OutputWell
    DEF SessionsSafe, BrowserPart, MediaPart, OutputPart, SessionsHold, MediaHolds, W!BrowserSafe
<1> HIDE DEF Inv
<1>. QED
  BY <1>1, <1>2, <1>3, PTL DEF OutsideSpec

=============================================================================
