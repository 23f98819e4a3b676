---------------------------------- MODULE Git ----------------------------------
(***************************************************************************)
(* What DODO changes in a repository (services/git/gitService.ts): commit,  *)
(* which stages into a candidate index under Git's own lock, lets Git run   *)
(* the hooks and publishes the index only when nobody else changed it; the  *)
(* checkpoints it writes under refs/dodo; and the owner's restore from a    *)
(* commit, which takes such a checkpoint first.  Both run as operations of  *)
(* the mutation queue, one at a time.  The owner edits, stages, commits and *)
(* removes locks alongside, as do the hooks' and editors' processes.        *)
(***************************************************************************)
EXTENDS Naturals, FiniteSets, TLC

CONSTANTS
    Path,
    Denied,       \* paths the policy hides
    Text, None,
    MaxEntries,   \* MAX_STATUS_ENTRIES
    MaxCommits,   \* bound: commits made
    MaxEvents     \* bound: what the owner does, crashes and timeouts

GitAssumption ==
    /\ Denied \subseteq Path /\ None \notin Text
    /\ MaxEntries \in Nat /\ MaxCommits \in Nat /\ MaxEvents \in Nat

Tree == [Path -> Text \cup {None}]
Idle == [kind |-> "idle"]
Start == [kind: {"commit"}, pc: {"lock"}, sel: SUBSET Path]
Committing ==
    [kind: {"commit"}, pc: {"stage", "git", "publish", "report"}, sel: SUBSET Path,
     original: Tree, candidate: Tree, before: Nat, landed: BOOLEAN, published: BOOLEAN]
Status == [kind: {"restore"}, pc: {"status"}, tree: Tree, removes: BOOLEAN, changed: SUBSET Path]
Saving ==
    [kind: {"restore"}, pc: {"add"}, tree: Tree, removes: BOOLEAN, changed: SUBSET Path,
     entries: SUBSET Path, base: Tree]
Restoring ==
    [kind: {"restore"}, pc: {"checkout"}, tree: Tree, removes: BOOLEAN, changed: SUBSET Path,
     backup: Tree, edited: SUBSET Path]
Operation == {Idle} \cup Start \cup Committing \cup Status \cup Saving \cup Restoring

VARIABLES
    head,       \* the commit HEAD names: how many there were, and its tree
    index,      \* the index file
    worktree,
    indexLock,  \* index.lock: "free", "commit" while DODO holds it, "stale"
    gitOp,      \* the operation under way
    last,       \* what the last commit answered, and what it had done
    unstaged,   \* history: staged changes a commit took back
    lost,       \* history: files a restore wrote over without a backup
    events

gitVars == <<head, index, worktree, indexLock, gitOp, last, unstaged, lost, events>>
repo == <<head, index, worktree>>
history == <<unstaged, lost>>

GitTypeOK ==
    /\ head.tree \in Tree /\ head.n \in 0 .. MaxCommits
    /\ index \in Tree /\ worktree \in Tree
    /\ indexLock \in {"free", "commit", "stale"} /\ gitOp \in Operation
    /\ unstaged \subseteq Path /\ lost \subseteq Path /\ events \in 0 .. MaxEvents

GitInit ==
    /\ \E t \in Text : head = [n |-> 0, tree |-> [p \in Path |-> IF p \in Denied THEN None ELSE t]]
    /\ worktree \in Tree
    /\ \E p \in Path : index = [head.tree EXCEPT ![p] = worktree[p]]
    /\ indexLock = "free" /\ gitOp = Idle
    /\ last = [says |-> "none", landed |-> FALSE, published |-> FALSE]
    /\ unstaged = {} /\ lost = {} /\ events = 0

\* What `git status` lists of what the policy shows; a listing ends at MaxEntries.
Changed == {p \in Path \ Denied : worktree[p] # index[p] \/ index[p] # head.tree[p]}
Listing(s) == s \subseteq Changed /\ Cardinality(s) =
                  IF Cardinality(Changed) <= MaxEntries THEN Cardinality(Changed) ELSE MaxEntries

\* `git add -A` refuses all when one path is neither on disk nor in the index.
Matches(s, tree) == \A p \in s : worktree[p] # None \/ tree[p] # None
Added(s, tree) == [p \in Path |-> IF p \in s THEN worktree[p] ELSE tree[p]]

-----------------------------------------------------------------------------
(* commit *)

Commit(s) ==
    /\ gitOp = Idle /\ s \subseteq Path \ Denied
    /\ gitOp' = [kind |-> "commit", pc |-> "lock", sel |-> s]
    /\ UNCHANGED <<repo, indexLock, last, history, events>>

CommitAll == Changed # {} /\ Cardinality(Changed) <= MaxEntries /\ Commit(Changed)

\* The finally: the lock goes whoever holds it by now.
Answer(says) ==
    /\ last' = [says |-> says, landed |-> gitOp.landed, published |-> gitOp.published]
    /\ gitOp' = Idle /\ indexLock' = "free"

Busy ==
    /\ gitOp.kind = "commit" /\ gitOp.pc = "lock" /\ indexLock # "free"
    /\ last' = [says |-> "refused", landed |-> FALSE, published |-> FALSE] /\ gitOp' = Idle
    /\ UNCHANGED <<repo, indexLock, history, events>>

Lock ==
    /\ gitOp.kind = "commit" /\ gitOp.pc = "lock" /\ indexLock = "free"
    /\ indexLock' = "commit"
    /\ gitOp' = [kind |-> "commit", pc |-> "stage", sel |-> gitOp.sel, original |-> index,
                 candidate |-> index, before |-> head.n, landed |-> FALSE, published |-> FALSE]
    /\ UNCHANGED <<repo, last, history, events>>

\* validateIndex: everything staged is inspected, not what was selected only.
Valid(tree) == \A p \in Denied : tree[p] = head.tree[p]

Stage ==
    /\ gitOp.kind = "commit" /\ gitOp.pc = "stage"
    /\ IF Valid(gitOp.original) /\ Matches(gitOp.sel, gitOp.original)
       THEN /\ gitOp' = [gitOp EXCEPT !.pc = "git", !.before = head.n,
                                      !.candidate = Added(gitOp.sel, gitOp.original)]
            /\ UNCHANGED <<indexLock, last>>
       ELSE Answer("refused")
    /\ UNCHANGED <<repo, history, events>>

\* `git commit` moves HEAD when the hooks have passed and there is a change.
Land ==
    /\ gitOp.kind = "commit" /\ gitOp.pc = "git" /\ ~gitOp.landed
    /\ gitOp.candidate # head.tree /\ head.n < MaxCommits
    /\ head' = [n |-> head.n + 1, tree |-> gitOp.candidate]
    /\ gitOp' = [gitOp EXCEPT !.landed = TRUE]
    /\ UNCHANGED <<index, worktree, indexLock, last, history, events>>

Succeeded ==
    /\ gitOp.kind = "commit" /\ gitOp.pc = "git" /\ gitOp.landed
    /\ gitOp' = [gitOp EXCEPT !.pc = "publish"]
    /\ UNCHANGED <<repo, indexLock, last, history, events>>

\* Broken: a commit that failed is taken to have done nothing.
FailedIsRefused ==
    /\ gitOp.kind = "commit" /\ gitOp.pc = "git"
    /\ gitOp.landed => events < MaxEvents
    /\ events' = IF gitOp.landed THEN events + 1 ELSE events
    /\ Answer("refused")
    /\ UNCHANGED <<repo, history>>

\* A hook refused, nothing was to be committed, or Git failed after it had
\* moved HEAD: whether HEAD is where it was says which.
Failed ==
    /\ gitOp.kind = "commit" /\ gitOp.pc = "git"
    /\ gitOp.landed => events < MaxEvents
    /\ events' = IF gitOp.landed THEN events + 1 ELSE events
    /\ Answer(IF head.n # gitOp.before THEN "uncertain" ELSE "refused")
    /\ UNCHANGED <<repo, history>>

\* Broken: the candidate becomes the index whatever the index is by now.
PublishAnyway ==
    /\ gitOp.kind = "commit" /\ gitOp.pc = "publish"
    /\ IF indexLock = "commit"
       THEN /\ index' = gitOp.candidate /\ indexLock' = "free"
            /\ unstaged' = unstaged \cup
                   {p \in Path \ gitOp.sel : index[p] # gitOp.candidate[p]}
            /\ gitOp' = [gitOp EXCEPT !.pc = "report", !.published = TRUE]
            /\ UNCHANGED last
       ELSE Answer("uncertain") /\ UNCHANGED <<index, unstaged>>
    /\ UNCHANGED <<head, worktree, lost, events>>

\* The lock file becomes the index, if the index is what it was at the start
\* and the lock is still there.
Publish ==
    /\ gitOp.kind = "commit" /\ gitOp.pc = "publish"
    /\ IF index = gitOp.original /\ indexLock = "commit"
       THEN /\ index' = gitOp.candidate /\ indexLock' = "free"
            /\ unstaged' = unstaged \cup
                   {p \in Path \ gitOp.sel : index[p] # gitOp.candidate[p]}
            /\ gitOp' = [gitOp EXCEPT !.pc = "report", !.published = TRUE]
            /\ UNCHANGED last
       ELSE Answer("uncertain") /\ UNCHANGED <<index, unstaged>>
    /\ UNCHANGED <<head, worktree, lost, events>>

Report ==
    /\ gitOp.kind = "commit" /\ gitOp.pc = "report"
    /\ last' = [says |-> "done", landed |-> gitOp.landed, published |-> gitOp.published]
    /\ gitOp' = Idle
    /\ UNCHANGED <<repo, indexLock, history, events>>

\* Git is killed when it takes too long.
Timeout ==
    /\ gitOp.kind = "commit" /\ gitOp.pc \in {"git", "report"} /\ events < MaxEvents
    /\ events' = events + 1
    /\ last' = [says |-> "uncertain", landed |-> gitOp.landed, published |-> gitOp.published]
    /\ gitOp' = Idle
    /\ indexLock' = IF gitOp.pc = "git" THEN "free" ELSE indexLock
    /\ UNCHANGED <<repo, history>>

-----------------------------------------------------------------------------
(* The owner's restore *)

\* `git diff <commit>` compares what the commit or the index tracks.
Differs(p, tree) == IF index[p] = None THEN tree[p] # None ELSE worktree[p] # tree[p]

Restore(tree, only) ==
    /\ gitOp = Idle /\ tree \in Tree /\ only \subseteq Path \ Denied
    /\ gitOp' = [kind |-> "restore", pc |-> "status", tree |-> tree, removes |-> only # {},
                 changed |-> {p \in (IF only = {} THEN Path \ Denied ELSE only) : Differs(p, tree)}]
    /\ UNCHANGED <<repo, indexLock, last, history, events>>

\* createRecoveryCheckpoint: from HEAD, with what a listing of the changes names.
Checkpoint(s) ==
    /\ gitOp.kind = "restore" /\ gitOp.pc = "status" /\ Listing(s)
    /\ gitOp' = [kind |-> "restore", pc |-> "add", tree |-> gitOp.tree,
                 removes |-> gitOp.removes, changed |-> gitOp.changed,
                 entries |-> s, base |-> head.tree]
    /\ UNCHANGED <<repo, indexLock, last, history, events>>

\* That `git add` failed is not noticed.
BackUp ==
    /\ gitOp.kind = "restore" /\ gitOp.pc = "add"
    /\ LET tree == IF Matches(gitOp.entries, gitOp.base)
                   THEN Added(gitOp.entries, gitOp.base) ELSE gitOp.base
       IN  gitOp' = [kind |-> "restore", pc |-> "checkout", tree |-> gitOp.tree,
                     removes |-> gitOp.removes, changed |-> gitOp.changed,
                     backup |-> tree, edited |-> {}]
    /\ UNCHANGED <<repo, indexLock, last, history, events>>

\* Files the commit does not have are removed when they were asked for by name.
Restored(p) ==
    IF p \notin gitOp.changed THEN worktree[p]
    ELSE IF gitOp.tree[p] # None \/ gitOp.removes THEN gitOp.tree[p] ELSE worktree[p]

Checkout ==
    /\ gitOp.kind = "restore" /\ gitOp.pc = "checkout"
    /\ worktree' = [p \in Path |-> Restored(p)]
    /\ lost' = lost \cup {p \in Path \ gitOp.edited :
                  worktree[p] \notin {None, Restored(p), gitOp.backup[p]}}
    /\ gitOp' = Idle
    /\ UNCHANGED <<head, index, indexLock, last, unstaged, events>>

-----------------------------------------------------------------------------
(* Everybody else *)

Happens == events < MaxEvents /\ events' = events + 1

Edit(p, t) ==
    /\ Happens /\ worktree[p] # t
    /\ worktree' = [worktree EXCEPT ![p] = t]
    /\ gitOp' = IF gitOp.kind = "restore" /\ gitOp.pc = "checkout"
                THEN [gitOp EXCEPT !.edited = @ \cup {p}] ELSE gitOp
    /\ UNCHANGED <<head, index, indexLock, last, history>>

\* Git itself respects the lock; a program that writes the index by itself may not.
OwnerStages(p) ==
    /\ Happens /\ index[p] # worktree[p]
    /\ index' = [index EXCEPT ![p] = worktree[p]]
    /\ UNCHANGED <<head, worktree, indexLock, gitOp, last, history>>

OwnerCommits ==
    /\ Happens /\ indexLock = "free" /\ index # head.tree /\ head.n < MaxCommits
    /\ head' = [n |-> head.n + 1, tree |-> index]
    /\ UNCHANGED <<index, worktree, indexLock, gitOp, last, history>>

\* git reset --soft, to any commit there is, takes no lock of the index.
HeadMoves ==
    /\ Happens /\ head.n < MaxCommits
    /\ \E tree \in Tree \ {head.tree} : head' = [n |-> head.n + 1, tree |-> tree]
    /\ UNCHANGED <<index, worktree, indexLock, gitOp, last, history>>

\* The owner removes a lock that looks left behind.
Unlock ==
    /\ Happens /\ indexLock # "free" /\ indexLock' = "free"
    /\ UNCHANGED <<repo, gitOp, last, history>>

\* The process ends.  The lock stays; Git may finish what it was told.
CrashGit ==
    /\ Happens /\ gitOp # Idle
    /\ gitOp' = Idle /\ last' = [says |-> "none", landed |-> FALSE, published |-> FALSE]
    /\ indexLock' = IF indexLock = "commit" THEN "stale" ELSE indexLock
    /\ UNCHANGED <<repo, history>>

GitNext ==
    \/ \E s \in SUBSET Path : Commit(s) \/ Checkpoint(s)
    \/ CommitAll \/ Busy \/ Lock \/ Stage \/ Land \/ Succeeded \/ Failed \/ Publish \/ Report
    \/ Timeout \/ BackUp \/ Checkout
    \/ \E tree \in Tree, only \in SUBSET Path : Restore(tree, only)
    \/ \E p \in Path : OwnerStages(p) \/ \E t \in Text \cup {None} : Edit(p, t)
    \/ OwnerCommits \/ HeadMoves \/ Unlock \/ CrashGit

GitSpec == GitInit /\ [][GitNext]_gitVars

-----------------------------------------------------------------------------
(* Properties *)

\* docs/SECURITY.md, line 379: a refused commit has moved neither HEAD nor the
\* index, one that is done has moved both, and everything between is reported
\* as uncertain.  What the owner staged meanwhile stays staged.
CommitTrue ==
    /\ last.says = "done" => last.landed /\ last.published
    /\ last.says = "refused" => ~last.landed /\ ~last.published
    /\ unstaged = {}

\* gitService.ts, line 668: a restore takes a checkpoint first.  What it wrote
\* over is in that checkpoint, unless it was edited since.
RestoreBackedUp == lost = {}
=============================================================================
