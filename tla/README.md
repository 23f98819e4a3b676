# A TLA+ model of dodo-mcp

dodo-mcp is a local daemon that gives a remote AI client controlled access to a
workspace: it reads and searches, changes files under a journal, runs commands as
jobs, asks the owner for approvals over a private socket, and keeps backups of what
it touches. This directory holds TLA+ modules of the parts where order, failure and
interleaving decide whether it is correct, TLC configurations that check them, and
TLAPS proofs of their main properties for every value of the constants.

Paths below are relative to the repository's `src/`, or to its root for `docs/`.

## 1. The system

A daemon is one Node process; an installation may run several, for different roots. Its code is single threaded: everything between
two `await`s, and every `better-sqlite3` transaction, is atomic with respect to the
rest of the daemon, and nothing is atomic with respect to other programs, other
daemons of the installation, child processes or the death of the daemon. State lives in
SQLite (`store/`), in a private state directory (backups, objects, spools,
configuration) and in memory.

| component | state | what makes it hard | correct when | modules |
|---|---|---|---|---|
| change engine (`services/changes`) | changesets, journal steps, backups, the files | crash between a system call and its record; other programs edit the same files; compensation may fail | originals stay recoverable, reported outcomes are true, a blocked change stops everything | `ChangeJournal`, `ChangeLedger` |
| mutation queue (`security/mutationQueue.ts`) | active ticket, holders, waiting line | waiters abort while tickets pass on; leases outlive calls | one writer, no turn lost, every waiter served | `JobQueue` |
| jobs (`services/jobs`, `tools/jobTools.ts`) | rows, processes, handles, leases, spools, calls that wait | exit and close are different events; inherited pipes; four ways to end race; output is dropped while it is read | rows true and final; answers say what was written and what was lost | `JobQueue`, `JobOutput` |
| tool dispatch, approvals, idempotency (`tools/`, `security/approvals.ts`) | the call in progress, `pending_approvals`, `idempotency_keys` | authority read before an await and used after it; time runs out between consent and use; a crash between effect and receipt | no effect without authority at that moment; one consent, one call; one key, one effect | `Dispatch`, `Approvals` |
| authority (`security/`, `auth/`) | clients, grants, tokens, client access, project level | an owner's change while the library saves a grant | a deleted client has nothing left | `Authority` |
| schedules (`services/schedules`) | schedules, runs, next_at | claim, await, launch; a crash in between | an occurrence at most once, under a consent | `Schedules` |
| workspace host and project runtimes (`server/workspaceHost.ts`, `installationRuntime.ts`) | runtimes, leases, switching | draining while new work arrives | no call in a closed runtime | `Projects` |
| processes of an installation (`server/appServer.ts`, `projectLease.ts`, `cli/kill.ts`, `ipc/`) | leases, sockets, descriptors, rows | two daemons start at once; kill beside stop | one daemon per root, its owner reaches it | `Daemons` |
| recovery (`services/recovery`) | snapshots, manifests, objects, reservations, plans | garbage collection beside a capture; several projects share objects | what is offered can be restored | `Recovery` |
| deployments | rows, images, pointers, commands in flight | Docker's answer is lost, or late | one can roll back; commands are sent once | `Deployments` |
| vault of private files | encrypted backups, keys, receipts | a key store that is awaited; a torn write | what was written over is kept | `ConfigVault` |
| resources (`services/resources`) | files, rows, references | a sweep beside an ingest | a reference has its bytes | `Resources` |
| project memory (`services/memory`) | proposals, memories | evidence is awaited while others decide | a claim once, approved | `Memory` |
| context engine (`services/context`) | cached lists, manifests, cursors | sources change under a query | a hit is what a search would give | `Context` |
| brain (`services/brain`) | cached parses, graph, runs | incremental runs that skip, stop, fail | the graph a rebuild would give | `Brain` |
| code workers (`services/intelligence`, `services/brain`) | worker threads and their requests | hung workers, late answers | answers reach who waits and fit | `CodeWorkers` |
| language servers (`services/lsp`) | processes, queues, documents | late answers, deaths, stops | no stray process, no call left | `LanguageServer` |
| tunnel (`tunnel/supervisor.ts`) | process, generation, loops | loops outlive their process | connected on evidence | `Tunnel` |
| subagents (`services/ai`) | durable rows, executors, slots | controls write the row an executor works on | steps once, jobs end | `Subagents` |
| agent runs (`services/agent`) | runs, hypotheses, intents, actions | expiry and restarts beside operations | intents exclusive, rows true | `AgentRuns` |
| verification (`services/assistance`) | record, evidence, checks | source changes and changes back | stale stays stale | `Verification` |
| git (`services/git`) | candidate index, lock, checkpoints | owner and hooks act too | a commit is reported as it went | `Git` |
| Config page and remote lease (`server/localConfig.ts`, `remoteConfig.ts`, `aiAdmin.ts`, `configUi`) | page, lease, cookie | the workspace changes under the page | decisions where they were taken | `ConfigConsole` |
| project registry and federation (`projects/`) | rows, directories, contexts | directories move and are replaced | the directory registered, the level chosen | `Registry` |
| devices and desktop (`services/android`, `services/desktop`) | policy, snapshots, receipts | consent changes under a call | nothing without consent, on a fresh screen | `Devices` |
| browsers, media (`services/multimodal`) | sessions, workflow runs, sources, jobs | close beside open, sweep and job | everything is ended and released once | `BrowserSessions`, `MediaSources` |
| configuration (`config/`, `cli/`, `tunnel/credentials.ts`) | `config.json`, credential | whole-file writes of several processes | complete, keeps what was saved | `OwnerConfig` |
| setup (`setup/`, `config/stateImport.ts`) | locks, components, receipts | two setups, a lock removed by hand | reports are true | `Setup` |

They meet in four places. A mutating tool call takes a **turn** of the queue and,
inside it, runs the change engine or spawns a job; a job's **lease** keeps the turn
until its process, pipes and drift scan are done. The change engine and the job
manager both **await a source backup** by the recovery service first, and the dispatcher
has its authority checked again when that backup ends. The owner's commands, the Config
page and the OAuth endpoints run **beside** every one of these, on the same tables. And a
**restart** ends everything in memory at once and leaves the rows for the boot sequence.
The other services keep tables of their own and interact with callers, their child
processes, the owner and the clock.

`PROJECT.json` lists every component with its status, and under `hazards` what is
hard to test in this code, at its line, with the properties that watch it.

## 2. Modules

`ChangeJournal`, `JobQueue`, `Dispatch` (which extends `Authority`, which extends
`Approvals`), `Schedules` and `Projects` are the core, each with a specification and a run
of its own. The other modules describe services that share no state with one another
in the code; three modules put several of them into one specification, in which `part`
says whose behaviour this is:

- `MCRecovery`: `Recovery` (extended), `Deployments`, `ConfigVault`, `Setup`;
- `MCServices`: `Memory` (extended), `LanguageServer`, `Subagents`, `Brain`, `Tunnel`,
  `AgentRuns`, `Resources`, `Daemons`, `CodeWorkers`, `Verification`, `Context`;
- `MCOutside`: `Git`, `ConfigConsole`, `Registry`, `Devices`, `BrowserSessions`,
  `MediaSources`, `OwnerConfig`, `JobOutput`.

A step of such a specification is a step of its part and leaves all other variables
alone, so what holds in it holds of the part's own `...Spec`, whose initial states
these are. (A part that does not move has one initial value where its module leaves a
choice, which keeps that choice from multiplying the states of the others.)
`MCChangeJournal` and `MCDispatch` only define instances. The proofs are in
`ChangeJournalProofs`, `JobQueueProofs`, `DispatchProofs`, `SchedulesProofs`,
`ProjectsProofs`, `RecoveryProofs`, `ServicesProofs` and `OutsideProofs`; these extend the
modules above, so they are about the very definitions TLC checks.

A definition whose comment begins with "Broken" is a plausible bug that `PROJECT.json`
names in a mutant: with it in place of the definition of the code, TLC finds the mutant's
property violated. No specification uses it. "What does not hold" or "It does not hold"
marks a statement of a doc or a comment that the code does not keep (section 6).

**ChangeJournal.** State: the workspace (`disk`, and `twin` for the paths
whose file still shares its inode with a temporary name), the journal (`status`, `undoes`,
`files`, `jstate`, `backup`) and the engine's
place (`pc`, `cur`, `at`, ...). A plan is a sequence of steps, each a create,
modify, delete, move, mkdir or rmdir with the bytes it expects and leaves, as
`services/changes/types.ts` has it; contents are model values, one per hash. An action ends
where the code makes a system call or a journal write, because that is where a crash
or another program's edit can fall; between `beforeMutation`'s await and the end of
an apply there is no other await, so nothing else in the daemon interleaves. `Crash`
keeps disk and journal and forgets the rest; `ReconcileApplied`, `ReconcileOther` and
`Ready` are `reconcileOnBoot`; `Resolve` is the owner's `recover.resolve`. Status writes
that the store refuses, and backups lost to damage, are environment actions with a bound.

**ChangeLedger.** What the engine promises about the status column: only `status` and
`undoes`. A change opens while nothing is blocked, settles as committed, failed or
recovery_required, committing a rollback retires its target in the same step.
`Ledger == INSTANCE ChangeLedger` in `ChangeJournal` is the refinement;
the variables have the same names, so the mapping is the identity.

**JobQueue.** `active`, `refs` and `waiters` are the fields of `MutationQueue`, `open` the
tickets whose call has not returned; a call is out, queued or in its body (`at`) under a
ticket (`ctx`); a job has a row, a process (alive, exited with pipes open, drained, closed),
a handle in the manager's map (`live`) and a `lease`. Close and
exit are separate actions, as the `exit` and `close` events are; `Shutdown`, `Exit`,
`Crash` and `Boot` are the daemon's. Scheduled commands are callers too, because
`startProtected` runs under the same queue.

**JobOutput.** The spool of one stream of each job, a byte being its offset in the stream.
`segments`, `oldest` and `newest` are the segments of `spool.ts`; `Write` appends a chunk,
begins a segment and drops the oldest as the code does, `After` is what the total budget
does when a job ends. `waiting`, `mine`, `rest`, `woken`, `replies` belong to run_command,
run_commands (which starts its commands one by one, and may fail in between) and job_wait;
`polled`, `offset`, `pages` to a client that follows `nextOffset`. `Lead` are the offsets
at which a character begins, so that what a page loses of a character is visible.

**Approvals, Authority, Dispatch.** `Approvals` is the table with the three conditional
UPDATEs of `setApprovalStatus` and the search of `findPendingActionApproval`. Time is the
one bit `late` of a row. `Authority` adds the OAuth side: `Visit` and `Complete` are the
two handlers, `GrantSaved` is what follows the await of `grant.save()`, `DeleteClient` is
the transaction of `clientDeletion.ts`; codes, refresh and signatures belong to the
oidc-provider library, of which only `IssueToken` remains, marked external. `Dispatch` is
`invokeToolDefinition` with the handlers of `apply_changes` and `exec_command`: stages
idle, queued, backup, running, over, cut where the code awaits. What an apply does to
files is `ChangeJournal`'s, here it ends in one of the ways that module gives it;
the queue is `JobQueue`'s, here a turn is held by at most one call. The approval is consumed
before the idempotency lookup, as in the code: in inspect mode even a retry
that only replays a receipt needs a new approval. `Unchanged` compares trust modes, not
policy versions, as `revalidate` does: a mode that was changed and changed back passes.
The review hash of a deletion is not modelled: the owner may review and confirm in any
state, so it restricts nothing.

**Schedules.** The rows (`status`, `expires`, `next`) and receipts (`run`) of
`scheduleService.ts`; `fits` is the answer of `checked()`. A tick is a callback that is cut
only where `startProtected` awaits the backup, so `loop` names the tick whose callback runs
and everything else waits for it; ticks overlap at that await and each works on its own
copies of the rows (`todo`) and its own time (`at`). `Claim` is the transaction, `BackUp`
takes the queue's turn, `Start` and `Refuse` follow the look at the live row. Time counts
minutes, the unit in which the code tells a late occurrence from a missed one, and every
schedule is due every minute: cron arithmetic is a library's. The clock stands still
during a callback. The turn is a shadow of `JobQueue`: a schedule's tick finds the queue
free and so never stands in line; other callers hold the turn as "call".

**Projects.** A runtime is an `Instance`: `of`, `ws` and `holder` are its project, its phase
and its lease file. `host`, `cur`, `sw`, `target`, `other` are `workspaceHost.ts` and the place
of a switch between its awaits; `runtimes`, `opening`, `closing` are the maps of
`installationRuntime.ts`; `at`, `inst`, `names`, `conn` follow a call from its connection over
the gate and `beginTool`, or `acquire`, to its tool; `stop` is how far a shutdown is. `Down` is the
end of `shutdownServices`, wherever it was begun from. The lease file of a dead process
counts as no file, because `acquireProjectLease` removes it (how that may go wrong between two
starting daemons is in `Daemons`). Jobs are reduced to whether one runs and who started it (a
call or a timer), and a scheduled command to its wait for the backup (`tick`) and `Launch`.

**Recovery.** Per backup a `status`, the objects it refers to, its manifest and whether it is
full; per project its sessions, marks, plans, blocked state and expected source; objects
are files with rows, shared by all projects. A capture is `Begin`, `Reserve`, `Store` and
`Register`, cut at its awaits; `Maintain` is a reviewed cleanup, with the queue of files
still to remove; `ResetBlocked` does not wait for the queue, as in the code. Retention and
grace are one bit of age, moved by `DaysPass`.

**Deployments.** Every operation awaits Docker, so a command is `flight` until the daemon
has carried it out or lost it, also when its caller timed out or died. `pointer` holds the
current and previous known-good deployments, `receipt` and `outcomeOf` the rows, `sent` counts the
commands.

**ConfigVault, Setup.** The vault numbers backups and restores; `task` is the operation in
progress between two awaits of the key store, `Begin`, `Write` and `Written` the steps of a
restore that a crash can cut. Setup follows each run (`step`) through import, inspection, lock,
installation and report, with the owner removing locks and runs dying.

**Memory, Context.** `Memory` cuts an approval where the evidence is verified (git answers
later). `Context` describes one goal: `sources` are versions of files and rows, `stored` the cached
list with its manifest, `token` the cursors clients hold; a call reads the manifest, then the
sources one after the other, text first and hash later as the code does, and stores its list
under the manifest it began with.

**Brain, CodeWorkers.** `Brain` cuts a run where the parser is awaited and at its commit;
`GraphOf` is the reference definition, what a rebuild of the cached files would give.
`CodeWorkers` serves two hosts (`host`), which differ in what a timeout and a close do.

**LanguageServer, Tunnel.** Servers are numbered by their start, and events of an old
server come in after the new one is there; a tunnel's readiness `loops` carry the
generation they belong to.

**Subagents, AgentRuns, Verification.** A subagent's executor works on its own copy (`live`)
of the row's payload, controls write the row; `waiting` are controls that await a runtime and
then write what they read before. An agent run's `expire` is lazy, as in the code. A
verification's run, reports and inspections work on copies of the record
(`memory`, `inspection`) that are written back whole.

**Resources.** An ingest is a chain of steps from staging to reference; the collector, a
second runtime's clean-up and a crash come in anywhere. Ages are "young" and "old".

**Git, ConfigConsole, Registry, Devices, BrowserSessions, MediaSources, OwnerConfig,
Daemons.** Each has the owner, other programs or other processes as actors of their own: the
owner stages, commits and removes locks beside `Git`'s operation; a workspace is switched
between any two steps of a request; directories move and inodes are used again; consents are
changed between the snapshot and the input; calls, sweep and close end the same session or
source; several commands read, change and write the same configuration; and daemons, `dodo stop`
and `dodo kill` act on the same leases, sockets and rows.

## 3. Runs

All numbers are of `tlc -workers 2`.

| run | instance | distinct states | what it shows |
|---|---|---|---|
| `journal_safety` | 3 paths, 2 contents, 2 directory identities, 5 plans of up to 2 steps that use all six operations, 2 changesets, 1 crash, 1 foreign edit | 1.6 M | `OriginalsRecoverable`, `RolledBackIffUndone`, `OneOpenChange`, `OnlyAccountedBytesReplaced`, `OutcomesTrue` |
| `journal_faults` | the same, no edit, 1 refused status write, 1 damaged backup | 0.8 M | what those faults leave standing, in particular `CommittedMeansApplied`, `LedgerSafe` |
| `journal_live` | 2 plans, 1 crash, 1 edit, no symmetry | 0.25 M | `LedgerSpec`, the refinement with its fairness: an open change settles |
| `jobs` | 3 callers, 2 jobs, 2 tickets, 1 waiting place, 1 store fault, 1 stop or crash | 0.12 M | `OneWriter`, `NoLostTurn`, `RowsTellTheTruth`, `JobsSettle` |
| `access` | one client, one grant, an edit, its retry, a command; 4 approval rows, 1 trust change, 1 access change, 1 restart | 2.0 M | `ApprovalFits`, `KeyRunsOnce`, `AnswersTrue`, `DeletedClientGone`, `EffectAuthorized` |
| `schedules` | 2 schedules, 2 ticks, 3 minutes, 1 trouble (crash, refused write or change of policy) | 0.13 M | `OccurrenceOnce`, `ReceiptsTrue`, `ConsentObeyed`, `DueIsSettled` |
| `projects` | 2 projects, 3 runtimes, 2 calls, 1 named runtime, 1 control socket that does not close | 0.44 M | `CallsSeeWholeRuntimes`, `OneRuntimePerProject`, `CallJobsSurvive`, `DefaultServes`, `LeasesReturned`, `TransitionsEnd` |
| `recovery` | 2 projects, one of them observed, 1 object, 3 backups, 1 marked, 1 trouble; 2 images, 3 deployments, 1 mishap; 2 texts, 3 backups of a file, 2 restores, 2 keys; 2 setups, 1 death | 2.1 M | `BackupsKept`, `ServiceRecoverable`, `NeverBare` |
| `services` | per part two or three of each actor: 2 proposals of 2 claims; 2 calls, 2 servers; 2 subagents for 1 place; 3 paths, 2 edits; 2 restarts of a tunnel; 2 hypotheses; 2 ingests of 2 contents; 3 daemons of 1 root; 2 code requests; 2 checks, 2 observers; 2 queries of 1 file | 1.9 M | `MemoriesTrue`, `ProcessesSafe`, `WorkersTrue`, `StoresSound` |
| `services_live` | four of those parts with smaller bounds | 0.05 M | `CallsAnswered`, `WorkConverges` |
| `outside` | 3 paths of which 1 is denied, 1 commit; 2 leases, 1 switch, 2 requests; 2 places, 2 inodes, 2 projects; 2 calls, 2 runtimes, 2 inputs; 2 sessions for 1 place; 3 sources for 2 places; 2 writers; 2 jobs with 5 bytes | 1.4 M | `CommitTrue`, `ConsoleSound`, `OwnerObeyed`, `SessionsSafe` |
| `git_restore` | a listing that holds one entry, two changed files | violated, as expected | finding 1 |

The properties, by component:

- *Change engine.* `OriginalsRecoverable`: from the first source write until a change is
  settled, every original is in its backup. `OnlyAccountedBytesReplaced`: a write replaces
  only bytes the engine saw at its last look, except in the window of one system call the
  code cannot close. `OutcomesTrue`: an outcome that is reported, failed or committed,
  was on the disk when it was reported, after compensation and boot reconciliation too;
  `CommittedMeansApplied` is the half of it that `journal_faults` asks again.
  `RolledBackIffUndone`, `OneOpenChange`, `LedgerSafe`, `LedgerSpec`.
- *Queue and jobs.* `OneWriter`: two bodies, or a body and an earlier call's process, pipes
  or drift scan, never work at once (for processes of this daemon: what a crashed one left
  behind is out of its control). `NoLostTurn`: a ticket's count is exactly the number of its
  holders, and nobody waits for a free queue. `RowsTellTheTruth`. `JobsSettle`: who waits gets
  a turn, and a row ends once.
- *Dispatch.* `EffectAuthorized`: at the step that begins an effect the caller's grant,
  client, token, access and level allow it, under a trust mode that allows it or an approval
  of its own. `ApprovalFits`: that approval was given for this principal, tool, arguments
  and start of the daemon, and no other call used it. `KeyRunsOnce`: of the calls that share
  a key one changes the workspace. `AnswersTrue`: no answer claims, or denies, what is not
  so. `DeletedClientGone`.
- *Schedules.* `OccurrenceOnce`: an occurrence starts at most once, whatever ticks overlap
  and wherever the daemon dies. `ReceiptsTrue`: the history tells the truth, with two
  exceptions named at the property. `ConsentObeyed`: a consent that
  ends during the backup stops the launch. `DueIsSettled`: what is due gets its receipt or
  its schedule stops. It needs the other callers to leave the queue alone from some time on:
  a busy queue makes a tick pass an occurrence over, and steady writers starve it.
- *Projects.* `CallsSeeWholeRuntimes`: a call in its tool works in a runtime that is up and is
  the one it asked for. `OneRuntimePerProject`: no runtime without its lease.
  `CallJobsSurvive`: neither switch nor close kills what a call started. `DefaultServes`: a
  switch that fails leaves the old workspace up. `LeasesReturned`: a shutdown that ends gave
  all leases back, but for a workspace still being cleared after a failed switch.
  `TransitionsEnd`: switches and shutdowns do.
- *Recovery.* `BackupsKept`: a backup that is offered has its manifest and every object it
  names, and so has what a running capture has stored; nothing deletes the before-image of a
  write under way, a marked backup, one a live plan was reviewed against or the expected source's;
  and no reservation outlives its capture. `NeverBare`: no step takes the last full backup.
- *What an owner can go back to* (`ServiceRecoverable`). The current and previous good images exist
  and are not retired, a build and a `compose up` are sent once, what runs is on record; what
  a restore wrote over is in a kept backup with a kept key, and a torn file has a receipt
  that says so; setups have their locks to themselves, import what was agreed, report what works
  and keep what is in the manifest.
- *Processes* (`ProcessesSafe`). No language server runs that is neither the current one nor told to
  stop, and diagnostics end a wait in order; a tunnel is shown as connected on the evidence of
  the process that is there; one daemon per root, `kill` reports what has gone and kills none
  it has not identified, and who ended by itself left nothing.
- *Workers* (`WorkersTrue`). A subagent's step takes effect once and its jobs end with it;
  intents of one workspace do not overlap, and an action's row says RUNNING exactly while it
  runs; a worker works only for who waits, the closed parser stays closed, and a refactoring
  is of the text its caller read; evidence once told to be stale is never told to hold again, and
  no check runs unrecorded.
- *Stores* (`MemoriesTrue`, `StoresSound`). Of one claim one memory is current, of an approved
  proposal; the graph is what a rebuild of the cached files gives, and identities are unique; a reference
  has its bytes; an answer from the cache is exact at its check, and a page continues
  the list the first page is of.
- *Outside* (`CommitTrue`, `ConsoleSound`, `OwnerObeyed`, `SessionsSafe`). A refused commit moved
  neither HEAD nor index, a done one both, anything else is called uncertain, and what the
  owner staged stays; decisions take effect in the workspace and epoch they were shown, under
  their own lease and while their session is open; a path, directory and title stand for one
  project, with the level its owner chose; nothing reaches a device without a consent that
  holds or on a screen that is not the snapshot's; the configuration is complete and keeps what
  was saved but for what a command that had read it earlier writes back; browsers, directories and
  media have somebody who ends them, an observation is acted on once; a spool keeps to its limit,
  who follows `nextOffset` sees every character the spool still has or says is dropped, and an answer's
  claims about an ended job are so.

Each of these is a conjunction of named parts in its module, and `TypeOK` of the module
goes with it. Bounds. Two changesets are enough for an apply and its rollback, or a change
beside a blocked one, and two steps for a failure after a success; the fifth plan exists for
rmdir. One crash can fall at every step, also during reconciliation of what the first apply
left (the histories are not cut at it). Three callers are the least with one inside, one
waiting and one refused; two jobs the least that race for a lease. In `access` three calls are
the least with a retry and a call in between, one grant suffices because the theorems cover
any number; conflicts of one key with two actions are not in this instance and are covered
by the proofs only. Two ticks are the least that overlap, two schedules the least where one's
backup delays the other; three minutes hold an occurrence in time, one missed and one after a
restart. Three runtimes are the default one, the one it is switched to or that is opened, and
one more that the limit or the lease must refuse. In the three bundles every part has two of
whatever may race (projects, captures, servers, ingests, observers, sessions, writers) and one
crash, death or mishap where the code handles one; the other limits (`Retained`,
`SessionLimit`, `Keep`, `Total`, ...) are the smallest at which the code's own limit is reached
and passed.

These instances are at the edge of what five minutes allow; larger ones were run once and
found nothing new: schedules with two troubles, jobs' output with a chunk of two and a segment
of one byte (6.5 and 10 million states), three writers of the configuration, and agent runs with a
wall time of two. What the bounds cut off in
safety, the theorems of section 5 cover.

Every bound is a constant named `Max...` and appears only in guards of environment actions, or
is a limit the code itself has (`MaxWaiters`, `MaxJobs`, `MaxPendingOAuth`, `GlobalLimit`, ...).
Symmetry is used where the permuted values are interchangeable (changeset identities, the
two identical calls of `access`, images, and places, projects and titles of `Registry`) and
never with liveness. `CHECK_DEADLOCK FALSE` stands where a history ends because its supply of
plans, calls or rows is used up; `jobs` has no such end and is checked for deadlock.

## 4. Fairness

`ChangeJournal`: weak fairness of the engine's steps and of the boot sequence. Both are
synchronous code that runs to its end unless the daemon dies; nothing is assumed of
clients, the owner or other programs. `JobQueue`: weak fairness of
a call's body reaching its end and of the daemon's timers and callbacks (the wall timer, the
drain timer, the spawn error, `close` once the pipes are shut, the scan after a job), of
a stop reaching its end and of the next start; a process that was sent a kill signal exits. No
process is assumed to end by itself, and no pipe to close before the drain timer shuts it.
`Schedules`: the timer fires, ticks go on, backups and jobs end
(both have time limits), calls end, the daemon is started again. Strong fairness stands where
a step is possible only between two ticks' callbacks: the event loop is free again and again
and does not pass a ready callback over for ever. The owner, changes of policy, new calls and
the clock have none. `Projects`: weak fairness of calls that return, of the waits and awaits of
a switch, an opening, a close and a shutdown, and of a backup that ends; none of clients,
the owner, the other daemon, or of jobs ending.

`services_live`: of a language server, that timers and continuations run and a killed process
is gone some time, but not that it answers, publishes or reads its input (`ClosesInput` is
FALSE there: with an input destroyed under it a request's timer throws before it rejects, see
section 6); of the tunnel, that probes and backoffs end and a killed process exits; of
subagents, the pump, a run's time limit and what promises await; of the brain, that its
timer fires and the parser answers or times out, but not that editing stops:
`IndexConverges` asks only for what comes after the last edit.
The other modules check safety only.

## 5. Proofs

TLAPS proves, for any finite or infinite sets of paths, plans, calls, jobs, clients,
projects, servers, writers and so on, and any bounds, from the named assumptions in the modules (`JournalAssumption`,
`BoundAssumption`, `QueueAssumption`, `RowsAssumption`, `FlowAssumption`, `CallAssumption`,
`SchedulesAssumption`, `ProjectsAssumption`, `RecoveryAssumption`, `MemoryAssumption`, and the
`...Assumption` of every other module, gathered in `Assumed` of its bundle: sentinels are not
members of the sets, bounds are naturals, functions have their domains, the limits of a
spool fit each other):

| theorem | property of a run |
|---|---|
| `ChangeJournalProofs!OriginalsCorrect`, `RolledBackCorrect`, `OneOpenCorrect`, `ReplacesOnlyAccounted`, `OutcomesCorrect`, `CommittedCorrect` | all safety properties of the journal runs |
| `ChangeJournalProofs!JournalImplementsLedger`, `LedgerCorrect` | `LedgerSafe`, every step maps to a ledger step or a stutter; and the ledger's own promise |
| `ChangeJournalProofs!TypeCorrect`, `BlockedMeansIdle` | types, and that nothing works while a change needs recovery |
| `JobQueueProofs!TypesHold`, `OneWriterHolds`, `NoLostTurnHolds`, `RowsHold` | the three invariants of `jobs`, and types |
| `DispatchProofs!TypeCorrect`, `KeyCorrect`, `AnswersCorrect`, `ApprovalsCorrect`, `DeletionCorrect`, `AuthorityCorrect` | all five properties of `access`, and types |
| `SchedulesProofs!TypeCorrect`, `OnceCorrect`, `ReceiptsCorrect`, `QuietCorrect`, `ConsentCorrect`, `ConsentObeyedCorrect` | the three safety properties of `schedules`, their parts, and types |
| `ProjectsProofs!TypeCorrect`, `OneRuntimeCorrect`, `CallsCorrect`, `ServesCorrect`, `JobsCorrect`, `LeasesCorrect` | the five invariants of `projects`, and types |
| `RecoveryProofs!BackupsCorrect`, `NeverBareAgain`, `ServiceCorrect` | all of `recovery` |
| `ServicesProofs!MemoriesCorrect`, `ProcessesCorrect`, `WorkersCorrect`, `StoresCorrect` | all of `services` |
| `OutsideProofs!CommitsTrue`, `ConsoleAlwaysSound`, `OwnerAlwaysObeyed`, `SessionsAlwaysSafe` | all of `outside` |

So every invariant, and every action property, that a passing run checks is a theorem. None of
them is inductive as it stands; each proof names the strengthening at its head, checks
`Init`, one lemma or step per action, and concludes with `PTL`. The arguments:

- *Journal* (`IInv`). `TypeOK` alone is not inductive, since whether the cursor points into a
  change depends on where the engine is; `EngineInv` ties `pc`, `cur` and `at` to the status and
  journal states. `BackupInv` adds which steps have their backups at each phase.
  `AccountInv`: the bytes of every path are accounted for by the last look, and a removed
  directory is the one that was looked at; it gives `ReplacesOnlyAccounted`. `ShapeInv`: the steps of a
  plan are about different paths, and a rollback's plan undoes a settled target of files only.
  `OutcomeInv`: steps not yet reached, or undone again, are as before, and sealed steps as
  the plan leaves them, for paths nobody else edited; it gives `OutcomesCorrect` and `CommittedCorrect`.
- *Queue* (`IInv`). `OneWriter` follows from `NoLostTurn`, and that needs to know for every
  ticket who holds it: bodies and leases are counted.
- *Dispatch* (`IInv`). The call that works holds the turn and its key (`Turn`, `Keys`), so nobody
  else's key is released and no other call of that key took hold; a completed receipt is some
  call's (`Receipts`); a call that works passed the gate (`Gated`); approval rows keep what they
  were asked for and never leave their end, which gives `ApprovalFits` and, with the
  look at the client after `grant.save()`, `DeletedClientGone`. `AuthorityCorrect` is an
  action property: only `StartWrites` and `SpawnJob` begin an effect, and both check first.
- *Schedules* (`IInv`). An occurrence that was started is `launched`, or in the hands of the
  one tick that claimed it; a claim is never offered again because the row's next time only
  moves forward.
- *Projects* (`IInv`). Every runtime has one keeper (the host, the switch, an opening, the
  table of open projects, or a teardown nobody waits for) and leases follow runtimes; whoever
  calls in a runtime keeps its keeper from letting go. `Jobs`: who may have a job running in a
  runtime that is being left; `Kept`: what a teardown still has to give back.
- *Recovery* (`RecoveryInv`). Rows have their files, backups are numbered in order of their
  capture, and a write under way has its guard (`WritesGuarded`): the collector asks for
  references and reservations in the same transaction, so what it takes nobody can still name.
  `ImagesHold`: the operation in progress is recorded before its command is sent, a removal was
  reviewed, the pointers point at good deployments. `VaultHold`: what a
  restore names is kept with its key, and the before-image is sealed before the first byte.
  `SetupHold`: locks are their takers' or of dead runs, imports know what was agreed,
  the manifest is read by one.
- *Services.* `MemoryHolds`: an approval under review has its proposal, an undecided proposal
  no decision. `BrainHolds`: between its look and its commit a run's files, with those affected,
  are all that can differ from a rebuild. `ResourcesHold`: at most one ingest has just linked
  a content, what is referred to has its row and file. `ContextHolds`: every candidate of a list was
  read since the manifest it is stored under, text first and hash after, so a list
  whose manifest is still the present one lacks nothing; a cursor's list is such a list.
  `TunnelHolds` counts generations against starts. `DaemonsHold`: what is held was taken in
  order, a file at a path is its maker's, and `kill` knows what it has seen there. `LspHold`: a call is in the
  queue it waits in, at one place, and the wire carries versions in order. `AgentsHold`: a row is ahead
  of its steps, a waiting control holds the payload of the row, and jobs are listed.
  `AgentRunsHold`. `WorkersHold`: a request is at one place, is awaited while a worker has it, and its
  answer is of what was read. `VerificationHolds`: staleness is remembered by the evidence's column
  with recovery, by the record without.
- *Outside.* `GitHolds`: at each place of a commit, what of HEAD, index and candidate has
  moved. `ConsoleHolds`: a request carries what the page showed. `RegistryHolds`: the level in
  force is the one chosen for this directory. `DevicesHold`: screens are shown, a device's operation is
  alone, receipts are reserved first. `OwnerHolds`: what each command has in its hand is complete and what it
  has missed is known. `SessionsHold`, `MediaHolds`: who ends what. `OutputHolds`: a segment's
  successor begins within `Segment + Chunk` bytes of it, so the oldest one is dropped only when the limit
  forces it, and never within a page of the end; an answer about a job that has exited stays true because
  only a live process writes.

Only model-checked: the temporal properties under fairness (`LedgerSpec`, `JobsSettle`,
`DueIsSettled`, `TransitionsEnd`, `CallsAnswered`, `WorkConverges`), which this prover cannot do,
as it cannot do `ENABLED`; and `git_restore`, whose property is false. Where a fold or a
recursive function computes a value for data of any size (what the parser's edges or a plan's length amount to), the
proofs use only one step of it; that it computes what a reference definition says for every input would be
induction over data and is left to the bounded instances. Fairness of `ServicesSpec` plays no
part in safety: `ServicesProofs` is about `ServicesSafety`.

## 6. What the code does not keep

The finding is a run that TLC ends with a counterexample:

1. `applyRecoveryRestore` "Automatically creates a before-restore Git checkpoint"
   (`services/git/gitService.ts:668`), but a listing that was truncated at 500 entries is taken as
   whole (569), and files beyond it are written over unsaved (`git_restore`).

The modules state some more as properties that no passing run includes. Each was asked of
TLC on the instance of its bundle, which violates it. To see one, define it in the bundle as
a property of the part that moves (`X == part = "lsp" => L!DiagnosticsFresh`), name it in the
cfg, and leave out the symmetry. `PackagesAsRebuilt` needs other `Sources`: a text that declares
a package and defines no name, so that nothing else makes its users be written again.

- `Recovery!BaselineKept`: the current source checkpoint is protected (`docs/RECOVERY.md:231-235`), but
  retention (`services/recovery/storage.ts:176-205`) may take it.
- `LanguageServer!DiagnosticsFresh`, `RequestTimesOut`: a waiter is armed "for exactly this version"
  (`services/lsp/lspService.ts:856`) but accepts publications without a version; a request's timer throws before
  it rejects when the server's input is destroyed (`services/lsp/jsonrpc.ts:181`).
- `Subagents!PauseStops`: a pause stops the next step (`docs/AI_PROVIDERS.md:101`), but a resume that waits for
  the runtime writes over a pause that came meanwhile (`services/ai/subagents.ts:124-125`).
- `AgentRuns!WritesAlone`, `FinalStays`, `WallTimeKept`: an operation that began under an intent lands
  after the intent was released or ran out and another hypothesis took it (`docs/AGENT_RUNTIME.md:96-98`); a `complete` or
  `judge` that awaited its evidence writes over a cancellation or expiry (`services/agent/agentService.ts:298-315`); expiry is
  looked at in some calls only.
- `Memory!ConflictsConfirmed`: conflicts are checked again at approval (`docs/MEMORY.md:121-122`), but not
  with a memory that became current while the evidence was awaited, or when a stale one is verified.
- `Brain!PackagesAsRebuilt`, `RebuildStaysQueued`: an incremental run does not find sources affected by a change
  of package declarations (`docs/BRAIN.md:38`); a queued full rebuild (`docs/BRAIN.md:75-76`) is forgotten by
  an incremental run.
- `Registry!RoutedAsRegistered`: a runtime stays under the id of a project that has moved
  (`server/installationRuntime.ts:57`, `docs/PROJECTS.md:100-102`).
- `Devices!EffectsOnce`: "Never replay an action just because its response was lost"
  (`services/multimodal/operations.ts:6`), but errors that come after an ADB command release its key (21-22).
- `MediaSources!BytesAccounted`: two that close one source give its bytes back twice
  (`services/multimodal/mediaService.ts:138-152`).
- `CodeWorkers!SpansFit`: the spans of a renaming carry no hash (`services/changes/planner.ts:182`).
- `Verification!DriftStays`: a run that saves its own copy of the record drops a drift an inspection wrote
  (`services/assistance/verification.ts:152,247`).

The core modules have these, violated too when their runs are asked (`OneOpenChange` and
`CommittingRowBlocksWrites` of `journal_faults`, `CloseCancels` of `jobs`, `RequestAgain` of
`access` with `Request1`, `MissedAreSkipped` of `schedules`, `JobsSurvive` of `projects`):

- a changeset left `committing` "also blocks further writes" (`services/changes/applier.ts:223`), but in the
  running daemon it does not; `journal_faults` therefore leaves out `OneOpenChange`;
- `media_close` waits in the queue behind the very job it says it cancels
  (`tools/multimodalTools.ts:112`);
- an approval that ran out after the owner gave it is found again for ever: "request again"
  (`security/approvals.ts:48`) makes no new request;
- a tick that awaited another schedule's backup judges lateness by the time it began with,
  and launches an occurrence that was missed (`services/schedules/scheduleService.ts:153`);
- a scheduled command that waits for its backup is counted neither as a request nor as a job
  while the workspace is switched, and is killed with the old workspace (`server/workspaceHost.ts:15-16`).

What was noticed while reading and is described in the modules as it is, not as a doc has it:

- *Processes.* Two daemons that both find a dead one's lease may both take it ("Exclusive",
  `server/projectLease.ts:5`; `Daemons!raced`); `dodo kill` reports as stopped a daemon whose lease is still
  held (`cli/kill.ts:92-97`).
- *Setup and configuration.* What is missing is inspected before the lock is taken (`setup/setup.ts:172,189`); the
  configuration of an older installation is hashed and read again (`config/stateImport.ts:286`), so the receipt may
  name another text; concurrent whole-file saves may lose one another's change (`config/globalConfig.ts:168-178`); a
  failed store of a credential removes the one before (`tunnel/credentials.ts:246`), and a removal may take
  one just stored (`cli/main.ts:475`).
- *Jobs' output.* A page is cut anywhere: `utf8SafeSlice` gets the whole raw page and never trims its end
  (`services/jobs/spool.ts:66-71`), so a character across two pages is lost although the tool calls its offsets
  UTF-8-safe (`tools/jobTools.ts:161`); `endOfStream` is true for a job that has ended with pages unread
  (`services/jobs/jobManager.ts:391`); the total budget may drop the spool of a job that has just ended before
  its waiter reads it, whose answer is then empty and not called truncated; after a restart a job's output is ''
  with `truncatedBeforeOffset` 0 ("no silent loss", `spool.ts:9`); a batch whose later command fails to start does
  not name the jobs it had started.
- *Context.* The text of a candidate and its hash are read at different times (harmless: hash last); evidence that
  is persisted again becomes current though it was marked stale; a cursor may outlive its cache entry; candidates
  from git, and the limits of 40 rows, are in no manifest and raise no flag.
- *Runtime observation.* Not modelled; concurrent refreshes may turn STALE evidence CURRENT again, and a call said to create
  a new record (`services/runtime/runtimeService.ts:289`) may answer an existing stale row.
- *Store.* A migration marks changesets in progress as failed without undoing them (`store/db.ts`).

## 7. Not modelled, and why

File bytes, diffs, encodings and size limits, other than a spool's (data the properties do not tell
apart); directories a create makes for its parents; stdin of jobs and the spool of stderr; sandbox wrapping;
Windows process trees; migrations and plain queries; input validation and audit rows; search, which
only reads; runtime observation (`services/runtime`), bounded collection that is mostly I/O; path policy
(`workspace/`), a function of its input but for the guarded read that `ChangeJournal` has; ranking and
parsing in brain and context (what a parser finds is a constant); provider formats and prompts; games,
speech and images; Docker's, git's, adb's and the OAuth library's own work, which are the outcomes they may
have. `PROJECT.json` gives the reason component by component, and marks as external what models code that is not in
this repository.

Proposals, hypotheses, servers and the like are bounded by finite sets in the runs and by nothing in the
theorems. Time is minutes, one bit or two ages where the code only compares it with a limit.

## 8. What could come next

1. Runtime observation: sessions, tasks and evidence under concurrent refreshes.
2. Schema migrations beside rows in progress, and the repository's other daemons of an older version.
3. The context engine's graph and git candidates, which need a manifest of their own to be proved about.
4. Liveness of the parts that are only checked for safety (agent runs, recovery's cleanup, setup).
