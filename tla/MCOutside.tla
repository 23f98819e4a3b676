------------------------------- MODULE MCOutside -------------------------------
(* What the program does to the world outside of it: repositories, directories, *)
(* devices, browsers and files that others use too, and the page of its owner. *)
(* The parts share no state: `part` says whose behaviour it is.                *)
EXTENDS Naturals, Sequences, FiniteSets, TLC

CONSTANTS
    None,
    TrackedPath, Denied, Text, MaxEntries, MaxCommits, MaxEvents,
    Request, MaxOpens, MaxSwitches,
    Location, Inode, Project, Title, MaxBirths,
    Call, Runtime, Key, MaxSaves, MaxInputs, MaxEffects, MaxCrashes,
    Session, Run, SessionLimit, Steps, MaxObservations,
    Source, SourceLimit, MaxClosers,
    MaxWriters,
    Job, Waiter, Reader, Slots, Segment, Chunk, Keep, Total, Page, MaxBytes, Lead

VARIABLES
    part,
    \* of Git
    head, gitIndex, worktree, indexLock, gitOp, lastCommit, unstaged, lost, events,
    \* of ConfigConsole
    current, ready, lease, leases, code, known, cookie, localOpen, shown, loadedList,
    request,
    \* of Registry
    directories, made, projects, chosen, contexts, runtimes, served, routed,
    \* of Devices
    kind, temporary, installed, saves, snapshots, inputs, deviceCall, ledger, effects,
    runtimeState, crashes,
    \* of BrowserSessions
    browserService, opening, listed, up, dirs, ending, observation, taken, used, pageCall,
    workflow, acted,
    \* of MediaSources
    mediaService, media, listedMedia, job, copies, results, bytes, closers, sweep,
    \* of OwnerConfig; config, writer and written are its `file`, `at` and `late`
    config, fresh, cred, page, writer, doing, hand, missed, written, savers, overwritten,
    overlapped, spoiled, kills,
    \* of JobOutput
    jobStatus, alive, spooled, segments, oldest, newest, finished, waiting, mine, rest,
    woken, replies, polled, offset, pages

G == INSTANCE Git WITH Path <- TrackedPath, index <- gitIndex, last <- lastCommit
C == INSTANCE ConfigConsole WITH at <- current, opened <- leases, list <- loadedList
K == INSTANCE Registry WITH at <- directories, row <- projects, births <- made
V == INSTANCE Devices WITH call <- deviceCall, closing <- runtimeState
W == INSTANCE BrowserSessions WITH Limit <- SessionLimit, service <- browserService,
                                   current <- observation, run <- workflow, op <- pageCall
M == INSTANCE MediaSources WITH Limit <- SourceLimit, service <- mediaService,
                                source <- media, listed <- listedMedia
O == INSTANCE OwnerConfig WITH file <- config, at <- writer, op <- doing, late <- written,
                               lost <- overwritten, deaths <- kills
J == INSTANCE JobOutput

ASSUME Assumed ==
       /\ G!GitAssumption
       /\ C!ConsoleAssumption
       /\ K!RegistryAssumption
       /\ V!DevicesAssumption
       /\ W!BrowserAssumption
       /\ M!MediaAssumption
       /\ O!OwnerConfigAssumption
       /\ J!JobOutputAssumption

gitVars == <<head, gitIndex, worktree, indexLock, gitOp, lastCommit, unstaged, lost,
             events>>
consoleVars == <<current, ready, lease, leases, code, known, cookie, localOpen, shown,
                 loadedList, request>>
registryVars == <<directories, made, projects, chosen, contexts, runtimes, served, routed>>
deviceVars == <<kind, temporary, installed, saves, snapshots, inputs, deviceCall, ledger,
                effects, runtimeState, crashes>>
browserVars == <<browserService, opening, listed, up, dirs, ending, observation, taken,
                 used, pageCall, workflow, acted>>
mediaVars == <<mediaService, media, listedMedia, job, copies, results, bytes, closers,
               sweep>>
ownerVars == <<config, fresh, cred, page, writer, doing, hand, missed, written, savers,
               overwritten, overlapped, spoiled, kills>>
outputVars == <<jobStatus, alive, spooled, segments, oldest, newest, finished, waiting, mine,
                rest, woken, replies, polled, offset, pages>>

outsideVars == <<part, gitVars, consoleVars, registryVars, deviceVars, browserVars, mediaVars,
                 ownerVars, outputVars>>

outsideInit ==
    /\ part \in {"git", "console", "registry", "devices", "browser", "media", "owner",
                "output"}
    /\ G!GitInit /\ C!ConsoleInit /\ K!RegistryInit
    /\ V!DevicesInit /\ W!BrowserInit /\ M!MediaInit /\ O!OwnerConfigInit /\ J!JobOutputInit
    /\ part # "git" => worktree = head.tree
    /\ part # "devices" => kind = "adb"

outsideNext ==
    /\ UNCHANGED part
    /\ \/ /\ part = "git" /\ G!GitNext
          /\ UNCHANGED <<consoleVars, registryVars, deviceVars, browserVars, mediaVars, ownerVars,
                          outputVars>>
       \/ /\ part = "console" /\ C!ConsoleNext
          /\ UNCHANGED <<gitVars, registryVars, deviceVars, browserVars, mediaVars, ownerVars,
                          outputVars>>
       \/ /\ part = "registry" /\ K!RegistryNext
          /\ UNCHANGED <<gitVars, consoleVars, deviceVars, browserVars, mediaVars, ownerVars,
                          outputVars>>
       \/ /\ part = "devices" /\ V!DevicesNext
          /\ UNCHANGED <<gitVars, consoleVars, registryVars, browserVars, mediaVars, ownerVars,
                          outputVars>>
       \/ /\ part = "browser" /\ W!BrowserNext
          /\ UNCHANGED <<gitVars, consoleVars, registryVars, deviceVars, mediaVars, ownerVars,
                          outputVars>>
       \/ /\ part = "media" /\ M!MediaNext
          /\ UNCHANGED <<gitVars, consoleVars, registryVars, deviceVars, browserVars, ownerVars,
                          outputVars>>
       \/ /\ part = "owner" /\ O!OwnerConfigNext
          /\ UNCHANGED <<gitVars, consoleVars, registryVars, deviceVars, browserVars, mediaVars,
                          outputVars>>
       \/ /\ part = "output" /\ J!JobOutputNext
          /\ UNCHANGED <<gitVars, consoleVars, registryVars, deviceVars, browserVars, mediaVars,
                          ownerVars>>

OutsideSpec == outsideInit /\ [][outsideNext]_outsideVars

\* The names of one kind are interchangeable; several kinds share their names.
Names == Permutations(Location) \cup Permutations(Project) \cup Permutations(Title)

\* A commit is reported as it went, and takes back nothing that was staged.
CommitTrue == part = "git" => G!GitTypeOK /\ G!CommitTrue
\* Decisions take effect where they were taken, in the session they came in.
ConsoleSound == part = "console" => C!ConsoleTypeOK /\ C!ConsoleSound
\* Projects are what the owner registered, devices do what the owner allows, and
\* the owner's configuration is complete and keeps what a command saved, but for
\* what another that had read it before writes over.
OwnerObeyed ==
    /\ part = "registry" => K!RegistryTypeOK /\ K!RegistryTrue
    /\ part = "owner" => O!OwnerConfigTypeOK /\ O!OwnerConfigSound
    /\ part = "devices" => V!DevicesTypeOK /\ V!DevicesObeyed
\* Browsers end, observations are acted on once, media last as long as their jobs, and
\* what is said of a job's output is so.
SessionsSafe ==
    /\ part = "browser" => W!BrowserTypeOK /\ W!BrowserSafe
    /\ part = "media" => M!MediaTypeOK /\ M!MediaKept
    /\ part = "output" => J!JobOutputTypeOK /\ J!OutputTrue
=============================================================================
