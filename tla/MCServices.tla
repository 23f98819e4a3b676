------------------------------ MODULE MCServices ------------------------------
(* The services that share no state with one another, each in a behaviour of *)
(* its own: `part` says whose behaviour it is.                               *)
EXTENDS Memory, Sequences

CONSTANTS
    Parts,         \* those that move
    Call, ClosesInput, MaxServers, MaxText,
    Run, GlobalLimit, MaxSteps, MaxControls, MaxCrashes,
    Path, Name, Package, Specifier, MaxChanges,
    MaxTunnelRestarts, FailureThreshold,
    Hyp, AgentRun, Root, Dir, Command, MaxActions, Wall, MaxTime, MaxRestarts,
    Ingest, Content, MaxRefs, MaxMishaps,
    MaxDaemons,
    Request, MaxFaults,
    Check, Observer,
    Asker, File, Entry, Terms, MaxVersion

\* Two sources: one declares a name and a package, one uses both and imports.
Sources == {[defines |-> {"n"}, uses |-> {}, imports |-> {},
             packages |-> {}, declares |-> {"k"}],
            [defines |-> {}, uses |-> {"n"}, imports |-> {"s"},
             packages |-> {"k"}, declares |-> {}]}
Candidates == [s \in Specifier |-> <<"p", "q">>]

\* What is searched has the terms at first, loses them with an edit, has them again.
Versions == [i \in File \cup Entry |->
                [v \in 0 .. MaxVersion |-> IF v % 2 = 0 THEN 1 .. Terms ELSE {}]]

VARIABLES
    part,
    \* of LanguageServer
    current, phase, told, input, queue, version, sent, published, shown, call, text, closed,
    daemon,
    \* of Subagents; agentDaemon is its `daemon`
    row, live, waiting, runtime, agentDaemon, jobs, flying, effects, stopped, controls,
    crashes,
    \* of Brain; indexRun is its `run`
    disk, cache, nodes, edges, corrupt, indexRun, paused, forceFull, lastId, changes,
    \* of Tunnel
    tunnel, generation, loops, tunnelPhase, connected, tunnelRuns, supervisor, halting,
    signalled,
    \* of AgentRuns
    run, own, hyp, intents, action, inflight, checking, now, restarts,
    \* of Resources
    file, object, refs, ingest, adopted, mishaps,
    \* of Daemons
    at, kind, root, held, asked, opened, lease, alias, sockets, rows, raced, killer, deaths,
    \* of CodeWorkers
    host, codeText, there, inbox, busy, mail, failing, hostClosed, request, faults,
    \* of Verification
    verified, changed, boots, recovery, stage, base, point, recordAtHand, record, bound, stale, checkJob,
    inspection, toldStale, turned,
    \* of Context
    itemVersions, cachedList, pageToken, queryAt, queryCursor, queryBase, queryList, queryValid,
    queryLeft, queryRound, queryHits

L == INSTANCE LanguageServer
A == INSTANCE Subagents WITH daemon <- agentDaemon
B == INSTANCE Brain WITH run <- indexRun, Text <- Sources, Lookup <- Candidates,
                         MaxEdits <- MaxChanges
T == INSTANCE Tunnel
G == INSTANCE AgentRuns WITH RunOf <- [h \in Hyp |-> CHOOSE r \in AgentRun : TRUE]
R == INSTANCE Resources
P == INSTANCE Daemons WITH Root <- {Root}
W == INSTANCE CodeWorkers WITH text <- codeText, closed <- hostClosed
V == INSTANCE Verification WITH source <- verified, edits <- changed, restarts <- boots,
                                job <- checkJob, memory <- recordAtHand
Q == INSTANCE Context WITH Has <- Versions, sources <- itemVersions, stored <- cachedList,
                           token <- pageToken, at <- queryAt, cursor <- queryCursor,
                           base <- queryBase, list <- queryList, valid <- queryValid,
                           left <- queryLeft, round <- queryRound, hits <- queryHits

ASSUME Assumed ==
       /\ L!LanguageServerAssumption
       /\ A!SubagentsAssumption
       /\ B!TextAssumption /\ B!LookupAssumption /\ B!BrainAssumption
       /\ T!TunnelAssumption
       /\ G!AgentRunsAssumption
       /\ R!ResourcesAssumption
       /\ P!DaemonsAssumption
       /\ W!CodeWorkersAssumption
       /\ V!VerificationAssumption
       /\ Q!ContextAssumption

lspVars == <<current, phase, told, input, queue, version, sent, published, shown, call,
             text, closed, daemon>>
agentVars == <<row, live, waiting, runtime, agentDaemon, jobs, flying, effects, stopped,
               controls, crashes>>
brainVars == <<disk, cache, nodes, edges, corrupt, indexRun, paused, forceFull, lastId,
               changes>>
tunnelVars == <<tunnel, generation, loops, tunnelPhase, connected, tunnelRuns, supervisor,
                halting, signalled>>
runVars == <<run, own, hyp, intents, action, inflight, checking, now, restarts>>
casVars == <<file, object, refs, ingest, adopted, mishaps>>
daemonVars == <<at, kind, root, held, asked, opened, lease, alias, sockets, rows, raced, killer,
                deaths>>
workersVars == <<host, codeText, there, inbox, busy, mail, failing, hostClosed, request, faults>>
verificationVars == <<verified, changed, boots, recovery, stage, base, point, recordAtHand, record, bound,
                      stale, checkJob, inspection, toldStale, turned>>
contextVars == <<itemVersions, cachedList, pageToken, queryAt, queryCursor, queryBase, queryList,
                 queryValid, queryLeft, queryRound, queryHits>>

servicesVars == <<part, memoryVars, lspVars, agentVars, brainVars, tunnelVars, runVars, casVars,
                  daemonVars, workersVars, verificationVars, contextVars>>

servicesInit ==
    /\ part \in Parts
    /\ MemoryInit /\ L!LspInit /\ A!SubagentsInit /\ B!BrainInit /\ T!TunnelInit
    /\ G!AgentRunsInit /\ R!ResourcesInit /\ P!DaemonsInit
    /\ W!WorkersInit /\ V!VerificationInit /\ Q!ContextInit
    /\ part # "brain" => disk = [p \in Path |-> None]
    /\ part # "daemons" => lease[Root] = None
    /\ part # "code" => host = "intel"
    /\ part # "verification" => recovery
    /\ part # "memory" => source = CHOOSE t \in Text : TRUE

servicesNext ==
    /\ UNCHANGED part
    /\ \/ /\ part = "memory" /\ MemoryNext
          /\ UNCHANGED <<lspVars, agentVars, brainVars, tunnelVars, runVars, casVars,
                          daemonVars, workersVars, verificationVars, contextVars>>
       \/ /\ part = "lsp" /\ L!LspNext
          /\ UNCHANGED <<memoryVars, agentVars, brainVars, tunnelVars, runVars, casVars,
                          daemonVars, workersVars, verificationVars, contextVars>>
       \/ /\ part = "agents" /\ A!SubagentsNext
          /\ UNCHANGED <<memoryVars, lspVars, brainVars, tunnelVars, runVars, casVars,
                          daemonVars, workersVars, verificationVars, contextVars>>
       \/ /\ part = "brain" /\ B!BrainNext
          /\ UNCHANGED <<memoryVars, lspVars, agentVars, tunnelVars, runVars, casVars,
                          daemonVars, workersVars, verificationVars, contextVars>>
       \/ /\ part = "tunnel" /\ T!TunnelNext
          /\ UNCHANGED <<memoryVars, lspVars, agentVars, brainVars, runVars, casVars,
                          daemonVars, workersVars, verificationVars, contextVars>>
       \/ /\ part = "runs" /\ G!AgentRunsNext
          /\ UNCHANGED <<memoryVars, lspVars, agentVars, brainVars, tunnelVars, casVars,
                          daemonVars, workersVars, verificationVars, contextVars>>
       \/ /\ part = "resources" /\ R!ResourcesNext
          /\ UNCHANGED <<memoryVars, lspVars, agentVars, brainVars, tunnelVars, runVars,
                          daemonVars, workersVars, verificationVars, contextVars>>
       \/ /\ part = "daemons" /\ P!DaemonsNext
          /\ UNCHANGED <<memoryVars, lspVars, agentVars, brainVars, tunnelVars, runVars,
                          casVars, workersVars, verificationVars, contextVars>>
       \/ /\ part = "code" /\ W!WorkersNext
          /\ UNCHANGED <<memoryVars, lspVars, agentVars, brainVars, tunnelVars, runVars,
                          casVars, daemonVars, verificationVars, contextVars>>
       \/ /\ part = "verification" /\ V!VerificationNext
          /\ UNCHANGED <<memoryVars, lspVars, agentVars, brainVars, tunnelVars, runVars,
                          casVars, daemonVars, workersVars, contextVars>>
       \/ /\ part = "context" /\ Q!ContextNext
          /\ UNCHANGED <<memoryVars, lspVars, agentVars, brainVars, tunnelVars, runVars,
                          casVars, daemonVars, workersVars, verificationVars>>

\* The fairness of LspSpec, SubagentsSpec, BrainSpec and TunnelSpec, for the part that moves.
lspFairness ==
    /\ \A x \in Call : WF_lspVars(part = "lsp" /\ L!CallGoesOn(x))
    /\ \A x \in 1 .. MaxServers : /\ WF_lspVars(part = "lsp" /\ L!StartEnds(x))
                                  /\ WF_lspVars(part = "lsp" /\ L!Killed(x))
agentFairness ==
    /\ WF_agentVars(part = "agents" /\ A!RuntimeOpens)
    /\ WF_agentVars(part = "agents" /\ A!Closed)
    /\ WF_agentVars(part = "agents" /\ A!Restart)
    /\ WF_agentVars(part = "agents" /\ A!Controlled)
    /\ \A x \in Run : /\ WF_agentVars(part = "agents" /\ A!JobExits(x))
                      /\ WF_agentVars(part = "agents" /\ A!Pump(x))
                      /\ WF_agentVars(part = "agents" /\ A!Execution(x))
brainFairness ==
    /\ WF_brainVars(part = "brain" /\ B!Start(FALSE, {}))
    /\ WF_brainVars(part = "brain" /\ B!Commit)
    /\ \A x \in Path : WF_brainVars(part = "brain" /\ B!Parsed(x))
tunnelFairness ==
    /\ WF_tunnelVars(part = "tunnel" /\ T!Spawn) /\ WF_tunnelVars(part = "tunnel" /\ T!Killed)
    /\ WF_tunnelVars(part = "tunnel" /\ T!Finish)

ServicesSafety == servicesInit /\ [][servicesNext]_servicesVars
ServicesSpec ==
    ServicesSafety /\ lspFairness /\ agentFairness /\ brainFairness /\ tunnelFairness

\* No process is left running unknown: a language server is known or told to
\* end, a tunnel is shown as connected on the evidence of the process that is
\* there.  Diagnostics are never of an older text than those before.  A root
\* has one daemon, its owner reaches it, and `dodo kill` ends those it found.
ProcessesSafe ==
    /\ part = "lsp" => L!LspTypeOK /\ L!NoStrayServer /\ L!PublishedInOrder
    /\ part = "tunnel" => T!TunnelTypeOK /\ T!ConnectedOnEvidence
    /\ part = "daemons" => P!DaemonsTypeOK /\ P!DaemonsSafe

\* A subagent's steps take effect once, and its jobs end with it.  In an agent
\* run hypotheses hold their paths alone, and rows of actions say what runs.
\* A thread that reads code works for those who wait, and what was once told
\* to be stale evidence stays stale.
WorkersTrue ==
    /\ part = "agents" => A!SubagentsTypeOK /\ A!EffectsOnce /\ A!JobsStopped
    /\ part = "runs" => G!AgentRunsTypeOK /\ G!IntentsExclusive /\ G!ActionsTellTheTruth
    /\ part = "code" => W!WorkersTypeOK /\ W!WorkersSound
    /\ part = "verification" => V!VerificationTypeOK /\ V!VerificationSound

\* The index is what a rebuild would give, a reference has its bytes, and an answer
\* from the cache of the context engine is what a search would give.
StoresSound ==
    /\ part = "memory" => MemoryTypeOK
    /\ part = "brain" => B!BrainTypeOK /\ B!GraphSound
    /\ part = "resources" => R!ResourcesTypeOK /\ R!ReferencesResolve
    /\ part = "context" => Q!ContextTypeOK /\ Q!ContextSound

\* Calls of language servers are answered, and a tunnel that is stopped ends.
CallsAnswered == L!CallsAnswered /\ T!StopEndsTunnel
\* Subagents that wait for a place get it, and the index catches up.
WorkConverges == A!QueueMoves /\ B!IndexConverges
=============================================================================
