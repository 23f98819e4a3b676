------------------------------- MODULE Tunnel -------------------------------
(***************************************************************************)
(* The tunnel supervisor (src/tunnel/supervisor.ts).  It owns one          *)
(* cloudflared process, starts it again a bounded number of times, and     *)
(* asks its readiness endpoint in a loop per process.  A loop outlives its *)
(* process by the answer or the pause it is in; a generation number fences *)
(* it off.                                                                 *)
(***************************************************************************)
EXTENDS Naturals

CONSTANTS None, MaxTunnelRestarts,
          FailureThreshold     \* READY_FAILURE_THRESHOLD

TunnelAssumption == MaxTunnelRestarts \in Nat /\ FailureThreshold \in Nat \ {0}

VARIABLES
    tunnel,       \* the generation whose process is there, or None
    generation,   \* childGeneration
    loops,        \* readiness loops: generation, probing or pausing, what they have seen
    tunnelPhase,  \* status.phase
    connected,    \* status.connected
    tunnelRuns,   \* status.restarts
    supervisor,   \* what the main loop awaits
    halting,      \* stopping
    signalled     \* the process there has been told to end

tunnelVars ==
    <<tunnel, generation, loops, tunnelPhase, connected, tunnelRuns, supervisor, halting, signalled>>

Generations == 0 .. 2 * MaxTunnelRestarts + 4
Loops == [of : Generations, at : {"probe", "pause"}, failures : 0 .. FailureThreshold, ever : BOOLEAN]

TunnelTypeOK ==
    /\ tunnel \in {None} \cup Generations /\ generation \in Generations
    /\ loops \subseteq Loops
    /\ tunnelPhase \in {"starting", "connecting", "connected", "degraded", "disconnected",
                        "backoff", "stopping", "stopped", "failed"}
    /\ connected \in BOOLEAN /\ tunnelRuns \in 0 .. MaxTunnelRestarts
    /\ supervisor \in {"starting", "exit", "backoff", "ending", "finished"}
    /\ halting \in BOOLEAN /\ signalled \in BOOLEAN

TunnelInit ==
    /\ tunnel = None /\ generation = 0 /\ loops = {}
    /\ tunnelPhase = "starting" /\ connected = FALSE
    /\ tunnelRuns = 0 /\ supervisor = "starting" /\ halting = FALSE /\ signalled = FALSE

-----------------------------------------------------------------------------
(* The main loop *)

\* Broken: a stop asked for during the backoff is overlooked.
MayRunStopped == TRUE

\* while (!stopping)
MayRun == ~ halting

\* A process that cannot be started exits at once.
Spawn ==
    /\ supervisor \in {"starting", "backoff"} /\ MayRun
    /\ generation' = generation + 1
    /\ tunnel' = generation + 1
    /\ loops' = loops \cup {[of |-> generation + 1, at |-> "probe", failures |-> 0, ever |-> FALSE]}
    /\ tunnelPhase' = "connecting" /\ connected' = FALSE
    /\ supervisor' = "exit" /\ signalled' = FALSE
    /\ UNCHANGED <<tunnelRuns, halting>>

\* The generation is counted on before anything is noted of the exit.
Exited ==
    /\ supervisor = "exit"
    /\ tunnel' = None /\ generation' = generation + 1 /\ connected' = FALSE
    /\ \/ /\ halting
          /\ tunnelPhase' = "stopping" /\ supervisor' = "ending"
          /\ UNCHANGED tunnelRuns
       \/ /\ ~ halting /\ tunnelRuns < MaxTunnelRestarts
          /\ tunnelPhase' = "backoff" /\ supervisor' = "backoff"
          /\ tunnelRuns' = tunnelRuns + 1
       \/ /\ ~ halting /\ tunnelRuns = MaxTunnelRestarts
          /\ tunnelPhase' = "failed" /\ supervisor' = "finished"
          /\ UNCHANGED tunnelRuns
    /\ UNCHANGED <<loops, halting, signalled>>

\* The backoff is not cut short by a stop.
Finish ==
    /\ supervisor = "ending" \/ (supervisor \in {"starting", "backoff"} /\ ~ MayRun)
    /\ generation' = generation + 1
    /\ tunnelPhase' = "stopped" /\ connected' = FALSE /\ supervisor' = "finished"
    /\ UNCHANGED <<tunnel, loops, tunnelRuns, halting, signalled>>

\* The owner's command.  The process gets SIGTERM, and SIGKILL five seconds later.
RequestStop ==
    /\ ~ halting /\ supervisor # "finished"
    /\ halting' = TRUE /\ tunnelPhase' = "stopping" /\ connected' = FALSE
    /\ signalled' = (tunnel # None)
    /\ UNCHANGED <<tunnel, generation, loops, tunnelRuns, supervisor>>

Killed == signalled /\ Exited

-----------------------------------------------------------------------------
(* The readiness loops *)

\* Broken: an answer counts whichever process it is of.
FencedByStop(l) == halting

\* Before it asks and after it was answered, a loop looks whether it is past.
Fenced(l) == halting \/ l.of # generation

Seen(l, ready) ==
    [of |-> l.of, at |-> "pause",
     failures |-> IF ready THEN 0
                  ELSE IF l.failures = FailureThreshold THEN l.failures ELSE l.failures + 1,
     ever |-> l.ever \/ ready]

PhaseOf(l) ==
    IF l.failures = 0 THEN "connected"
    ELSE IF ~ l.ever THEN "connecting"
    ELSE IF l.failures = FailureThreshold THEN "disconnected" ELSE "degraded"

Answered(l, ready) ==
    /\ l \in loops /\ l.at = "probe"
    /\ IF Fenced(l)
       THEN /\ loops' = loops \ {l}
            /\ UNCHANGED <<tunnelPhase, connected>>
       ELSE LET seen == Seen(l, ready) IN
            /\ loops' = (loops \ {l}) \cup {seen}
            /\ tunnelPhase' = PhaseOf(seen)
            /\ connected' = (PhaseOf(seen) \in {"connected", "degraded"})
    /\ UNCHANGED <<tunnel, generation, tunnelRuns, supervisor, halting, signalled>>

Rested(l) ==
    /\ l \in loops /\ l.at = "pause"
    /\ loops' = (loops \ {l}) \cup IF Fenced(l) THEN {} ELSE {[l EXCEPT !.at = "probe"]}
    /\ UNCHANGED <<tunnel, generation, tunnelPhase, connected, tunnelRuns, supervisor, halting, signalled>>

TunnelNext ==
    \/ Spawn \/ Exited \/ Finish \/ RequestStop
    \/ \E l \in loops : Rested(l) \/ \E ready \in BOOLEAN : Answered(l, ready)

\* Timers fire, probes have a timeout, and a killed process ends.
TunnelFairness ==
    /\ WF_tunnelVars(Spawn) /\ WF_tunnelVars(Killed) /\ WF_tunnelVars(Finish)

TunnelSpec == TunnelInit /\ [][TunnelNext]_tunnelVars /\ TunnelFairness

-----------------------------------------------------------------------------
(* Properties *)

\* docs/TUNNEL.md: connected is shown on evidence only.  The evidence is of the
\* process that is there, never of one that has exited or is being stopped.
ConnectedOnEvidence ==
    connected =>
        /\ tunnel = generation /\ supervisor = "exit" /\ ~ halting
        /\ \E l \in loops : l.of = tunnel /\ l.ever

\* A stop leaves no process behind, whether it comes while one runs, is being
\* started, or is awaited in a backoff.
StopEndsTunnel == halting ~> (supervisor = "finished" /\ tunnel = None)
=============================================================================
