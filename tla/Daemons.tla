------------------------------- MODULE Daemons -------------------------------
(* The processes of one installation: how a daemon takes its project's lease, *)
(* comes up piece by piece, and goes down again; the control sockets by which *)
(* the owner reaches it; and `dodo kill`, which finds every daemon by them,   *)
(* asks each to stop, and reports.                                            *)
EXTENDS Naturals, Sequences, FiniteSets

CONSTANTS
    Root,        \* project roots
    None,
    MaxDaemons,  \* bound: births of a process
    MaxCrashes   \* bound: deaths without a word

DaemonsAssumption ==
    /\ MaxDaemons \in Nat \ {0} /\ MaxCrashes \in Nat
    /\ None \notin 1 .. MaxDaemons /\ None \notin Root \cup {"kill", "owner"}

\* Births, each with a pid and an epoch of its own, numbered as they come.
Daemon == 1 .. MaxDaemons

VARIABLES
    at,       \* none, stale (it found a dead lease), booting, up, closing, ended or dead
    kind,     \* http or stdio
    root,     \* the root it serves
    held,     \* what it has open
    asked,    \* who asked it to stop: None, kill or owner
    opened,   \* BOOLEAN: tunnelRuntime.start is under way
    lease,    \* the files: who wrote the lease of a root
    alias,    \* whose socket the root's well-known path is
    sockets,  \* daemons whose own socket is on disk
    rows,     \* daemons with an `ipc-instance:` row
    raced,    \* a lease of a live daemon was removed as a dead one's
    killer,   \* [stage, todo, live, now, seen, report] of one `dodo kill`; seen and report
              \* are of processes that are there
    deaths

processVars == <<at, kind, root, held, asked, opened>>
fileVars == <<lease, alias, sockets, rows, raced>>
daemonVars == <<processVars, fileVars, killer, deaths>>

-----------------------------------------------------------------------------
(* What a daemon opens, in order, and gives back, in order.                  *)

Boot(d) == IF kind[d] = "http"
           THEN <<"lease", "port", "socket", "alias", "row">>
           ELSE <<"lease", "socket", "alias", "row">>

\* closeHttp, then the host's resources, then shutdownServices.
Teardown == <<"port", "row", "socket", "alias", "lease">>

\* What kill knows.
Knowing(stage, todo, live, now, seen, report) ==
    [stage |-> stage, todo |-> todo, live |-> live, now |-> now, seen |-> seen, report |-> report]

\* What there was to know of a process goes with it.
Gone(d, there) ==
    /\ at' = [at EXCEPT ![d] = there] /\ held' = [held EXCEPT ![d] = {}]
    /\ kind' = [kind EXCEPT ![d] = "http"] /\ asked' = [asked EXCEPT ![d] = None]
    /\ opened' = [opened EXCEPT ![d] = FALSE]
    /\ killer' = Knowing(killer.stage, killer.todo, killer.live, killer.now,
                          killer.seen \ {d}, killer.report \ {d})

Alive(d) == at[d] \in {"stale", "booting", "up", "closing"}
First(d, order) == CHOOSE i \in DOMAIN order :
                      /\ order[i] \notin held[d]
                      /\ \A j \in 1 .. i - 1 : order[j] \in held[d]
Todo(d) == Boot(d)[First(d, Boot(d))]
Booted(d) == {Boot(d)[i] : i \in DOMAIN Boot(d)} \subseteq held[d]
Last(d) == Teardown[CHOOSE i \in DOMAIN Teardown :
                      /\ Teardown[i] \in held[d]
                      /\ \A j \in 1 .. i - 1 : Teardown[j] \notin held[d]]

\* The loopback port is the installation's, the operating system's to give.
PortFree == \A d \in Daemon : Alive(d) => "port" \notin held[d]

\* A candidate of kill: the well-known path of a root, or a daemon's own socket.
Candidate == (Root \X {"alias"}) \cup (Daemon \X {"socket"})

\* ipcIdentity: whose socket and descriptor are at the path.
Bound(c) == IF c[2] = "alias" THEN alias[c[1]]
            ELSE IF c[1] \in sockets THEN c[1] ELSE None

Idle == Knowing("idle", {}, [d \in Daemon |-> None], None, {}, {})

\* A daemon of an earlier time has died, and may have left its lease and sockets.
DaemonsInit ==
    /\ \E r \in Root, left \in BOOLEAN :
          /\ at = [d \in Daemon |-> IF d = 1 THEN "dead" ELSE "none"]
          /\ root = [d \in Daemon |-> IF d = 1 THEN r ELSE None]
          /\ lease = [s \in Root |-> IF s = r /\ left THEN 1 ELSE None]
          /\ alias = lease
          /\ sockets = IF left THEN {1} ELSE {}
          /\ rows = sockets
    /\ kind = [d \in Daemon |-> "http"] /\ held = [d \in Daemon |-> {}]
    /\ asked = [d \in Daemon |-> None] /\ opened = [d \in Daemon |-> FALSE]
    /\ raced = FALSE /\ killer = Idle /\ deaths = 0

-----------------------------------------------------------------------------
(* acquireProjectLease.                                                      *)

\* A lease is another's while a process has the pid it names, the writer's or
\* one that got the pid after it.
Begin(d, k, r) ==
    /\ at[d] = "none" /\ \A c \in 1 .. d - 1 : at[c] # "none"
    /\ root' = [root EXCEPT ![d] = r]
    /\ \/ /\ lease[r] = None
          /\ lease' = [lease EXCEPT ![r] = d]
          /\ at' = [at EXCEPT ![d] = "booting"] /\ held' = [held EXCEPT ![d] = {"lease"}]
          /\ kind' = [kind EXCEPT ![d] = k]
       \/ /\ lease[r] # None /\ ~Alive(lease[r])
          /\ at' = [at EXCEPT ![d] = "stale"]
          /\ kind' = [kind EXCEPT ![d] = k]
          /\ UNCHANGED <<held, lease>>
       \/ /\ lease[r] # None
          /\ at' = [at EXCEPT ![d] = "ended"]
          /\ UNCHANGED <<kind, held, lease>>
    /\ UNCHANGED <<asked, opened, alias, sockets, rows, raced, killer, deaths>>

\* The dead one's lease is unlinked by name, and a new one created if it is
\* still nobody's; what is unlinked may by now be the lease of another
\* daemon that found the same dead one.
Unlink(d) ==
    /\ at[d] = "stale" /\ held[d] # {"unlinked"}
    /\ raced' = (raced \/ (lease[root[d]] # None /\ Alive(lease[root[d]])))
    /\ lease' = [lease EXCEPT ![root[d]] = None]
    /\ IF held[d] = {}
       THEN /\ held' = [held EXCEPT ![d] = {"unlinked"}]
            /\ UNCHANGED <<at, kind, asked, opened, killer>>
       ELSE Gone(d, "ended")
    /\ UNCHANGED <<root, alias, sockets, rows, deaths>>

\* It tries twice: of a dead one's lease the second time, it removes that and
\* gives up.
TakeOver(d) ==
    /\ at[d] = "stale" /\ held[d] = {"unlinked"}
    /\ \/ /\ lease[root[d]] = None
          /\ lease' = [lease EXCEPT ![root[d]] = d]
          /\ at' = [at EXCEPT ![d] = "booting"] /\ held' = [held EXCEPT ![d] = {"lease"}]
          /\ UNCHANGED <<kind, asked, opened, killer>>
       \/ /\ lease[root[d]] # None /\ ~Alive(lease[root[d]])
          /\ held' = [held EXCEPT ![d] = {"again"}]
          /\ UNCHANGED <<at, kind, asked, opened, lease, killer>>
       \/ /\ lease[root[d]] # None
          /\ Gone(d, "ended") /\ UNCHANGED lease
    /\ UNCHANGED <<root, alias, sockets, rows, raced, deaths>>

-----------------------------------------------------------------------------
(* Coming up.                                                                *)

\* The next piece: state directory, listener, the daemon's own socket, the
\* well-known one, which replaces what is at its path, and its row.
Open(d) ==
    /\ at[d] = "booting" /\ ~Booted(d)
    /\ Todo(d) = "port" => PortFree
    /\ held' = [held EXCEPT ![d] = @ \cup {Todo(d)}]
    /\ sockets' = IF Todo(d) = "socket" THEN sockets \cup {d} ELSE sockets
    /\ alias' = IF Todo(d) = "alias" THEN [alias EXCEPT ![root[d]] = d] ELSE alias
    /\ rows' = IF Todo(d) = "row" THEN rows \cup {d} ELSE rows
    /\ UNCHANGED <<at, kind, root, asked, opened, lease, raced, killer, deaths>>

\* startServer returns; in tunnel mode the tunnel is started then, even if a
\* stop has been heard meanwhile.
Return(d) ==
    /\ at[d] = "booting" /\ Booted(d)
    /\ at' = [at EXCEPT ![d] = "up"]
    /\ \E tunnel \in BOOLEAN :
          /\ tunnel => kind[d] = "http"
          /\ opened' = [opened EXCEPT ![d] = tunnel]
    /\ UNCHANGED <<kind, root, held, asked, fileVars, killer, deaths>>

TunnelStarts(d) ==
    /\ opened[d] /\ at[d] \in {"up", "closing"}
    /\ opened' = [opened EXCEPT ![d] = FALSE]
    /\ held' = [held EXCEPT ![d] = @ \cup {"tunnel"}]
    /\ UNCHANGED <<at, kind, root, asked, fileVars, killer, deaths>>

\* From here on it hears no other stop.
Closes(d) ==
    /\ at' = [at EXCEPT ![d] = "closing"] /\ asked' = [asked EXCEPT ![d] = None]
Asked(d, by) ==
    asked' = IF asked[d] = None /\ at[d] # "closing" THEN [asked EXCEPT ![d] = by] ELSE asked

\* A piece cannot be had, or the page or the tunnel do not start: what is open
\* is given back and the process ends.
BootFails(d) ==
    /\ kind[d] = "http" \/ held[d] = {"lease"}
    /\ at[d] = "booting" \/ (at[d] = "up" /\ opened[d])
    /\ Closes(d)
    /\ opened' = [opened EXCEPT ![d] = FALSE]
    /\ UNCHANGED <<kind, root, held, fileVars, killer, deaths>>

\* Over stdio a failing owner control closes its sockets, and no more.
ControlFails(d) ==
    /\ kind[d] = "stdio" /\ at[d] = "booting" /\ ~Booted(d) /\ held[d] # {"lease"}
    /\ Gone(d, "dead")
    /\ sockets' = sockets \ {d}
    /\ alias' = [alias EXCEPT ![root[d]] = IF "alias" \in held[d] THEN None ELSE @]
    /\ UNCHANGED <<root, lease, rows, raced, deaths>>

\* The OAuth keys cannot be read: the error leaves startServer with nothing
\* given back, and the process exits.
KeysFail(d) ==
    /\ at[d] = "booting" /\ kind[d] = "http" /\ held[d] = {"lease"}
    /\ Gone(d, "dead")
    /\ UNCHANGED <<root, fileVars, deaths>>

-----------------------------------------------------------------------------
(* Going down.                                                               *)

\* requestStop.  The sockets answer no call before the row is written.
StopHeard(d) ==
    /\ asked[d] # None /\ "row" \in held[d]
    /\ at[d] \in {"booting", "up"}
    /\ Closes(d)
    /\ UNCHANGED <<kind, root, held, opened, fileVars, killer, deaths>>

\* SIGINT and SIGTERM, once the command listens for them.
Signal(d) ==
    /\ at[d] = "up" /\ ~opened[d]
    /\ Closes(d)
    /\ UNCHANGED <<kind, root, held, opened, fileVars, killer, deaths>>

Closing(d) == at[d] = "closing" /\ held[d] \cap {Teardown[i] : i \in DOMAIN Teardown} # {}

\* One piece is given back.  A path and a lease are removed if they are its own.
Release(d) ==
    /\ Closing(d)
    /\ held' = [held EXCEPT ![d] = @ \ {Last(d)}]
    /\ rows' = IF Last(d) = "row" THEN rows \ {d} ELSE rows
    /\ sockets' = IF Last(d) = "socket" THEN sockets \ {d} ELSE sockets
    /\ alias' = [r \in Root |-> IF Last(d) = "alias" /\ r = root[d] /\ alias[r] = d
                                THEN None ELSE alias[r]]
    /\ lease' = [r \in Root |-> IF Last(d) = "lease" /\ r = root[d] /\ lease[r] = d
                                THEN None ELSE lease[r]]
    /\ UNCHANGED <<at, kind, root, asked, opened, raced, killer, deaths>>

\* The tunnel is closed beside or after the rest, and the process exits, even
\* from within a tunnel's start.
Exit(d) ==
    /\ at[d] = "closing" /\ ~Closing(d)
    /\ Gone(d, "ended")
    /\ UNCHANGED <<root, fileVars, deaths>>

\* It is killed, or the machine goes down: files stay (a tunnel's process is
\* another module's).
Die(d) ==
    /\ Alive(d) /\ deaths < MaxCrashes
    /\ deaths' = deaths + 1
    /\ Gone(d, "dead")
    /\ UNCHANGED <<root, fileVars>>

-----------------------------------------------------------------------------
(* The owner.                                                                *)

\* Whose process answers at a path: a socket that is bound and listened at.
Answers(c) == LET d == Bound(c) IN
    IF d # None /\ Alive(d) /\ c[2] \in held[d] THEN d ELSE None

\* dodo stop: whoever answers for the root of the current directory.
OwnerStop(r) ==
    /\ Answers(<<r, "alias">>) # None
    /\ Asked(Answers(<<r, "alias">>), "owner")
    /\ UNCHANGED <<at, kind, root, held, opened, fileVars, killer, deaths>>

\* killServers reads the registered roots and the rows of instances.
KillReads ==
    /\ killer.stage = "idle"
    /\ killer' = Knowing("probing", (Root \X {"alias"}) \cup (rows \X {"socket"}),
                          killer.live, killer.now, killer.seen, killer.report)
    /\ UNCHANGED <<processVars, fileVars, deaths>>

\* One candidate is probed: nobody answers there, it is left out after an
\* error, or the daemon that answers is known by it; its own socket counts more.
KillProbes(c) ==
    /\ killer.stage = "probing" /\ c \in killer.todo
    /\ LET d == Answers(c)
           better == d # None /\ (killer.live[d] = None \/ c[2] = "socket")
       IN killer' = Knowing("probing", killer.todo \ {c},
                            IF better THEN [killer.live EXCEPT ![d] = c] ELSE killer.live,
                            killer.now, killer.seen \cup ({d} \ {None}), killer.report)
    /\ UNCHANGED <<processVars, fileVars, deaths>>

KillErrs(c) ==
    /\ killer.stage = "probing" /\ c \in killer.todo
    /\ killer' = Knowing("probing", killer.todo \ {c}, killer.live, killer.now, killer.seen,
                          killer.report)
    /\ UNCHANGED <<processVars, fileVars, deaths>>

\* On to the next.
Done(d, report) ==
    killer' = Knowing("next", killer.todo, [killer.live EXCEPT ![d] = None], None, killer.seen,
                      report)

\* The next of the daemons found, if its path is still its own.
KillPicks(d) ==
    /\ killer.stage \in {"probing", "next"} /\ killer.todo = {}
    /\ killer.live[d] # None
    /\ IF Bound(killer.live[d]) = d
       THEN killer' = Knowing("checked", killer.todo, killer.live, d, killer.seen, killer.report)
       ELSE Done(d, killer.report)
    /\ UNCHANGED <<processVars, fileVars, deaths>>

\* stop, with the pid and the epoch that were probed: whoever answers at the
\* path now refuses if they are not its own.
KillStops ==
    /\ killer.stage = "checked"
    /\ LET c == killer.live[killer.now]
           d == Answers(c) IN
          /\ IF d = killer.now THEN Asked(d, "kill") ELSE UNCHANGED asked
          /\ IF d = killer.now
             THEN killer' = Knowing("waiting", killer.todo, killer.live, d, killer.seen,
                                    killer.report)
             ELSE Done(killer.now, killer.report)
    /\ UNCHANGED <<at, kind, root, held, opened, fileVars, deaths>>

\* It is reported as stopped when its path is no longer its own, or as not
\* stopped after a time.
KillSees ==
    /\ killer.stage = "waiting" /\ Bound(killer.live[killer.now]) # killer.now
    /\ Done(killer.now, killer.report \cup {d \in {killer.now} : Alive(d)})
    /\ UNCHANGED <<processVars, fileVars, deaths>>
KillTires ==
    /\ killer.stage = "waiting" /\ Bound(killer.live[killer.now]) = killer.now
    /\ Done(killer.now, killer.report)
    /\ UNCHANGED <<processVars, fileVars, deaths>>

DaemonStep(d) ==
    \/ Unlink(d) \/ TakeOver(d) \/ Open(d) \/ Return(d) \/ TunnelStarts(d) \/ BootFails(d)
    \/ ControlFails(d) \/ KeysFail(d) \/ StopHeard(d) \/ Signal(d) \/ Release(d) \/ Exit(d) \/ Die(d)

KillStep ==
    \/ KillReads \/ KillStops \/ KillSees \/ KillTires
    \/ \E c \in Candidate : KillProbes(c) \/ KillErrs(c)
    \/ \E d \in Daemon : KillPicks(d)

DaemonsNext ==
    \/ \E d \in Daemon, k \in {"http", "stdio"}, r \in Root : Begin(d, k, r)
    \/ \E d \in Daemon : DaemonStep(d)
    \/ \E r \in Root : OwnerStop(r)
    \/ KillStep

DaemonsSpec == DaemonsInit /\ [][DaemonsNext]_daemonVars

-----------------------------------------------------------------------------
(* Properties.                                                               *)

Piece == {"lease", "port", "socket", "alias", "row", "tunnel", "unlinked", "again"}

DaemonsTypeOK ==
    /\ at \in [Daemon -> {"none", "stale", "booting", "up", "closing", "ended", "dead"}]
    /\ kind \in [Daemon -> {"http", "stdio"}] /\ root \in [Daemon -> Root \cup {None}]
    /\ held \in [Daemon -> SUBSET Piece] /\ asked \in [Daemon -> {None, "kill", "owner"}]
    /\ opened \in [Daemon -> BOOLEAN]
    /\ lease \in [Root -> Daemon \cup {None}] /\ alias \in [Root -> Daemon \cup {None}]
    /\ sockets \subseteq Daemon /\ rows \subseteq Daemon /\ raced \in BOOLEAN
    /\ killer.stage \in {"idle", "probing", "next", "checked", "waiting"}
    /\ killer.todo \subseteq Candidate /\ killer.live \in [Daemon -> Candidate \cup {None}]
    /\ killer.now \in Daemon \cup {None} /\ killer.seen \cup killer.report \subseteq Daemon
    /\ deaths \in 0 .. MaxCrashes

\* Two daemons serve one root only if one of them took the lease of the other
\* for that of a dead daemon both had found.
LeaseExclusive ==
    \A c, d \in Daemon : c # d /\ "lease" \in held[c] \cap held[d] /\ root[c] = root[d] => raced

\* `dodo kill` stops the daemons it has identified and none that came to their
\* paths since.
KillsIdentified ==
    \A d \in Daemon : asked[d] = "kill" => d \in killer.seen

\* What kill reports as stopped has let go of the port, so that the next start
\* gets it.
ReportedIsQuiet == ~raced => \A d \in killer.report : "port" \notin held[d]

\* A daemon that came up is reached at the well-known path of its root and
\* found by its row, whatever others left or took away.
OwnerReaches ==
    \A d \in Daemon : at[d] = "up" /\ ~raced =>
       alias[root[d]] = d /\ d \in rows /\ d \in sockets

\* A process that ended by itself left nothing behind: no lease, no socket, no
\* row, no tunnel.
EndsClean ==
    \A d \in Daemon : at[d] = "ended" =>
       /\ d \notin {lease[r] : r \in Root} \cup {alias[r] : r \in Root} \cup sockets \cup rows
       /\ held[d] = {}

DaemonsSafe ==
    LeaseExclusive /\ KillsIdentified /\ ReportedIsQuiet /\ OwnerReaches /\ EndsClean
=============================================================================
