--------------------------- MODULE ProjectsProofs ---------------------------
(***************************************************************************)
(* For every number of projects, runtimes and calls: a project has one     *)
(* runtime, and a call in its tool works in one that is up.  Every runtime *)
(* has one keeper (the host, the switch, an opening, the table of open     *)
(* projects, or a teardown nobody waits for), and whoever calls in it      *)
(* keeps its keeper from letting go.                                       *)
(***************************************************************************)
EXTENDS Projects, TLAPS

\* Runtimes and leases are each other's.
Leases ==
    /\ \A i \in Instance : ws[i] # "none" => of[i] \in Project /\ holder[of[i]] = i
    /\ \A i \in Instance : ws[i] = "none" => of[i] = None
    /\ \A p \in Project : holder[p] \in Instance => of[holder[p]] = p

\* What a keeper keeps, and that nothing is kept twice.
Keepers ==
    /\ \A p \in Project : opening[p] # None =>
          /\ opening[p] \in Instance /\ of[opening[p]] = p
          /\ ws[opening[p]] \in {"half", "stopping"}
          /\ runtimes[p] = None
    /\ \A p \in Project : runtimes[p] # None =>
          /\ runtimes[p] \in Instance /\ of[runtimes[p]] = p
          /\ ws[runtimes[p]] = "up" \/ (ws[runtimes[p]] = "stopping" /\ p \in closing)
    /\ \A p \in closing : runtimes[p] # None
    /\ \A p \in Project : opening[p] \notin {cur, other} \ {None}
    /\ \A p \in Project : runtimes[p] \notin {cur, other} \ {None}
    /\ cur # other

\* The host, the switch and the shutdown, step by step.
Steps ==
    /\ sw \in {"readying", "swapped", "tearing"} <=> other # None
    /\ sw = "readying" => ws[other] = "half"
    /\ sw = "swapped" => ws[other] = "up"
    /\ sw = "tearing" => ws[other] = "stopping"
    /\ host = "switching" <=> sw # "none"
    /\ sw \in {"draining", "probing", "readying"} => target \in Project \ {of[cur]}
    /\ host = "closed" => stop \in {"host", "done"}
    /\ stop = "host" => host = "closed"
    /\ host = "closed" \/ ws[cur] = "up"
    /\ shutting # None => stop = "projects"

\* Calls and the runtimes they are bound to.
Bound ==
    /\ \A c \in Call : at[c] = "tool" =>
          /\ inst[c] = cur /\ ws[cur] = "up" /\ names[c] = None
          /\ sw \in {"none", "draining"}
    /\ \A c \in Call : at[c] = "held" =>
          /\ names[c] \in Project
          /\ \/ /\ inst[c] = cur /\ of[cur] = names[c] /\ ws[cur] = "up"
                /\ sw \in {"none", "draining"}
             \/ /\ inst[c] = runtimes[names[c]] /\ inst[c] # None
                /\ names[c] \notin closing
          /\ stop \notin {"projects", "host", "done"}
    /\ \A c \in Call : at[c] \in {"out", "body", "open"} => names[c] = None

\* Jobs that calls started, and what is about to be torn down.
Jobs ==
    /\ \A i \in Instance : ws[i] \in {"none", "half"} => job[i] # "call"
    /\ sw \in {"probing", "readying"} => job[cur] # "call"
    /\ sw \in {"swapped", "tearing"} => job[other] # "call"
    /\ stop = "up" => \A p \in closing : job[runtimes[p]] # "call"
    /\ CallJobsSurvive

\* Whoever is not being torn down has a keeper, and a shutdown closes one kind
\* of keeper after the other.
Kept ==
    /\ \A i \in Instance : ws[i] \in {"half", "up"} =>
          i = cur \/ i = other \/ \E p \in Project : opening[p] = i \/ runtimes[p] = i
    /\ stop \in {"ending", "projects", "host", "done"} => \A p \in Project : opening[p] = None
    /\ stop \in {"host", "done"} /\ ~aborted =>
          host = "closed" /\ \A p \in Project : runtimes[p] = None
    /\ stop = "done" /\ ~aborted => ws[cur] = "none"

IInv == TypeOK /\ Leases /\ Keepers /\ Steps /\ Bound /\ Jobs /\ Kept

\* Every step keeps the types.
LEMMA TypeStep ==
    ASSUME TypeOK, Keepers, Steps, [Next]_vars
    PROVE  TypeOK'
<1>1. ASSUME NEW c \in Call, Connect(c) PROVE TypeOK'
  BY <1>1, ProjectsAssumption
  DEF Connect, wsVars, workVars, hostVars, openVars, stopVars, TypeOK
<1>2. ASSUME NEW c \in Call, HangUp(c) PROVE TypeOK'
  BY <1>2, ProjectsAssumption
  DEF HangUp, wsVars, workVars, hostVars, openVars, stopVars, TypeOK
<1>3. ASSUME NEW c \in Call, Gate(c) PROVE TypeOK'
  BY <1>3, ProjectsAssumption
  DEF Gate, Over, wsVars, workVars, hostVars, openVars, stopVars, TypeOK
<1>4. ASSUME NEW c \in Call, BeginTool(c) PROVE TypeOK'
  BY <1>4, ProjectsAssumption
  DEF BeginTool, Over, wsVars, workVars, hostVars, openVars, stopVars, TypeOK
<1>5. ASSUME NEW c \in Call, Return(c) PROVE TypeOK'
  BY <1>5, ProjectsAssumption
  DEF Return, Over, wsVars, workVars, hostVars, openVars, stopVars, TypeOK
<1>6. ASSUME NEW c \in Call, Refused(c) PROVE TypeOK'
  BY <1>6, ProjectsAssumption
  DEF Refused, Over, wsVars, workVars, hostVars, openVars, stopVars, TypeOK
<1>7. ASSUME NEW c \in Call, StartJob(c) PROVE TypeOK'
  <2>1. job' \in [Instance -> {"none", "call", "timer"}]
    BY <1>7 DEF StartJob, TypeOK
  <2>2. UNCHANGED <<wsVars, tick, barred, hostVars, openVars, callVars, stopVars>>
    BY <1>7 DEF StartJob
  <2>. QED
    BY <2>1, <2>2 DEF wsVars, hostVars, openVars, callVars, stopVars, TypeOK
<1>8. ASSUME NEW c \in Call, NEW p \in Project, AcquireDefault(c, p) PROVE TypeOK'
  BY <1>8, ProjectsAssumption
  DEF AcquireDefault, May, Bind, wsVars, workVars, hostVars, openVars, stopVars,
      TypeOK
<1>9. ASSUME NEW c \in Call, NEW p \in Project, AcquireOpen(c, p) PROVE TypeOK'
  BY <1>9, ProjectsAssumption
  DEF AcquireOpen, May, Bind, wsVars, workVars, hostVars, openVars, stopVars, TypeOK
<1>10. ASSUME NEW c \in Call, NEW p \in Project, AcquireOpening(c, p) PROVE TypeOK'
  BY <1>10, ProjectsAssumption
  DEF AcquireOpening, May, Waits, wsVars, workVars, hostVars, openVars, stopVars,
      TypeOK
<1>11. ASSUME NEW c \in Call, NEW p \in Project, NEW i \in Instance, AcquireClosed(c, p, i)
      PROVE  TypeOK'
  BY <1>11, ProjectsAssumption
  DEF AcquireClosed, May, Waits, Booted, workVars, hostVars, stopVars, TypeOK
<1>12. ASSUME NEW i \in Instance, JobEnds(i) PROVE TypeOK'
  BY <1>12, ProjectsAssumption
  DEF JobEnds, wsVars, hostVars, openVars, callVars, stopVars, TypeOK
<1>13. ASSUME NEW i \in Instance, Tick(i) PROVE TypeOK'
  BY <1>13, ProjectsAssumption
  DEF Tick, wsVars, hostVars, openVars, callVars, stopVars, TypeOK
<1>14. ASSUME NEW i \in Instance, Launch(i) PROVE TypeOK'
  BY <1>14, ProjectsAssumption
  DEF Launch, wsVars, hostVars, openVars, callVars, stopVars, TypeOK
<1>15. ASSUME NEW i \in Instance, OrphanDown(i) PROVE TypeOK'
  BY <1>15, ProjectsAssumption
  DEF OrphanDown, Orphan, Down, hostVars, openVars, callVars, stopVars, TypeOK
<1>16. ASSUME NEW p \in Project, Other(p) PROVE TypeOK'
  BY <1>16, ProjectsAssumption
  DEF Other, workVars, hostVars, openVars, callVars, stopVars, TypeOK
<1>17. ASSUME NEW p \in Project, SwitchTo(p) PROVE TypeOK'
  BY <1>17, ProjectsAssumption
  DEF SwitchTo, Users, wsVars, workVars, openVars, callVars, stopVars, TypeOK
<1>18. ASSUME NEW p \in Project, CloseProject(p) PROVE TypeOK'
  BY <1>18, ProjectsAssumption
  DEF CloseProject, Idle, Users, wsVars, workVars, hostVars, callVars, stopVars,
      TypeOK
<1>19. ASSUME NEW p \in Project, StopProjectFails(p) PROVE TypeOK'
  <2>1. CASE shutting = p
    <3>1. aborted' = TRUE /\ stop' = "done" /\ shutting' = None /\ faults' = faults + 1
      BY <1>19, <2>1 DEF StopProjectFails
    <3>. QED
      BY <1>19, <3>1, ProjectsAssumption
      DEF StopProjectFails, wsVars, workVars, hostVars, openVars, callVars, TypeOK
  <2>2. CASE shutting # p
    <3>1. UNCHANGED <<aborted, stop, shutting>> /\ faults' = faults + 1
      BY <1>19, <2>2 DEF StopProjectFails
    <3>. QED
      BY <1>19, <3>1, ProjectsAssumption
      DEF StopProjectFails, wsVars, workVars, hostVars, openVars, callVars, TypeOK
  <2>. QED
    BY <2>1, <2>2
<1>20. ASSUME NEW p \in Project, Opened(p) PROVE TypeOK'
  BY <1>20, ProjectsAssumption DEF Opened, workVars, hostVars, stopVars, TypeOK
<1>21. ASSUME NEW p \in Project, OpenFails(p) PROVE TypeOK'
  BY <1>21, ProjectsAssumption
  DEF OpenFails, workVars, hostVars, openVars, callVars, stopVars, TypeOK
<1>22. ASSUME NEW p \in Project, OpeningDown(p) PROVE TypeOK'
  BY <1>22, ProjectsAssumption DEF OpeningDown, Down, hostVars, stopVars, TypeOK
<1>23. ASSUME NEW p \in Project, StopProject(p) PROVE TypeOK'
  <2>1. ws' \in [Instance -> {"none", "half", "up", "stopping"}]
    BY <1>23 DEF StopProject, TypeOK
  <2>2. UNCHANGED <<of, holder, workVars, hostVars, openVars, callVars, stopVars>>
    BY <1>23 DEF StopProject
  <2>. QED
    BY <2>1, <2>2 DEF workVars, hostVars, openVars, callVars, stopVars, TypeOK
<1>24. ASSUME NEW p \in Project, ProjectDown(p) PROVE TypeOK'
  <2>1. /\ ws' \in [Instance -> {"none", "half", "up", "stopping"}]
        /\ of' \in [Instance -> Project \cup {None}]
    BY <1>24 DEF ProjectDown, Down, TypeOK
  <2>2. holder' \in [Project -> Instance \cup {None, "other"}]
    BY <1>24 DEF ProjectDown, Down, TypeOK
  <2>3. /\ job' \in [Instance -> {"none", "call", "timer"}]
        /\ tick' \subseteq Instance /\ barred' \subseteq Instance
    BY <1>24 DEF ProjectDown, Down, TypeOK
  <2>4. /\ runtimes' \in [Project -> Instance \cup {None}] /\ closing' \subseteq Project
        /\ shutting' \in Project \cup {None}
    BY <1>24 DEF ProjectDown, TypeOK
  <2>5. UNCHANGED <<hostVars, opening, callVars, stop, aborted, faults>>
    BY <1>24 DEF ProjectDown
  <2>. QED
    BY <2>1, <2>2, <2>3, <2>4, <2>5 DEF hostVars, callVars, TypeOK
<1>25. ASSUME Drained PROVE TypeOK'
  BY <1>25, ProjectsAssumption
  DEF Drained, SwitchOff, Inflight, Users, wsVars, workVars, openVars, callVars,
      stopVars, TypeOK
<1>26. ASSUME NEW i \in Instance, Probed(i) PROVE TypeOK'
  BY <1>26, ProjectsAssumption
  DEF Probed, Booted, workVars, openVars, callVars, stopVars, TypeOK
<1>27. ASSUME ProbeFails PROVE TypeOK'
  BY <1>27, ProjectsAssumption
  DEF ProbeFails, SwitchOff, wsVars, workVars, openVars, callVars, stopVars, TypeOK
<1>28. ASSUME Swap PROVE TypeOK'
  BY <1>28, ProjectsAssumption
  DEF Swap, workVars, openVars, callVars, stopVars, TypeOK, Steps
<1>29. ASSUME SwapFails PROVE TypeOK'
  BY <1>29, ProjectsAssumption
  DEF SwapFails, workVars, openVars, callVars, stopVars, TypeOK
<1>30. ASSUME Retire PROVE TypeOK'
  BY <1>30, ProjectsAssumption
  DEF Retire, workVars, openVars, callVars, stopVars, TypeOK
<1>31. ASSUME Retired PROVE TypeOK'
  BY <1>31, ProjectsAssumption DEF Retired, Down, openVars, callVars, stopVars, TypeOK
<1>32. ASSUME Shutdown PROVE TypeOK'
  BY <1>32, ProjectsAssumption
  DEF Shutdown, EndJobs, wsVars, hostVars, openVars, TypeOK
<1>33. ASSUME CloseInstallation PROVE TypeOK'
  BY <1>33, ProjectsAssumption
  DEF CloseInstallation, wsVars, workVars, hostVars, openVars, callVars, TypeOK
<1>34. ASSUME CloseJobs PROVE TypeOK'
  BY <1>34, ProjectsAssumption
  DEF CloseJobs, EndJobs, wsVars, hostVars, openVars, callVars, TypeOK
<1>35. ASSUME CallsOver PROVE TypeOK'
  BY <1>35, ProjectsAssumption
  DEF CallsOver, Users, wsVars, workVars, hostVars, openVars, callVars, TypeOK
<1>36. ASSUME NEW p \in Project, CloseNext(p) PROVE TypeOK'
  BY <1>36, ProjectsAssumption
  DEF CloseNext, Idle, Users, wsVars, workVars, hostVars, callVars, TypeOK
<1>37. ASSUME CloseHost PROVE TypeOK'
  BY <1>37, ProjectsAssumption
  DEF CloseHost, wsVars, workVars, openVars, callVars, TypeOK
<1>38. ASSUME StopDefault PROVE TypeOK'
  BY <1>38, ProjectsAssumption
  DEF StopDefault, Inflight, workVars, hostVars, openVars, callVars, stopVars,
      TypeOK
<1>39. ASSUME Stopped PROVE TypeOK'
  BY <1>39, ProjectsAssumption DEF Stopped, Down, hostVars, openVars, callVars, TypeOK
<1>u. ASSUME UNCHANGED vars PROVE TypeOK'
  BY <1>u DEF TypeOK, vars, wsVars, workVars, hostVars, openVars, callVars, stopVars
<1>. QED
  BY <1>1, <1>2, <1>3, <1>4, <1>5, <1>6, <1>7, <1>8, <1>9, <1>10, <1>11, <1>12,
     <1>13, <1>14, <1>15, <1>16, <1>17, <1>18, <1>19, <1>20, <1>21, <1>22, <1>23,
     <1>24, <1>25, <1>26, <1>27, <1>28, <1>29, <1>30, <1>31, <1>32, <1>33, <1>34,
     <1>35, <1>36, <1>37, <1>38, <1>39, <1>u
  DEF Next, Acquire, CallStep, SwitchStep, ProjectStep, StopStep

\* Every step keeps leases and runtimes together.
LEMMA LeaseStep ==
    ASSUME TypeOK, Leases, Keepers, Steps, [Next]_vars
    PROVE  Leases'
<1>1. ASSUME NEW c \in Call, Connect(c) PROVE Leases'
  BY <1>1, ProjectsAssumption
  DEF Connect, wsVars, workVars, hostVars, openVars, stopVars, TypeOK, Leases,
      Keepers, Steps
<1>2. ASSUME NEW c \in Call, HangUp(c) PROVE Leases'
  BY <1>2, ProjectsAssumption
  DEF HangUp, wsVars, workVars, hostVars, openVars, stopVars, TypeOK, Leases,
      Keepers, Steps
<1>3. ASSUME NEW c \in Call, Gate(c) PROVE Leases'
  BY <1>3, ProjectsAssumption
  DEF Gate, Over, wsVars, workVars, hostVars, openVars, stopVars, TypeOK, Leases,
      Keepers, Steps
<1>4. ASSUME NEW c \in Call, BeginTool(c) PROVE Leases'
  BY <1>4, ProjectsAssumption
  DEF BeginTool, Over, wsVars, workVars, hostVars, openVars, stopVars, TypeOK,
      Leases, Keepers, Steps
<1>5. ASSUME NEW c \in Call, Return(c) PROVE Leases'
  BY <1>5, ProjectsAssumption
  DEF Return, Over, wsVars, workVars, hostVars, openVars, stopVars, TypeOK, Leases,
      Keepers, Steps
<1>6. ASSUME NEW c \in Call, Refused(c) PROVE Leases'
  BY <1>6, ProjectsAssumption
  DEF Refused, Over, wsVars, workVars, hostVars, openVars, stopVars, TypeOK, Leases,
      Keepers, Steps
<1>7. ASSUME NEW c \in Call, StartJob(c) PROVE Leases'
  BY <1>7, ProjectsAssumption
  DEF StartJob, wsVars, hostVars, openVars, callVars, stopVars, TypeOK, Leases,
      Keepers, Steps
<1>8. ASSUME NEW c \in Call, NEW p \in Project, AcquireDefault(c, p) PROVE Leases'
  BY <1>8, ProjectsAssumption
  DEF AcquireDefault, May, Bind, wsVars, workVars, hostVars, openVars, stopVars,
      TypeOK, Leases, Keepers, Steps
<1>9. ASSUME NEW c \in Call, NEW p \in Project, AcquireOpen(c, p) PROVE Leases'
  BY <1>9, ProjectsAssumption
  DEF AcquireOpen, May, Bind, wsVars, workVars, hostVars, openVars, stopVars,
      TypeOK, Leases, Keepers, Steps
<1>10. ASSUME NEW c \in Call, NEW p \in Project, AcquireOpening(c, p) PROVE Leases'
  BY <1>10, ProjectsAssumption
  DEF AcquireOpening, May, Waits, wsVars, workVars, hostVars, openVars, stopVars,
      TypeOK, Leases, Keepers, Steps
<1>11. ASSUME NEW c \in Call, NEW p \in Project, NEW i \in Instance, AcquireClosed(c, p, i)
      PROVE  Leases'
  BY <1>11, ProjectsAssumption
  DEF AcquireClosed, May, Waits, Booted, workVars, hostVars, stopVars, TypeOK,
      Leases, Keepers, Steps
<1>12. ASSUME NEW i \in Instance, JobEnds(i) PROVE Leases'
  BY <1>12, ProjectsAssumption
  DEF JobEnds, wsVars, hostVars, openVars, callVars, stopVars, TypeOK, Leases,
      Keepers, Steps
<1>13. ASSUME NEW i \in Instance, Tick(i) PROVE Leases'
  BY <1>13, ProjectsAssumption
  DEF Tick, wsVars, hostVars, openVars, callVars, stopVars, TypeOK, Leases, Keepers,
      Steps
<1>14. ASSUME NEW i \in Instance, Launch(i) PROVE Leases'
  BY <1>14, ProjectsAssumption
  DEF Launch, wsVars, hostVars, openVars, callVars, stopVars, TypeOK, Leases,
      Keepers, Steps
<1>15. ASSUME NEW i \in Instance, OrphanDown(i) PROVE Leases'
  BY <1>15, ProjectsAssumption
  DEF OrphanDown, Orphan, Down, hostVars, openVars, callVars, stopVars, TypeOK,
      Leases, Keepers, Steps
<1>16. ASSUME NEW p \in Project, Other(p) PROVE Leases'
  BY <1>16, ProjectsAssumption
  DEF Other, workVars, hostVars, openVars, callVars, stopVars, TypeOK, Leases,
      Keepers, Steps
<1>17. ASSUME NEW p \in Project, SwitchTo(p) PROVE Leases'
  BY <1>17, ProjectsAssumption
  DEF SwitchTo, Users, wsVars, workVars, openVars, callVars, stopVars, TypeOK,
      Leases, Keepers, Steps
<1>18. ASSUME NEW p \in Project, CloseProject(p) PROVE Leases'
  BY <1>18, ProjectsAssumption
  DEF CloseProject, Idle, Users, wsVars, workVars, hostVars, callVars, stopVars,
      TypeOK, Leases, Keepers, Steps
<1>19. ASSUME NEW p \in Project, StopProjectFails(p) PROVE Leases'
  BY <1>19, ProjectsAssumption
  DEF StopProjectFails, wsVars, workVars, hostVars, openVars, callVars, TypeOK,
      Leases, Keepers, Steps
<1>20. ASSUME NEW p \in Project, Opened(p) PROVE Leases'
  BY <1>20, ProjectsAssumption
  DEF Opened, workVars, hostVars, stopVars, TypeOK, Leases, Keepers, Steps
<1>21. ASSUME NEW p \in Project, OpenFails(p) PROVE Leases'
  BY <1>21, ProjectsAssumption
  DEF OpenFails, workVars, hostVars, openVars, callVars, stopVars, TypeOK, Leases,
      Keepers, Steps
<1>22. ASSUME NEW p \in Project, OpeningDown(p) PROVE Leases'
  BY <1>22, ProjectsAssumption
  DEF OpeningDown, Down, hostVars, stopVars, TypeOK, Leases, Keepers, Steps
<1>23. ASSUME NEW p \in Project, StopProject(p) PROVE Leases'
  BY <1>23, ProjectsAssumption
  DEF StopProject, workVars, hostVars, openVars, callVars, stopVars, TypeOK, Leases,
      Keepers, Steps
<1>24. ASSUME NEW p \in Project, ProjectDown(p) PROVE Leases'
  BY <1>24, ProjectsAssumption
  DEF ProjectDown, Down, hostVars, callVars, TypeOK, Leases, Keepers, Steps
<1>25. ASSUME Drained PROVE Leases'
  BY <1>25, ProjectsAssumption
  DEF Drained, SwitchOff, Inflight, Users, wsVars, workVars, openVars, callVars,
      stopVars, TypeOK, Leases, Keepers, Steps
<1>26. ASSUME NEW i \in Instance, Probed(i) PROVE Leases'
  <2>1. /\ i \in Instance /\ target \in Project
        /\ ws[i] = "none" /\ holder[target] = None
        /\ holder' = [holder EXCEPT ![target] = i]
        /\ of' = [of EXCEPT ![i] = target]
        /\ ws' = [ws EXCEPT ![i] = "half"]
    BY <1>26 DEF Probed, Booted, TypeOK, Steps
  <2>. QED
    BY <2>1, ProjectsAssumption DEF TypeOK, Leases
<1>27. ASSUME ProbeFails PROVE Leases'
  BY <1>27, ProjectsAssumption
  DEF ProbeFails, SwitchOff, wsVars, workVars, openVars, callVars, stopVars, TypeOK,
      Leases, Keepers, Steps
<1>28. ASSUME Swap PROVE Leases'
  BY <1>28, ProjectsAssumption
  DEF Swap, workVars, openVars, callVars, stopVars, TypeOK, Leases, Keepers, Steps
<1>29. ASSUME SwapFails PROVE Leases'
  BY <1>29, ProjectsAssumption
  DEF SwapFails, workVars, openVars, callVars, stopVars, TypeOK, Leases, Keepers,
      Steps
<1>30. ASSUME Retire PROVE Leases'
  BY <1>30, ProjectsAssumption
  DEF Retire, workVars, openVars, callVars, stopVars, TypeOK, Leases, Keepers, Steps
<1>31. ASSUME Retired PROVE Leases'
  BY <1>31, ProjectsAssumption
  DEF Retired, Down, openVars, callVars, stopVars, TypeOK, Leases, Keepers, Steps
<1>32. ASSUME Shutdown PROVE Leases'
  BY <1>32, ProjectsAssumption
  DEF Shutdown, EndJobs, wsVars, hostVars, openVars, TypeOK, Leases, Keepers, Steps
<1>33. ASSUME CloseInstallation PROVE Leases'
  BY <1>33, ProjectsAssumption
  DEF CloseInstallation, wsVars, workVars, hostVars, openVars, callVars, TypeOK,
      Leases, Keepers, Steps
<1>34. ASSUME CloseJobs PROVE Leases'
  BY <1>34, ProjectsAssumption
  DEF CloseJobs, EndJobs, wsVars, hostVars, openVars, callVars, TypeOK, Leases,
      Keepers, Steps
<1>35. ASSUME CallsOver PROVE Leases'
  BY <1>35, ProjectsAssumption
  DEF CallsOver, Users, wsVars, workVars, hostVars, openVars, callVars, TypeOK,
      Leases, Keepers, Steps
<1>36. ASSUME NEW p \in Project, CloseNext(p) PROVE Leases'
  BY <1>36, ProjectsAssumption
  DEF CloseNext, Idle, Users, wsVars, workVars, hostVars, callVars, TypeOK, Leases,
      Keepers, Steps
<1>37. ASSUME CloseHost PROVE Leases'
  BY <1>37, ProjectsAssumption
  DEF CloseHost, wsVars, workVars, openVars, callVars, TypeOK, Leases, Keepers,
      Steps
<1>38. ASSUME StopDefault PROVE Leases'
  BY <1>38, ProjectsAssumption
  DEF StopDefault, Inflight, workVars, hostVars, openVars, callVars, stopVars,
      TypeOK, Leases, Keepers, Steps
<1>39. ASSUME Stopped PROVE Leases'
  BY <1>39, ProjectsAssumption
  DEF Stopped, Down, hostVars, openVars, callVars, TypeOK, Leases, Keepers, Steps
<1>u. ASSUME UNCHANGED vars PROVE Leases'
  BY <1>u
  DEF TypeOK, Leases, Keepers, Steps, vars, wsVars, workVars, hostVars, openVars,
      callVars, stopVars
<1>. QED
  BY <1>1, <1>2, <1>3, <1>4, <1>5, <1>6, <1>7, <1>8, <1>9, <1>10, <1>11, <1>12,
     <1>13, <1>14, <1>15, <1>16, <1>17, <1>18, <1>19, <1>20, <1>21, <1>22, <1>23,
     <1>24, <1>25, <1>26, <1>27, <1>28, <1>29, <1>30, <1>31, <1>32, <1>33, <1>34,
     <1>35, <1>36, <1>37, <1>38, <1>39, <1>u
  DEF Next, Acquire, CallStep, SwitchStep, ProjectStep, StopStep

\* Every step leaves a runtime with its keeper, or hands it on.
LEMMA KeeperStep ==
    ASSUME TypeOK, Leases, Keepers, Steps, Bound, [Next]_vars
    PROVE  Keepers'
<1>1. ASSUME NEW c \in Call, Connect(c) PROVE Keepers'
  BY <1>1, ProjectsAssumption
  DEF Connect, wsVars, workVars, hostVars, openVars, stopVars, TypeOK, Leases,
      Keepers, Steps, Bound
<1>2. ASSUME NEW c \in Call, HangUp(c) PROVE Keepers'
  BY <1>2, ProjectsAssumption
  DEF HangUp, wsVars, workVars, hostVars, openVars, stopVars, TypeOK, Leases,
      Keepers, Steps, Bound
<1>3. ASSUME NEW c \in Call, Gate(c) PROVE Keepers'
  BY <1>3, ProjectsAssumption
  DEF Gate, Over, wsVars, workVars, hostVars, openVars, stopVars, TypeOK, Leases,
      Keepers, Steps, Bound
<1>4. ASSUME NEW c \in Call, BeginTool(c) PROVE Keepers'
  BY <1>4, ProjectsAssumption
  DEF BeginTool, Over, wsVars, workVars, hostVars, openVars, stopVars, TypeOK,
      Leases, Keepers, Steps, Bound
<1>5. ASSUME NEW c \in Call, Return(c) PROVE Keepers'
  BY <1>5, ProjectsAssumption
  DEF Return, Over, wsVars, workVars, hostVars, openVars, stopVars, TypeOK, Leases,
      Keepers, Steps, Bound
<1>6. ASSUME NEW c \in Call, Refused(c) PROVE Keepers'
  BY <1>6, ProjectsAssumption
  DEF Refused, Over, wsVars, workVars, hostVars, openVars, stopVars, TypeOK, Leases,
      Keepers, Steps, Bound
<1>7. ASSUME NEW c \in Call, StartJob(c) PROVE Keepers'
  BY <1>7, ProjectsAssumption
  DEF StartJob, wsVars, hostVars, openVars, callVars, stopVars, TypeOK, Leases,
      Keepers, Steps, Bound
<1>8. ASSUME NEW c \in Call, NEW p \in Project, AcquireDefault(c, p) PROVE Keepers'
  BY <1>8, ProjectsAssumption
  DEF AcquireDefault, May, Bind, wsVars, workVars, hostVars, openVars, stopVars,
      TypeOK, Leases, Keepers, Steps, Bound
<1>9. ASSUME NEW c \in Call, NEW p \in Project, AcquireOpen(c, p) PROVE Keepers'
  BY <1>9, ProjectsAssumption
  DEF AcquireOpen, May, Bind, wsVars, workVars, hostVars, openVars, stopVars,
      TypeOK, Leases, Keepers, Steps, Bound
<1>10. ASSUME NEW c \in Call, NEW p \in Project, AcquireOpening(c, p) PROVE Keepers'
  BY <1>10, ProjectsAssumption
  DEF AcquireOpening, May, Waits, wsVars, workVars, hostVars, openVars, stopVars,
      TypeOK, Leases, Keepers, Steps, Bound
<1>11. ASSUME NEW c \in Call, NEW p \in Project, NEW i \in Instance, AcquireClosed(c, p, i)
      PROVE  Keepers'
  BY <1>11, ProjectsAssumption
  DEF AcquireClosed, May, Waits, Booted, workVars, hostVars, stopVars, TypeOK,
      Leases, Keepers, Steps, Bound
<1>12. ASSUME NEW i \in Instance, JobEnds(i) PROVE Keepers'
  BY <1>12, ProjectsAssumption
  DEF JobEnds, wsVars, hostVars, openVars, callVars, stopVars, TypeOK, Leases,
      Keepers, Steps, Bound
<1>13. ASSUME NEW i \in Instance, Tick(i) PROVE Keepers'
  BY <1>13, ProjectsAssumption
  DEF Tick, wsVars, hostVars, openVars, callVars, stopVars, TypeOK, Leases, Keepers,
      Steps, Bound
<1>14. ASSUME NEW i \in Instance, Launch(i) PROVE Keepers'
  BY <1>14, ProjectsAssumption
  DEF Launch, wsVars, hostVars, openVars, callVars, stopVars, TypeOK, Leases,
      Keepers, Steps, Bound
<1>15. ASSUME NEW i \in Instance, OrphanDown(i) PROVE Keepers'
  BY <1>15, ProjectsAssumption
  DEF OrphanDown, Orphan, Down, hostVars, openVars, callVars, stopVars, TypeOK,
      Leases, Keepers, Steps, Bound
<1>16. ASSUME NEW p \in Project, Other(p) PROVE Keepers'
  BY <1>16, ProjectsAssumption
  DEF Other, workVars, hostVars, openVars, callVars, stopVars, TypeOK, Leases,
      Keepers, Steps, Bound
<1>17. ASSUME NEW p \in Project, SwitchTo(p) PROVE Keepers'
  BY <1>17, ProjectsAssumption
  DEF SwitchTo, Users, wsVars, workVars, openVars, callVars, stopVars, TypeOK,
      Leases, Keepers, Steps, Bound
<1>18. ASSUME NEW p \in Project, CloseProject(p) PROVE Keepers'
  BY <1>18, ProjectsAssumption
  DEF CloseProject, Idle, Users, wsVars, workVars, hostVars, callVars, stopVars,
      TypeOK, Leases, Keepers, Steps, Bound
<1>19. ASSUME NEW p \in Project, StopProjectFails(p) PROVE Keepers'
  BY <1>19, ProjectsAssumption
  DEF StopProjectFails, wsVars, workVars, hostVars, openVars, callVars, TypeOK,
      Leases, Keepers, Steps, Bound
<1>20. ASSUME NEW p \in Project, Opened(p) PROVE Keepers'
  BY <1>20, ProjectsAssumption
  DEF Opened, workVars, hostVars, stopVars, TypeOK, Leases, Keepers, Steps, Bound
<1>21. ASSUME NEW p \in Project, OpenFails(p) PROVE Keepers'
  BY <1>21, ProjectsAssumption
  DEF OpenFails, workVars, hostVars, openVars, callVars, stopVars, TypeOK, Leases,
      Keepers, Steps, Bound
<1>22. ASSUME NEW p \in Project, OpeningDown(p) PROVE Keepers'
  BY <1>22, ProjectsAssumption
  DEF OpeningDown, Down, hostVars, stopVars, TypeOK, Leases, Keepers, Steps, Bound
<1>23. ASSUME NEW p \in Project, StopProject(p) PROVE Keepers'
  BY <1>23, ProjectsAssumption
  DEF StopProject, workVars, hostVars, openVars, callVars, stopVars, TypeOK, Leases,
      Keepers, Steps, Bound
<1>24. ASSUME NEW p \in Project, ProjectDown(p) PROVE Keepers'
  BY <1>24, ProjectsAssumption
  DEF ProjectDown, Down, hostVars, callVars, TypeOK, Leases, Keepers, Steps, Bound
<1>25. ASSUME Drained PROVE Keepers'
  BY <1>25, ProjectsAssumption
  DEF Drained, SwitchOff, Inflight, Users, wsVars, workVars, openVars, callVars,
      stopVars, TypeOK, Leases, Keepers, Steps, Bound
<1>26. ASSUME NEW i \in Instance, Probed(i) PROVE Keepers'
  BY <1>26, ProjectsAssumption
  DEF Probed, Booted, workVars, openVars, callVars, stopVars, TypeOK, Leases,
      Keepers, Steps, Bound
<1>27. ASSUME ProbeFails PROVE Keepers'
  BY <1>27, ProjectsAssumption
  DEF ProbeFails, SwitchOff, wsVars, workVars, openVars, callVars, stopVars, TypeOK,
      Leases, Keepers, Steps, Bound
<1>28. ASSUME Swap PROVE Keepers'
  BY <1>28, ProjectsAssumption
  DEF Swap, workVars, openVars, callVars, stopVars, TypeOK, Leases, Keepers, Steps,
      Bound
<1>29. ASSUME SwapFails PROVE Keepers'
  BY <1>29, ProjectsAssumption
  DEF SwapFails, workVars, openVars, callVars, stopVars, TypeOK, Leases, Keepers,
      Steps, Bound
<1>30. ASSUME Retire PROVE Keepers'
  BY <1>30, ProjectsAssumption
  DEF Retire, workVars, openVars, callVars, stopVars, TypeOK, Leases, Keepers,
      Steps, Bound
<1>31. ASSUME Retired PROVE Keepers'
  BY <1>31, ProjectsAssumption
  DEF Retired, Down, openVars, callVars, stopVars, TypeOK, Leases, Keepers, Steps,
      Bound
<1>32. ASSUME Shutdown PROVE Keepers'
  BY <1>32, ProjectsAssumption
  DEF Shutdown, EndJobs, wsVars, hostVars, openVars, TypeOK, Leases, Keepers, Steps,
      Bound
<1>33. ASSUME CloseInstallation PROVE Keepers'
  BY <1>33, ProjectsAssumption
  DEF CloseInstallation, wsVars, workVars, hostVars, openVars, callVars, TypeOK,
      Leases, Keepers, Steps, Bound
<1>34. ASSUME CloseJobs PROVE Keepers'
  BY <1>34, ProjectsAssumption
  DEF CloseJobs, EndJobs, wsVars, hostVars, openVars, callVars, TypeOK, Leases,
      Keepers, Steps, Bound
<1>35. ASSUME CallsOver PROVE Keepers'
  BY <1>35, ProjectsAssumption
  DEF CallsOver, Users, wsVars, workVars, hostVars, openVars, callVars, TypeOK,
      Leases, Keepers, Steps, Bound
<1>36. ASSUME NEW p \in Project, CloseNext(p) PROVE Keepers'
  BY <1>36, ProjectsAssumption
  DEF CloseNext, Idle, Users, wsVars, workVars, hostVars, callVars, TypeOK, Leases,
      Keepers, Steps, Bound
<1>37. ASSUME CloseHost PROVE Keepers'
  BY <1>37, ProjectsAssumption
  DEF CloseHost, wsVars, workVars, openVars, callVars, TypeOK, Leases, Keepers,
      Steps, Bound
<1>38. ASSUME StopDefault PROVE Keepers'
  BY <1>38, ProjectsAssumption
  DEF StopDefault, Inflight, workVars, hostVars, openVars, callVars, stopVars,
      TypeOK, Leases, Keepers, Steps, Bound
<1>39. ASSUME Stopped PROVE Keepers'
  BY <1>39, ProjectsAssumption
  DEF Stopped, Down, hostVars, openVars, callVars, TypeOK, Leases, Keepers, Steps,
      Bound
<1>u. ASSUME UNCHANGED vars PROVE Keepers'
  BY <1>u
  DEF TypeOK, Leases, Keepers, Steps, Bound, vars, wsVars, workVars, hostVars,
      openVars, callVars, stopVars
<1>. QED
  BY <1>1, <1>2, <1>3, <1>4, <1>5, <1>6, <1>7, <1>8, <1>9, <1>10, <1>11, <1>12,
     <1>13, <1>14, <1>15, <1>16, <1>17, <1>18, <1>19, <1>20, <1>21, <1>22, <1>23,
     <1>24, <1>25, <1>26, <1>27, <1>28, <1>29, <1>30, <1>31, <1>32, <1>33, <1>34,
     <1>35, <1>36, <1>37, <1>38, <1>39, <1>u
  DEF Next, Acquire, CallStep, SwitchStep, ProjectStep, StopStep

\* Every step keeps to the order of a switch and of a shutdown.
LEMMA HostStep ==
    ASSUME TypeOK, Leases, Keepers, Steps, [Next]_vars
    PROVE  Steps'
<1>1. ASSUME NEW c \in Call, Connect(c) PROVE Steps'
  BY <1>1, ProjectsAssumption
  DEF Connect, wsVars, workVars, hostVars, openVars, stopVars, TypeOK, Leases,
      Keepers, Steps
<1>2. ASSUME NEW c \in Call, HangUp(c) PROVE Steps'
  BY <1>2, ProjectsAssumption
  DEF HangUp, wsVars, workVars, hostVars, openVars, stopVars, TypeOK, Leases,
      Keepers, Steps
<1>3. ASSUME NEW c \in Call, Gate(c) PROVE Steps'
  BY <1>3, ProjectsAssumption
  DEF Gate, Over, wsVars, workVars, hostVars, openVars, stopVars, TypeOK, Leases,
      Keepers, Steps
<1>4. ASSUME NEW c \in Call, BeginTool(c) PROVE Steps'
  BY <1>4, ProjectsAssumption
  DEF BeginTool, Over, wsVars, workVars, hostVars, openVars, stopVars, TypeOK,
      Leases, Keepers, Steps
<1>5. ASSUME NEW c \in Call, Return(c) PROVE Steps'
  BY <1>5, ProjectsAssumption
  DEF Return, Over, wsVars, workVars, hostVars, openVars, stopVars, TypeOK, Leases,
      Keepers, Steps
<1>6. ASSUME NEW c \in Call, Refused(c) PROVE Steps'
  BY <1>6, ProjectsAssumption
  DEF Refused, Over, wsVars, workVars, hostVars, openVars, stopVars, TypeOK, Leases,
      Keepers, Steps
<1>7. ASSUME NEW c \in Call, StartJob(c) PROVE Steps'
  BY <1>7, ProjectsAssumption
  DEF StartJob, wsVars, hostVars, openVars, callVars, stopVars, TypeOK, Leases,
      Keepers, Steps
<1>8. ASSUME NEW c \in Call, NEW p \in Project, AcquireDefault(c, p) PROVE Steps'
  BY <1>8, ProjectsAssumption
  DEF AcquireDefault, May, Bind, wsVars, workVars, hostVars, openVars, stopVars,
      TypeOK, Leases, Keepers, Steps
<1>9. ASSUME NEW c \in Call, NEW p \in Project, AcquireOpen(c, p) PROVE Steps'
  BY <1>9, ProjectsAssumption
  DEF AcquireOpen, May, Bind, wsVars, workVars, hostVars, openVars, stopVars,
      TypeOK, Leases, Keepers, Steps
<1>10. ASSUME NEW c \in Call, NEW p \in Project, AcquireOpening(c, p) PROVE Steps'
  BY <1>10, ProjectsAssumption
  DEF AcquireOpening, May, Waits, wsVars, workVars, hostVars, openVars, stopVars,
      TypeOK, Leases, Keepers, Steps
<1>11. ASSUME NEW c \in Call, NEW p \in Project, NEW i \in Instance, AcquireClosed(c, p, i)
      PROVE  Steps'
  BY <1>11, ProjectsAssumption
  DEF AcquireClosed, May, Waits, Booted, workVars, hostVars, stopVars, TypeOK,
      Leases, Keepers, Steps
<1>12. ASSUME NEW i \in Instance, JobEnds(i) PROVE Steps'
  BY <1>12, ProjectsAssumption
  DEF JobEnds, wsVars, hostVars, openVars, callVars, stopVars, TypeOK, Leases,
      Keepers, Steps
<1>13. ASSUME NEW i \in Instance, Tick(i) PROVE Steps'
  BY <1>13, ProjectsAssumption
  DEF Tick, wsVars, hostVars, openVars, callVars, stopVars, TypeOK, Leases, Keepers,
      Steps
<1>14. ASSUME NEW i \in Instance, Launch(i) PROVE Steps'
  BY <1>14, ProjectsAssumption
  DEF Launch, wsVars, hostVars, openVars, callVars, stopVars, TypeOK, Leases,
      Keepers, Steps
<1>15. ASSUME NEW i \in Instance, OrphanDown(i) PROVE Steps'
  BY <1>15, ProjectsAssumption
  DEF OrphanDown, Orphan, Down, hostVars, openVars, callVars, stopVars, TypeOK,
      Leases, Keepers, Steps
<1>16. ASSUME NEW p \in Project, Other(p) PROVE Steps'
  BY <1>16, ProjectsAssumption
  DEF Other, workVars, hostVars, openVars, callVars, stopVars, TypeOK, Leases,
      Keepers, Steps
<1>17. ASSUME NEW p \in Project, SwitchTo(p) PROVE Steps'
  BY <1>17, ProjectsAssumption
  DEF SwitchTo, Users, wsVars, workVars, openVars, callVars, stopVars, TypeOK,
      Leases, Keepers, Steps
<1>18. ASSUME NEW p \in Project, CloseProject(p) PROVE Steps'
  BY <1>18, ProjectsAssumption
  DEF CloseProject, Idle, Users, wsVars, workVars, hostVars, callVars, stopVars,
      TypeOK, Leases, Keepers, Steps
<1>19. ASSUME NEW p \in Project, StopProjectFails(p) PROVE Steps'
  BY <1>19, ProjectsAssumption
  DEF StopProjectFails, wsVars, workVars, hostVars, openVars, callVars, TypeOK,
      Leases, Keepers, Steps
<1>20. ASSUME NEW p \in Project, Opened(p) PROVE Steps'
  BY <1>20, ProjectsAssumption
  DEF Opened, workVars, hostVars, stopVars, TypeOK, Leases, Keepers, Steps
<1>21. ASSUME NEW p \in Project, OpenFails(p) PROVE Steps'
  BY <1>21, ProjectsAssumption
  DEF OpenFails, workVars, hostVars, openVars, callVars, stopVars, TypeOK, Leases,
      Keepers, Steps
<1>22. ASSUME NEW p \in Project, OpeningDown(p) PROVE Steps'
  BY <1>22, ProjectsAssumption
  DEF OpeningDown, Down, hostVars, stopVars, TypeOK, Leases, Keepers, Steps
<1>23. ASSUME NEW p \in Project, StopProject(p) PROVE Steps'
  BY <1>23, ProjectsAssumption
  DEF StopProject, workVars, hostVars, openVars, callVars, stopVars, TypeOK, Leases,
      Keepers, Steps
<1>24. ASSUME NEW p \in Project, ProjectDown(p) PROVE Steps'
  BY <1>24, ProjectsAssumption
  DEF ProjectDown, Down, hostVars, callVars, TypeOK, Leases, Keepers, Steps
<1>25. ASSUME Drained PROVE Steps'
  BY <1>25, ProjectsAssumption
  DEF Drained, SwitchOff, Inflight, Users, wsVars, workVars, openVars, callVars,
      stopVars, TypeOK, Leases, Keepers, Steps
<1>26. ASSUME NEW i \in Instance, Probed(i) PROVE Steps'
  BY <1>26, ProjectsAssumption
  DEF Probed, Booted, workVars, openVars, callVars, stopVars, TypeOK, Leases,
      Keepers, Steps
<1>27. ASSUME ProbeFails PROVE Steps'
  BY <1>27, ProjectsAssumption
  DEF ProbeFails, SwitchOff, wsVars, workVars, openVars, callVars, stopVars, TypeOK,
      Leases, Keepers, Steps
<1>28. ASSUME Swap PROVE Steps'
  BY <1>28, ProjectsAssumption
  DEF Swap, workVars, openVars, callVars, stopVars, TypeOK, Leases, Keepers, Steps
<1>29. ASSUME SwapFails PROVE Steps'
  BY <1>29, ProjectsAssumption
  DEF SwapFails, workVars, openVars, callVars, stopVars, TypeOK, Leases, Keepers,
      Steps
<1>30. ASSUME Retire PROVE Steps'
  BY <1>30, ProjectsAssumption
  DEF Retire, workVars, openVars, callVars, stopVars, TypeOK, Leases, Keepers, Steps
<1>31. ASSUME Retired PROVE Steps'
  BY <1>31, ProjectsAssumption
  DEF Retired, Down, openVars, callVars, stopVars, TypeOK, Leases, Keepers, Steps
<1>32. ASSUME Shutdown PROVE Steps'
  BY <1>32, ProjectsAssumption
  DEF Shutdown, EndJobs, wsVars, hostVars, openVars, TypeOK, Leases, Keepers, Steps
<1>33. ASSUME CloseInstallation PROVE Steps'
  BY <1>33, ProjectsAssumption
  DEF CloseInstallation, wsVars, workVars, hostVars, openVars, callVars, TypeOK,
      Leases, Keepers, Steps
<1>34. ASSUME CloseJobs PROVE Steps'
  BY <1>34, ProjectsAssumption
  DEF CloseJobs, EndJobs, wsVars, hostVars, openVars, callVars, TypeOK, Leases,
      Keepers, Steps
<1>35. ASSUME CallsOver PROVE Steps'
  BY <1>35, ProjectsAssumption
  DEF CallsOver, Users, wsVars, workVars, hostVars, openVars, callVars, TypeOK,
      Leases, Keepers, Steps
<1>36. ASSUME NEW p \in Project, CloseNext(p) PROVE Steps'
  BY <1>36, ProjectsAssumption
  DEF CloseNext, Idle, Users, wsVars, workVars, hostVars, callVars, TypeOK, Leases,
      Keepers, Steps
<1>37. ASSUME CloseHost PROVE Steps'
  BY <1>37, ProjectsAssumption
  DEF CloseHost, wsVars, workVars, openVars, callVars, TypeOK, Leases, Keepers,
      Steps
<1>38. ASSUME StopDefault PROVE Steps'
  BY <1>38, ProjectsAssumption
  DEF StopDefault, Inflight, workVars, hostVars, openVars, callVars, stopVars,
      TypeOK, Leases, Keepers, Steps
<1>39. ASSUME Stopped PROVE Steps'
  BY <1>39, ProjectsAssumption
  DEF Stopped, Down, hostVars, openVars, callVars, TypeOK, Leases, Keepers, Steps
<1>u. ASSUME UNCHANGED vars PROVE Steps'
  BY <1>u
  DEF TypeOK, Leases, Keepers, Steps, vars, wsVars, workVars, hostVars, openVars,
      callVars, stopVars
<1>. QED
  BY <1>1, <1>2, <1>3, <1>4, <1>5, <1>6, <1>7, <1>8, <1>9, <1>10, <1>11, <1>12,
     <1>13, <1>14, <1>15, <1>16, <1>17, <1>18, <1>19, <1>20, <1>21, <1>22, <1>23,
     <1>24, <1>25, <1>26, <1>27, <1>28, <1>29, <1>30, <1>31, <1>32, <1>33, <1>34,
     <1>35, <1>36, <1>37, <1>38, <1>39, <1>u
  DEF Next, Acquire, CallStep, SwitchStep, ProjectStep, StopStep

\* Every step leaves calls in a runtime that is up.
LEMMA BoundStep ==
    ASSUME TypeOK, Leases, Keepers, Steps, Bound, [Next]_vars
    PROVE  Bound'
<1>1. ASSUME NEW c \in Call, Connect(c) PROVE Bound'
  BY <1>1, ProjectsAssumption
  DEF Connect, wsVars, workVars, hostVars, openVars, stopVars, TypeOK, Leases,
      Keepers, Steps, Bound
<1>2. ASSUME NEW c \in Call, HangUp(c) PROVE Bound'
  BY <1>2, ProjectsAssumption
  DEF HangUp, wsVars, workVars, hostVars, openVars, stopVars, TypeOK, Leases,
      Keepers, Steps, Bound
<1>3. ASSUME NEW c \in Call, Gate(c) PROVE Bound'
  BY <1>3, ProjectsAssumption
  DEF Gate, Over, wsVars, workVars, hostVars, openVars, stopVars, TypeOK, Leases,
      Keepers, Steps, Bound
<1>4. ASSUME NEW c \in Call, BeginTool(c) PROVE Bound'
  BY <1>4, ProjectsAssumption
  DEF BeginTool, Over, wsVars, workVars, hostVars, openVars, stopVars, TypeOK,
      Leases, Keepers, Steps, Bound
<1>5. ASSUME NEW c \in Call, Return(c) PROVE Bound'
  BY <1>5, ProjectsAssumption
  DEF Return, Over, wsVars, workVars, hostVars, openVars, stopVars, TypeOK, Leases,
      Keepers, Steps, Bound
<1>6. ASSUME NEW c \in Call, Refused(c) PROVE Bound'
  BY <1>6, ProjectsAssumption
  DEF Refused, Over, wsVars, workVars, hostVars, openVars, stopVars, TypeOK, Leases,
      Keepers, Steps, Bound
<1>7. ASSUME NEW c \in Call, StartJob(c) PROVE Bound'
  BY <1>7, ProjectsAssumption
  DEF StartJob, wsVars, hostVars, openVars, callVars, stopVars, TypeOK, Leases,
      Keepers, Steps, Bound
<1>8. ASSUME NEW c \in Call, NEW p \in Project, AcquireDefault(c, p) PROVE Bound'
  BY <1>8, ProjectsAssumption
  DEF AcquireDefault, May, Bind, wsVars, workVars, hostVars, openVars, stopVars,
      TypeOK, Leases, Keepers, Steps, Bound
<1>9. ASSUME NEW c \in Call, NEW p \in Project, AcquireOpen(c, p) PROVE Bound'
  BY <1>9, ProjectsAssumption
  DEF AcquireOpen, May, Bind, wsVars, workVars, hostVars, openVars, stopVars,
      TypeOK, Leases, Keepers, Steps, Bound
<1>10. ASSUME NEW c \in Call, NEW p \in Project, AcquireOpening(c, p) PROVE Bound'
  BY <1>10, ProjectsAssumption
  DEF AcquireOpening, May, Waits, wsVars, workVars, hostVars, openVars, stopVars,
      TypeOK, Leases, Keepers, Steps, Bound
<1>11. ASSUME NEW c \in Call, NEW p \in Project, NEW i \in Instance, AcquireClosed(c, p, i)
      PROVE  Bound'
  BY <1>11, ProjectsAssumption
  DEF AcquireClosed, May, Waits, Booted, workVars, hostVars, stopVars, TypeOK,
      Leases, Keepers, Steps, Bound
<1>12. ASSUME NEW i \in Instance, JobEnds(i) PROVE Bound'
  BY <1>12, ProjectsAssumption
  DEF JobEnds, wsVars, hostVars, openVars, callVars, stopVars, TypeOK, Leases,
      Keepers, Steps, Bound
<1>13. ASSUME NEW i \in Instance, Tick(i) PROVE Bound'
  BY <1>13, ProjectsAssumption
  DEF Tick, wsVars, hostVars, openVars, callVars, stopVars, TypeOK, Leases, Keepers,
      Steps, Bound
<1>14. ASSUME NEW i \in Instance, Launch(i) PROVE Bound'
  BY <1>14, ProjectsAssumption
  DEF Launch, wsVars, hostVars, openVars, callVars, stopVars, TypeOK, Leases,
      Keepers, Steps, Bound
<1>15. ASSUME NEW i \in Instance, OrphanDown(i) PROVE Bound'
  BY <1>15, ProjectsAssumption
  DEF OrphanDown, Orphan, Down, hostVars, openVars, callVars, stopVars, TypeOK,
      Leases, Keepers, Steps, Bound
<1>16. ASSUME NEW p \in Project, Other(p) PROVE Bound'
  BY <1>16, ProjectsAssumption
  DEF Other, workVars, hostVars, openVars, callVars, stopVars, TypeOK, Leases,
      Keepers, Steps, Bound
<1>17. ASSUME NEW p \in Project, SwitchTo(p) PROVE Bound'
  BY <1>17, ProjectsAssumption
  DEF SwitchTo, Users, wsVars, workVars, openVars, callVars, stopVars, TypeOK,
      Leases, Keepers, Steps, Bound
<1>18. ASSUME NEW p \in Project, CloseProject(p) PROVE Bound'
  BY <1>18, ProjectsAssumption
  DEF CloseProject, Idle, Users, wsVars, workVars, hostVars, callVars, stopVars,
      TypeOK, Leases, Keepers, Steps, Bound
<1>19. ASSUME NEW p \in Project, StopProjectFails(p) PROVE Bound'
  BY <1>19, ProjectsAssumption
  DEF StopProjectFails, wsVars, workVars, hostVars, openVars, callVars, TypeOK,
      Leases, Keepers, Steps, Bound
<1>20. ASSUME NEW p \in Project, Opened(p) PROVE Bound'
  BY <1>20, ProjectsAssumption
  DEF Opened, workVars, hostVars, stopVars, TypeOK, Leases, Keepers, Steps, Bound
<1>21. ASSUME NEW p \in Project, OpenFails(p) PROVE Bound'
  BY <1>21, ProjectsAssumption
  DEF OpenFails, workVars, hostVars, openVars, callVars, stopVars, TypeOK, Leases,
      Keepers, Steps, Bound
<1>22. ASSUME NEW p \in Project, OpeningDown(p) PROVE Bound'
  BY <1>22, ProjectsAssumption
  DEF OpeningDown, Down, hostVars, stopVars, TypeOK, Leases, Keepers, Steps, Bound
<1>23. ASSUME NEW p \in Project, StopProject(p) PROVE Bound'
  BY <1>23, ProjectsAssumption
  DEF StopProject, workVars, hostVars, openVars, callVars, stopVars, TypeOK, Leases,
      Keepers, Steps, Bound
<1>24. ASSUME NEW p \in Project, ProjectDown(p) PROVE Bound'
  BY <1>24, ProjectsAssumption
  DEF ProjectDown, Down, hostVars, callVars, TypeOK, Leases, Keepers, Steps, Bound
<1>25. ASSUME Drained PROVE Bound'
  BY <1>25, ProjectsAssumption
  DEF Drained, SwitchOff, Inflight, Users, wsVars, workVars, openVars, callVars,
      stopVars, TypeOK, Leases, Keepers, Steps, Bound
<1>26. ASSUME NEW i \in Instance, Probed(i) PROVE Bound'
  BY <1>26, ProjectsAssumption
  DEF Probed, Booted, workVars, openVars, callVars, stopVars, TypeOK, Leases,
      Keepers, Steps, Bound
<1>27. ASSUME ProbeFails PROVE Bound'
  BY <1>27, ProjectsAssumption
  DEF ProbeFails, SwitchOff, wsVars, workVars, openVars, callVars, stopVars, TypeOK,
      Leases, Keepers, Steps, Bound
<1>28. ASSUME Swap PROVE Bound'
  BY <1>28, ProjectsAssumption
  DEF Swap, workVars, openVars, callVars, stopVars, TypeOK, Leases, Keepers, Steps,
      Bound
<1>29. ASSUME SwapFails PROVE Bound'
  BY <1>29, ProjectsAssumption
  DEF SwapFails, workVars, openVars, callVars, stopVars, TypeOK, Leases, Keepers,
      Steps, Bound
<1>30. ASSUME Retire PROVE Bound'
  BY <1>30, ProjectsAssumption
  DEF Retire, workVars, openVars, callVars, stopVars, TypeOK, Leases, Keepers,
      Steps, Bound
<1>31. ASSUME Retired PROVE Bound'
  BY <1>31, ProjectsAssumption
  DEF Retired, Down, openVars, callVars, stopVars, TypeOK, Leases, Keepers, Steps,
      Bound
<1>32. ASSUME Shutdown PROVE Bound'
  BY <1>32, ProjectsAssumption
  DEF Shutdown, EndJobs, wsVars, hostVars, openVars, TypeOK, Leases, Keepers, Steps,
      Bound
<1>33. ASSUME CloseInstallation PROVE Bound'
  BY <1>33, ProjectsAssumption
  DEF CloseInstallation, wsVars, workVars, hostVars, openVars, callVars, TypeOK,
      Leases, Keepers, Steps, Bound
<1>34. ASSUME CloseJobs PROVE Bound'
  BY <1>34, ProjectsAssumption
  DEF CloseJobs, EndJobs, wsVars, hostVars, openVars, callVars, TypeOK, Leases,
      Keepers, Steps, Bound
<1>35. ASSUME CallsOver PROVE Bound'
  BY <1>35, ProjectsAssumption
  DEF CallsOver, Users, wsVars, workVars, hostVars, openVars, callVars, TypeOK,
      Leases, Keepers, Steps, Bound
<1>36. ASSUME NEW p \in Project, CloseNext(p) PROVE Bound'
  BY <1>36, ProjectsAssumption
  DEF CloseNext, Idle, Users, wsVars, workVars, hostVars, callVars, TypeOK, Leases,
      Keepers, Steps, Bound
<1>37. ASSUME CloseHost PROVE Bound'
  BY <1>37, ProjectsAssumption
  DEF CloseHost, wsVars, workVars, openVars, callVars, TypeOK, Leases, Keepers,
      Steps, Bound
<1>38. ASSUME StopDefault PROVE Bound'
  BY <1>38, ProjectsAssumption
  DEF StopDefault, Inflight, workVars, hostVars, openVars, callVars, stopVars,
      TypeOK, Leases, Keepers, Steps, Bound
<1>39. ASSUME Stopped PROVE Bound'
  BY <1>39, ProjectsAssumption
  DEF Stopped, Down, hostVars, openVars, callVars, TypeOK, Leases, Keepers, Steps,
      Bound
<1>u. ASSUME UNCHANGED vars PROVE Bound'
  BY <1>u
  DEF TypeOK, Leases, Keepers, Steps, Bound, vars, wsVars, workVars, hostVars,
      openVars, callVars, stopVars
<1>. QED
  BY <1>1, <1>2, <1>3, <1>4, <1>5, <1>6, <1>7, <1>8, <1>9, <1>10, <1>11, <1>12,
     <1>13, <1>14, <1>15, <1>16, <1>17, <1>18, <1>19, <1>20, <1>21, <1>22, <1>23,
     <1>24, <1>25, <1>26, <1>27, <1>28, <1>29, <1>30, <1>31, <1>32, <1>33, <1>34,
     <1>35, <1>36, <1>37, <1>38, <1>39, <1>u
  DEF Next, Acquire, CallStep, SwitchStep, ProjectStep, StopStep

\* A job of a call is ended neither by a switch nor by a close.
LEMMA JobStep ==
    ASSUME TypeOK, Leases, Keepers, Steps, Bound, Jobs, [Next]_vars
    PROVE  Jobs'
<1>1. ASSUME NEW c \in Call, Connect(c) PROVE Jobs'
  BY <1>1, ProjectsAssumption
  DEF Connect, wsVars, workVars, hostVars, openVars, stopVars, TypeOK, Leases,
      Keepers, Steps, Bound, Jobs, CallJobsSurvive
<1>2. ASSUME NEW c \in Call, HangUp(c) PROVE Jobs'
  BY <1>2, ProjectsAssumption
  DEF HangUp, Running, wsVars, workVars, hostVars, openVars, stopVars, TypeOK,
      Leases, Keepers, Steps, Bound, Jobs, CallJobsSurvive
<1>3. ASSUME NEW c \in Call, Gate(c) PROVE Jobs'
  BY <1>3, ProjectsAssumption
  DEF Gate, Running, Over, wsVars, workVars, hostVars, openVars, stopVars, TypeOK,
      Leases, Keepers, Steps, Bound, Jobs, CallJobsSurvive
<1>4. ASSUME NEW c \in Call, BeginTool(c) PROVE Jobs'
  BY <1>4, ProjectsAssumption
  DEF BeginTool, Running, Over, wsVars, workVars, hostVars, openVars, stopVars,
      TypeOK, Leases, Keepers, Steps, Bound, Jobs, CallJobsSurvive
<1>5. ASSUME NEW c \in Call, Return(c) PROVE Jobs'
  BY <1>5, ProjectsAssumption
  DEF Return, Running, Over, wsVars, workVars, hostVars, openVars, stopVars, TypeOK,
      Leases, Keepers, Steps, Bound, Jobs, CallJobsSurvive
<1>6. ASSUME NEW c \in Call, Refused(c) PROVE Jobs'
  BY <1>6, ProjectsAssumption
  DEF Refused, Running, Over, wsVars, workVars, hostVars, openVars, stopVars,
      TypeOK, Leases, Keepers, Steps, Bound, Jobs, CallJobsSurvive
<1>7. ASSUME NEW c \in Call, StartJob(c) PROVE Jobs'
  BY <1>7, ProjectsAssumption
  DEF StartJob, wsVars, hostVars, openVars, callVars, stopVars, TypeOK, Leases,
      Keepers, Steps, Bound, Jobs, CallJobsSurvive
<1>8. ASSUME NEW c \in Call, NEW p \in Project, AcquireDefault(c, p) PROVE Jobs'
  BY <1>8, ProjectsAssumption
  DEF AcquireDefault, May, Bind, wsVars, workVars, hostVars, openVars, stopVars,
      TypeOK, Leases, Keepers, Steps, Bound, Jobs, CallJobsSurvive
<1>9. ASSUME NEW c \in Call, NEW p \in Project, AcquireOpen(c, p) PROVE Jobs'
  BY <1>9, ProjectsAssumption
  DEF AcquireOpen, May, Bind, wsVars, workVars, hostVars, openVars, stopVars,
      TypeOK, Leases, Keepers, Steps, Bound, Jobs, CallJobsSurvive
<1>10. ASSUME NEW c \in Call, NEW p \in Project, AcquireOpening(c, p) PROVE Jobs'
  BY <1>10, ProjectsAssumption
  DEF AcquireOpening, May, Waits, wsVars, workVars, hostVars, openVars, stopVars,
      TypeOK, Leases, Keepers, Steps, Bound, Jobs, CallJobsSurvive
<1>11. ASSUME NEW c \in Call, NEW p \in Project, NEW i \in Instance, AcquireClosed(c, p, i)
      PROVE  Jobs'
  BY <1>11, ProjectsAssumption
  DEF AcquireClosed, May, Booted, Waits, workVars, hostVars, stopVars, TypeOK,
      Leases, Keepers, Steps, Bound, Jobs, CallJobsSurvive
<1>12. ASSUME NEW i \in Instance, JobEnds(i) PROVE Jobs'
  BY <1>12, ProjectsAssumption
  DEF JobEnds, Running, wsVars, hostVars, openVars, callVars, stopVars, TypeOK,
      Leases, Keepers, Steps, Bound, Jobs, CallJobsSurvive
<1>13. ASSUME NEW i \in Instance, Tick(i) PROVE Jobs'
  BY <1>13, ProjectsAssumption
  DEF Tick, wsVars, hostVars, openVars, callVars, stopVars, TypeOK, Leases, Keepers,
      Steps, Bound, Jobs, CallJobsSurvive
<1>14. ASSUME NEW i \in Instance, Launch(i) PROVE Jobs'
  BY <1>14, ProjectsAssumption
  DEF Launch, Running, wsVars, hostVars, openVars, callVars, stopVars, TypeOK,
      Leases, Keepers, Steps, Bound, Jobs, CallJobsSurvive
<1>15. ASSUME NEW i \in Instance, OrphanDown(i) PROVE Jobs'
  BY <1>15, ProjectsAssumption
  DEF OrphanDown, Running, Orphan, Down, hostVars, openVars, callVars, stopVars,
      TypeOK, Leases, Keepers, Steps, Bound, Jobs, CallJobsSurvive
<1>16. ASSUME NEW p \in Project, Other(p) PROVE Jobs'
  BY <1>16, ProjectsAssumption
  DEF Other, Running, workVars, hostVars, openVars, callVars, stopVars, TypeOK,
      Leases, Keepers, Steps, Bound, Jobs, CallJobsSurvive
<1>17. ASSUME NEW p \in Project, SwitchTo(p) PROVE Jobs'
  BY <1>17, ProjectsAssumption
  DEF SwitchTo, Users, wsVars, workVars, openVars, callVars, stopVars, TypeOK,
      Leases, Keepers, Steps, Bound, Jobs, CallJobsSurvive
<1>18. ASSUME NEW p \in Project, CloseProject(p) PROVE Jobs'
  BY <1>18, ProjectsAssumption
  DEF CloseProject, Idle, wsVars, workVars, hostVars, callVars, stopVars, Users,
      TypeOK, Leases, Keepers, Steps, Bound, Jobs, CallJobsSurvive
<1>19. ASSUME NEW p \in Project, StopProjectFails(p) PROVE Jobs'
  BY <1>19, ProjectsAssumption
  DEF StopProjectFails, Running, wsVars, workVars, hostVars, openVars, callVars,
      TypeOK, Leases, Keepers, Steps, Bound, Jobs, CallJobsSurvive
<1>20. ASSUME NEW p \in Project, Opened(p) PROVE Jobs'
  BY <1>20, ProjectsAssumption
  DEF Opened, Running, workVars, hostVars, stopVars, TypeOK, Leases, Keepers, Steps,
      Bound, Jobs, CallJobsSurvive
<1>21. ASSUME NEW p \in Project, OpenFails(p) PROVE Jobs'
  BY <1>21, ProjectsAssumption
  DEF OpenFails, Running, workVars, hostVars, openVars, callVars, stopVars, TypeOK,
      Leases, Keepers, Steps, Bound, Jobs, CallJobsSurvive
<1>22. ASSUME NEW p \in Project, OpeningDown(p) PROVE Jobs'
  BY <1>22, ProjectsAssumption
  DEF OpeningDown, Running, Down, hostVars, stopVars, TypeOK, Leases, Keepers,
      Steps, Bound, Jobs, CallJobsSurvive
<1>23. ASSUME NEW p \in Project, StopProject(p) PROVE Jobs'
  BY <1>23, ProjectsAssumption
  DEF StopProject, Running, workVars, hostVars, openVars, callVars, stopVars,
      TypeOK, Leases, Keepers, Steps, Bound, Jobs, CallJobsSurvive
<1>24. ASSUME NEW p \in Project, ProjectDown(p) PROVE Jobs'
  BY <1>24, ProjectsAssumption
  DEF ProjectDown, Running, Down, hostVars, callVars, TypeOK, Leases, Keepers,
      Steps, Bound, Jobs, CallJobsSurvive
<1>25. ASSUME Drained PROVE Jobs'
  BY <1>25, ProjectsAssumption
  DEF Drained, Running, Inflight, Users, SwitchOff, wsVars, workVars, openVars,
      callVars, stopVars, TypeOK, Leases, Keepers, Steps, Bound, Jobs,
      CallJobsSurvive
<1>26. ASSUME NEW i \in Instance, Probed(i) PROVE Jobs'
  BY <1>26, ProjectsAssumption
  DEF Probed, Running, Booted, workVars, openVars, callVars, stopVars, TypeOK,
      Leases, Keepers, Steps, Bound, Jobs, CallJobsSurvive
<1>27. ASSUME ProbeFails PROVE Jobs'
  BY <1>27, ProjectsAssumption
  DEF ProbeFails, Running, SwitchOff, wsVars, workVars, openVars, callVars,
      stopVars, TypeOK, Leases, Keepers, Steps, Bound, Jobs, CallJobsSurvive
<1>28. ASSUME Swap PROVE Jobs'
  BY <1>28, ProjectsAssumption
  DEF Swap, Running, workVars, openVars, callVars, stopVars, TypeOK, Leases,
      Keepers, Steps, Bound, Jobs, CallJobsSurvive
<1>29. ASSUME SwapFails PROVE Jobs'
  BY <1>29, ProjectsAssumption
  DEF SwapFails, Running, workVars, openVars, callVars, stopVars, TypeOK, Leases,
      Keepers, Steps, Bound, Jobs, CallJobsSurvive
<1>30. ASSUME Retire PROVE Jobs'
  BY <1>30, ProjectsAssumption
  DEF Retire, Running, workVars, openVars, callVars, stopVars, TypeOK, Leases,
      Keepers, Steps, Bound, Jobs, CallJobsSurvive
<1>31. ASSUME Retired PROVE Jobs'
  BY <1>31, ProjectsAssumption
  DEF Retired, Running, Down, openVars, callVars, stopVars, TypeOK, Leases, Keepers,
      Steps, Bound, Jobs, CallJobsSurvive
<1>32. ASSUME Shutdown PROVE Jobs'
  BY <1>32, ProjectsAssumption
  DEF Shutdown, EndJobs, wsVars, hostVars, openVars, TypeOK, Leases, Keepers, Steps,
      Bound, Jobs, CallJobsSurvive
<1>33. ASSUME CloseInstallation PROVE Jobs'
  BY <1>33, ProjectsAssumption
  DEF CloseInstallation, wsVars, workVars, hostVars, openVars, callVars, TypeOK,
      Leases, Keepers, Steps, Bound, Jobs, CallJobsSurvive
<1>34. ASSUME CloseJobs PROVE Jobs'
  BY <1>34, ProjectsAssumption
  DEF CloseJobs, EndJobs, wsVars, hostVars, openVars, callVars, TypeOK, Leases,
      Keepers, Steps, Bound, Jobs, CallJobsSurvive
<1>35. ASSUME CallsOver PROVE Jobs'
  BY <1>35, ProjectsAssumption
  DEF CallsOver, Users, wsVars, workVars, hostVars, openVars, callVars, TypeOK,
      Leases, Keepers, Steps, Bound, Jobs, CallJobsSurvive
<1>36. ASSUME NEW p \in Project, CloseNext(p) PROVE Jobs'
  BY <1>36, ProjectsAssumption
  DEF CloseNext, Idle, wsVars, workVars, hostVars, callVars, Users, TypeOK, Leases,
      Keepers, Steps, Bound, Jobs, CallJobsSurvive
<1>37. ASSUME CloseHost PROVE Jobs'
  BY <1>37, ProjectsAssumption
  DEF CloseHost, wsVars, workVars, openVars, callVars, TypeOK, Leases, Keepers,
      Steps, Bound, Jobs, CallJobsSurvive
<1>38. ASSUME StopDefault PROVE Jobs'
  BY <1>38, ProjectsAssumption
  DEF StopDefault, Inflight, workVars, hostVars, openVars, callVars, stopVars,
      TypeOK, Leases, Keepers, Steps, Bound, Jobs, CallJobsSurvive
<1>39. ASSUME Stopped PROVE Jobs'
  BY <1>39, ProjectsAssumption
  DEF Stopped, Down, hostVars, openVars, callVars, TypeOK, Leases, Keepers, Steps,
      Bound, Jobs, CallJobsSurvive
<1>u. ASSUME UNCHANGED vars PROVE Jobs'
  BY <1>u
  DEF TypeOK, Leases, Keepers, Steps, Bound, Jobs, CallJobsSurvive, vars, wsVars,
      workVars, hostVars, openVars, callVars, stopVars
<1>. QED
  BY <1>1, <1>2, <1>3, <1>4, <1>5, <1>6, <1>7, <1>8, <1>9, <1>10, <1>11, <1>12,
     <1>13, <1>14, <1>15, <1>16, <1>17, <1>18, <1>19, <1>20, <1>21, <1>22, <1>23,
     <1>24, <1>25, <1>26, <1>27, <1>28, <1>29, <1>30, <1>31, <1>32, <1>33, <1>34,
     <1>35, <1>36, <1>37, <1>38, <1>39, <1>u
  DEF Next, Acquire, CallStep, SwitchStep, ProjectStep, StopStep

\* Every step leaves every runtime its keeper, and a shutdown leaves none but orphans.
LEMMA KeptStep ==
    ASSUME TypeOK, Leases, Keepers, Steps, Kept, [Next]_vars
    PROVE  Kept'
<1>1. ASSUME NEW c \in Call, Connect(c) PROVE Kept'
  BY <1>1, ProjectsAssumption
  DEF Connect, wsVars, workVars, hostVars, openVars, stopVars, TypeOK, Leases,
      Keepers, Steps, Kept
<1>2. ASSUME NEW c \in Call, HangUp(c) PROVE Kept'
  BY <1>2, ProjectsAssumption
  DEF HangUp, Running, wsVars, workVars, hostVars, openVars, stopVars, TypeOK,
      Leases, Keepers, Steps, Kept
<1>3. ASSUME NEW c \in Call, Gate(c) PROVE Kept'
  BY <1>3, ProjectsAssumption
  DEF Gate, Running, Over, wsVars, workVars, hostVars, openVars, stopVars, TypeOK,
      Leases, Keepers, Steps, Kept
<1>4. ASSUME NEW c \in Call, BeginTool(c) PROVE Kept'
  BY <1>4, ProjectsAssumption
  DEF BeginTool, Running, Over, wsVars, workVars, hostVars, openVars, stopVars,
      TypeOK, Leases, Keepers, Steps, Kept
<1>5. ASSUME NEW c \in Call, Return(c) PROVE Kept'
  BY <1>5, ProjectsAssumption
  DEF Return, Running, Over, wsVars, workVars, hostVars, openVars, stopVars, TypeOK,
      Leases, Keepers, Steps, Kept
<1>6. ASSUME NEW c \in Call, Refused(c) PROVE Kept'
  BY <1>6, ProjectsAssumption
  DEF Refused, Running, Over, wsVars, workVars, hostVars, openVars, stopVars,
      TypeOK, Leases, Keepers, Steps, Kept
<1>7. ASSUME NEW c \in Call, StartJob(c) PROVE Kept'
  BY <1>7, ProjectsAssumption
  DEF StartJob, wsVars, hostVars, openVars, callVars, stopVars, TypeOK, Leases,
      Keepers, Steps, Kept
<1>8. ASSUME NEW c \in Call, NEW p \in Project, AcquireDefault(c, p) PROVE Kept'
  BY <1>8, ProjectsAssumption
  DEF AcquireDefault, May, Bind, wsVars, workVars, hostVars, openVars, stopVars,
      TypeOK, Leases, Keepers, Steps, Kept
<1>9. ASSUME NEW c \in Call, NEW p \in Project, AcquireOpen(c, p) PROVE Kept'
  BY <1>9, ProjectsAssumption
  DEF AcquireOpen, May, Bind, wsVars, workVars, hostVars, openVars, stopVars,
      TypeOK, Leases, Keepers, Steps, Kept
<1>10. ASSUME NEW c \in Call, NEW p \in Project, AcquireOpening(c, p) PROVE Kept'
  BY <1>10, ProjectsAssumption
  DEF AcquireOpening, May, Waits, wsVars, workVars, hostVars, openVars, stopVars,
      TypeOK, Leases, Keepers, Steps, Kept
<1>11. ASSUME NEW c \in Call, NEW p \in Project, NEW i \in Instance, AcquireClosed(c, p, i)
      PROVE  Kept'
  BY <1>11, ProjectsAssumption
  DEF AcquireClosed, May, Booted, Waits, workVars, hostVars, stopVars, TypeOK,
      Leases, Keepers, Steps, Kept
<1>12. ASSUME NEW i \in Instance, JobEnds(i) PROVE Kept'
  BY <1>12, ProjectsAssumption
  DEF JobEnds, Running, wsVars, hostVars, openVars, callVars, stopVars, TypeOK,
      Leases, Keepers, Steps, Kept
<1>13. ASSUME NEW i \in Instance, Tick(i) PROVE Kept'
  BY <1>13, ProjectsAssumption
  DEF Tick, wsVars, hostVars, openVars, callVars, stopVars, TypeOK, Leases, Keepers,
      Steps, Kept
<1>14. ASSUME NEW i \in Instance, Launch(i) PROVE Kept'
  BY <1>14, ProjectsAssumption
  DEF Launch, Running, wsVars, hostVars, openVars, callVars, stopVars, TypeOK,
      Leases, Keepers, Steps, Kept
<1>15. ASSUME NEW i \in Instance, OrphanDown(i) PROVE Kept'
  BY <1>15, ProjectsAssumption
  DEF OrphanDown, Running, Orphan, Down, hostVars, openVars, callVars, stopVars,
      TypeOK, Leases, Keepers, Steps, Kept
<1>16. ASSUME NEW p \in Project, Other(p) PROVE Kept'
  BY <1>16, ProjectsAssumption
  DEF Other, Running, workVars, hostVars, openVars, callVars, stopVars, TypeOK,
      Leases, Keepers, Steps, Kept
<1>17. ASSUME NEW p \in Project, SwitchTo(p) PROVE Kept'
  BY <1>17, ProjectsAssumption
  DEF SwitchTo, Users, wsVars, workVars, openVars, callVars, stopVars, TypeOK,
      Leases, Keepers, Steps, Kept
<1>18. ASSUME NEW p \in Project, CloseProject(p) PROVE Kept'
  BY <1>18, ProjectsAssumption
  DEF CloseProject, Idle, wsVars, workVars, hostVars, callVars, stopVars, Users,
      TypeOK, Leases, Keepers, Steps, Kept
<1>19. ASSUME NEW p \in Project, StopProjectFails(p) PROVE Kept'
  BY <1>19, ProjectsAssumption
  DEF StopProjectFails, Running, wsVars, workVars, hostVars, openVars, callVars,
      TypeOK, Leases, Keepers, Steps, Kept
<1>20. ASSUME NEW p \in Project, Opened(p) PROVE Kept'
  BY <1>20, ProjectsAssumption
  DEF Opened, Running, workVars, hostVars, stopVars, TypeOK, Leases, Keepers, Steps,
      Kept
<1>21. ASSUME NEW p \in Project, OpenFails(p) PROVE Kept'
  BY <1>21, ProjectsAssumption
  DEF OpenFails, Running, workVars, hostVars, openVars, callVars, stopVars, TypeOK,
      Leases, Keepers, Steps, Kept
<1>22. ASSUME NEW p \in Project, OpeningDown(p) PROVE Kept'
  BY <1>22, ProjectsAssumption
  DEF OpeningDown, Running, Down, hostVars, stopVars, TypeOK, Leases, Keepers,
      Steps, Kept
<1>23. ASSUME NEW p \in Project, StopProject(p) PROVE Kept'
  BY <1>23, ProjectsAssumption
  DEF StopProject, Running, workVars, hostVars, openVars, callVars, stopVars,
      TypeOK, Leases, Keepers, Steps, Kept
<1>24. ASSUME NEW p \in Project, ProjectDown(p) PROVE Kept'
  BY <1>24, ProjectsAssumption
  DEF ProjectDown, Running, Down, hostVars, callVars, TypeOK, Leases, Keepers,
      Steps, Kept
<1>25. ASSUME Drained PROVE Kept'
  BY <1>25, ProjectsAssumption
  DEF Drained, Running, Inflight, Users, SwitchOff, wsVars, workVars, openVars,
      callVars, stopVars, TypeOK, Leases, Keepers, Steps, Kept
<1>26. ASSUME NEW i \in Instance, Probed(i) PROVE Kept'
  BY <1>26, ProjectsAssumption
  DEF Probed, Running, Booted, workVars, openVars, callVars, stopVars, TypeOK,
      Leases, Keepers, Steps, Kept
<1>27. ASSUME ProbeFails PROVE Kept'
  BY <1>27, ProjectsAssumption
  DEF ProbeFails, Running, SwitchOff, wsVars, workVars, openVars, callVars,
      stopVars, TypeOK, Leases, Keepers, Steps, Kept
<1>28. ASSUME Swap PROVE Kept'
  BY <1>28, ProjectsAssumption
  DEF Swap, Running, workVars, openVars, callVars, stopVars, TypeOK, Leases,
      Keepers, Steps, Kept
<1>29. ASSUME SwapFails PROVE Kept'
  BY <1>29, ProjectsAssumption
  DEF SwapFails, Running, workVars, openVars, callVars, stopVars, TypeOK, Leases,
      Keepers, Steps, Kept
<1>30. ASSUME Retire PROVE Kept'
  BY <1>30, ProjectsAssumption
  DEF Retire, Running, workVars, openVars, callVars, stopVars, TypeOK, Leases,
      Keepers, Steps, Kept
<1>31. ASSUME Retired PROVE Kept'
  BY <1>31, ProjectsAssumption
  DEF Retired, Running, Down, openVars, callVars, stopVars, TypeOK, Leases, Keepers,
      Steps, Kept
<1>32. ASSUME Shutdown PROVE Kept'
  BY <1>32, ProjectsAssumption
  DEF Shutdown, EndJobs, wsVars, hostVars, openVars, TypeOK, Leases, Keepers, Steps,
      Kept
<1>33. ASSUME CloseInstallation PROVE Kept'
  BY <1>33, ProjectsAssumption
  DEF CloseInstallation, wsVars, workVars, hostVars, openVars, callVars, TypeOK,
      Leases, Keepers, Steps, Kept
<1>34. ASSUME CloseJobs PROVE Kept'
  BY <1>34, ProjectsAssumption
  DEF CloseJobs, EndJobs, wsVars, hostVars, openVars, callVars, TypeOK, Leases,
      Keepers, Steps, Kept
<1>35. ASSUME CallsOver PROVE Kept'
  BY <1>35, ProjectsAssumption
  DEF CallsOver, Users, wsVars, workVars, hostVars, openVars, callVars, TypeOK,
      Leases, Keepers, Steps, Kept
<1>36. ASSUME NEW p \in Project, CloseNext(p) PROVE Kept'
  BY <1>36, ProjectsAssumption
  DEF CloseNext, Idle, wsVars, workVars, hostVars, callVars, Users, TypeOK, Leases,
      Keepers, Steps, Kept
<1>37. ASSUME CloseHost PROVE Kept'
  BY <1>37, ProjectsAssumption
  DEF CloseHost, wsVars, workVars, openVars, callVars, TypeOK, Leases, Keepers,
      Steps, Kept
<1>38. ASSUME StopDefault PROVE Kept'
  BY <1>38, ProjectsAssumption
  DEF StopDefault, Inflight, workVars, hostVars, openVars, callVars, stopVars,
      TypeOK, Leases, Keepers, Steps, Kept
<1>39. ASSUME Stopped PROVE Kept'
  BY <1>39, ProjectsAssumption
  DEF Stopped, Down, hostVars, openVars, callVars, TypeOK, Leases, Keepers, Steps,
      Kept
<1>u. ASSUME UNCHANGED vars PROVE Kept'
  BY <1>u
  DEF TypeOK, Leases, Keepers, Steps, Kept, vars, wsVars, workVars, hostVars,
      openVars, callVars, stopVars
<1>. QED
  BY <1>1, <1>2, <1>3, <1>4, <1>5, <1>6, <1>7, <1>8, <1>9, <1>10, <1>11, <1>12,
     <1>13, <1>14, <1>15, <1>16, <1>17, <1>18, <1>19, <1>20, <1>21, <1>22, <1>23,
     <1>24, <1>25, <1>26, <1>27, <1>28, <1>29, <1>30, <1>31, <1>32, <1>33, <1>34,
     <1>35, <1>36, <1>37, <1>38, <1>39, <1>u
  DEF Next, Acquire, CallStep, SwitchStep, ProjectStep, StopStep

\* The invariant holds at the start and is kept by every step.
LEMMA Inductive == SafeSpec => []IInv
<1>1. Init => IInv
  <2>. SUFFICES ASSUME Init PROVE IInv
    OBVIOUS
  <2>1. TypeOK
    BY ProjectsAssumption DEF Init, TypeOK
  <2>2. Leases
    BY ProjectsAssumption DEF Init, Leases
  <2>3. Keepers
    BY ProjectsAssumption DEF Init, Keepers
  <2>4. Steps /\ Bound
    BY ProjectsAssumption DEF Init, Steps, Bound
  <2>5. Jobs /\ Kept
    BY ProjectsAssumption DEF Init, Jobs, CallJobsSurvive, Kept
  <2>. QED
    BY <2>1, <2>2, <2>3, <2>4, <2>5 DEF IInv
<1>2. IInv /\ [Next]_vars => IInv'
  <2>. SUFFICES ASSUME IInv, [Next]_vars PROVE IInv'
    OBVIOUS
  <2>1. TypeOK'
    BY TypeStep DEF IInv
  <2>2. Leases'
    BY LeaseStep DEF IInv
  <2>3. Keepers'
    BY KeeperStep DEF IInv
  <2>4. Steps'
    BY HostStep DEF IInv
  <2>5. Bound'
    BY BoundStep DEF IInv
  <2>6. Jobs'
    BY JobStep DEF IInv
  <2>7. Kept'
    BY KeptStep DEF IInv
  <2>. QED
    BY <2>1, <2>2, <2>3, <2>4, <2>5, <2>6, <2>7 DEF IInv
<1>. QED
  BY <1>1, <1>2, PTL DEF SafeSpec

\* Every state is well typed.
THEOREM TypeCorrect == SafeSpec => []TypeOK
BY Inductive, PTL DEF IInv

\* A project has at most one runtime in this daemon and on this machine.
THEOREM OneRuntimeCorrect == SafeSpec => []OneRuntimePerProject
<1>1. IInv => OneRuntimePerProject
  BY ProjectsAssumption DEF IInv, Leases, OneRuntimePerProject
<1>. QED
  BY <1>1, Inductive, PTL

\* No call works in a runtime that is half built, being torn down or gone, or
\* in another project's.
THEOREM CallsCorrect == SafeSpec => []CallsSeeWholeRuntimes
<1>1. IInv => CallsSeeWholeRuntimes
  BY ProjectsAssumption DEF IInv, TypeOK, Keepers, Bound, CallsSeeWholeRuntimes
<1>. QED
  BY <1>1, Inductive, PTL

\* Until it is closed, the host has a workspace that serves.
THEOREM ServesCorrect == SafeSpec => []DefaultServes
<1>1. IInv => DefaultServes
  BY DEF IInv, Steps, DefaultServes
<1>. QED
  BY <1>1, Inductive, PTL

\* Neither a switch nor a close ends a job that a call has started.
THEOREM JobsCorrect == SafeSpec => []CallJobsSurvive
<1>1. IInv => CallJobsSurvive
  BY DEF IInv, Jobs
<1>. QED
  BY <1>1, Inductive, PTL

\* A shutdown that ran to its end left no lease but those of orphans.
THEOREM LeasesCorrect == SafeSpec => []LeasesReturned
<1>1. IInv => LeasesReturned
  BY ProjectsAssumption
  DEF IInv, TypeOK, Leases, Steps, Kept, LeasesReturned, Orphan
<1>. QED
  BY <1>1, Inductive, PTL
=============================================================================
