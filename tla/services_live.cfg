SPECIFICATION ServicesSpec
CONSTANTS
    Parts = {"lsp", "agents", "brain", "tunnel"}
    None = None
    Proposal = {p, q}
    Claim = {c, d}
    Text = {t, u}
    MaxEdits = 3
    Call = {a, b}
    ClosesInput = FALSE
    MaxServers = 2
    MaxText = 0
    Run = {r, s}
    GlobalLimit = 1
    MaxSteps = 1
    MaxControls = 2
    MaxCrashes = 1
    Path = {"p", "q"}
    Name = {"n"}
    Package = {"k"}
    Specifier = {"s"}
    MaxChanges = 2
    MaxTunnelRestarts = 1
    FailureThreshold = 2
    Hyp = {h1, h2}
    AgentRun = {g1}
    Root = Root
    Dir = {dir}
    Command = Command
    MaxActions = 2
    Wall = 2
    MaxTime = 2
    MaxRestarts = 1
    Ingest = {i, j}
    Content = {x, y}
    MaxRefs = 2
    MaxMishaps = 2
    MaxDaemons = 3
    Request = {r1, r2}
    MaxFaults = 1
    Check = {1, 2}
    Observer = {o1, o2}
    Asker = {q1, q2}
    File = {file}
    Entry = {}
    Terms = 1
    MaxVersion = 1
PROPERTIES CallsAnswered WorkConverges
CHECK_DEADLOCK FALSE
