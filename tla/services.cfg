SPECIFICATION ServicesSafety
CONSTANTS
    Parts = {"memory", "lsp", "agents", "brain", "tunnel", "runs", "resources", "daemons", "code", "verification", "context"}
    None = None
    Proposal = {p, q}
    Claim = {c, d}
    Text = {t, u}
    MaxEdits = 3
    Call = {a, b}
    ClosesInput = TRUE
    MaxServers = 2
    MaxText = 1
    Run = {r, s}
    GlobalLimit = 1
    MaxSteps = 2
    MaxControls = 3
    MaxCrashes = 1
    Path = {"p", "q", "r"}
    Name = {"n"}
    Package = {"k"}
    Specifier = {"s"}
    MaxChanges = 2
    MaxTunnelRestarts = 2
    FailureThreshold = 3
    Hyp = {h1, h2}
    AgentRun = {g1}
    Root = Root
    Dir = {dir}
    Command = Command
    MaxActions = 2
    Wall = 1
    MaxTime = 1
    MaxRestarts = 1
    Ingest = {i, j}
    Content = {x, y}
    MaxRefs = 2
    MaxMishaps = 2
    MaxDaemons = 3
    Request = {r1, r2}
    MaxFaults = 1
    Check = {1, 2}
    Observer = {o1, o2}
    Asker = {q1, q2}
    File = {file}
    Entry = {}
    Terms = 1
    MaxVersion = 1
INVARIANTS MemoriesTrue  WorkersTrue StoresSound
CHECK_DEADLOCK FALSE
