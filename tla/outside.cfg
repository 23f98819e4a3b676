SPECIFICATION OutsideSpec
CONSTANTS
    None = None
    TrackedPath = {x, y, s}
    Denied = {s}
    Text = {t}
    MaxEntries = 2
    MaxCommits = 1
    MaxEvents = 1
    Request = {x, y}
    MaxOpens = 2
    MaxSwitches = 1
    Location = {x, y}
    Inode = {i, j}
    Project = {a, b}
    Title = {n, m}
    MaxBirths = 2
    Call = {x, y}
    Runtime = {a, b}
    Key = {k}
    MaxSaves = 2
    MaxInputs = 2
    MaxEffects = 2
    MaxCrashes = 1
    Session = {x, y}
    Run = {r}
    SessionLimit = 1
    Steps = 2
    MaxObservations = 3
    Source = {x, y, z}
    SourceLimit = 2
    MaxClosers = 2
    MaxWriters = 2
    Job = {a, b}
    Waiter = {r}
    Reader = {k}
    Slots = 2
    Segment = 2
    Chunk = 1
    Keep = 4
    Total = 3
    Page = 1
    MaxBytes = 5
    Lead = {0, 2}
INVARIANTS  ConsoleSound  
SYMMETRY Names
CHECK_DEADLOCK FALSE
