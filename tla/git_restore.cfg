SPECIFICATION GitSpec
CONSTANTS
    Path = {p, q}
    Denied = {}
    Text = {t, u}
    None = None
    MaxEntries = 1
    MaxCommits = 0
    MaxEvents = 0
INVARIANT RestoreBackedUp
CHECK_DEADLOCK FALSE
