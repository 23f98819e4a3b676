SPECIFICATION RecoverySpec
CONSTANTS
    Proj = {p, q}
    Observed = {p}
    Hash = {h}
    None = None
    Retained = 1
    MaxPoints = 3
    MaxHolds = 1
    MaxTroubles = 1
    Image = {i, j}
    RetainedImages = 1
    MaxDeployments = 3
    MaxMishaps = 1
    Text = {t, u}
    Torn = Torn
    Retention = 1
    MaxBackups = 3
    MaxRestores = 2
    MaxKeys = 2
    MaxEdits = 2
    MaxRuns = 2
    Archive = {k, l}
    Pinned = {f}
    Packaged = {o}
    MaxSaves = 1
    MaxUnlocks = 1
    MaxDeaths = 1
INVARIANTS BackupsKept ServiceRecoverable
PROPERTIES NeverBare
SYMMETRY Images
CHECK_DEADLOCK FALSE
