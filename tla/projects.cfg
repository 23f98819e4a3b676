SPECIFICATION Spec
CONSTANTS
    Project = {p1, p2}
    Instance = {i1, i2, i3}
    Call = {c1, c2}
    None = None
    Default = p1
    First = i1
    MaxRuntimes = 1
    MaxFaults = 1
INVARIANTS CallsSeeWholeRuntimes OneRuntimePerProject CallJobsSurvive DefaultServes LeasesReturned
PROPERTY TransitionsEnd
CHECK_DEADLOCK FALSE
