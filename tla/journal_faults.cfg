SPECIFICATION SafeSpec
CONSTANTS
  a = a
  b = b
  d = d
  v1 = v1
  v2 = v2
  i1 = i1
  i2 = i2
  Absent = Absent
  Unknown = Unknown
  NoCs = NoCs
  Changeset = {c1, c2}
  Path <- MCPath
  Content <- MCContent
  Dir <- MCDir
  Plan <- MCPlan
  StartDisk <- MCStartDisk
  MaxFiles = 2
  MaxEdits = 0
  MaxCrashes = 1
  MaxStoreFaults = 1
  MaxDamage = 1
SYMMETRY Symmetry
CHECK_DEADLOCK FALSE
PROPERTIES
  CommittedMeansApplied
  LedgerSafe
