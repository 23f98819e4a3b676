SPECIFICATION Spec
CONSTANTS
  a = a
  b = b
  d = d
  v1 = v1
  v2 = v2
  i1 = i1
  i2 = i2
  Absent = Absent
  Unknown = Unknown
  NoCs = NoCs
  Changeset = {c1, c2}
  Path <- MCPath
  Content <- MCContent
  Dir <- MCDir
  Plan <- MCLivePlan
  StartDisk <- MCStartDisk
  MaxFiles = 2
  MaxEdits = 1
  MaxCrashes = 1
  MaxStoreFaults = 0
  MaxDamage = 0
CHECK_DEADLOCK FALSE
PROPERTY LedgerSpec
