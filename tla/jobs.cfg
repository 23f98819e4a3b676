SPECIFICATION Spec
CONSTANTS
  Caller = {c1, c2, c3}
  Job = {j1, j2}
  Ticket = {t1, t2}
  None = None
  MaxWaiters = 1
  MaxJobs = 2
  MaxStops = 1
  MaxFaults = 1
INVARIANTS
  OneWriter
  NoLostTurn
  RowsTellTheTruth
PROPERTY JobsSettle
