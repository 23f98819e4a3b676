SPECIFICATION SafeSpec
CONSTANTS
  app = app f1 = f1
  c1 = c1 c2 = c2 c3 = c3
  k1 = k1 k2 = k2 edit = edit command = command
  None = None
  Client = {app}
  Flow = {f1}
  Call = {c1, c2, c3}
  ClientOf <- ClientOf0
  FirstAccess <- FirstAccess0
  Lists <- Lists0
  Levels = {"full", "read"}
  Requested <- Requested0
  Request <- Request0
  MaxRows = 4
  MaxPendingOAuth = 8
  MaxPolicy = 1
  MaxEpoch = 2
  MaxTrust = 1
INVARIANTS ApprovalFits KeyRunsOnce AnswersTrue DeletedClientGone
PROPERTY EffectAuthorized
SYMMETRY Twins
CHECK_DEADLOCK FALSE
