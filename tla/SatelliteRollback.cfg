SPECIFICATION Spec
CONSTANTS
  Devices = {d1, d2}
  Accounts = {gateway}
  Gateway = gateway
  Nobody = Nobody
  Pipelines = {p1}
  MaxCount = 2
  OnlineSets = {{d1, d2}}
  CallsMayFail = TRUE
  MayRestart = FALSE
  DirectNodes = {}
  TrustMoves = FALSE
INVARIANT RollbackIsComplete
CHECK_DEADLOCK FALSE
