SPECIFICATION MCSpec
CONSTANTS
  Devices = {d1, d2}
  Accounts = {gateway, other}
  Gateway = gateway
  Nobody = Nobody
  Pipelines = {p1, p2}
  MaxCount = 2
  OnlineSets <- AnyOnline
  CallsMayFail = FALSE
  MayRestart = FALSE
  DirectNodes = {d2}
  TrustMoves = TRUE
INVARIANTS
  DisjointPipelines
  HeldOnChain
  NoLeakWhenCalm
PROPERTIES
  RequestsAreAnswered
CHECK_DEADLOCK FALSE
