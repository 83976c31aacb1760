SPECIFICATION MCSpec
CONSTANTS
  n1 = n1
  n2 = n2
  n3 = n3
  n4 = n4
  Nodes = {n1, n2, n3, n4}
  Backed = {n1, n2, n3}
  Pipelines = {p}
  Runs = {r}
  MaxNodes = 3
  IntMax = 3
  Initials <- Edges
  Totals <- Batches
  CallsMayFail = TRUE
  Calls = {a, b, c}
  NoCall = NoCall
  MaxTokens = 3
  AuthMayFail = TRUE
  ConductorMayFail = TRUE
INVARIANTS
  TraceIsExact
  BatchIsVerified
  OneAtATime
  FailsForAReason
  AtMostOnce
  RetryIsFresh
PROPERTIES
  RunsAreAnswered
  CallsEnd
CHECK_DEADLOCK FALSE
