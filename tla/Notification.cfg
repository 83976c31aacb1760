SPECIFICATION FairSpec
CONSTANTS
  Known = {alice}
  Unknown = {bob}
  NoRequest = NoRequest
  Garbage = Garbage
  MaxBlocks = 3
  MaxResets = 1
  MaxRestarts = 2
  RpcMayFail = TRUE
  SmtpMayFail = TRUE
  SaveMayFail = TRUE
INVARIANTS
  NothingSkipped
  NoDuplicates
PROPERTIES
  EveryRequestNotified
  CatchesUp
CHECK_DEADLOCK FALSE
