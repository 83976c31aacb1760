SPECIFICATION Spec
CONSTANTS
  Devices = {d1, d2}
  Accounts = {gateway, other}
  ZeroAddress = ZeroAddress
  NoDevice = NoDevice
  MaxRequests = 2
  MaxLeaseEvents = 4
SYMMETRY Symmetry
INVARIANTS
  LogTellsStatus
  LeasedWasApproved
  LeaseLogTellsHolder
PROPERTIES
  Lifecycle
  ApprovalLoss
  ImplementsBoard
CHECK_DEADLOCK FALSE
