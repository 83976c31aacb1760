SPECIFICATION StartupFairSpec
CONSTANTS
  w1 = w1
  w2 = w2
  edge = edge
  Devices = {w1, w2, edge}
  Accounts = {admin, owner}
  Admin = admin
  Owner = owner
  ZeroAddress = ZeroAddress
  NoDevice = NoDevice
  MaxRequests = 4
  Workers <- TwoWorkers
  Initial = {w1, w2}
  Editable = {edge}
  MaxTroubles = 1
INVARIANTS
  DoneMeansApproved
  OneRequestPerWorker
PROPERTIES
  TrustedIsApproved
  RetriesConverge
CHECK_DEADLOCK FALSE
