SPECIFICATION StartupSpec
CONSTANTS
  w1 = w1
  w2 = w2
  edge = edge
  Devices = {w1, w2}
  Accounts = {admin, owner}
  Admin = admin
  Owner = owner
  ZeroAddress = ZeroAddress
  NoDevice = NoDevice
  MaxRequests = 2
  Workers <- TwoWorkers
  Initial = {w1, w2}
  Editable = {}
  MaxTroubles = 0
INVARIANT RaceIsHarmless
CHECK_DEADLOCK FALSE
