SPECIFICATION FeedFairSpec
CONSTANTS
  Devices = {d}
  Accounts = {admin}
  ZeroAddress = ZeroAddress
  NoDevice = NoDevice
  MaxRequests = 2
  Limit = 2
  MaxFaults = 1
  MaxRestarts = 1
  MaxFlight = 2
  UiMayFail = TRUE
INVARIANTS
  AnswersAsOfLastPoll
PROPERTIES
  PageConverges
CHECK_DEADLOCK FALSE
