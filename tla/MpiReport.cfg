SPECIFICATION StaticSpec
CONSTANTS
  Size = 2
  Totals = {3}
  ChecksMayFail = FALSE
  VerifyMayFail = TRUE
INVARIANT ReportsVerified
CHECK_DEADLOCK FALSE
