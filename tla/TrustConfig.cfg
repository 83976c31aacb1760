SPECIFICATION Spec
CONSTANTS
  a = a
  b = b
  d1 = d1
  d2 = d2
  Forms = {f1, f2, f3}
  StackIds = {a, b}
  Devices = {d1, d2}
  Stacks <- SomeStacks
  Start <- OnFile
  Garbage = Garbage
  Unlisted = Unlisted
  DiskMayFail = TRUE
  MayCrash = TRUE
SYMMETRY Symmetry
INVARIANTS
  AcknowledgedIsKept
  AnswersAreTrue
  RemovalTakesEffect
PROPERTIES
  ImplementsAllowlist
CHECK_DEADLOCK FALSE
