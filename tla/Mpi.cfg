SPECIFICATION Spec
CONSTANTS
  Size = 4
  Totals = {0, 2, 5}
  ChunkSizes = {0, 2, 7}
  ChecksMayFail = TRUE
  VerifyMayFail = TRUE
INVARIANTS
  BatchIsDone
  PhasesAreApart
  ExactlyOnce
  AbortsOnlyForBad
PROPERTIES
  Terminates
