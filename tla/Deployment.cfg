SPECIFICATION FairSpec
CONSTANTS
  MaxChain = 5
  MaxRuns = 3
INVARIANTS
  LeasesWhereItOnboards
  CodeIsTrust
PROPERTIES
  ListenersComeUp
