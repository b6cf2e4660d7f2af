SPECIFICATION FairSpec
CONSTANTS
  MaxProcs = 2
  MaxCalls = 3
  MaxSplits = 1
INVARIANTS
  OneDaemon
PROPERTIES
  ImplementsRpc
  Settles
CHECK_DEADLOCK FALSE
