SPECIFICATION Spec
CONSTANTS
  ClusterTypes <- MCClusterTypes
  Flags <- EveryFlag
  MaxRuns = 2
INVARIANTS
  DiskHoldsTheProject
  OwnClusterIsCoherent
  FlagsReachTheProject
CHECK_DEADLOCK FALSE
