SPECIFICATION Spec
CONSTANTS
  Flags <- MCFlags
  Clusters <- MCClusters
  MaxRuns = 2
INVARIANTS
  CommandIsCoherent
  DiskHoldsTheMigration
  BrokersKeepTheirHosts
CHECK_DEADLOCK FALSE
