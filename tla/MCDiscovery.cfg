SPECIFICATION Spec
CONSTANTS
  r1 = r1
  r2 = r2
  standard = standard
  serverless = serverless
  good = good
  odd = odd
  unseen = unseen
  Region = {r1, r2}
  Cluster = {standard, serverless}
  Serverless = {serverless}
  HasPolicy = {standard}
  Connector = {good, odd, unseen}
  FirstPage = {good, odd}
  RegionOf <- MCRegionOf
  Listeners <- MCListeners
  ConnectorInfo <- MCConnectorInfo
  Options <- MCOptions
  MaxBrokers = 2
  MaxRuns = 2
  MaxChanges = 1
INVARIANTS
  EntriesAreWhole
  BrokerCountsAgree
  FilesAgree
PROPERTIES
  NothingLeavesUnexplained
CHECK_DEADLOCK FALSE
