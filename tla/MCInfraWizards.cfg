SPECIFICATION InfraSpec
CONSTANTS
  Inputs = {"enterprise", "one_zone", "many_zones", "many_zones_default_cku", "cleared"}
  Offered <- AllWizards
  Cluster <- MCCluster
  Storage <- MCStorage
  ClusterTypes <- MCClusterTypes
INVARIANTS
  DataMatchesVisited
  OtherRequestsFollowPath
  BackAlwaysPossible
  RequestsAreServed
PROPERTIES
  ImplementsPath
