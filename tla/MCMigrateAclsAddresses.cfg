SPECIFICATION MigrateSpec
CONSTANTS
    Clean <- MCClean
    Worlds <- MCWorlds
    Requests <- MCRequests
    Names <- MCNames
    MapOrder <- MCMapOrder
    MaxRuns = 1
INVARIANT
    AclsAreIndividual
CHECK_DEADLOCK FALSE
