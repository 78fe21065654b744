SPECIFICATION MigrateSpec
CONSTANTS
    Clean <- MCClean
    Worlds <- MCWorlds
    Requests <- MCRequests
    Names <- MCNames
    MapOrder <- MCMapOrder
    MaxRuns = 2
INVARIANTS
    TranslationExplained
    
CHECK_DEADLOCK FALSE
