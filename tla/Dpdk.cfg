SPECIFICATION Spec
CONSTANTS
    Envs <- AllEnvs
    MaxFaults = 2
INVARIANTS
    TypeOK
    OwnConfiguration
    PagesFit
    
    FoundIsKept
    DiscoversBest
