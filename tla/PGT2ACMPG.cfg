\* Two runs over the same directories, at most one failing file operation.
CONSTANTS
    Inputs <- AllInputs
    NoKey = NoKey
    Numbers = {"1", "2"}
    MaxRuns = 2
    MaxFaults = 1
SPECIFICATION Spec
INVARIANTS
    TypeOK
    ManifestsRendered
    NothingRealLost
    
    OutputComplete
