\* Lists that are written flush with their key.
CONSTANTS
    Inputs <- FlushInputs
    NoKey = NoKey
    Numbers = {"1", "2"}
    MaxRuns = 1
    MaxFaults = 0
SPECIFICATION Spec
INVARIANT NothingRealLost
