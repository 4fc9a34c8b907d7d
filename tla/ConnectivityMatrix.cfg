\* Two pods, four producers, a channel that fills up.
CONSTANTS
    Pods = {a, b}
    Capacity = 2
SPECIFICATION FairSpec
INVARIANTS
    TypeOK
    ResultsSafe
PROPERTIES
    ImplementsReport
    Terminates
