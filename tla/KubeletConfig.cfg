SPECIFICATION FairSpec
CONSTANTS
    CustomRoles = {"cnf"}
    TestRole = "test-sriov-numa"
    Worker = "worker"
    Specs = {"numa0-of-node1", "numa0-of-node2"}
    None = None
    PoolOrder <- MCPoolOrder
    MaxRounds = 2
    ApiFaults = TRUE
    MayDegrade = TRUE
INVARIANTS
    TypeOK
    SingleCustomRole
    AppliedMeansRolledOut
    NeverBeforeRendered
PROPERTY
    SuiteReturns
    RevertCompletes
CHECK_DEADLOCK FALSE
