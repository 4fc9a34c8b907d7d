SPECIFICATION FairSpec
CONSTANTS
    CustomRoles = {"cnf"}
    TestRole = "test-sriov-numa"
    Worker = "worker"
    Specs = {"numa0-of-node1", "numa0-of-node2"}
    None = None
    PoolOrder <- MCPoolOrder
    MaxRounds = 1
    ApiFaults = FALSE
    MayDegrade = TRUE
PROPERTY
    WaitsEnd
CHECK_DEADLOCK FALSE
