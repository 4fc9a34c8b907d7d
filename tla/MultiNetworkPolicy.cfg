\* Every spec of the suite once, one failing call, a daemon that may stop.
CONSTANTS
    Chosen <- AllSpecs
    MayDie = TRUE
    MaxFaults = 1
SPECIFICATION FairSpec
INVARIANTS
    BodyHasItsPods
    SyncedMeansExpected
    StoppedDaemonIsReported
    CleanedUp
PROPERTIES
    SetupKept
    SuiteEnds
