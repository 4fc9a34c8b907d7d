SPECIFICATION Spec
CONSTANTS
    Waves = {"1", "10"}
    NoWave = NoWave
    NonStringWave = NonStringWave
    Durations = {"10m", "10s", "1h"}
    Unset = Unset
    Nil = Nil
    MaxSourceFiles = 2
    Pgts <- MCPgts
    SourceFiles <- SettingEntries
    GitCRs <- MCGitCRs
    ContainerCRs <- MCContainerCRs
    PolicyNames <- MCPolicyNames
    PolicyNameLength <- MCPolicyNameLength
INVARIANT RemediationConflictDetected
CHECK_DEADLOCK FALSE
