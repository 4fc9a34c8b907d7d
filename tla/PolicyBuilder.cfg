SPECIFICATION Spec
CONSTANTS
    Waves = {"1", "10"}
    NoWave = NoWave
    NonStringWave = NonStringWave
    Durations = {"10m", "10s", "1h"}
    Unset = Unset
    Nil = Nil
    MaxSourceFiles = 3
    Pgts <- MCPgts
    SourceFiles <- MCSourceFiles
    GitCRs <- MCGitCRs
    ContainerCRs <- MCContainerCRs
    PolicyNames <- MCPolicyNames
    PolicyNameLength <- MCPolicyNameLength
INVARIANTS
    TypeOK
    WavesAgree
    BindingCoversPolicies
    NamesFit
    NothingLost
    SettingsSound
    SettingsResolved
PROPERTY
    PolicyGrows
CHECK_DEADLOCK FALSE
