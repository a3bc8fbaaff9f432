\* An injected workload that uses the base URLs it was given.
SPECIFICATION ClusterSpec
CONSTANTS
    Missing = Missing
    NoPolicy = NoPolicy
    NoConfig = NoConfig
    Absent = Absent
    NoOwner = NoOwner
    Unpatchable = Unpatchable
    NoPod = NoPod
    userValue = userValue
    MaxOps = 1
    BackoffLimit = 0
    Templates <- MCTemplates
    SidecarFiles <- MCSidecarFiles
    StandaloneFiles <- MCStandaloneFiles
    InjectedPort = 15099
    HeaderIDs <- MCHeaderIDs
INVARIANTS InjectedTrafficReachesUpstream
CHECK_DEADLOCK FALSE
