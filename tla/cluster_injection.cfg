\* Every template and file, over two releases of the chart.
SPECIFICATION ClusterFairSpec
CONSTANTS
    Missing = Missing
    NoPolicy = NoPolicy
    NoConfig = NoConfig
    Absent = Absent
    NoOwner = NoOwner
    Unpatchable = Unpatchable
    NoPod = NoPod
    userValue = userValue
    MaxOps = 2
    BackoffLimit = 1
    Templates <- MCTemplates
    SidecarFiles <- MCSidecarFiles
    StandaloneFiles <- MCStandaloneFiles
    InjectedPort = 15099
    HeaderIDs <- MCHeaderIDs
INVARIANTS ClusterTypeOK OneSidecar InjectionComplete ModeHonoured PolicyHonoured PortAgrees
           DefaultSidecarStarts PolicyAndBudgetAgree ChargedBudgetsValid BundleMatchesSecret
PROPERTIES IdentityFollowsController HelmCompletes RestartRestoresTrust
CHECK_DEADLOCK FALSE
