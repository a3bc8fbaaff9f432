\* A call that fails keeps its reservation.
SPECIFICATION PSpec
CONSTANTS
    MaxInt64 = 1000000
    Procs = {p1, p2}
    w1 = w1
    w2 = w2
    Missing = Missing
    NoPolicy = NoPolicy
    NoWorkload = NoWorkload
    NoUsage = NoUsage
    Workloads <- MCWorkloads
    Registered <- MCRegistered
    WindowSeconds <- MCWindowSeconds
    LimitTokens <- MCLimitTokens
    BurstTokens <- MCBurstTokens
    Setups <- OneSetup
    Requests <- SameRequests
    Horizon <- NoTicks
    Usages = {1000}
    Estimates = {}
    Deltas <- NoDeltas
    CallsSpanSeconds = TRUE
    MaxTime = 0
    MaxCalls = 0
INVARIANTS FailedCallsReleased
CHECK_DEADLOCK FALSE
