\* Two concurrent requests of every kind, in either mode.
SPECIFICATION PFairSpec
CONSTANTS
    MaxInt64 = 1000000
    Procs = {p1, p2}
    w1 = w1
    w2 = w2
    Missing = Missing
    NoPolicy = NoPolicy
    NoWorkload = NoWorkload
    NoUsage = NoUsage
    Workloads <- MCWorkloads
    Registered <- MCRegistered
    WindowSeconds <- MCWindowSeconds
    LimitTokens <- MCLimitTokens
    BurstTokens <- MCBurstTokens
    Setups <- AllSetups
    Requests <- EveryRequest
    Horizon <- ListenerTicks
    Usages = {3500}
    Estimates = {}
    Deltas <- NoDeltas
    CallsSpanSeconds = TRUE
    MaxTime = 1
    MaxCalls = 0
INVARIANTS ProxyTypeOK ChecksNotBypassed OneDecisionPerRequest
            ListenerNeverRejects
PROPERTIES EveryRequestAnswered
CHECK_DEADLOCK FALSE
