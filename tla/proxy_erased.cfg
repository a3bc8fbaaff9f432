\* A denied request that is proxied all the same is reconciled against a
\* reservation it no longer has.
SPECIFICATION PSpec
CONSTANTS
    MaxInt64 = 1000000
    Procs = {p1, p2}
    w1 = w1
    w2 = w2
    Missing = Missing
    NoPolicy = NoPolicy
    NoWorkload = NoWorkload
    NoUsage = NoUsage
    Workloads <- MCWorkloads
    Registered <- MCRegistered
    WindowSeconds <- MCWindowSeconds
    LimitTokens <- MCLimitTokens
    BurstTokens <- MCBurstTokens
    Setups <- OneSetup
    Requests <- SameRequests
    Horizon <- NoTicks
    Usages = {1000}
    Estimates = {}
    Deltas <- NoDeltas
    CallsSpanSeconds = TRUE
    MaxTime = 0
    MaxCalls = 0
INVARIANTS ReservedTokensNotErased
CHECK_DEADLOCK FALSE
