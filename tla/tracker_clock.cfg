\* Two goroutines, three requests, while seconds pass; overspending and late refunds.
SPECIFICATION Spec
CONSTANTS
    MaxInt64 = 4
    Procs = {p1, p2}
    Workloads = {w1}
    Registered = {w1}
    NoWorkload = NoWorkload
    Window = 2
    Limit0 = 2
    Burst0 = 1
    WindowSeconds <- MCWindowSeconds
    LimitTokens <- MCLimitTokens
    BurstTokens <- MCBurstTokens
    Estimates <- SignedEstimates
    Deltas <- AllDeltas
    CallsSpanSeconds = TRUE
    MaxTime = 2
    MaxCalls = 3
INVARIANTS TypeOK GrantWithinCapacity BurstBounded
SYMMETRY Symmetry
CHECK_DEADLOCK FALSE
