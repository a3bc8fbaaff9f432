\* Three goroutines on one workload within one second; refunds allowed.
SPECIFICATION Spec
CONSTANTS
    MaxInt64 = 100
    Procs = {p1, p2, p3}
    Workloads = {w1, w2}
    Registered = {w1}
    NoWorkload = NoWorkload
    Window = 1
    Limit0 = 3
    Burst0 = 2
    WindowSeconds <- MCWindowSeconds
    LimitTokens <- MCLimitTokens
    BurstTokens <- MCBurstTokens
    Estimates = {2, 3}
    Deltas <- RefundDeltas
    CallsSpanSeconds = TRUE
    MaxTime = 0
    MaxCalls = 3
INVARIANTS ReservationsConserved
PROPERTIES ImplementsTokenBudget
SYMMETRY Symmetry
CHECK_DEADLOCK FALSE
