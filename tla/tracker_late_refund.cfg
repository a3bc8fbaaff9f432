\* A refund booked after its reservation has expired.
SPECIFICATION Spec
CONSTANTS
    MaxInt64 = 100
    Procs = {p1, p2, p3}
    Workloads = {w1}
    Registered = {w1}
    NoWorkload = NoWorkload
    Window = 2
    Limit0 = 2
    Burst0 = 0
    WindowSeconds <- MCWindowSeconds
    LimitTokens <- MCLimitTokens
    BurstTokens <- MCBurstTokens
    Estimates = {2}
    Deltas <- RefundDeltas
    CallsSpanSeconds = FALSE
    MaxTime = 2
    MaxCalls = 3
INVARIANTS LiveReservationsWithinCapacity
CHECK_DEADLOCK FALSE
