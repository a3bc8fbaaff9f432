\* Reservations and refunds while the clock runs, jumps and steps back.
SPECIFICATION Spec
CONSTANTS
    MaxInt64 = 3
    WindowSeconds = 3
    MaxTime = 4
    MaxTokens = 4
    Grants = {1, 3}
    Refunds = {2}
INVARIANTS TypeOK RingMatchesHistory CachedSumNeverBelowBuckets
CHECK_DEADLOCK FALSE
