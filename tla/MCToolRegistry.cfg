SPECIFICATION Spec
CONSTANTS
    Calls = {c1, c2, c3}
    Reads = {r1, r2}
    Writes = {w1}
    Data = {d1, d2}
    None = None
    MaxCalls = 2
    Deadline = 3
    ReadTimeout = 1
    WriteTimeout = 4
    BaseBackoff = 1
    MaxBackoff = 1
    MaxRetryAfter = 2
    RetryAfters = {2, 3}
    Lag = 1
    MaxTime = 6
SYMMETRY CallSymmetry
INVARIANTS
    BudgetRespected
    EndsInTime
    CachedAnswersAreReal
    TracesTellAll
PROPERTIES
    SuccessIsReused
    NoEarlyRetry
