CONSTANTS
    finalize = finalize
    r1 = r1
    r2 = r2
    Senders = {finalize}
    Refreshers = {r1, r2}
    Callers = {finalize, r1, r2}
    Budgets = {2, 5}
    Lifetime = 3
    EarlyExpiry = 1
    MintTimeout = 3
    RequestTimeout = 3
    RetryBase = 2
    RetryMax = 3
    RetryAttempts = 2
    MaxTime = 5
SPECIFICATION Spec
INVARIANTS SendReturnsInTime 
PROPERTIES CacheMonotone NothingForcedAfterClose RefreshServes
CHECK_DEADLOCK FALSE
SYMMETRY Interchangeable
