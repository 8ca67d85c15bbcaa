SPECIFICATION Spec
CONSTANTS
    Threads = {t1, t2}
    Interval = 2
    BurstOffset = 2
    MaxRetries = 1
    RetryAfters = {1}
    MaxCalls = 1
    MaxClock = 2
INVARIANT GrantsConform
CHECK_DEADLOCK FALSE
