SPECIFICATION WireSpec
CONSTANTS
    Threads = {t1}
    Interval = 2
    BurstOffset = 5
    MaxRetries = 2
    RetryAfters = {0, 5}
    MaxCalls = 4
    MaxClock = 5
INVARIANTS OneRetryEnough StatsExact WireConforms
PROPERTIES ImplementsContract
CHECK_DEADLOCK FALSE
