SPECIFICATION Spec
CONSTANTS
    Threads = {t1, t2}
    Interval = 2
    BurstOffset = 2
    MaxRetries = 1
    RetryAfters = {1}
    MaxCalls = 2
    MaxClock = 1
INVARIANTS BacklogBounded StatsNeverInvented
PROPERTY CallsBounded
CHECK_DEADLOCK FALSE
SYMMETRY Perms
