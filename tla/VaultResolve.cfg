SPECIFICATION ResolveSpec
CONSTANTS
    Threads = {t1, t2}
    Keys = {k1, k2}
    Complete = {k1}
    Leases <- SmallLeases
    Margin = 1
    LoginTime = 1
    Secrets = {s1}
    NoPath = NoPath
    Configs <- SmallConfigs
    TTL = 1
    FetchTime = 1
    MaxClock = 3
INVARIANTS BoundedStaleness TokenOutlivesUse SecretOrNothing
PROPERTIES RegressionBounded OutageStaysOver
CHECK_DEADLOCK FALSE
SYMMETRY Perms
