SPECIFICATION Spec
CONSTANTS
    Threads = {t1, t2}
    Hosts = {"h1", "h2", "h3"}
    Batches <- TwoHosts
    MaxHosts = 1
    MaxBatches = 1
INVARIANT PointersLive
CHECK_DEADLOCK FALSE
