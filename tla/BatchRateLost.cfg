SPECIFICATION Spec
CONSTANTS
    Threads = {t1}
    Hosts = {"h1", "h2", "h3"}
    Batches <- OneTooMany
    MaxHosts = 2
    MaxBatches = 1
INVARIANT UsesConfiguredRate
CHECK_DEADLOCK FALSE
