SPECIFICATION FairSpec
CONSTANTS
    Threads = {t1, t2}
    Hosts = {"h1", "h2", "h3"}
    Batches <- Agreeing
    MaxHosts = 3
    MaxBatches = 2
INVARIANTS PointersLive EachSentOnce TokensBeforeSend UsesConfiguredRate
PROPERTIES PerformReturns ImplementsContract
CHECK_DEADLOCK FALSE
