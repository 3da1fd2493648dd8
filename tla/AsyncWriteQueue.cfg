CONSTANTS
    Tasks = {t1, t2}
    Workers = {w1, w2}
    WorkerThreads = 1
    Controller = control
    Caller = caller
    MaxQueueSize = 1
    BatchSize = 2
    MaxRetries = 1
    L2Raises = TRUE
CHECK_DEADLOCK FALSE
SPECIFICATION FairSpec
INVARIANTS
    StatsAccount
    DrainedOnStop
PROPERTY RetriesEnd
