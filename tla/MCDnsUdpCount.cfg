CONSTANTS
    ListenerCount = 1
    PoolSize = 3
    MaxFailures = 2
SPECIFICATION FairSpec
INVARIANT DocumentedCount
CHECK_DEADLOCK FALSE
