CONSTANTS
    ListenerCount = 1
    PoolSize = 2
    MaxFailures = 1
    Datagrams = {d1, d2, d3}
    None = None
SPECIFICATION ServiceSpec
INVARIANTS NoSelfAnswer
PROPERTIES QueryEnds
\* No more datagrams.
CHECK_DEADLOCK FALSE
