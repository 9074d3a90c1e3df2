CONSTANTS
    ListenerCount = 3
    PoolSize = 4
    MaxFailures = 3
SPECIFICATION FairSpec
INVARIANTS OneReceiver NeverDeaf HandlersBounded
PROPERTY ListensAgain
CHECK_DEADLOCK FALSE
