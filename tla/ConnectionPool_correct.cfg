SPECIFICATION FairSpec
CONSTANTS
    Clients = {c1, c2, c3}
    Conns = {p1, p2, p3}
    NULL = NULL
    initSize = 1
    maxSize = 2
    IdleLimit = 1
    MaxSpurious = 1
INVARIANTS
    TypeOK
    OwnedExactlyOnce
    CountExact
    WithinLimits
    HeadIsOldest
PROPERTIES
    OneThreadPerHandle
    ImplementsResourcePool
    IdleConnectionReachesWaiter
    UnconfiguredReturns
\* A scanner pass with undefined behaviour stops the model.
CHECK_DEADLOCK FALSE
