SPECIFICATION Spec
CONSTANTS
    Clients = {c1, c2}
    Conns = {p1, p2}
    NULL = NULL
    initSize = 1
    maxSize = 2
    IdleLimit = 1
    MaxSpurious = 1
INVARIANTS
    ScannerReadsQueuedOnly
\* A scanner pass with undefined behaviour stops the model.
CHECK_DEADLOCK FALSE
