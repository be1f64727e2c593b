SPECIFICATION FairSpec
CONSTANTS
    s1 = s1
    s2 = s2
    s3 = s3
    t1 = t1
    t2 = t2
    Subs = {s1, s2, s3}
    Objects = {t1, t2}
    TaskOf <- ThreeOfTwo
    NoResult = NoResult
    NoValue = NoValue
    EarlyDrop = FALSE
    initThreadSize = 2
    TASK_MAX_THRESHHOLD = 2
    QueueLimits = {0, 1}
INVARIANTS
    TypeOK
    OwnValue
    NoDanglingResult
PROPERTIES
    StartedGetReturns
    ImplementsTaskExecutor
\* When every Result has been received and destroyed nothing is left to do.
CHECK_DEADLOCK FALSE
