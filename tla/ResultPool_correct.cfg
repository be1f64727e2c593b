SPECIFICATION ResultPoolSpec
CONSTANTS
    s1 = s1
    s2 = s2
    s3 = s3
    t1 = t1
    t2 = t2
    Users = {u1, u2}
    Tasks = {s1, s2, s3}
    NoTask = NoTask
    initThreadSize = 1
    TASK_MAX_THRESHHOLD = 1
    THREAD_MAX_THRESHHOLD = 2
    Modes = {"MODE_CACHD"}
    QueueLimits = {0}
    ThreadLimits = {}
    MaxSpurious = 1
    Subs = {s1, s2, s3}
    Objects = {t1, t2}
    TaskOf <- ThreeOfTwo
    NoResult = NoResult
    NoValue = NoValue
    EarlyDrop = FALSE
ACTION_CONSTRAINT OneAgainBesideAnother
INVARIANTS
    AcceptedIsLinked
    OwnValue
    NoDanglingResult
PROPERTIES
    GetReturns
\* The pool is destroyed at most once, and then nothing is left to do.
CHECK_DEADLOCK FALSE
