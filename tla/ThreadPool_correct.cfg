SPECIFICATION FairSpec
CONSTANTS
    t1 = t1
    t2 = t2
    t3 = t3
    Users = {u1, u2}
    Tasks = {t1, t2, t3}
    NoTask = NoTask
    initThreadSize = 2
    TASK_MAX_THRESHHOLD = 1
    THREAD_MAX_THRESHHOLD = 2
    Modes = {"MODE_CACHD"}
    QueueLimits <- ZeroOrUnlimited
    ThreadLimits = {3}
    MaxSpurious = 1
ACTION_CONSTRAINT InOrder
INVARIANTS
    TypeOK
    NoLostWakeup
    TaskHasOnePlace
    CountersExact
    PoolSizeBounded
    DestroyedWhenQuiet
PROPERTIES
    ImplementsTaskExecutor
    AcceptedTaskRuns
    SubmitReturns
    FixedDestructorReturns
\* The pool is destroyed at most once, and then nothing is left to do.
CHECK_DEADLOCK FALSE
