SPECIFICATION FairSpec
CONSTANTS
    t1 = t1
    t2 = t2
    t3 = t3
    Users = {u1}
    Tasks = {t1, t2}
    NoTask = NoTask
    initThreadSize = 1
    TASK_MAX_THRESHHOLD = 2
    THREAD_MAX_THRESHHOLD = 2
    Modes = {"MODE_CACHD"}
    QueueLimits = {}
    ThreadLimits = {}
    MaxSpurious = 0
PROPERTIES
    DestructorReturns
\* The pool is destroyed at most once, and then nothing is left to do.
CHECK_DEADLOCK FALSE
