----------------------------- MODULE ThreadPool -----------------------------
(***************************************************************************)
(* The thread pool with futures, classes ThreadPool and Thread             *)
(* (threadpool/threadpool_new.h, threadpool/threadpool_new.cpp).           *)
(*                                                                         *)
(* Actors: the owner, who configures, starts and destroys the pool; the    *)
(* users, who call submitTask(); and the workers, the detached threads     *)
(* that run threadFunc().  They share taskQueMtx_, three condition         *)
(* variables (notFull_, noEmpty_, exitCond_) and atomic counters.  A       *)
(* critical section up to a wait is one action; what threadFunc() and      *)
(* start() do to a counter outside the mutex is an action of its own.      *)
(***************************************************************************)
EXTENDS Integers, Sequences, FiniteSets

CONSTANTS
    Users,                 \* threads that call submitTask()
    Tasks,                 \* packaged tasks, each submitted at most once
    NoTask,                \* an empty Task
    initThreadSize,        \* the argument of start()
    TASK_MAX_THRESHHOLD,   \* default of taskQueMaxThreadHold_
    THREAD_MAX_THRESHHOLD, \* default of threadSizeThreshHold_
    Modes,                 \* arguments of setMode()
    QueueLimits,           \* arguments of setTaskQueueMaxThreadHold()
    ThreadLimits,          \* arguments of setThreadSizeThreshHold()
    MaxSpurious            \* bound: spurious wakeups in a behaviour

ASSUME ThreadPoolAssumption ==
    /\ NoTask \notin Tasks
    /\ IsFiniteSet(Tasks)
    /\ initThreadSize \in Nat
    /\ TASK_MAX_THRESHHOLD \in Int /\ THREAD_MAX_THRESHHOLD \in Int
    /\ Modes \subseteq {"MODE_FIXD", "MODE_CACHD"}
    /\ QueueLimits \subseteq Int /\ ThreadLimits \subseteq Int
    /\ MaxSpurious \in Nat

\* The pool is the first one of the process, so its threads have the ids 0, 1, ...
\* A submission creates at most one thread, so these ids are never used up.
Ids == 0 .. (initThreadSize + Cardinality(Tasks) - 1)

VARIABLES
    owner,                 \* the owner: where it is in start() or ~ThreadPool()
    mode_, taskQueMaxThreadHold_, threadSizeThreshHold_,
    isPoolRunning_,
    generateID_,
    threads_,              \* the keys of threads_
    curThreadSize_, idleThreadSize_, taskSize_,
    taskQue_,
    started,               \* i of the second loop of start()
    uncounted,             \* 1 between start() of a thread and idleThreadSize_++
    worker,                \* each worker: where it is in threadFunc()
    job,                   \* each worker: its local variable task
    aged,                  \* each worker: now - lastTime >= THREAD_MAX_IDLE_TIME
    user,                  \* each user: where it is in submitTask()
    offer,                 \* each user: the task it is submitting
    fate,                  \* each task: what its future will see
    spurious

config == <<mode_, taskQueMaxThreadHold_, threadSizeThreshHold_>>
counters == <<generateID_, threads_, curThreadSize_, idleThreadSize_>>
queue == <<taskSize_, taskQue_>>
starting == <<started, uncounted>>
workers == <<worker, job, aged>>
users == <<user, offer, fate>>
flags == <<isPoolRunning_, starting, spurious>>
rest == <<config, flags>>
shared == <<counters, queue, workers, users>>

vars == <<owner, config, isPoolRunning_, counters, queue, starting, workers, users,
          spurious>>

OwnerStates == {"config", "starting", "running", "closing", "wait", "woken", "destroyed"}

WorkerStates == {"none", "ready", "wait", "woken", "expired", "exec", "done", "exited"}

\* Workers inside the while of threadFunc(), about to look at the queue.
Looking(w) == worker[w] \in {"ready", "woken", "expired"}

IdleWorkers == {w \in Ids : Looking(w) \/ worker[w] = "wait"}

LiveWorkers == {w \in Ids : worker[w] \notin {"none", "exited"}}

-----------------------------------------------------------------------------
(* The pieces the threads share.                                           *)

\* Seeded fault: noEmpty_ is not notified.
NobodyNotified(ws) == ws

\* noEmpty_.notify_all(), applied to the workers' states ws.
NoEmptyNotified(ws) == [w \in Ids |-> IF ws[w] = "wait" THEN "woken" ELSE ws[w]]

\* notFull_.notify_all(), applied to the users' states us.
NotFullNotified(us) == [u \in Users |-> IF us[u] = "wait" THEN "woken" ELSE us[u]]

\* exitCond_.notify_all()
ExitCondNotified == IF owner = "wait" THEN "woken" ELSE owner

\* Seeded fault: a push that is not counted.
PushUncounted(t) == taskQue_' = Append(taskQue_, t) /\ UNCHANGED taskSize_

\* taskQue_.emplace(task), taskSize_++
PushTask(t) == taskQue_' = Append(taskQue_, t) /\ taskSize_' = taskSize_ + 1

\* Seeded fault: the front is used and stays in the queue.
PopForgotten == UNCHANGED <<taskQue_, taskSize_>>

\* taskQue_.pop(), taskSize_--
PopTask == taskQue_' = Tail(taskQue_) /\ taskSize_' = taskSize_ - 1

\* Seeded fault: one task too many.
HasRoomOffByOne == taskQueMaxThreadHold_ < 0 \/ Len(taskQue_) <= taskQueMaxThreadHold_

\* taskQue_.size() < taskQueMaxThreadHold_ compares size_t with int: a negative
\* limit becomes larger than any size.
HasRoom == taskQueMaxThreadHold_ < 0 \/ Len(taskQue_) < taskQueMaxThreadHold_

\* Seeded fault: one thread too many.
GrowOffByOne(n) ==
    /\ mode_ = "MODE_CACHD"
    /\ idleThreadSize_ >= 0 /\ n > idleThreadSize_
    /\ curThreadSize_ <= threadSizeThreshHold_

\* taskSize_ > idleThreadSize_ compares unsigned with int: a negative number of
\* idle threads becomes larger than any number of tasks.  n is taskSize_.
ShouldGrow(n) ==
    /\ mode_ = "MODE_CACHD"
    /\ idleThreadSize_ >= 0 /\ n > idleThreadSize_
    /\ curThreadSize_ < threadSizeThreshHold_

\* Only a thread above the initial number, idle for long enough, is reclaimed.
MayReclaim(w) ==
    /\ mode_ = "MODE_CACHD"
    /\ aged[w]
    /\ curThreadSize_ > initThreadSize

-----------------------------------------------------------------------------
(* The owner: configuration and start().                                   *)

SetMode(m) ==
    /\ owner = "config"
    /\ mode_' = m
    /\ UNCHANGED <<owner, taskQueMaxThreadHold_, threadSizeThreshHold_, flags, shared>>

SetTaskQueueMaxThreadHold(n) ==
    /\ owner = "config"
    /\ taskQueMaxThreadHold_' = n
    /\ UNCHANGED <<owner, mode_, threadSizeThreshHold_, flags, shared>>

SetThreadSizeThreshHold(n) ==
    /\ owner = "config"
    /\ mode_ = "MODE_CACHD"
    /\ threadSizeThreshHold_' = n
    /\ UNCHANGED <<owner, mode_, taskQueMaxThreadHold_, flags, shared>>

\* start(), up to the end of its first loop: the Thread objects exist, and no
\* thread runs.
Start ==
    /\ owner = "config"
    /\ owner' = "starting"
    /\ isPoolRunning_' = TRUE
    /\ curThreadSize_' = initThreadSize
    /\ threads_' = 0 .. (initThreadSize - 1)
    /\ generateID_' = initThreadSize
    /\ UNCHANGED <<config, starting, spurious, idleThreadSize_, queue, workers, users>>

\* threads_[i]->start()
StartThread ==
    /\ owner = "starting"
    /\ started < initThreadSize /\ uncounted = 0
    /\ worker' = [worker EXCEPT ![started] = "ready"]
    /\ uncounted' = 1
    /\ UNCHANGED <<owner, config, isPoolRunning_, started, spurious,
                   counters, queue, job, aged, users>>

\* idleThreadSize_++ of start(): the new thread may already run.
CountIdle ==
    /\ uncounted = 1
    /\ uncounted' = 0
    /\ started' = started + 1
    /\ idleThreadSize_' = idleThreadSize_ + 1
    /\ UNCHANGED <<owner, config, isPoolRunning_, spurious,
                   generateID_, threads_, curThreadSize_, queue, workers, users>>

StartReturns ==
    /\ owner = "starting"
    /\ started = initThreadSize
    /\ owner' = "running"
    /\ UNCHANGED <<rest, shared>>

-----------------------------------------------------------------------------
(* submitTask().  A user may call it as soon as that is not a data race:   *)
(* after start() has returned, and in the fixed mode, where it does not    *)
(* touch threads_, already while start() starts the threads.               *)

CanSubmit == owner = "running" \/ (owner = "starting" /\ mode_ = "MODE_FIXD")

\* The queue has room: push, notify the workers and, in the cached mode, start
\* another thread when there are more tasks than idle threads.
Enqueue(u, t) ==
    /\ PushTask(t)
    /\ fate' = [fate EXCEPT ![t] = "queued"]
    /\ user' = [user EXCEPT ![u] = "idle"]
    /\ offer' = [offer EXCEPT ![u] = NoTask]
    /\ IF ShouldGrow(taskSize_ + 1)
       THEN /\ threads_' = threads_ \cup {generateID_}
            /\ worker' = NoEmptyNotified([worker EXCEPT ![generateID_] = "ready"])
            /\ generateID_' = generateID_ + 1
            /\ curThreadSize_' = curThreadSize_ + 1
            /\ idleThreadSize_' = idleThreadSize_ + 1
       ELSE /\ worker' = NoEmptyNotified(worker)
            /\ UNCHANGED counters

\* The caller's first look at the queue: push, or wait for up to one second.
SubmitTask(u, t) ==
    /\ CanSubmit
    /\ user[u] = "idle"
    /\ fate[t] = "new"
    /\ \/ HasRoom /\ Enqueue(u, t)
       \/ /\ ~HasRoom
          /\ user' = [user EXCEPT ![u] = "wait"]
          /\ offer' = [offer EXCEPT ![u] = t]
          /\ fate' = [fate EXCEPT ![t] = "offered"]
          /\ UNCHANGED <<counters, queue, worker>>
    /\ UNCHANGED <<rest, owner, job, aged>>

\* Seeded fault: the wait has no deadline.
SubmitWithoutDeadline(u) == FALSE

\* The deadline of the wait is one second after the call, however often the
\* caller is woken in between.
SubmitDeadline(u) ==
    /\ user[u] \in {"wait", "woken"}
    /\ user' = [user EXCEPT ![u] = "expired"]
    /\ UNCHANGED <<rest, owner, counters, queue, workers, offer, fate>>

\* After a wakeup the predicate decides: push; or wait on; or, once the deadline
\* has passed, return a future that holds a default value.
SubmitResumes(u) ==
    /\ user[u] \in {"woken", "expired"}
    /\ \/ HasRoom /\ Enqueue(u, offer[u])
       \/ /\ ~HasRoom
          /\ user[u] = "woken"
          /\ user' = [user EXCEPT ![u] = "wait"]
          /\ UNCHANGED <<counters, queue, worker, offer, fate>>
       \/ /\ ~HasRoom
          /\ user[u] = "expired"
          /\ user' = [user EXCEPT ![u] = "idle"]
          /\ offer' = [offer EXCEPT ![u] = NoTask]
          /\ fate' = [fate EXCEPT ![offer[u]] = "rejected"]
          /\ UNCHANGED <<counters, queue, worker>>
    /\ UNCHANGED <<rest, owner, job, aged>>

-----------------------------------------------------------------------------
(* threadFunc().                                                           *)

\* A wait that reported a timeout is followed by the reclaim check, whatever has
\* been put into the queue meanwhile.
Continues(w) == Looking(w) /\ ~(worker[w] = "expired" /\ MayReclaim(w))

\* Take the front; notify the other workers if more is left, and the users.
TakeTask(w) ==
    /\ Continues(w)
    /\ taskQue_ # <<>>
    /\ idleThreadSize_' = idleThreadSize_ - 1
    /\ job' = [job EXCEPT ![w] = Head(taskQue_)]
    /\ PopTask
    /\ fate' = [fate EXCEPT ![Head(taskQue_)] = "running"]
    /\ LET ws == [worker EXCEPT ![w] = "exec"]
       IN  worker' = IF Tail(taskQue_) # <<>> THEN NoEmptyNotified(ws) ELSE ws
    /\ user' = NotFullNotified(user)
    /\ UNCHANGED <<rest, owner, generateID_, threads_, curThreadSize_, aged, offer>>

\* Nothing to do: wait on noEmpty_, for one second in the cached mode.
WorkerWaits(w) ==
    /\ Continues(w)
    /\ taskQue_ = <<>>
    /\ isPoolRunning_
    /\ worker' = [worker EXCEPT ![w] = "wait"]
    /\ UNCHANGED <<rest, owner, counters, queue, job, aged, users>>

WaitExpires(w) ==
    /\ mode_ = "MODE_CACHD"
    /\ worker[w] = "wait"
    /\ worker' = [worker EXCEPT ![w] = "expired"]
    /\ UNCHANGED <<rest, owner, counters, queue, job, aged, users>>

\* Seeded fault: the queue is not looked at before the running flag.
ExitUndrained(w) ==
    /\ Continues(w)
    /\ ~isPoolRunning_
    /\ threads_' = threads_ \ {w}
    /\ worker' = [worker EXCEPT ![w] = "exited"]
    /\ owner' = ExitCondNotified
    /\ UNCHANGED <<rest, generateID_, curThreadSize_, idleThreadSize_, queue, job, aged, users>>

\* The pool is being destroyed and the queue is empty: the thread removes itself
\* and tells the destructor.  The counters are not adjusted.
WorkerExits(w) ==
    /\ Continues(w)
    /\ taskQue_ = <<>>
    /\ ~isPoolRunning_
    /\ threads_' = threads_ \ {w}
    /\ worker' = [worker EXCEPT ![w] = "exited"]
    /\ owner' = ExitCondNotified
    /\ UNCHANGED <<rest, generateID_, curThreadSize_, idleThreadSize_, queue, job, aged, users>>

\* Cached mode: the wait timed out (a notified thread, too, reports a timeout when
\* it gets the mutex back after the deadline) and the thread is surplus.  It
\* removes itself, and does not tell the destructor.
WorkerReclaimed(w) ==
    /\ worker[w] \in {"woken", "expired"}
    /\ MayReclaim(w)
    /\ threads_' = threads_ \ {w}
    /\ worker' = [worker EXCEPT ![w] = "exited"]
    /\ curThreadSize_' = curThreadSize_ - 1
    /\ idleThreadSize_' = idleThreadSize_ - 1
    /\ UNCHANGED <<rest, owner, generateID_, queue, job, aged, users>>

\* task(): the future becomes ready.
RunTask(w) ==
    /\ worker[w] = "exec"
    /\ worker' = [worker EXCEPT ![w] = "done"]
    /\ fate' = [fate EXCEPT ![job[w]] = "done"]
    /\ UNCHANGED <<rest, owner, counters, queue, job, aged, user, offer>>

\* Seeded fault: a thread that has finished a task does not count as idle again.
FinishUncounted(w) ==
    /\ worker[w] = "done"
    /\ worker' = [worker EXCEPT ![w] = "ready"]
    /\ job' = [job EXCEPT ![w] = NoTask]
    /\ aged' = [aged EXCEPT ![w] = FALSE]
    /\ UNCHANGED <<rest, owner, counters, queue, users>>

\* idleThreadSize_++ and lastTime = now, without the mutex.
FinishTask(w) ==
    /\ worker[w] = "done"
    /\ worker' = [worker EXCEPT ![w] = "ready"]
    /\ job' = [job EXCEPT ![w] = NoTask]
    /\ aged' = [aged EXCEPT ![w] = FALSE]
    /\ idleThreadSize_' = idleThreadSize_ + 1
    /\ UNCHANGED <<rest, owner, generateID_, threads_, curThreadSize_, queue, users>>

Look(w) == TakeTask(w) \/ WorkerWaits(w) \/ WorkerExits(w) \/ WorkerReclaimed(w)

-----------------------------------------------------------------------------
(* ~ThreadPool(), called when no user is inside submitTask().              *)

\* isPoolRunning_ = false, before the mutex is taken.
Close ==
    /\ owner \in {"config", "running"}
    /\ \A u \in Users : user[u] = "idle"
    /\ owner' = "closing"
    /\ isPoolRunning_' = FALSE
    /\ UNCHANGED <<config, counters, queue, starting, workers, users, spurious>>

\* Seeded fault: one worker is woken, the others sleep on.
CloseWakesOne ==
    /\ owner = "closing"
    /\ \/ \E w \in Ids : worker[w] = "wait" /\ worker' = [worker EXCEPT ![w] = "woken"]
       \/ (\A w \in Ids : worker[w] # "wait") /\ UNCHANGED worker
    /\ owner' = IF threads_ = {} THEN "destroyed" ELSE "wait"
    /\ UNCHANGED <<rest, counters, queue, job, aged, users>>

\* Under the mutex: wake every worker, and wait until threads_ is empty.
CloseLocked ==
    /\ owner = "closing"
    /\ worker' = NoEmptyNotified(worker)
    /\ owner' = IF threads_ = {} THEN "destroyed" ELSE "wait"
    /\ UNCHANGED <<rest, counters, queue, job, aged, users>>

CloseResumes ==
    /\ owner = "woken"
    /\ owner' = IF threads_ = {} THEN "destroyed" ELSE "wait"
    /\ UNCHANGED <<rest, shared>>

-----------------------------------------------------------------------------
(* The environment.                                                        *)

\* A worker has not run a task for THREAD_MAX_IDLE_TIME seconds.  The flag is
\* looked at only in the cached mode, after a wait.
Age(w) ==
    /\ mode_ = "MODE_CACHD"
    /\ worker[w] \in {"wait", "woken", "expired"} /\ ~aged[w]
    /\ aged' = [aged EXCEPT ![w] = TRUE]
    /\ UNCHANGED <<rest, owner, counters, queue, worker, job, users>>

\* A condition variable may wake a waiter for no reason.
SpuriousWakeup ==
    /\ spurious < MaxSpurious
    /\ spurious' = spurious + 1
    /\ \/ \E w \in Ids : /\ worker[w] = "wait"
                         /\ worker' = [worker EXCEPT ![w] = "woken"]
                         /\ UNCHANGED <<user, owner>>
       \/ \E u \in Users : /\ user[u] = "wait"
                           /\ user' = [user EXCEPT ![u] = "woken"]
                           /\ UNCHANGED <<worker, owner>>
       \/ owner = "wait" /\ owner' = "woken" /\ UNCHANGED <<worker, user>>
    /\ UNCHANGED <<config, isPoolRunning_, starting,
                   counters, queue, job, aged, offer, fate>>

-----------------------------------------------------------------------------
Init ==
    /\ owner = "config"
    /\ mode_ = "MODE_FIXD"
    /\ taskQueMaxThreadHold_ = TASK_MAX_THRESHHOLD
    /\ threadSizeThreshHold_ = THREAD_MAX_THRESHHOLD
    /\ isPoolRunning_ = FALSE
    /\ generateID_ = 0
    /\ threads_ = {}
    /\ curThreadSize_ = 0 /\ idleThreadSize_ = 0
    /\ taskSize_ = 0 /\ taskQue_ = <<>>
    /\ started = 0 /\ uncounted = 0
    /\ worker = [w \in Ids |-> "none"]
    /\ job = [w \in Ids |-> NoTask]
    /\ aged = [w \in Ids |-> FALSE]
    /\ user = [u \in Users |-> "idle"]
    /\ offer = [u \in Users |-> NoTask]
    /\ fate = [t \in Tasks |-> "new"]
    /\ spurious = 0

Configure ==
    \/ \E m \in Modes : SetMode(m)
    \/ \E n \in QueueLimits : SetTaskQueueMaxThreadHold(n)
    \/ \E n \in ThreadLimits : SetThreadSizeThreshHold(n)

StartStep == StartThread \/ CountIdle \/ StartReturns

CloseStep == CloseLocked \/ CloseResumes

UserStep(u) == (\E t \in Tasks : SubmitTask(u, t)) \/ SubmitDeadline(u) \/ SubmitResumes(u)

WorkerStep(w) == Look(w) \/ WaitExpires(w) \/ RunTask(w) \/ FinishTask(w) \/ Age(w)

Next ==
    \/ Configure \/ Start \/ StartStep
    \/ Close \/ CloseStep
    \/ \E u \in Users : UserStep(u)
    \/ \E w \in Ids : WorkerStep(w)
    \/ SpuriousWakeup

Spec == Init /\ [][Next]_vars

\* Every thread that can run does run, the mutex starves nobody, timers expire and
\* tasks terminate.  Nothing obliges the owner to start or to destroy the pool,
\* the users to submit, or a worker to become old.
Fairness ==
    /\ WF_vars(StartStep)
    /\ WF_vars(CloseStep)
    /\ \A u \in Users : /\ WF_vars(SubmitDeadline(u))
                        /\ WF_vars(SubmitResumes(u))
    /\ \A w \in Ids : /\ WF_vars(Look(w))
                      /\ WF_vars(WaitExpires(w))
                      /\ WF_vars(RunTask(w) \/ FinishTask(w))

FairSpec == Spec /\ Fairness

-----------------------------------------------------------------------------
(* Properties the code has.                                                *)

\* Every variable keeps its type.
TypeOK ==
    /\ owner \in OwnerStates
    /\ mode_ \in {"MODE_FIXD", "MODE_CACHD"}
    /\ taskQueMaxThreadHold_ \in Int /\ threadSizeThreshHold_ \in Int
    /\ isPoolRunning_ \in BOOLEAN
    /\ generateID_ \in Nat
    /\ threads_ \subseteq Ids
    /\ curThreadSize_ \in Nat /\ idleThreadSize_ \in Int
    /\ taskSize_ \in Nat /\ taskQue_ \in Seq(Tasks)
    /\ started \in 0..initThreadSize /\ uncounted \in {0, 1}
    /\ worker \in [Ids -> WorkerStates]
    /\ job \in [Ids -> Tasks \cup {NoTask}]
    /\ aged \in [Ids -> BOOLEAN]
    /\ user \in [Users -> {"idle", "wait", "woken", "expired"}]
    /\ offer \in [Users -> Tasks \cup {NoTask}]
    /\ fate \in [Tasks -> {"new", "offered", "queued", "running", "done", "rejected"}]
    /\ spurious \in 0..MaxSpurious

\* No wakeup is lost: no worker sleeps on noEmpty_ while a task is queued, no user
\* sleeps on notFull_ while the queue has room, and once the destructor has
\* notified nobody falls asleep again.
NoLostWakeup ==
    /\ taskQue_ # <<>> => \A w \in Ids : worker[w] # "wait"
    /\ HasRoom => \A u \in Users : user[u] # "wait"
    /\ owner \in {"wait", "woken", "destroyed"} => \A w \in Ids : worker[w] # "wait"

Queued == {taskQue_[i] : i \in 1..Len(taskQue_)}

\* A task is in the queue, with one worker, or with one user, as its future
\* believes, and never in two places.
TaskHasOnePlace ==
    /\ \A i, j \in 1..Len(taskQue_) : taskQue_[i] = taskQue_[j] => i = j
    /\ \A t \in Tasks :
          /\ t \in Queued <=> fate[t] = "queued"
          /\ Cardinality({w \in Ids : worker[w] = "exec" /\ job[w] = t}) =
                IF fate[t] = "running" THEN 1 ELSE 0
          /\ Cardinality({u \in Users : offer[u] = t}) =
                IF fate[t] = "offered" THEN 1 ELSE 0

\* While the pool runs the counters say what they are named for, which is what
\* the decisions to grow and to reclaim rest on: the only thread not
\* counted yet is the one start() has just started.
CountersExact ==
    isPoolRunning_ =>
        /\ taskSize_ = Len(taskQue_)
        /\ curThreadSize_ = Cardinality(threads_)
        /\ idleThreadSize_ = Cardinality(IdleWorkers) - uncounted

\* The pool grows no further than the larger of its start size and the threshold,
\* and reclaiming leaves it the threads it was started with.
PoolSizeBounded ==
    /\ \/ Cardinality(LiveWorkers) <= initThreadSize
       \/ Cardinality(LiveWorkers) <= threadSizeThreshHold_
    /\ owner = "running" => Cardinality(LiveWorkers) >= initThreadSize

\* When the destructor returns every accepted task has been run and no thread is
\* left that could touch the pool.
DestroyedWhenQuiet ==
    owner = "destroyed" =>
        /\ LiveWorkers = {}
        /\ \A t \in Tasks : fate[t] \in {"new", "done", "rejected"}

\* An accepted task is run, in the fixed and in the cached mode, also when the
\* pool is being destroyed or threads are reclaimed.
AcceptedTaskRuns == \A t \in Tasks : (fate[t] = "queued") ~> fate[t] = "done"

\* submitTask() returns, with an accepted or with a rejected task.
SubmitReturns == \A u \in Users : (user[u] # "idle") ~> (user[u] = "idle")

\* In the fixed mode the destructor returns, wherever the workers are when it is
\* called: each of them leaves and notifies it, and it goes back to sleep until
\* the last one has left.
FixedDestructorReturns ==
    (owner = "closing" /\ mode_ = "MODE_FIXD") ~> (owner = "destroyed")

\* The pool implements the abstract executor.
Width ==
    IF initThreadSize > threadSizeThreshHold_ THEN initThreadSize ELSE threadSizeThreshHold_

InState(f) == {t \in Tasks : fate[t] = f}

TE == INSTANCE TaskExecutor WITH
        closed <- owner = "destroyed",
        cap <- taskQueMaxThreadHold_, width <- Width,
        pending <- taskQue_, running <- InState("running"),
        done <- InState("done"), refused <- InState("rejected")

ImplementsTaskExecutor == TE!Spec

-----------------------------------------------------------------------------
(* Properties the comments claim and the code does not have.               *)

\* "Wait until all threads of the pool have returned": the destructor returns,
\* in the cached mode, too.
DestructorReturns == (owner = "closing") ~> (owner = "destroyed")
=============================================================================
