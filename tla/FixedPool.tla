----------------------------- MODULE FixedPool ------------------------------
(***************************************************************************)
(* The first thread pool, class ThreadPool of threadpool.h and             *)
(* threadpool.cpp: a fixed number of detached threads, no shutdown, and a  *)
(* Result for every submission.  Each submission is made by a thread of    *)
(* its own, which then owns the Result.  The pool is never destroyed: its  *)
(* destructor is empty and its threads never end.                          *)
(***************************************************************************)
EXTENDS TaskResult, Integers, Sequences, FiniteSets

CONSTANTS
    initThreadSize,       \* the argument of start()
    TASK_MAX_THRESHHOLD,  \* default of taskQueMaxThreadHold_
    QueueLimits           \* arguments of setTaskQueueMaxThreadHold()

ASSUME FixedPoolAssumption ==
    /\ initThreadSize \in Nat
    /\ TASK_MAX_THRESHHOLD \in Int
    /\ QueueLimits \subseteq Int

Workers == 1..initThreadSize

VARIABLES
    owner,                 \* the owner: "config", "starting" or "running"
    taskQueMaxThreadHold_,
    taskQue_, taskSize_,
    worker,                \* each worker: where it is in threadFunc()
    job,                   \* each worker: the submission it has taken, or none yet
    caller                 \* each submission: where its thread is in subMitTask()

poolVars == <<owner, taskQueMaxThreadHold_, taskQue_, taskSize_, worker, job, caller>>

vars == <<poolVars, handVars>>

\* Seeded fault: one task too many.
HasRoomOffByOne == taskQueMaxThreadHold_ < 0 \/ Len(taskQue_) <= taskQueMaxThreadHold_

\* taskQue_.size() < taskQueMaxThreadHold_ compares size_t with int: a negative
\* limit becomes larger than any size.
HasRoom == taskQueMaxThreadHold_ < 0 \/ Len(taskQue_) < taskQueMaxThreadHold_

\* Seeded fault: a pop that is not counted.
PopUncounted == taskQue_' = Tail(taskQue_) /\ UNCHANGED taskSize_

\* taskQue_.pop(), taskSize_--
PopTask == taskQue_' = Tail(taskQue_) /\ taskSize_' = taskSize_ - 1

\* noEmpty_.notify_all()
NoEmptyNotified == [w \in Workers |-> IF worker[w] = "wait" THEN "ready" ELSE worker[w]]

\* notFull_.notify_all()
NotFullNotified == [s \in Subs |-> IF caller[s] = "wait" THEN "woken" ELSE caller[s]]

-----------------------------------------------------------------------------
(* The owner.  setMode() sets a variable that nothing reads.               *)

\* The limit is not protected by the mutex, so it is set before anybody uses it.
SetTaskQueueMaxThreadHold(n) ==
    /\ owner = "config"
    /\ \A s \in Subs : caller[s] = "new"
    /\ taskQueMaxThreadHold_' = n
    /\ UNCHANGED <<owner, taskQue_, taskSize_, worker, job, caller, handVars>>

\* start(): all Thread objects are made, then the threads are started in turn.
Start ==
    /\ owner = "config"
    /\ owner' = "starting"
    /\ UNCHANGED <<taskQueMaxThreadHold_, taskQue_, taskSize_, worker, job, caller, handVars>>

StartThread(w) ==
    /\ owner = "starting"
    /\ worker[w] = "none" /\ \A v \in Workers : v < w => worker[v] # "none"
    /\ worker' = [worker EXCEPT ![w] = "ready"]
    /\ UNCHANGED <<owner, taskQueMaxThreadHold_, taskQue_, taskSize_, job, caller, handVars>>

StartReturns ==
    /\ owner = "starting"
    /\ \A w \in Workers : worker[w] # "none"
    /\ owner' = "running"
    /\ UNCHANGED <<taskQueMaxThreadHold_, taskQue_, taskSize_, worker, job, caller, handVars>>

-----------------------------------------------------------------------------
(* subMitTask().  It may be called before start(): the queue then fills.   *)

\* Push, notify, and construct the Result, all with the mutex held.
Enqueue(s) ==
    /\ taskQue_' = Append(taskQue_, s)
    /\ taskSize_' = taskSize_ + 1
    /\ worker' = NoEmptyNotified
    /\ caller' = [caller EXCEPT ![s] = "returned"]
    /\ Construct(s, TRUE)

\* The queue has stayed full for a second: an invalid Result.
Refuse(s) ==
    /\ caller' = [caller EXCEPT ![s] = "returned"]
    /\ Construct(s, FALSE)
    /\ UNCHANGED <<taskQue_, taskSize_, worker>>

\* notFull_.wait_for(): sleep, to be woken by a worker or by the deadline.
Sleep(s) ==
    /\ caller' = [caller EXCEPT ![s] = "wait"]
    /\ UNCHANGED <<taskQue_, taskSize_, worker, handVars>>

SubMitTask(s) ==
    /\ caller[s] = "new"
    /\ Settled(s)
    /\ \A r \in Subs : TaskOf[r] = TaskOf[s] => caller[r] \in {"new", "returned"}
    /\ IF HasRoom THEN Enqueue(s) ELSE Sleep(s)
    /\ UNCHANGED <<owner, taskQueMaxThreadHold_, job>>

\* One second after the call, however often the caller is woken in between.
SubmitDeadline(s) ==
    /\ caller[s] \in {"wait", "woken"}
    /\ caller' = [caller EXCEPT ![s] = "expired"]
    /\ UNCHANGED <<owner, taskQueMaxThreadHold_, taskQue_, taskSize_, worker, job, handVars>>

SubmitResumes(s) ==
    /\ caller[s] \in {"woken", "expired"}
    /\ \/ HasRoom /\ Enqueue(s)
       \/ ~HasRoom /\ caller[s] = "woken" /\ Sleep(s)
       \/ ~HasRoom /\ caller[s] = "expired" /\ Refuse(s)
    /\ UNCHANGED <<owner, taskQueMaxThreadHold_, job>>

-----------------------------------------------------------------------------
(* threadFunc().                                                           *)

\* Take the front; notify the other workers if more is left, and the callers.
TakeTask(w) ==
    /\ worker[w] = "ready"
    /\ taskQue_ # <<>>
    /\ job' = [job EXCEPT ![w] = Head(taskQue_)]
    /\ PopTask
    /\ worker' = [(IF Tail(taskQue_) # <<>> THEN NoEmptyNotified ELSE worker) EXCEPT ![w] = "exec"]
    /\ caller' = NotFullNotified
    /\ UNCHANGED <<owner, taskQueMaxThreadHold_, handVars>>

WorkerWaits(w) ==
    /\ worker[w] = "ready"
    /\ taskQue_ = <<>>
    /\ worker' = [worker EXCEPT ![w] = "wait"]
    /\ UNCHANGED <<owner, taskQueMaxThreadHold_, taskQue_, taskSize_, job, caller, handVars>>

\* sp->exec(), whose steps are those of TaskResult.
Execute(w) ==
    /\ worker[w] = "exec"
    /\ ExecStep(job[w])
    /\ UNCHANGED poolVars

FinishTask(w) ==
    /\ worker[w] = "exec"
    /\ exec[job[w]] = "done"
    /\ worker' = [worker EXCEPT ![w] = "ready"]
    /\ UNCHANGED <<owner, taskQueMaxThreadHold_, taskQue_, taskSize_, job, caller, handVars>>

\* A condition variable may wake a waiter for no reason.
SpuriousWakeup ==
    /\ \/ /\ \E w \in Workers : worker[w] = "wait" /\ worker' = [worker EXCEPT ![w] = "ready"]
          /\ UNCHANGED caller
       \/ /\ \E s \in Subs : caller[s] = "wait" /\ caller' = [caller EXCEPT ![s] = "woken"]
          /\ UNCHANGED worker
    /\ UNCHANGED <<owner, taskQueMaxThreadHold_, taskQue_, taskSize_, job, handVars>>

-----------------------------------------------------------------------------
Init ==
    /\ owner = "config"
    /\ taskQueMaxThreadHold_ = TASK_MAX_THRESHHOLD
    /\ taskQue_ = <<>> /\ taskSize_ = 0
    /\ worker = [w \in Workers |-> "none"]
    /\ job = [w \in Workers |-> NoResult]
    /\ caller = [s \in Subs |-> "new"]
    /\ HandInit

StartStep == StartReturns \/ \E w \in Workers : StartThread(w)

WorkerStep(w) == TakeTask(w) \/ WorkerWaits(w) \/ Execute(w) \/ FinishTask(w)

SubmitStep(s) == SubMitTask(s) \/ SubmitDeadline(s) \/ SubmitResumes(s)

Hand(s) == CallerStep(s) /\ UNCHANGED poolVars

Next ==
    \/ \E n \in QueueLimits : SetTaskQueueMaxThreadHold(n)
    \/ Start \/ StartStep
    \/ \E w \in Workers : WorkerStep(w)
    \/ \E s \in Subs : SubmitStep(s) \/ Hand(s)
    \/ SpuriousWakeup

\* Every thread that can run does run, the mutexes starve nobody, timers expire
\* and tasks terminate.  Nothing obliges the owner to start the pool or a caller to
\* submit, to call get() or to destroy a Result.
Fairness ==
    /\ WF_vars(StartStep)
    /\ \A w \in Workers : WF_vars(WorkerStep(w))
    /\ \A s \in Subs : /\ WF_vars(SubmitDeadline(s))
                       /\ WF_vars(SubmitResumes(s))
                       /\ WF_vars(GetStep(s) /\ UNCHANGED poolVars)

Spec == Init /\ [][Next]_vars

FairSpec == Spec /\ Fairness

-----------------------------------------------------------------------------
\* Every variable keeps its type, and taskSize_ is the length of the queue.
TypeOK ==
    /\ owner \in {"config", "starting", "running"}
    /\ taskQueMaxThreadHold_ \in Int
    /\ taskQue_ \in Seq(Subs) /\ taskSize_ = Len(taskQue_)
    /\ worker \in [Workers -> {"none", "ready", "wait", "exec"}]
    /\ job \in [Workers -> Subs \cup {NoResult}]
    /\ caller \in [Subs -> {"new", "wait", "woken", "expired", "returned"}]
    /\ HandTypeOK

\* Once the pool is started get() returns for every accepted submission, whichever
\* of Task::exec() and get() comes first.
StartedGetReturns ==
    \A s \in Subs : (getter[s] = "wait" /\ owner # "config") ~> (getter[s] = "got")

\* The pool implements the abstract executor: every accepted submission is run
\* once, in order, and a submission is refused only while the queue is full.
Running == {job[w] : w \in {v \in Workers : worker[v] = "exec"}}

TE == INSTANCE TaskExecutor WITH
        Tasks <- Subs, closed <- FALSE,
        cap <- taskQueMaxThreadHold_, width <- initThreadSize,
        pending <- taskQue_, running <- Running,
        done <- {s \in Subs : exec[s] = "done"} \ Running,
        refused <- {s \in Subs : ~isValid_[s]}

ImplementsTaskExecutor == TE!Spec
=============================================================================
