----------------------------- MODULE ResultPool -----------------------------
(***************************************************************************)
(* The second thread pool, threadpool/threadpool.h and                     *)
(* threadpool/threadpool.cpp: the ThreadPool class of the third version    *)
(* (module ThreadPool, which it equals in start(), threadFunc(), the       *)
(* setters and the destructor) composed with the hand-over of module       *)
(* TaskResult.  subMitTask() constructs the Result before it releases the  *)
(* mutex, and a worker runs Task::exec() between taking a task and         *)
(* counting itself idle again.                                             *)
(***************************************************************************)
EXTENDS ThreadPool, TaskResult

\* The submissions of TaskResult are the tasks of ThreadPool.
ASSUME ResultPoolAssumption == Subs = Tasks

poolVars == vars

allVars == <<vars, handVars>>

\* The setters.
SetUp == Configure /\ UNCHANGED handVars

\* start()
StartUp == (Start \/ StartStep) /\ UNCHANGED handVars

\* The destructor.  Whether a Result outlives the pool is up to its owner.
ShutDown == (Close \/ CloseStep) /\ UNCHANGED handVars

\* Seeded fault: the Result of a refused task counts as valid.
ResultOfRefusedValid(s) ==
    \/ fate'[s] \in {"queued", "rejected"} /\ Construct(s, TRUE)
    \/ fate'[s] = "offered" /\ UNCHANGED handVars

\* What subMitTask() returns, when it returns: Result(sp) for an accepted task,
\* Result(sp, false) for a refused one.
ResultOf(s) ==
    \/ fate'[s] = "queued" /\ Construct(s, TRUE)
    \/ fate'[s] = "rejected" /\ Construct(s, FALSE)
    \/ fate'[s] = "offered" /\ UNCHANGED handVars

\* The first look of subMitTask() at the queue.
SubMitTask(u, s) ==
    /\ Settled(s)
    /\ \A r \in Subs : TaskOf[r] = TaskOf[s] => fate[r] # "offered"
    /\ SubmitTask(u, s)
    /\ ResultOf(s)

\* Its later looks, after a notification or at its deadline.
SubMitResumes(u) == SubmitResumes(u) /\ ResultOf(offer[u])

SubMitDeadline(u) == SubmitDeadline(u) /\ UNCHANGED handVars

\* sp->exec() and what follows it in threadFunc().
Execute(w) ==
    /\ worker[w] = "exec"
    /\ ExecStep(job[w])
    /\ UNCHANGED poolVars

\* exec() has returned.
ExecReturns(w) ==
    /\ worker[w] = "exec" /\ exec[job[w]] = "done"
    /\ RunTask(w)
    /\ UNCHANGED handVars

\* The critical section of threadFunc().
LookStep(w) == Look(w) /\ UNCHANGED handVars

\* Its wait in the cached mode runs out, or the thread has long been idle.
WaitStep(w) == (WaitExpires(w) \/ Age(w)) /\ UNCHANGED handVars

\* idleThreadSize_++ and the new lastTime.
FinishStep(w) == FinishTask(w) /\ UNCHANGED handVars

ResultPoolInit == Init /\ HandInit

ResultPoolNext ==
    \/ SetUp \/ StartUp \/ ShutDown
    \/ \E u \in Users : \/ \E s \in Subs : SubMitTask(u, s)
                        \/ SubMitResumes(u) \/ SubMitDeadline(u)
    \/ \E w \in Ids : Execute(w) \/ ExecReturns(w) \/ LookStep(w) \/ WaitStep(w) \/ FinishStep(w)
    \/ \E s \in Subs : CallerStep(s) /\ UNCHANGED poolVars
    \/ SpuriousWakeup /\ UNCHANGED handVars

\* Every thread that can run does run, the mutexes starve nobody, timers expire
\* and tasks terminate.  Nothing obliges the owner to start or to destroy the pool,
\* or a caller to submit, to call get() or to destroy a Result.
ResultPoolFairness ==
    /\ WF_allVars((StartStep \/ CloseStep) /\ UNCHANGED handVars)
    /\ \A u \in Users : WF_allVars(SubMitResumes(u)) /\ WF_allVars(SubMitDeadline(u))
    /\ \A w \in Ids : /\ WF_allVars(LookStep(w))
                      /\ WF_allVars(WaitExpires(w) /\ UNCHANGED handVars)
                      /\ WF_allVars(Execute(w) \/ ExecReturns(w) \/ FinishStep(w))
    /\ \A s \in Subs : WF_allVars(GetStep(s) /\ UNCHANGED poolVars)

ResultPoolSpec == ResultPoolInit /\ [][ResultPoolNext]_allVars /\ ResultPoolFairness

-----------------------------------------------------------------------------
\* An accepted task finds its Result: until exec() of a submission has posted, its
\* Task object points to the Result of that submission and to no earlier one.
AcceptedIsLinked ==
    \A s \in Subs :
        fate[s] \in {"queued", "running"} /\ exec[s] \in {"no", "run"} =>
            result_[TaskOf[s]] = s
=============================================================================
