-------------------------- MODULE FixedPoolProofs ---------------------------
(***************************************************************************)
(* Proofs about FixedPool, for every set of submissions and Task objects,  *)
(* every number of workers and every limit of the queue.                   *)
(***************************************************************************)
EXTENDS FixedPool, TaskResultProofs, ProofFacts, FiniteSetTheorems, FunctionTheorems

\* subMitTask() has returned exactly when it has constructed the Result.
ReturnedIffBorn == \A s \in Subs : caller[s] = "returned" <=> life[s] # "none"

\* While a submission waits for room nobody submits the same Task object, and what
\* was submitted before has been received.
WaitersSettled ==
    \A s \in Subs : caller[s] \in {"wait", "woken", "expired"} =>
        /\ Settled(s)
        /\ \A r \in Subs \ {s} : TaskOf[r] = TaskOf[s] => caller[r] \in {"new", "returned"}

\* A queued submission is queued once, has its Result and has not been begun.
QueuedOK ==
    /\ Distinct(taskQue_)
    /\ \A s \in SeqRange(taskQue_) : Accepted(s) /\ exec[s] = "no" /\ s \notin Running

\* The workers execute accepted submissions, each one of its own.
RunningOK ==
    \A w \in Workers : worker[w] = "exec" =>
        /\ job[w] \in Subs /\ Accepted(job[w])
        /\ \A v \in Workers : worker[v] = "exec" /\ job[v] = job[w] => v = w

\* The inductive invariant.  HandInv needs WaitersSettled, so that a Result is
\* constructed only when the pointer of the Task object is free, and RunningOK, so
\* that only accepted submissions are executed.  Both need that a submission is
\* queued or executed once (QueuedOK), and that one that still waits has no Result
\* (ReturnedIffBorn).
IInv == TypeOK /\ HandInv /\ ReturnedIffBorn /\ WaitersSettled /\ QueuedOK /\ RunningOK

\* The queue is empty, nobody has submitted and no worker runs.
LEMMA InitOK == Init => IInv
<1> SUFFICES ASSUME Init PROVE IInv
  OBVIOUS
<1> USE DEF Init
<1>1. HandInv
  BY HandInitOK
<1>2. taskQue_ \in Seq(Subs) /\ taskSize_ = Len(taskQue_) /\ SeqRange(taskQue_) = {}
      /\ Distinct(taskQue_)
  BY DEF SeqRange, Distinct
<1>3. TypeOK
  BY <1>1, <1>2, FixedPoolAssumption DEF TypeOK, HandInv
<1>4. ReturnedIffBorn /\ WaitersSettled /\ RunningOK
  BY DEF ReturnedIffBorn, WaitersSettled, RunningOK, HandInit
<1>5. QueuedOK
  BY <1>2 DEF QueuedOK
<1> QED BY <1>1, <1>3, <1>4, <1>5 DEF IInv

\* Notifications change who waits and nothing else.
LEMMA Notified ==
    ASSUME IInv
    PROVE  /\ NoEmptyNotified \in [Workers -> {"none", "ready", "wait", "exec"}]
           /\ \A w \in Workers : NoEmptyNotified[w] = "exec" <=> worker[w] = "exec"
           /\ NotFullNotified \in [Subs -> {"new", "wait", "woken", "expired", "returned"}]
           /\ \A s \in Subs : \/ NotFullNotified[s] = caller[s]
                              \/ caller[s] = "wait" /\ NotFullNotified[s] = "woken"
BY DEF IInv, TypeOK, NoEmptyNotified, NotFullNotified

\* Who executes what depends on the workers in exec() only.
LEMMA SameRunning ==
    ASSUME job' = job, \A w \in Workers : worker'[w] = "exec" <=> worker[w] = "exec"
    PROVE  Running' = Running
BY DEF Running

\* Steps that leave the queue, the callers and the hand-over alone and move no
\* worker into or out of exec().
LEMMA QuietOK ==
    ASSUME IInv, UNCHANGED <<taskQue_, taskSize_, job, handVars>>,
           owner' \in {"config", "starting", "running"}, taskQueMaxThreadHold_' \in Int,
           worker' \in [Workers -> {"none", "ready", "wait", "exec"}],
           \A w \in Workers : worker'[w] = "exec" <=> worker[w] = "exec",
           caller' \in [Subs -> {"new", "wait", "woken", "expired", "returned"}],
           \A s \in Subs : \/ caller'[s] = caller[s]
                           \/ caller[s] \in {"wait", "woken"} /\ caller'[s] \in {"woken", "expired"}
    PROVE  IInv'
<1> USE DEF IInv
<1>1. HandInv'
  BY HandStutter
<1>2. TypeOK'
  BY <1>1 DEF TypeOK, HandInv
<1>3. ReturnedIffBorn'
  BY DEF ReturnedIffBorn, handVars, TypeOK
<1>4. WaitersSettled'
  BY DEF WaitersSettled, Settled, handVars, TypeOK
<1>5. QueuedOK'
  BY SameRunning DEF QueuedOK, Accepted, handVars
<1>6. RunningOK'
  BY DEF RunningOK, Accepted, handVars
<1> QED BY <1>1, <1>2, <1>3, <1>4, <1>5, <1>6

\* subMitTask() returns an accepted submission: it enters the queue and its Result
\* comes into being in the same critical section.
LEMMA EnqueueOK ==
    ASSUME IInv, NEW s \in Subs, life[s] = "none", Settled(s),
           \A r \in Subs \ {s} : TaskOf[r] = TaskOf[s] => caller[r] \in {"new", "returned"},
           Enqueue(s), UNCHANGED <<owner, taskQueMaxThreadHold_, job>>
    PROVE  IInv'
<1> USE DEF IInv
<1>1. HandInv'
  BY ConstructOK DEF Enqueue
<1>2. /\ life' = [life EXCEPT ![s] = "live"] /\ isValid_' = [isValid_ EXCEPT ![s] = TRUE]
      /\ getter' = getter /\ exec' = exec
      /\ caller' = [caller EXCEPT ![s] = "returned"]
      /\ taskQue_' = Append(taskQue_, s)
      /\ worker' = NoEmptyNotified
  BY DEF Enqueue, Construct
<1>3. /\ life \in [Subs -> {"none", "live", "dead"}] /\ isValid_ \in [Subs -> BOOLEAN]
      /\ taskQue_ \in Seq(Subs)
      /\ caller \in [Subs -> {"new", "wait", "woken", "expired", "returned"}]
  BY DEF TypeOK, HandTypeOK
<1>4. ~Accepted(s) /\ exec[s] = "no"
  BY DEF Accepted, HandInv, UnbornOK
<1>5. \A r \in Subs : Accepted(r)' <=> Accepted(r) \/ r = s
  BY <1>2, <1>3 DEF Accepted
<1>6. Running' = Running /\ s \notin Running
  <2>1. Running' = Running
    BY <1>2, Notified, SameRunning
  <2> QED BY <2>1, <1>4 DEF Running, RunningOK
<1>7. taskQue_' \in Seq(Subs) /\ SeqRange(taskQue_') = SeqRange(taskQue_) \cup {s}
      /\ Distinct(taskQue_') /\ Len(taskQue_') = Len(taskQue_) + 1
  BY <1>2, <1>3, <1>4, PushFacts, AppendProperties DEF QueuedOK
<1>8. TypeOK'
  <2>1. worker' \in [Workers -> {"none", "ready", "wait", "exec"}]
    BY <1>2, Notified
  <2> QED BY <1>1, <1>2, <1>3, <1>7, <2>1 DEF TypeOK, HandInv, Enqueue
<1>9. ReturnedIffBorn'
  BY <1>2, <1>3 DEF ReturnedIffBorn
<1>10. WaitersSettled'
  <2> SUFFICES ASSUME NEW r \in Subs, caller'[r] \in {"wait", "woken", "expired"}
               PROVE  /\ Settled(r)'
                      /\ \A q \in Subs \ {r} : TaskOf[q] = TaskOf[r] => caller'[q] \in {"new", "returned"}
    BY DEF WaitersSettled
  <2>1. r # s /\ caller[r] = caller'[r] /\ TaskOf[r] # TaskOf[s]
    BY <1>2, <1>3
  <2>2. Settled(r)'
    BY <1>2, <1>3, <2>1 DEF WaitersSettled, Settled
  <2> QED BY <1>2, <1>3, <2>1, <2>2 DEF WaitersSettled
<1>11. QueuedOK'
  <2>1. ASSUME NEW q \in SeqRange(taskQue_')
        PROVE  (Accepted(q) /\ exec[q] = "no" /\ q \notin Running)'
    <3>1. q \in Subs
      BY <1>3, <1>7, ElementOfSeq DEF SeqRange
    <3> QED BY <1>2, <1>4, <1>5, <1>6, <1>7, <2>1, <3>1 DEF QueuedOK
  <2> QED BY <1>7, <2>1 DEF QueuedOK
<1>12. RunningOK'
  BY <1>2, <1>5, Notified DEF RunningOK
<1> QED BY <1>1, <1>8, <1>9, <1>10, <1>11, <1>12

\* subMitTask() returns a refused submission.
LEMMA RefuseOK ==
    ASSUME IInv, NEW s \in Subs, caller[s] = "expired",
           Refuse(s), UNCHANGED <<owner, taskQueMaxThreadHold_, job>>
    PROVE  IInv'
<1> USE DEF IInv
<1>1. life[s] = "none" /\ Settled(s)
      /\ \A r \in Subs \ {s} : TaskOf[r] = TaskOf[s] => caller[r] \in {"new", "returned"}
  BY DEF ReturnedIffBorn, WaitersSettled
<1>2. HandInv'
  BY <1>1, ConstructOK DEF Refuse
<1>3. /\ life' = [life EXCEPT ![s] = "live"] /\ isValid_' = [isValid_ EXCEPT ![s] = FALSE]
      /\ getter' = getter /\ exec' = exec
      /\ caller' = [caller EXCEPT ![s] = "returned"]
      /\ UNCHANGED <<taskQue_, taskSize_, worker>>
  BY DEF Refuse, Construct
<1>4. /\ life \in [Subs -> {"none", "live", "dead"}] /\ isValid_ \in [Subs -> BOOLEAN]
      /\ taskQue_ \in Seq(Subs)
      /\ caller \in [Subs -> {"new", "wait", "woken", "expired", "returned"}]
  BY DEF TypeOK, HandTypeOK
<1>5. \A r \in Subs : Accepted(r)' <=> Accepted(r)
  BY <1>1, <1>3, <1>4 DEF Accepted
<1>6. Running' = Running
  BY <1>3 DEF Running
<1>7. TypeOK'
  BY <1>2, <1>3, <1>4 DEF TypeOK, HandInv
<1>8. ReturnedIffBorn'
  BY <1>3, <1>4 DEF ReturnedIffBorn
<1>9. WaitersSettled'
  <2> SUFFICES ASSUME NEW r \in Subs, caller'[r] \in {"wait", "woken", "expired"}
               PROVE  /\ Settled(r)'
                      /\ \A q \in Subs \ {r} : TaskOf[q] = TaskOf[r] => caller'[q] \in {"new", "returned"}
    BY DEF WaitersSettled
  <2>1. r # s /\ caller[r] = caller'[r] /\ TaskOf[r] # TaskOf[s]
    BY <1>1, <1>3, <1>4
  <2>2. Settled(r)'
    BY <1>3, <1>4, <2>1 DEF WaitersSettled, Settled
  <2> QED BY <1>3, <1>4, <2>1, <2>2 DEF WaitersSettled
<1>10. QueuedOK'
  <2>1. ASSUME NEW q \in SeqRange(taskQue_)
        PROVE  (Accepted(q) /\ exec[q] = "no" /\ q \notin Running)'
    <3>1. q \in Subs
      BY <1>4, ElementOfSeq DEF SeqRange
    <3> QED BY <1>3, <1>5, <1>6, <3>1 DEF QueuedOK
  <2> QED BY <1>3, <2>1 DEF QueuedOK
<1>11. RunningOK'
  BY <1>3, <1>5 DEF RunningOK
<1> QED BY <1>2, <1>7, <1>8, <1>9, <1>10, <1>11

\* notFull_.wait_for(): the submission begins to wait, or waits again.
LEMMA SleepOK ==
    ASSUME IInv, NEW s \in Subs, caller[s] # "returned", Settled(s),
           \A r \in Subs \ {s} : TaskOf[r] = TaskOf[s] => caller[r] \in {"new", "returned"},
           Sleep(s), UNCHANGED <<owner, taskQueMaxThreadHold_, job>>
    PROVE  IInv'
<1> USE DEF IInv, Sleep
<1>1. HandInv'
  BY HandStutter
<1>2. caller \in [Subs -> {"new", "wait", "woken", "expired", "returned"}]
  BY DEF TypeOK
<1>3. TypeOK'
  BY <1>1 DEF TypeOK, HandInv
<1>4. ReturnedIffBorn'
  BY <1>2 DEF ReturnedIffBorn, handVars
<1>5. ASSUME NEW r \in Subs, caller'[r] \in {"wait", "woken", "expired"}
      PROVE  /\ Settled(r)'
             /\ \A q \in Subs \ {r} : TaskOf[q] = TaskOf[r] => caller'[q] \in {"new", "returned"}
  <2>1. CASE r = s
    BY <1>2, <2>1 DEF Settled, handVars
  <2>2. CASE r # s
    <3>1. caller[r] = caller'[r] /\ TaskOf[r] # TaskOf[s]
      BY <1>2, <1>5, <2>2
    <3> QED BY <1>2, <1>5, <3>1 DEF WaitersSettled, Settled, handVars
  <2> QED BY <2>1, <2>2
<1>6. WaitersSettled'
  BY <1>5 DEF WaitersSettled
<1>7. QueuedOK'
  BY SameRunning DEF QueuedOK, Accepted, handVars
<1>8. RunningOK'
  BY DEF RunningOK, Accepted, handVars
<1> QED BY <1>1, <1>3, <1>4, <1>6, <1>7, <1>8

\* The first look of subMitTask() at the queue.
LEMMA SubMitTaskOK ==
    ASSUME IInv, NEW s \in Subs, SubMitTask(s)
    PROVE  IInv'
<1>1. /\ life[s] = "none" /\ Settled(s) /\ caller[s] # "returned"
      /\ \A r \in Subs \ {s} : TaskOf[r] = TaskOf[s] => caller[r] \in {"new", "returned"}
      /\ UNCHANGED <<owner, taskQueMaxThreadHold_, job>>
      /\ Enqueue(s) \/ Sleep(s)
  BY DEF SubMitTask, IInv, ReturnedIffBorn
<1> QED BY <1>1, EnqueueOK, SleepOK

\* Its later looks, after a notification or at its deadline.
LEMMA SubmitResumesOK ==
    ASSUME IInv, NEW s \in Subs, SubmitResumes(s)
    PROVE  IInv'
<1>1. /\ life[s] = "none" /\ Settled(s) /\ caller[s] # "returned"
      /\ \A r \in Subs \ {s} : TaskOf[r] = TaskOf[s] => caller[r] \in {"new", "returned"}
      /\ UNCHANGED <<owner, taskQueMaxThreadHold_, job>>
      /\ Enqueue(s) \/ Sleep(s) \/ (caller[s] = "expired" /\ Refuse(s))
  BY DEF SubmitResumes, IInv, ReturnedIffBorn, WaitersSettled
<1> QED BY <1>1, EnqueueOK, SleepOK, RefuseOK

\* A worker takes the front of the queue: one submission moves from the queue to the
\* workers.
LEMMA TakeFacts ==
    ASSUME IInv, NEW w \in Workers, TakeTask(w)
    PROVE  /\ Head(taskQue_) \in Subs /\ Accepted(Head(taskQue_))
           /\ exec[Head(taskQue_)] = "no" /\ Head(taskQue_) \notin Running
           /\ taskQue_' = Tail(taskQue_) /\ taskQue_' \in Seq(Subs)
           /\ Len(taskQue_') = Len(taskQue_) - 1
           /\ Distinct(taskQue_')
           /\ SeqRange(taskQue_') = SeqRange(taskQue_) \ {Head(taskQue_)}
           /\ worker' \in [Workers -> {"none", "ready", "wait", "exec"}]
           /\ \A v \in Workers : worker'[v] = "exec" <=> worker[v] = "exec" \/ v = w
           /\ worker[w] # "exec"
           /\ job' = [job EXCEPT ![w] = Head(taskQue_)]
           /\ Running' = Running \cup {Head(taskQue_)}
<1> USE DEF IInv
<1>1. taskQue_ \in Seq(Subs) /\ taskQue_ # <<>> /\ taskQue_' = Tail(taskQue_)
  BY DEF TypeOK, TakeTask, PopTask
<1>2. /\ Head(taskQue_) \in Subs /\ Head(taskQue_) \in SeqRange(taskQue_)
      /\ taskQue_' \in Seq(Subs) /\ Len(taskQue_') = Len(taskQue_) - 1
      /\ Distinct(taskQue_') /\ SeqRange(taskQue_') = SeqRange(taskQue_) \ {Head(taskQue_)}
  BY <1>1, PopFacts DEF QueuedOK
<1>3. /\ worker' \in [Workers -> {"none", "ready", "wait", "exec"}]
      /\ \A v \in Workers : worker'[v] = "exec" <=> worker[v] = "exec" \/ v = w
      /\ worker[w] # "exec"
  <2>1. worker \in [Workers -> {"none", "ready", "wait", "exec"}]
    BY DEF TypeOK
  <2>2. \/ worker' = [NoEmptyNotified EXCEPT ![w] = "exec"]
        \/ worker' = [worker EXCEPT ![w] = "exec"]
    BY DEF TakeTask
  <2>3. worker[w] # "exec"
    BY DEF TakeTask
  <2> QED BY <2>1, <2>2, <2>3, Notified
<1>4. job' = [job EXCEPT ![w] = Head(taskQue_)] /\ job \in [Workers -> Subs \cup {NoResult}]
  BY DEF TypeOK, TakeTask
<1>5. Running' = Running \cup {Head(taskQue_)}
  BY <1>3, <1>4 DEF Running
<1> QED BY <1>1, <1>2, <1>3, <1>4, <1>5 DEF QueuedOK

\* Taking a task keeps the invariant.
LEMMA TakeTaskOK ==
    ASSUME IInv, NEW w \in Workers, TakeTask(w)
    PROVE  IInv'
<1> USE DEF IInv
<1>1. UNCHANGED <<owner, taskQueMaxThreadHold_, handVars>> /\ caller' = NotFullNotified
      /\ taskSize_' = taskSize_ - 1
  BY DEF TakeTask, PopTask
<1>2. HandInv'
  BY <1>1, HandStutter
<1>3. job \in [Workers -> Subs \cup {NoResult}] /\ taskQue_ \in Seq(Subs)
  BY DEF TypeOK
<1>4. TypeOK'
  BY <1>1, <1>2, <1>3, TakeFacts, Notified, SMTT(30) DEF TypeOK, HandInv
<1>5. ReturnedIffBorn'
  BY <1>1, Notified DEF ReturnedIffBorn, handVars
<1>6. WaitersSettled'
  BY <1>1, Notified DEF WaitersSettled, Settled, handVars
<1>7. QueuedOK'
  BY <1>1, TakeFacts DEF QueuedOK, Accepted, handVars
<1>8. RunningOK'
  <2>1. \A r \in Subs : Accepted(r)' <=> Accepted(r)
    BY <1>1 DEF Accepted, handVars
  <2>2. \A v \in Workers : worker[v] = "exec" => job[v] # Head(taskQue_)
    BY TakeFacts DEF Running
  <2>3. ASSUME NEW v \in Workers, worker'[v] = "exec"
        PROVE  job'[v] \in Subs /\ Accepted(job'[v])
    BY <1>3, <2>3, TakeFacts DEF RunningOK
  <2>4. ASSUME NEW v \in Workers, NEW u \in Workers, worker'[v] = "exec", worker'[u] = "exec",
               job'[u] = job'[v]
        PROVE  u = v
    BY <1>3, <2>2, <2>4, TakeFacts DEF RunningOK
  <2> QED BY <2>1, <2>3, <2>4 DEF RunningOK, Accepted
<1> QED BY <1>2, <1>4, <1>5, <1>6, <1>7, <1>8

\* A worker is done with its task.
LEMMA FinishTaskOK ==
    ASSUME IInv, NEW w \in Workers, FinishTask(w)
    PROVE  IInv' /\ Running' = Running \ {job[w]}
<1> USE DEF IInv
<1>1. /\ worker[w] = "exec" /\ worker' = [worker EXCEPT ![w] = "ready"]
      /\ UNCHANGED <<owner, taskQueMaxThreadHold_, taskQue_, taskSize_, job, caller, handVars>>
  BY DEF FinishTask
<1>2. worker \in [Workers -> {"none", "ready", "wait", "exec"}]
  BY DEF TypeOK
<1>3. HandInv'
  BY <1>1, HandStutter
<1>4. TypeOK'
  BY <1>1, <1>3 DEF TypeOK, HandInv
<1>5. ReturnedIffBorn' /\ WaitersSettled'
  BY <1>1 DEF ReturnedIffBorn, WaitersSettled, Settled, handVars
<1>6. Running' = Running \ {job[w]}
  <2>1. \A v \in Workers : worker'[v] = "exec" <=> worker[v] = "exec" /\ v # w
    BY <1>1, <1>2
  <2>2. \A v \in Workers : worker[v] = "exec" /\ job[v] = job[w] => v = w
    BY <1>1 DEF RunningOK
  <2> QED BY <1>1, <2>1, <2>2 DEF Running
<1>7. QueuedOK'
  BY <1>1, <1>6 DEF QueuedOK, Accepted, handVars
<1>8. RunningOK'
  BY <1>1, <1>2 DEF RunningOK, Accepted, handVars
<1> QED BY <1>3, <1>4, <1>5, <1>6, <1>7, <1>8

\* Task::exec() by the worker that has taken the task, or a step of the owner of a
\* Result.
LEMMA HandStepOK ==
    ASSUME IInv, UNCHANGED poolVars, NEW s \in Subs, CallerStep(s) \/ (s \in Running /\ ExecStep(s))
    PROVE  IInv'
<1> USE DEF IInv
<1>1. UNCHANGED <<owner, taskQueMaxThreadHold_, taskQue_, taskSize_, worker, job, caller>>
  BY DEF poolVars
<1>2. HandInv'
  <2>1. s \in Running => Accepted(s)
    BY DEF Running, RunningOK
  <2> QED BY <2>1, CallerStepOK, ExecStepOK
<1>3. /\ \A r \in Subs : life'[r] = "none" <=> life[r] = "none"
      /\ \A r \in Subs : Accepted(r)' <=> Accepted(r)
      /\ \A r \in Subs : getter[r] = "got" => getter'[r] = "got"
      /\ \A r \in Subs \ Running : exec'[r] = exec[r]
  BY HandKeeps DEF Accepted
<1>4. TypeOK'
  BY <1>1, <1>2 DEF TypeOK, HandInv
<1>5. ReturnedIffBorn' /\ WaitersSettled'
  BY <1>1, <1>3 DEF ReturnedIffBorn, WaitersSettled, Settled
<1>6. Running' = Running
  BY <1>1 DEF Running
<1>7. QueuedOK'
  <2>1. \A q \in SeqRange(taskQue_) : q \in Subs
    BY ElementOfSeq DEF TypeOK, SeqRange
  <2> QED BY <1>1, <1>3, <1>6, <2>1 DEF QueuedOK
<1>8. RunningOK'
  BY <1>1, <1>3 DEF RunningOK
<1> QED BY <1>2, <1>4, <1>5, <1>7, <1>8

\* Every step of the pool keeps the invariant.
LEMMA NextOK == IInv /\ [Next]_vars => IInv'
<1> SUFFICES ASSUME IInv, [Next]_vars PROVE IInv'
  OBVIOUS
<1>1. /\ owner \in {"config", "starting", "running"} /\ taskQueMaxThreadHold_ \in Int
      /\ worker \in [Workers -> {"none", "ready", "wait", "exec"}]
      /\ caller \in [Subs -> {"new", "wait", "woken", "expired", "returned"}]
  BY DEF IInv, TypeOK
<1>2. ASSUME NEW n \in QueueLimits, SetTaskQueueMaxThreadHold(n) PROVE IInv'
  BY <1>1, <1>2, FixedPoolAssumption, QuietOK DEF SetTaskQueueMaxThreadHold
<1>3. CASE Start \/ StartReturns
  BY <1>1, <1>3, QuietOK DEF Start, StartReturns
<1>4. ASSUME NEW w \in Workers, StartThread(w) \/ WorkerWaits(w) PROVE IInv'
  BY <1>1, <1>4, QuietOK DEF StartThread, WorkerWaits
<1>5. ASSUME NEW w \in Workers, TakeTask(w) PROVE IInv'
  BY <1>5, TakeTaskOK
<1>6. ASSUME NEW w \in Workers, Execute(w) PROVE IInv'
  <2>1. job[w] \in Subs /\ job[w] \in Running
    BY <1>6 DEF Execute, IInv, RunningOK, Running
  <2> QED BY <1>6, <2>1, HandStepOK DEF Execute
<1>7. ASSUME NEW w \in Workers, FinishTask(w) PROVE IInv'
  BY <1>7, FinishTaskOK
<1>8. ASSUME NEW s \in Subs, SubMitTask(s) \/ SubmitResumes(s) PROVE IInv'
  BY <1>8, SubMitTaskOK, SubmitResumesOK
<1>9. ASSUME NEW s \in Subs, SubmitDeadline(s) PROVE IInv'
  BY <1>1, <1>9, QuietOK DEF SubmitDeadline
<1>10. ASSUME NEW s \in Subs, Hand(s) PROVE IInv'
  BY <1>10, HandStepOK DEF Hand
<1>11. CASE SpuriousWakeup
  BY <1>1, <1>11, QuietOK DEF SpuriousWakeup
<1>12. CASE UNCHANGED vars
  BY <1>1, <1>12, QuietOK DEF vars, poolVars
<1> QED
  BY <1>2, <1>3, <1>4, <1>5, <1>6, <1>7, <1>8, <1>9, <1>10, <1>11, <1>12
     DEF Next, StartStep, WorkerStep, SubmitStep

\* The invariant holds in every reachable state.
THEOREM Invariance == Spec => []IInv
BY InitOK, NextOK, PTL DEF Spec

\* The variables of the first pool keep their types: taskSize_ is the length of the
\* queue whatever callers and workers do, a semaphore never counts beyond one, and
\* only submissions are queued or executed.
THEOREM TypeCorrect == Spec => []TypeOK
<1>1. IInv => TypeOK
  BY DEF IInv
<1> QED BY <1>1, Invariance, PTL

\* get() of an accepted submission returns the value of that submission's own run(),
\* in every interleaving of workers and callers, also when a Task object is submitted
\* many times and when callers destroy Results early.
THEOREM OwnValues == Spec => []OwnValue
<1>1. IInv => OwnValue
  BY HandInvOwnValue DEF IInv
<1> QED BY <1>1, Invariance, PTL

\* When callers keep a Result until get() has returned, no worker stores or posts into
\* a destroyed one.
THEOREM NoDangling == ~EarlyDrop /\ Spec => []NoDanglingResult
<1> SUFFICES ASSUME ~EarlyDrop PROVE Spec => []NoDanglingResult
  OBVIOUS
<1>1. IInv => NoDanglingResult
  BY HandInvNoDangling DEF IInv
<1> QED BY <1>1, Invariance, PTL

\* A submission without a Result is unknown to the abstract executor.
LEMMA UnbornUnknown ==
    ASSUME IInv, NEW s \in Subs, life[s] = "none"
    PROVE  s \notin TE!Known
<1> USE DEF IInv
<1>1. exec[s] = "no" /\ isValid_[s] /\ ~Accepted(s)
  BY DEF HandInv, UnbornOK, Accepted
<1>2. s \notin SeqRange(taskQue_) /\ s \notin Running
  BY <1>1 DEF QueuedOK, RunningOK, Running
<1> QED BY <1>1, <1>2 DEF TE!Known, SeqRange

\* While a worker is free, fewer tasks are executed than there are workers.
LEMMA RunningBelowWidth ==
    ASSUME IInv, NEW w \in Workers, worker[w] # "exec"
    PROVE  Cardinality(Running) < initThreadSize
<1> DEFINE Busy == {v \in Workers : worker[v] = "exec"}
<1>1. IsFiniteSet(Workers) /\ Cardinality(Workers) = initThreadSize
  <2>1. initThreadSize \in Nat /\ 1 \in Int /\ initThreadSize \in Int
    BY FixedPoolAssumption
  <2> QED BY <2>1, FS_Interval DEF Workers
<1>2. IsFiniteSet(Busy) /\ Cardinality(Busy) < Cardinality(Workers)
  <2>1. Busy \subseteq Workers /\ w \in Workers \ Busy
    OBVIOUS
  <2>2. IsFiniteSet(Busy) /\ Cardinality(Busy) <= Cardinality(Workers)
        /\ (Cardinality(Busy) = Cardinality(Workers) => Busy = Workers)
    BY <1>1, <2>1, FS_Subset
  <2>3. Cardinality(Busy) \in Nat /\ Cardinality(Workers) \in Nat
    BY <1>1, <2>2, FS_CardinalityType
  <2> QED BY <2>1, <2>2, <2>3
<1>3. Cardinality(Running) <= Cardinality(Busy) /\ IsFiniteSet(Running)
  <2>1. [v \in Busy |-> job[v]] \in Surjection(Busy, Running)
    BY DEF Surjection, Running
  <2> QED BY <1>2, <2>1, FS_Surjection
<1> QED BY <1>1, <1>2, <1>3, FS_CardinalityType

\* A step of subMitTask() accepts or refuses one submission, or the executor sees
\* nothing of it.
LEMMA SubmitRefines ==
    ASSUME IInv, NEW s \in Subs, SubMitTask(s) \/ SubmitResumes(s)
    PROVE  TE!Accept(s) \/ TE!Refuse(s) \/ UNCHANGED TE!vars
<1> USE DEF IInv
<1>1. life[s] = "none" /\ s \notin TE!Known /\ isValid_[s]
  BY UnbornUnknown DEF SubMitTask, SubmitResumes, ReturnedIffBorn, HandInv, UnbornOK
<1>2. isValid_ \in [Subs -> BOOLEAN]
  BY DEF TypeOK, HandTypeOK
<1>3. ASSUME Enqueue(s), HasRoom, UNCHANGED <<taskQueMaxThreadHold_, job>>
      PROVE  TE!Accept(s)
  <2>1. Running' = Running
    BY <1>3, Notified, SameRunning DEF Enqueue
  <2>2. exec' = exec /\ isValid_' = isValid_ /\ taskQue_' = Append(taskQue_, s)
    BY <1>1, <1>2, <1>3 DEF Enqueue, Construct
  <2> QED BY <1>1, <1>3, <2>1, <2>2 DEF TE!Accept, TE!HasRoom, HasRoom
<1>4. ASSUME Refuse(s), ~HasRoom, UNCHANGED <<taskQueMaxThreadHold_, job>>
      PROVE  TE!Refuse(s)
  <2>1. Running' = Running /\ exec' = exec /\ taskQue_' = taskQue_
    BY <1>4 DEF Refuse, Construct, Running
  <2>2. isValid_' = [isValid_ EXCEPT ![s] = FALSE]
    BY <1>4 DEF Refuse, Construct
  <2>3. {r \in Subs : ~isValid_'[r]} = {r \in Subs : ~isValid_[r]} \cup {s}
    BY <1>2, <2>2
  <2> QED BY <1>1, <1>4, <2>1, <2>3 DEF TE!Refuse, TE!HasRoom, HasRoom
<1>5. ASSUME Sleep(s), UNCHANGED <<taskQueMaxThreadHold_, job>>
      PROVE  UNCHANGED TE!vars
  BY <1>5 DEF Sleep, handVars, TE!vars, Running
<1> QED BY <1>3, <1>4, <1>5 DEF SubMitTask, SubmitResumes

\* A step of a worker begins or finishes one task, or the executor sees nothing.
LEMMA WorkerRefines ==
    ASSUME IInv, NEW w \in Workers, WorkerStep(w)
    PROVE  TE!Begin \/ (\E t \in Subs : TE!Finish(t)) \/ UNCHANGED TE!vars
<1> USE DEF IInv
<1>1. CASE TakeTask(w)
  <2>1. Cardinality(Running) < initThreadSize
    BY TakeFacts, RunningBelowWidth, <1>1
  <2>2. exec' = exec /\ isValid_' = isValid_ /\ taskQue_ # <<>>
        /\ taskQueMaxThreadHold_' = taskQueMaxThreadHold_
    BY <1>1 DEF TakeTask, handVars
  <2>3. ({s \in Subs : exec[s] = "done"} \ Running)' = {s \in Subs : exec[s] = "done"} \ Running
    BY <1>1, <2>2, TakeFacts
  <2>4. TE!Cardinality(Running) = Cardinality(Running)
    BY DEF TE!Cardinality, Cardinality
  <2> QED BY <1>1, <2>1, <2>2, <2>3, <2>4, TakeFacts DEF TE!Begin
<1>2. CASE WorkerWaits(w)
  <2>1. Running' = Running
    BY <1>2, SameRunning DEF WorkerWaits, TypeOK
  <2> QED BY <1>2, <2>1 DEF WorkerWaits, handVars, TE!vars
<1>3. CASE Execute(w)
  <2>1. job[w] \in Subs /\ job[w] \in Running /\ UNCHANGED poolVars
    BY <1>3 DEF Execute, RunningOK, Running
  <2>2. isValid_' = isValid_ /\ \A r \in Subs : r # job[w] => exec'[r] = exec[r]
    BY <1>3, <2>1, HandKeeps DEF Execute
  <2>3. Running' = Running /\ taskQue_' = taskQue_ /\ taskQueMaxThreadHold_' = taskQueMaxThreadHold_
    BY <2>1 DEF Running, poolVars
  <2>4. ({s \in Subs : exec[s] = "done"} \ Running)' = {s \in Subs : exec[s] = "done"} \ Running
    BY <2>1, <2>2, <2>3
  <2> QED BY <2>2, <2>3, <2>4 DEF TE!vars
<1>4. CASE FinishTask(w)
  <2>1. job[w] \in Subs /\ job[w] \in Running /\ exec[job[w]] = "done"
    BY <1>4 DEF FinishTask, RunningOK, Running
  <2>2. Running' = Running \ {job[w]}
    BY <1>4, FinishTaskOK
  <2>3. UNCHANGED <<taskQueMaxThreadHold_, taskQue_, exec, isValid_>>
    BY <1>4 DEF FinishTask, handVars
  <2>4. ({s \in Subs : exec[s] = "done"} \ Running)'
            = ({s \in Subs : exec[s] = "done"} \ Running) \cup {job[w]}
    BY <2>1, <2>2, <2>3
  <2>5. PICK t \in Subs : t = job[w]
    BY <2>1
  <2>6. TE!Finish(t)
    BY <2>1, <2>2, <2>3, <2>4, <2>5 DEF TE!Finish
  <2> QED BY <2>6
<1> QED BY <1>1, <1>2, <1>3, <1>4 DEF WorkerStep

\* Setting the limit configures the executor, which knows no task yet.
LEMMA SetLimitRefines ==
    ASSUME IInv, NEW n \in QueueLimits, SetTaskQueueMaxThreadHold(n)
    PROVE  TE!Configure
<1>1. \A s \in Subs : s \notin TE!Known
  BY UnbornUnknown DEF SetTaskQueueMaxThreadHold, IInv, ReturnedIffBorn
<1>2. TE!Known \subseteq Subs
  <2>1. SeqRange(taskQue_) \subseteq Subs
    BY ElementOfSeq DEF IInv, TypeOK, SeqRange
  <2>2. Running \subseteq Subs
    BY DEF IInv, RunningOK, Running
  <2> QED BY <2>1, <2>2 DEF TE!Known, SeqRange
<1>3. Running' = Running
  BY DEF SetTaskQueueMaxThreadHold, Running
<1>4. taskQueMaxThreadHold_' \in Int /\ initThreadSize' \in Int /\ initThreadSize' = initThreadSize
  BY FixedPoolAssumption DEF SetTaskQueueMaxThreadHold
<1> QED BY <1>1, <1>2, <1>3, <1>4 DEF TE!Configure, SetTaskQueueMaxThreadHold, handVars

\* Every step of the pool is a step of the abstract executor or leaves it alone.
LEMMA NextRefines == IInv /\ [Next]_vars => [TE!Next]_(TE!vars)
<1> SUFFICES ASSUME IInv, [Next]_vars PROVE TE!Next \/ UNCHANGED TE!vars
  OBVIOUS
<1> USE DEF IInv
<1>1. worker \in [Workers -> {"none", "ready", "wait", "exec"}]
  BY DEF TypeOK
<1>2. ASSUME NEW n \in QueueLimits, SetTaskQueueMaxThreadHold(n) PROVE TE!Next
  BY <1>2, SetLimitRefines DEF TE!Next
<1>3. ASSUME UNCHANGED <<taskQueMaxThreadHold_, taskQue_, job, exec, isValid_>>,
             \A w \in Workers : worker'[w] = "exec" <=> worker[w] = "exec"
      PROVE  UNCHANGED TE!vars
  BY <1>3, SameRunning DEF TE!vars
<1>4. CASE Start \/ StartReturns
  BY <1>3, <1>4 DEF Start, StartReturns, handVars
<1>5. ASSUME NEW w \in Workers, StartThread(w) PROVE UNCHANGED TE!vars
  BY <1>1, <1>3, <1>5 DEF StartThread, handVars
<1>6. ASSUME NEW w \in Workers, WorkerStep(w) PROVE TE!Next \/ UNCHANGED TE!vars
  BY <1>6, WorkerRefines DEF TE!Next
<1>7. ASSUME NEW s \in Subs, SubMitTask(s) \/ SubmitResumes(s)
      PROVE  TE!Next \/ UNCHANGED TE!vars
  BY <1>7, SubmitRefines DEF TE!Next
<1>8. ASSUME NEW s \in Subs, SubmitDeadline(s) PROVE UNCHANGED TE!vars
  BY <1>3, <1>8 DEF SubmitDeadline, handVars
<1>9. ASSUME NEW s \in Subs, Hand(s) PROVE UNCHANGED TE!vars
  BY <1>3, <1>9, HandKeeps DEF Hand, poolVars
<1>10. CASE SpuriousWakeup
  BY <1>1, <1>3, <1>10 DEF SpuriousWakeup, handVars
<1>11. CASE UNCHANGED vars
  BY <1>3, <1>11 DEF vars, poolVars, handVars
<1> QED
  BY <1>2, <1>4, <1>5, <1>6, <1>7, <1>8, <1>9, <1>10, <1>11 DEF Next, StartStep, SubmitStep

\* The first pool implements the abstract executor: every accepted submission is run
\* once, in the order of acceptance, by at most initThreadSize workers at a time, and
\* a submission is refused only while the queue is full.
THEOREM Refinement == Spec => ImplementsTaskExecutor
<1>1. Init => TE!Init
  <2> SUFFICES ASSUME Init PROVE TE!Init
    OBVIOUS
  <2>1. Running = {}
    BY DEF Init, Running
  <2>2. {s \in Subs : exec[s] = "done"} = {} /\ {s \in Subs : ~isValid_[s]} = {}
    BY DEF Init, HandInit
  <2> QED BY <2>1, <2>2, FixedPoolAssumption DEF Init, TE!Init
<1>2. IInv /\ [Next]_vars => [TE!Next]_(TE!vars)
  BY NextRefines
<1> QED BY <1>1, <1>2, Invariance, PTL DEF Spec, ImplementsTaskExecutor, TE!Spec
=============================================================================
