-------------------------- MODULE ResultPoolProofs --------------------------
(***************************************************************************)
(* Proofs about ResultPool, the thread pool composed with the hand-over of *)
(* Results.  The invariants of the two parts are proved in                 *)
(* ThreadPoolProofs and TaskResultProofs; what is new here is the link     *)
(* between a task of the pool and its Result.                              *)
(***************************************************************************)
EXTENDS ResultPool, ThreadPoolProofs, TaskResultProofs

\* subMitTask() makes the Result when it decides the fate of the task, valid exactly
\* for an accepted one.  While a task waits for room its Task object is free.
LinkInv ==
    \A s \in Subs :
        /\ life[s] = "none" <=> fate[s] \in {"new", "offered"}
        /\ fate[s] \in {"queued", "running", "done"} => isValid_[s]
        /\ fate[s] = "offered" =>
              /\ Settled(s)
              /\ \A r \in Subs \ {s} : TaskOf[r] = TaskOf[s] => fate[r] # "offered"

\* The inductive invariant of the composition.
ResultInv == IInv /\ HandInv /\ LinkInv

\* The steps of the composition are steps of the thread pool.
LEMMA PoolStep == ResultPoolNext => [Next]_vars
<1> SUFFICES ASSUME ResultPoolNext PROVE Next \/ UNCHANGED vars
  OBVIOUS
<1> USE DEF poolVars
<1>1. CASE SetUp \/ StartUp \/ ShutDown
  BY <1>1 DEF SetUp, StartUp, ShutDown, Next
<1>2. ASSUME NEW u \in Users, (\E s \in Subs : SubMitTask(u, s)) \/ SubMitResumes(u) \/ SubMitDeadline(u)
      PROVE  UserStep(u)
  BY <1>2, ResultPoolAssumption DEF SubMitTask, SubMitResumes, SubMitDeadline, UserStep
<1>3. ASSUME NEW w \in Ids, Execute(w) PROVE UNCHANGED vars
  BY <1>3 DEF Execute
<1>4. ASSUME NEW w \in Ids, ExecReturns(w) \/ LookStep(w) \/ WaitStep(w) \/ FinishStep(w)
      PROVE  WorkerStep(w)
  BY <1>4 DEF ExecReturns, LookStep, WaitStep, FinishStep, WorkerStep
<1>5. CASE \E s \in Subs : CallerStep(s) /\ UNCHANGED poolVars
  BY <1>5
<1>6. CASE SpuriousWakeup /\ UNCHANGED handVars
  BY <1>6 DEF Next
<1> QED BY <1>1, <1>2, <1>3, <1>4, <1>5, <1>6 DEF ResultPoolNext, Next

\* Steps of the pool that leave every Result alone and decide about no submission.
LEMMA PoolSideOK ==
    ASSUME ResultInv, UNCHANGED handVars,
           \A s \in Subs : \/ fate'[s] = fate[s]
                           \/ /\ fate[s] \in {"queued", "running", "done"}
                              /\ fate'[s] \in {"queued", "running", "done"}
    PROVE  HandInv' /\ LinkInv'
<1>1. HandInv'
  BY HandStutter DEF ResultInv
<1>2. LinkInv'
  BY DEF ResultInv, LinkInv, Settled, handVars
<1> QED BY <1>1, <1>2

\* Task::exec() of a running task, and the steps of the owner of a Result.
LEMMA HandSideOK ==
    ASSUME ResultInv, UNCHANGED vars, NEW s \in Subs,
           CallerStep(s) \/ (fate[s] = "running" /\ ExecStep(s))
    PROVE  HandInv' /\ LinkInv'
<1> USE DEF ResultInv
<1>1. fate[s] = "running" => Accepted(s)
  BY DEF LinkInv, Accepted
<1>2. HandInv'
  BY <1>1, CallerStepOK, ExecStepOK
<1>3. fate' = fate
  BY DEF vars, users
<1>4. LinkInv'
  BY <1>3, HandKeeps DEF LinkInv, Settled
<1> QED BY <1>2, <1>4

\* subMitTask() decides about a submission, or lets it wait.
LEMMA DecideOK ==
    ASSUME ResultInv, NEW s \in Subs, fate[s] \in {"new", "offered"}, Settled(s),
           \A r \in Subs \ {s} : TaskOf[r] = TaskOf[s] => fate[r] # "offered",
           NEW f \in {"queued", "rejected", "offered"},
           fate' = [fate EXCEPT ![s] = f],
           ResultOf(s)
    PROVE  HandInv' /\ LinkInv'
<1> USE DEF ResultInv
<1>1. /\ fate \in [Subs -> {"new", "offered", "queued", "running", "done", "rejected"}]
      /\ life \in [Subs -> {"none", "live", "dead"}] /\ isValid_ \in [Subs -> BOOLEAN]
  BY ResultPoolAssumption DEF IInv, TypeOK, HandInv, HandTypeOK
<1>2. /\ fate'[s] = f /\ \A r \in Subs : r # s => fate'[r] = fate[r]
      /\ life[s] = "none"
  BY <1>1 DEF LinkInv
<1>3. CASE f = "offered"
  <2>1. UNCHANGED handVars
    BY <1>2, <1>3 DEF ResultOf
  <2>2. HandInv'
    BY <2>1, HandStutter
  <2>3. LinkInv'
    BY <1>2, <1>3, <2>1 DEF LinkInv, Settled, handVars
  <2> QED BY <2>2, <2>3
<1>4. CASE f # "offered"
  <2>1. PICK v \in BOOLEAN : Construct(s, v) /\ (f = "queued" => v = TRUE)
    BY <1>2, <1>4 DEF ResultOf
  <2>2. HandInv'
    BY <1>2, <2>1, ConstructOK
  <2>3. /\ life' = [life EXCEPT ![s] = "live"] /\ isValid_' = [isValid_ EXCEPT ![s] = v]
        /\ getter' = getter
    BY <2>1 DEF Construct
  <2>4. ASSUME NEW r \in Subs
        PROVE  /\ life'[r] = "none" <=> fate'[r] \in {"new", "offered"}
               /\ fate'[r] \in {"queued", "running", "done"} => isValid_'[r]
    BY <1>1, <1>2, <1>4, <2>1, <2>3 DEF LinkInv
  <2>5. ASSUME NEW r \in Subs, fate'[r] = "offered"
        PROVE  /\ Settled(r)'
               /\ \A q \in Subs \ {r} : TaskOf[q] = TaskOf[r] => fate'[q] # "offered"
    <3>1. r # s /\ fate[r] = "offered" /\ TaskOf[r] # TaskOf[s]
      BY <1>2, <1>4, <2>5
    <3> QED BY <1>1, <1>2, <1>4, <2>3, <3>1 DEF LinkInv, Settled
  <2>6. LinkInv'
    BY <2>4, <2>5 DEF LinkInv
  <2> QED BY <2>2, <2>6
<1> QED BY <1>3, <1>4

\* The two ways through subMitTask().
LEMMA SubMitOK ==
    ASSUME ResultInv, NEW u \in Users, (\E s \in Subs : SubMitTask(u, s)) \/ SubMitResumes(u)
    PROVE  HandInv' /\ LinkInv'
<1> USE DEF ResultInv
<1>1. ASSUME NEW s \in Subs, SubMitTask(u, s) PROVE HandInv' /\ LinkInv'
  <2>1. /\ Settled(s) /\ ResultOf(s) /\ fate[s] = "new"
        /\ \A r \in Subs \ {s} : TaskOf[r] = TaskOf[s] => fate[r] # "offered"
    BY <1>1 DEF SubMitTask, SubmitTask
  <2>2. fate' = [fate EXCEPT ![s] = "queued"] \/ fate' = [fate EXCEPT ![s] = "offered"]
    BY <1>1 DEF SubMitTask, SubmitTask, Enqueue
  <2> QED BY <2>1, <2>2, DecideOK
<1>2. ASSUME SubMitResumes(u) PROVE HandInv' /\ LinkInv'
  <2>1. PICK s \in Subs : s = offer[u] /\ fate[s] = "offered"
    BY <1>2, ResultPoolAssumption DEF SubMitResumes, SubmitResumes, IInv, PlacesOK
  <2>2. ResultOf(s)
    BY <1>2, <2>1 DEF SubMitResumes, ResultOf, Construct
  <2>3. /\ Settled(s)
        /\ \A r \in Subs \ {s} : TaskOf[r] = TaskOf[s] => fate[r] # "offered"
    BY <2>1 DEF LinkInv
  <2>4. fate = [fate EXCEPT ![s] = "offered"]
    BY <2>1, ResultPoolAssumption DEF IInv, TypeOK
  <2>5. \/ fate' = [fate EXCEPT ![s] = "queued"]
        \/ fate' = [fate EXCEPT ![s] = "rejected"]
        \/ fate' = [fate EXCEPT ![s] = "offered"]
    BY <1>2, <2>1, <2>4 DEF SubMitResumes, SubmitResumes, Enqueue
  <2> QED BY <2>1, <2>2, <2>3, <2>5, DecideOK
<1> QED BY <1>1, <1>2

\* Every step of the composition keeps its invariant.
LEMMA ResultNextOK == ResultInv /\ [ResultPoolNext]_allVars => ResultInv'
<1> SUFFICES ASSUME ResultInv, [ResultPoolNext]_allVars PROVE ResultInv'
  OBVIOUS
<1>1. IInv'
  <2>1. [Next]_vars
    BY PoolStep DEF allVars
  <2> QED BY <2>1, NextOK DEF ResultInv
<1>2. CASE \/ SetUp \/ StartUp \/ ShutDown \/ (SpuriousWakeup /\ UNCHANGED handVars)
           \/ \E u \in Users : SubMitDeadline(u)
           \/ \E w \in Ids : WaitStep(w) \/ FinishStep(w)
           \/ UNCHANGED allVars
  <2>1. UNCHANGED <<handVars, fate>>
    BY <1>2
       DEF SetUp, Configure, SetMode, SetTaskQueueMaxThreadHold, SetThreadSizeThreshHold,
           StartUp, Start, StartStep, StartThread, CountIdle, StartReturns,
           ShutDown, Close, CloseStep, CloseLocked, CloseResumes, SpuriousWakeup,
           SubMitDeadline, SubmitDeadline, WaitStep, WaitExpires, Age, FinishStep, FinishTask,
           allVars, vars, shared, users
  <2> QED BY <1>1, <2>1, PoolSideOK DEF ResultInv
<1>3. ASSUME NEW w \in Ids, ExecReturns(w) \/ LookStep(w) PROVE ResultInv'
  <2>1. /\ UNCHANGED handVars
        /\ fate \in [Tasks -> {"new", "offered", "queued", "running", "done", "rejected"}]
    BY <1>3 DEF ExecReturns, LookStep, ResultInv, IInv, TypeOK
  <2>2. CASE TakeTask(w)
    <3>1. Head(taskQue_) \in Tasks /\ fate[Head(taskQue_)] = "queued"
          /\ fate' = [fate EXCEPT ![Head(taskQue_)] = "running"]
      BY <2>2, TakeFacts DEF ResultInv
    <3> QED BY <1>1, <2>1, <3>1, PoolSideOK, ResultPoolAssumption DEF ResultInv
  <2>3. CASE RunTask(w)
    <3>1. fate[job[w]] = "running" /\ fate' = [fate EXCEPT ![job[w]] = "done"]
      BY <2>3 DEF RunTask, ResultInv, IInv, PlacesOK
    <3> QED BY <1>1, <2>1, <3>1, PoolSideOK, ResultPoolAssumption DEF ResultInv
  <2>4. CASE WorkerWaits(w) \/ WorkerExits(w) \/ WorkerReclaimed(w)
    <3>1. fate' = fate
      BY <2>4 DEF WorkerWaits, WorkerExits, WorkerReclaimed, users
    <3> QED BY <1>1, <2>1, <3>1, PoolSideOK DEF ResultInv
  <2> QED BY <1>3, <2>2, <2>3, <2>4 DEF ExecReturns, LookStep, Look
<1>4. ASSUME NEW w \in Ids, Execute(w) PROVE ResultInv'
  <2>1. job[w] \in Subs /\ fate[job[w]] = "running"
    BY <1>4, ResultPoolAssumption DEF Execute, ResultInv, IInv, PlacesOK
  <2> QED BY <1>1, <1>4, <2>1, HandSideOK DEF Execute, poolVars, ResultInv
<1>5. ASSUME NEW s \in Subs, CallerStep(s), UNCHANGED poolVars PROVE ResultInv'
  BY <1>1, <1>5, HandSideOK DEF poolVars, ResultInv
<1>6. ASSUME NEW u \in Users, (\E s \in Subs : SubMitTask(u, s)) \/ SubMitResumes(u) PROVE ResultInv'
  BY <1>1, <1>6, SubMitOK DEF ResultInv
<1> QED BY <1>2, <1>3, <1>4, <1>5, <1>6 DEF ResultPoolNext

\* At the beginning nothing is submitted.
LEMMA ResultInitOK == ResultPoolInit => ResultInv
<1> SUFFICES ASSUME ResultPoolInit PROVE ResultInv
  OBVIOUS
<1>1. IInv /\ HandInv
  BY InitOK, HandInitOK DEF ResultPoolInit
<1>2. LinkInv
  BY ResultPoolAssumption DEF ResultPoolInit, Init, HandInit, LinkInv
<1> QED BY <1>1, <1>2 DEF ResultInv

\* The invariant of the composition holds in every reachable state.
THEOREM ResultInvariance == ResultPoolSpec => []ResultInv
BY ResultInitOK, ResultNextOK, PTL DEF ResultPoolSpec

\* The second pool is the third one with Results attached: whatever is proved of
\* ThreadPool!Spec holds of it.
THEOREM ImplementsThreadPool == ResultPoolSpec => Spec
<1>1. ResultPoolInit => Init
  BY DEF ResultPoolInit
<1>2. [ResultPoolNext]_allVars => [Next]_vars
  BY PoolStep DEF allVars
<1> QED BY <1>1, <1>2, PTL DEF ResultPoolSpec, Spec

\* Until exec() of an accepted submission has posted, its Task object points to the
\* Result of that submission.
THEOREM Linked == ResultPoolSpec => []AcceptedIsLinked
<1>1. ResultInv => AcceptedIsLinked
  BY DEF ResultInv, LinkInv, HandInv, BeforePost, Accepted, AcceptedIsLinked
<1> QED BY <1>1, ResultInvariance, PTL

\* get() of an accepted submission returns that submission's own value, also while the
\* pool grows, shrinks and is destroyed.
THEOREM OwnValues == ResultPoolSpec => []OwnValue
<1>1. ResultInv => OwnValue
  BY HandInvOwnValue DEF ResultInv
<1> QED BY <1>1, ResultInvariance, PTL

\* When callers keep a Result until get() has returned, no worker stores or posts into
\* a destroyed one.
THEOREM NoDangling == ~EarlyDrop /\ ResultPoolSpec => []NoDanglingResult
<1> SUFFICES ASSUME ~EarlyDrop PROVE ResultPoolSpec => []NoDanglingResult
  OBVIOUS
<1>1. ResultInv => NoDanglingResult
  BY HandInvNoDangling DEF ResultInv
<1> QED BY <1>1, ResultInvariance, PTL
=============================================================================
