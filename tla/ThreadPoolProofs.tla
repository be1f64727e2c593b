-------------------------- MODULE ThreadPoolProofs --------------------------
(***************************************************************************)
(* Proofs about ThreadPool, for every set of users and tasks, every number *)
(* of threads and every configuration.                                     *)
(***************************************************************************)
EXTENDS ThreadPool, ProofFacts, FiniteSetTheorems, FunctionTheorems

\* How many threads have been launched: while start() is in its second loop the
\* Thread objects exist already, and later a thread is launched when it is made.
Launched == IF owner = "starting" THEN started + uncounted ELSE generateID_

AcceptedTasks == {t \in Tasks : fate[t] \in {"queued", "running", "done"}}

\* What the owner's place in its calls says about the rest: users are inside
\* submitTask() only while the pool runs, and nothing grows while start() runs.
PhaseOK ==
    /\ isPoolRunning_ <=> owner \in {"starting", "running"}
    /\ owner = "config" =>
          /\ generateID_ = 0 /\ threads_ = {} /\ curThreadSize_ = 0 /\ idleThreadSize_ = 0
          /\ started = 0 /\ uncounted = 0
          /\ \A t \in Tasks : fate[t] = "new"
    /\ owner = "starting" =>
          /\ generateID_ = initThreadSize
          /\ mode_ = "MODE_FIXD" \/ \A u \in Users : user[u] = "idle"
    /\ uncounted = 1 => owner = "starting" /\ started < initThreadSize
    /\ \A u \in Users : user[u] # "idle" => isPoolRunning_

\* threads_ holds the threads that have been made and have not left, and a new id
\* has not been used: at most one thread is made for each accepted task.
ThreadsOK ==
    /\ generateID_ <= initThreadSize + Cardinality(AcceptedTasks)
    /\ \A w \in Ids : worker[w] = "none" <=> w >= Launched
    /\ threads_ = {w \in Ids : w < generateID_ /\ worker[w] # "exited"}

\* The counters.  curThreadSize_ stays exact after the destructor has begun as long
\* as a task is queued: until then threads leave by being reclaimed only.
SizesOK ==
    /\ taskSize_ = Len(taskQue_)
    /\ isPoolRunning_ \/ taskQue_ # <<>> =>
          curThreadSize_ = Cardinality(threads_) /\ curThreadSize_ >= initThreadSize
    /\ Cardinality(threads_) <= initThreadSize \/ Cardinality(threads_) <= threadSizeThreshHold_
    /\ isPoolRunning_ => idleThreadSize_ = Cardinality(IdleWorkers) - uncounted
    /\ owner = "destroyed" => threads_ = {}

\* Where a task is: TaskHasOnePlace without cardinalities.
PlacesOK ==
    /\ Distinct(taskQue_)
    /\ \A t \in Tasks : t \in SeqRange(taskQue_) <=> fate[t] = "queued"
    /\ \A w \in Ids : worker[w] = "exec" => job[w] \in Tasks /\ fate[job[w]] = "running"
    /\ \A v, w \in Ids : worker[v] = "exec" /\ worker[w] = "exec" /\ job[v] = job[w] => v = w
    /\ \A t \in Tasks : fate[t] = "running" => \E w \in Ids : worker[w] = "exec" /\ job[w] = t
    /\ \A u \in Users : user[u] = "idle" <=> offer[u] = NoTask
    /\ \A u \in Users : offer[u] # NoTask => offer[u] \in Tasks /\ fate[offer[u]] = "offered"
    /\ \A u, v \in Users : offer[u] = offer[v] /\ offer[u] # NoTask => u = v
    /\ \A t \in Tasks : fate[t] = "offered" => \E u \in Users : offer[u] = t

\* The inductive invariant.
IInv == TypeOK /\ PhaseOK /\ ThreadsOK /\ SizesOK /\ PlacesOK /\ NoLostWakeup

IdleStates == {"ready", "woken", "expired", "wait"}

-----------------------------------------------------------------------------
(* Facts about the operators.                                              *)

\* There are finitely many thread ids, and every set of threads is finite.
LEMMA IdsFinite ==
    /\ IsFiniteSet(Ids)
    /\ Cardinality(Tasks) \in Nat
    /\ \A S \in SUBSET Ids : IsFiniteSet(S) /\ Cardinality(S) \in Nat
<1>1. Cardinality(Tasks) \in Nat /\ initThreadSize \in Nat
  BY ThreadPoolAssumption, FS_CardinalityType
<1>2. IsFiniteSet(Ids)
  BY <1>1, FS_Interval DEF Ids
<1> QED BY <1>1, <1>2, FS_Subset, FS_CardinalityType

\* Adding or removing one thread changes the number of threads by one.
LEMMA CountOne ==
    ASSUME NEW S \in SUBSET Ids, NEW w \in Ids
    PROVE  /\ w \notin S => Cardinality(S \cup {w}) = Cardinality(S) + 1
           /\ w \in S => Cardinality(S \ {w}) = Cardinality(S) - 1
           /\ Cardinality(S) \in Nat
BY IdsFinite, FS_AddElement, FS_RemoveElement

\* More threads are not fewer.
LEMMA CountMonotone ==
    ASSUME NEW S \in SUBSET Ids, NEW T \in SUBSET S
    PROVE  Cardinality(T) <= Cardinality(S) /\ Cardinality(T) \in Nat /\ Cardinality(S) \in Nat
BY IdsFinite, FS_Subset

\* notify_all on noEmpty_ moves waiting workers and no others.
LEMMA NoEmptyNotifies ==
    ASSUME NEW ws \in [Ids -> WorkerStates]
    PROVE  /\ NoEmptyNotified(ws) \in [Ids -> WorkerStates]
           /\ \A w \in Ids : NoEmptyNotified(ws)[w] # "wait"
           /\ \A w \in Ids : \/ NoEmptyNotified(ws)[w] = ws[w]
                             \/ ws[w] = "wait" /\ NoEmptyNotified(ws)[w] = "woken"
BY DEF NoEmptyNotified, WorkerStates

\* notify_all on notFull_ moves waiting users and no others.
LEMMA NotFullNotifies ==
    ASSUME NEW us \in [Users -> {"idle", "wait", "woken", "expired"}]
    PROVE  /\ NotFullNotified(us) \in [Users -> {"idle", "wait", "woken", "expired"}]
           /\ \A u \in Users : NotFullNotified(us)[u] # "wait"
           /\ \A u \in Users : NotFullNotified(us)[u] = "idle" <=> us[u] = "idle"
BY DEF NotFullNotified

\* The idle workers depend on who is idle only.
LEMMA SameIdle ==
    ASSUME \A w \in Ids : worker'[w] \in IdleStates <=> worker[w] \in IdleStates
    PROVE  IdleWorkers' = IdleWorkers
BY DEF IdleWorkers, Looking, IdleStates

\* A new thread id is in range, because a task is accepted whenever one is used.
LEMMA NewId ==
    ASSUME IInv, NEW t \in Tasks, fate[t] \notin {"queued", "running", "done"}
    PROVE  generateID_ \in Ids
<1>1. IsFiniteSet(Tasks) /\ AcceptedTasks \subseteq Tasks \ {t}
  BY ThreadPoolAssumption DEF AcceptedTasks
<1>2. Cardinality(AcceptedTasks) <= Cardinality(Tasks \ {t})
  BY <1>1, FS_Subset, FS_RemoveElement
<1>3. Cardinality(Tasks \ {t}) = Cardinality(Tasks) - 1
  BY <1>1, FS_RemoveElement
<1>4. Cardinality(AcceptedTasks) \in Nat /\ Cardinality(Tasks) \in Nat
  BY <1>1, FS_Subset, FS_CardinalityType
<1> QED BY <1>2, <1>3, <1>4, ThreadPoolAssumption DEF IInv, ThreadsOK, TypeOK, Ids

\* Accepting a task makes room for one more id.
LEMMA AcceptedGrow ==
    ASSUME fate \in [Tasks -> {"new", "offered", "queued", "running", "done", "rejected"}],
           NEW t \in Tasks, fate[t] \notin {"queued", "running", "done"},
           fate' = [fate EXCEPT ![t] = "queued"]
    PROVE  /\ Cardinality(AcceptedTasks) \in Nat
           /\ Cardinality(AcceptedTasks') = Cardinality(AcceptedTasks) + 1
<1>1. IsFiniteSet(AcceptedTasks) /\ Cardinality(AcceptedTasks) \in Nat
  BY ThreadPoolAssumption, FS_Subset, FS_CardinalityType DEF AcceptedTasks
<1>2. AcceptedTasks' = AcceptedTasks \cup {t} /\ t \notin AcceptedTasks
  BY DEF AcceptedTasks
<1> QED BY <1>1, <1>2, FS_AddElement

\* A worker that runs is in threads_, and once start() has returned threads_ holds
\* nothing else.
LEMMA LiveAreThreads ==
    ASSUME IInv
    PROVE  /\ LiveWorkers \subseteq threads_
           /\ owner # "starting" => LiveWorkers = threads_
           /\ threads_ \in SUBSET Ids /\ IdleWorkers \in SUBSET Ids /\ LiveWorkers \in SUBSET Ids
           /\ Launched \in Nat /\ Launched <= generateID_
<1>1. Launched \in Nat /\ Launched <= generateID_
  BY ThreadPoolAssumption DEF IInv, TypeOK, PhaseOK, Launched
<1>2. \A w \in Ids : w \in Int
  BY ThreadPoolAssumption, IdsFinite DEF Ids
<1>3. LiveWorkers \subseteq threads_
  BY <1>1, <1>2 DEF IInv, TypeOK, ThreadsOK, LiveWorkers
<1>4. owner # "starting" => LiveWorkers = threads_
  BY <1>2, <1>3 DEF IInv, TypeOK, ThreadsOK, LiveWorkers, Launched
<1> QED BY <1>1, <1>3, <1>4 DEF IInv, TypeOK, IdleWorkers, LiveWorkers

-----------------------------------------------------------------------------
(* The invariant holds initially.                                          *)

\* No thread exists and nothing is submitted.
LEMMA InitOK == Init => IInv
<1> SUFFICES ASSUME Init PROVE IInv
  OBVIOUS
<1> USE ThreadPoolAssumption DEF Init
<1>1. TypeOK
  <2>1. isPoolRunning_ \in BOOLEAN /\ aged \in [Ids -> BOOLEAN]
    OBVIOUS
  <2>2. taskQue_ \in Seq(Tasks)
    OBVIOUS
  <2>3. started \in 0..initThreadSize /\ spurious \in 0..MaxSpurious
    OBVIOUS
  <2> QED BY <2>1, <2>2, <2>3 DEF TypeOK, OwnerStates, WorkerStates
<1>2. PhaseOK
  BY DEF PhaseOK
<1>3. ThreadsOK
  <2>1. Cardinality(AcceptedTasks) \in Nat
    BY FS_Subset, FS_CardinalityType DEF AcceptedTasks
  <2>2. \A w \in Ids : w \in Nat
    BY IdsFinite DEF Ids
  <2> QED BY <2>1, <2>2 DEF ThreadsOK, Launched
<1>4. SizesOK
  BY FS_EmptySet DEF SizesOK
<1>5. PlacesOK
  <2>1. SeqRange(taskQue_) = {} /\ Distinct(taskQue_)
    BY DEF SeqRange, Distinct
  <2> QED BY <2>1 DEF PlacesOK
<1>6. NoLostWakeup
  BY DEF NoLostWakeup
<1> QED BY <1>1, <1>2, <1>3, <1>4, <1>5, <1>6 DEF IInv

-----------------------------------------------------------------------------
(* Steps that move no task and neither make nor end a thread.              *)

\* Such a step disturbs neither the threads, nor their counters, nor the places of
\* the tasks.
LEMMA QuietOK ==
    ASSUME IInv, UNCHANGED <<counters, queue, starting, job, offer, fate>>,
           \A w \in Ids : \/ worker'[w] = worker[w]
                          \/ worker[w] \in IdleStates /\ worker'[w] \in IdleStates,
           \A u \in Users : user'[u] = "idle" <=> user[u] = "idle",
           Launched' = Launched,
           isPoolRunning_' => isPoolRunning_,
           owner' = "destroyed" => threads_ = {},
           threadSizeThreshHold_' = threadSizeThreshHold_ \/ threads_ = {}
    PROVE  ThreadsOK' /\ SizesOK' /\ PlacesOK'
<1> USE DEF IInv, counters, queue, starting
<1>1. ThreadsOK'
  <2>1. AcceptedTasks' = AcceptedTasks
    BY DEF AcceptedTasks
  <2>2. \A w \in Ids : /\ worker'[w] = "none" <=> worker[w] = "none"
                       /\ worker'[w] = "exited" <=> worker[w] = "exited"
    BY DEF IdleStates
  <2> QED BY <2>1, <2>2 DEF ThreadsOK
<1>2. SizesOK'
  <2>1. IdleWorkers' = IdleWorkers
    BY SameIdle
  <2>2. threads_ = {} => Cardinality(threads_) = 0
    BY FS_EmptySet
  <2>3. Cardinality(threads_') <= initThreadSize \/ Cardinality(threads_') <= threadSizeThreshHold_'
    BY <2>2, ThreadPoolAssumption DEF SizesOK
  <2> QED BY <2>1, <2>3 DEF SizesOK
<1>3. PlacesOK'
  <2>1. \A w \in Ids : worker'[w] = "exec" <=> worker[w] = "exec"
    BY DEF IdleStates
  <2> QED BY <2>1 DEF PlacesOK
<1> QED BY <1>1, <1>2, <1>3

\* The setters.
LEMMA ConfigureOK ==
    ASSUME IInv, Configure
    PROVE  IInv'
<1> USE DEF IInv, Configure, SetMode, SetTaskQueueMaxThreadHold, SetThreadSizeThreshHold,
            flags, starting, shared, counters, queue, workers, users
<1>1. /\ owner = "config" /\ mode_' \in {"MODE_FIXD", "MODE_CACHD"}
      /\ taskQueMaxThreadHold_' \in Int /\ threadSizeThreshHold_' \in Int
      /\ UNCHANGED <<owner, flags, shared>>
  BY ThreadPoolAssumption DEF TypeOK
<1>2. TypeOK'
  BY <1>1 DEF TypeOK
<1>3. PhaseOK'
  BY <1>1 DEF PhaseOK
<1>4. threads_ = {} /\ \A u \in Users : user[u] = "idle"
  BY <1>1 DEF PhaseOK
<1>5. ThreadsOK' /\ SizesOK' /\ PlacesOK'
  BY <1>1, <1>4, QuietOK DEF Launched
<1>6. NoLostWakeup'
  BY <1>1, <1>4 DEF NoLostWakeup
<1> QED BY <1>2, <1>3, <1>5, <1>6

\* start() returns.
LEMMA StartReturnsOK ==
    ASSUME IInv, StartReturns
    PROVE  IInv'
<1> USE DEF IInv
<1>1. /\ owner = "starting" /\ started = initThreadSize /\ owner' = "running"
      /\ UNCHANGED <<config, isPoolRunning_, counters, queue, starting, workers, users, spurious>>
  BY DEF StartReturns, rest, shared, flags
<1>2. TypeOK'
  BY <1>1 DEF TypeOK, OwnerStates, config, counters, queue, starting, workers, users
<1>3. uncounted = 0 /\ generateID_ = initThreadSize
  BY <1>1, ThreadPoolAssumption DEF TypeOK, PhaseOK
<1>4. PhaseOK'
  BY <1>1, <1>3 DEF PhaseOK, counters, starting, users, config
<1>5. Launched' = Launched
  BY <1>1, <1>3, ThreadPoolAssumption DEF Launched, counters, starting
<1>6. ThreadsOK' /\ SizesOK' /\ PlacesOK'
  BY <1>1, <1>5, QuietOK DEF workers, users, config
<1>7. NoLostWakeup'
  BY <1>1 DEF NoLostWakeup, HasRoom, config, queue, workers, users
<1> QED BY <1>2, <1>4, <1>6, <1>7

\* A worker's wait begins, runs out, or is long; a user's deadline passes; somebody
\* is woken for no reason.
LEMMA WaitOK ==
    ASSUME IInv,
           \/ \E w \in Ids : WorkerWaits(w) \/ WaitExpires(w) \/ Age(w)
           \/ \E u \in Users : SubmitDeadline(u)
           \/ SpuriousWakeup
    PROVE  IInv'
<1> USE DEF IInv
<1>1. /\ UNCHANGED <<config, isPoolRunning_, counters, queue, starting, job, offer, fate>>
      /\ spurious' \in 0..MaxSpurious
  BY ThreadPoolAssumption
     DEF WorkerWaits, WaitExpires, Age, SubmitDeadline, SpuriousWakeup, rest, flags, workers,
         users, TypeOK
<1>2. owner' = owner \/ (owner = "wait" /\ owner' = "woken")
  BY DEF WorkerWaits, WaitExpires, Age, SubmitDeadline, SpuriousWakeup
<1>3. /\ worker' \in [Ids -> WorkerStates]
      /\ \A w \in Ids : \/ worker'[w] = worker[w]
                        \/ worker[w] \in IdleStates /\ worker'[w] \in IdleStates
      /\ \A w \in Ids : worker'[w] = "wait" =>
            worker[w] = "wait" \/ (taskQue_ = <<>> /\ isPoolRunning_)
  BY DEF WorkerWaits, WaitExpires, Age, SubmitDeadline, SpuriousWakeup, workers, TypeOK,
         WorkerStates, IdleStates, Continues, Looking
<1>4. /\ user' \in [Users -> {"idle", "wait", "woken", "expired"}]
      /\ \A u \in Users : user'[u] = "idle" <=> user[u] = "idle"
      /\ \A u \in Users : user'[u] = "wait" => user[u] = "wait"
  BY DEF WorkerWaits, WaitExpires, Age, SubmitDeadline, SpuriousWakeup, users, TypeOK
<1>5. aged' \in [Ids -> BOOLEAN]
  BY DEF WorkerWaits, WaitExpires, Age, SubmitDeadline, SpuriousWakeup, workers, TypeOK
<1>6. TypeOK'
  BY <1>1, <1>2, <1>3, <1>4, <1>5 DEF TypeOK, OwnerStates, config, counters, queue, starting
<1>7. PhaseOK'
  BY <1>1, <1>2, <1>4 DEF PhaseOK, config, counters, starting
<1>8. ThreadsOK' /\ SizesOK' /\ PlacesOK'
  <2>1. Launched' = Launched
    BY <1>1, <1>2 DEF Launched, counters, starting
  <2>2. owner' = "destroyed" => threads_ = {}
    BY <1>2 DEF SizesOK
  <2> QED BY <1>1, <1>3, <1>4, <2>1, <2>2, QuietOK DEF config
<1>9. NoLostWakeup'
  BY <1>1, <1>2, <1>3, <1>4 DEF NoLostWakeup, PhaseOK, HasRoom, config, queue
<1> QED BY <1>6, <1>7, <1>8, <1>9

\* The destructor: clear the flag; wake the workers; look at threads_ again.
LEMMA CloseOK ==
    ASSUME IInv, Close \/ CloseLocked \/ CloseResumes
    PROVE  IInv'
<1> USE DEF IInv
<1>1. /\ UNCHANGED <<config, counters, queue, starting, job, aged, users, spurious>>
      /\ isPoolRunning_' \in BOOLEAN
  BY DEF Close, CloseLocked, CloseResumes, rest, flags, shared, workers, TypeOK
<1>2. /\ worker' \in [Ids -> WorkerStates]
      /\ \A w \in Ids : \/ worker'[w] = worker[w]
                        \/ worker[w] = "wait" /\ worker'[w] = "woken"
      /\ CloseLocked => \A w \in Ids : worker'[w] # "wait"
  BY NoEmptyNotifies DEF Close, CloseLocked, CloseResumes, shared, workers, TypeOK
<1>3. \/ /\ Close /\ owner \in {"config", "running"} /\ owner' = "closing" /\ isPoolRunning_' = FALSE
         /\ \A u \in Users : user[u] = "idle"
      \/ /\ CloseLocked \/ CloseResumes
         /\ owner \in {"closing", "woken"} /\ isPoolRunning_' = isPoolRunning_
         /\ (owner' = "destroyed" /\ threads_ = {}) \/ owner' = "wait"
  BY DEF Close, CloseLocked, CloseResumes, rest, flags
<1>4. TypeOK'
  BY <1>1, <1>2, <1>3 DEF TypeOK, OwnerStates, config, counters, queue, starting, users
<1>5. uncounted = 0
  BY <1>3 DEF PhaseOK, TypeOK
<1>6. PhaseOK'
  BY <1>1, <1>3, <1>5 DEF PhaseOK, config, counters, starting, users
<1>7. ThreadsOK' /\ SizesOK' /\ PlacesOK'
  <2>1. Launched' = Launched
    BY <1>1, <1>3 DEF Launched, counters, starting
  <2>2. isPoolRunning_' => isPoolRunning_
    BY <1>3
  <2>3. owner' = "destroyed" => threads_ = {}
    BY <1>3
  <2> QED BY <1>1, <1>2, <2>1, <2>2, <2>3, QuietOK DEF config, users, IdleStates
<1>8. NoLostWakeup'
  BY <1>1, <1>2, <1>3 DEF NoLostWakeup, HasRoom, config, queue, users, CloseResumes
<1> QED BY <1>4, <1>6, <1>7, <1>8

-----------------------------------------------------------------------------
(* start().                                                                *)

\* The first loop of start() makes the Thread objects.
LEMMA StartOK ==
    ASSUME IInv, Start
    PROVE  IInv'
<1> USE DEF IInv
<1>1. /\ owner = "config" /\ owner' = "starting" /\ isPoolRunning_' = TRUE
      /\ curThreadSize_' = initThreadSize /\ generateID_' = initThreadSize
      /\ threads_' = 0 .. (initThreadSize - 1)
      /\ UNCHANGED <<mode_, taskQueMaxThreadHold_, threadSizeThreshHold_, started, uncounted,
                     spurious, idleThreadSize_, taskSize_, taskQue_, worker, job, aged,
                     user, offer, fate>>
  BY DEF Start, config, starting, queue, workers, users
<1>2. /\ generateID_ = 0 /\ threads_ = {} /\ idleThreadSize_ = 0 /\ started = 0 /\ uncounted = 0
      /\ \A u \in Users : user[u] = "idle"
  BY <1>1 DEF PhaseOK
<1>3. \A w \in Ids : worker[w] = "none" /\ w \in Nat
  BY <1>1, <1>2, IdsFinite, ThreadPoolAssumption DEF ThreadsOK, Launched, Ids
<1>4. /\ initThreadSize \in Nat /\ Cardinality(Tasks) \in Nat
      /\ \A w : w \in Ids <=> w \in Int /\ 0 <= w /\ w <= initThreadSize + Cardinality(Tasks) - 1
  BY IdsFinite, ThreadPoolAssumption DEF Ids
<1>5. threads_' \subseteq Ids
  BY <1>1, <1>4
<1>6. TypeOK'
  BY <1>1, <1>4, <1>5 DEF TypeOK, OwnerStates
<1>7. PhaseOK'
  BY <1>1, <1>2, <1>4 DEF PhaseOK
<1>8. ThreadsOK'
  <2>1. Cardinality(AcceptedTasks') \in Nat
    BY ThreadPoolAssumption, FS_Subset, FS_CardinalityType DEF AcceptedTasks
  <2>2. threads_' = {w \in Ids : w < generateID_' /\ worker'[w] # "exited"}
    BY <1>1, <1>3, <1>4
  <2> QED BY <1>1, <1>2, <1>3, <1>4, <2>1, <2>2 DEF ThreadsOK, Launched
<1>9. SizesOK'
  <2>1. IdleWorkers' = {}
    BY <1>1, <1>3 DEF IdleWorkers, Looking
  <2>2. Cardinality(threads_') = initThreadSize /\ Cardinality(IdleWorkers') = 0
    BY <1>1, <1>4, <2>1, FS_Interval, FS_EmptySet
  <2> QED BY <1>1, <1>2, <1>4, <2>2 DEF SizesOK
<1>10. PlacesOK'
  BY <1>1 DEF PlacesOK
<1>11. NoLostWakeup'
  BY <1>1, <1>2, <1>3 DEF NoLostWakeup
<1> QED BY <1>6, <1>7, <1>8, <1>9, <1>10, <1>11

\* The second loop launches a thread, which may run before it is counted as idle.
LEMMA StartThreadOK ==
    ASSUME IInv, StartThread
    PROVE  IInv'
<1> USE DEF IInv
<1>1. /\ owner = "starting" /\ started < initThreadSize /\ uncounted = 0 /\ uncounted' = 1
      /\ worker' = [worker EXCEPT ![started] = "ready"]
      /\ UNCHANGED <<owner, config, isPoolRunning_, started, spurious, counters, queue, job,
                     aged, users>>
  BY DEF StartThread
<1>2. /\ initThreadSize \in Nat /\ Cardinality(Tasks) \in Nat
      /\ started \in Ids /\ \A w \in Ids : w \in Nat
  BY <1>1, IdsFinite, ThreadPoolAssumption DEF Ids, TypeOK
<1>3. worker[started] = "none" /\ started \in Nat
  BY <1>1, <1>2 DEF ThreadsOK, Launched, TypeOK
<1>4. worker \in [Ids -> WorkerStates]
  BY DEF TypeOK
<1>5. TypeOK'
  BY <1>1 DEF TypeOK, WorkerStates, config, counters, queue, users
<1>6. PhaseOK'
  BY <1>1 DEF PhaseOK, config, counters, users
<1>7. ThreadsOK'
  <2>1. AcceptedTasks' = AcceptedTasks
    BY <1>1 DEF AcceptedTasks, users
  <2>2. Launched = started /\ Launched' = started + 1
    BY <1>1, <1>3 DEF Launched
  <2>3. \A w \in Ids : worker'[w] = "none" <=> w >= Launched'
    BY <1>1, <1>2, <1>3, <1>4, <2>2 DEF ThreadsOK
  <2>4. \A w \in Ids : worker'[w] = "exited" <=> worker[w] = "exited"
    BY <1>1, <1>3, <1>4
  <2> QED BY <1>1, <2>1, <2>3, <2>4 DEF ThreadsOK, counters
<1>8. SizesOK'
  <2>1. IdleWorkers' = IdleWorkers \cup {started} /\ started \notin IdleWorkers
    BY <1>1, <1>2, <1>3, <1>4 DEF IdleWorkers, Looking
  <2>2. Cardinality(IdleWorkers') = Cardinality(IdleWorkers) + 1 /\ Cardinality(IdleWorkers) \in Nat
    BY <1>2, <2>1, CountOne DEF IdleWorkers
  <2> QED BY <1>1, <2>2 DEF SizesOK, counters, queue, config
<1>9. PlacesOK'
  <2>1. \A w \in Ids : worker'[w] = "exec" <=> worker[w] = "exec"
    BY <1>1, <1>3, <1>4
  <2> QED BY <1>1, <2>1 DEF PlacesOK, queue, users
<1>10. NoLostWakeup'
  BY <1>1, <1>4 DEF NoLostWakeup, HasRoom, config, queue, users
<1> QED BY <1>5, <1>6, <1>7, <1>8, <1>9, <1>10

\* idleThreadSize_++ of start().
LEMMA CountIdleOK ==
    ASSUME IInv, CountIdle
    PROVE  IInv'
<1> USE DEF IInv
<1>1. /\ uncounted = 1 /\ uncounted' = 0 /\ started' = started + 1
      /\ idleThreadSize_' = idleThreadSize_ + 1
      /\ UNCHANGED <<owner, config, isPoolRunning_, spurious, generateID_, threads_,
                     curThreadSize_, queue, workers, users>>
  BY DEF CountIdle
<1>2. owner = "starting" /\ started < initThreadSize /\ started \in Nat /\ initThreadSize \in Nat
  BY <1>1, ThreadPoolAssumption DEF PhaseOK, TypeOK
<1>3. TypeOK'
  BY <1>1, <1>2 DEF TypeOK, config, queue, workers, users
<1>4. PhaseOK'
  BY <1>1, <1>2 DEF PhaseOK, config, users
<1>5. ThreadsOK'
  <2>1. AcceptedTasks' = AcceptedTasks
    BY <1>1 DEF AcceptedTasks, users
  <2>2. Launched' = Launched
    BY <1>1, <1>2 DEF Launched
  <2> QED BY <1>1, <2>1, <2>2 DEF ThreadsOK, workers
<1>6. SizesOK'
  <2>1. IdleWorkers' = IdleWorkers
    BY <1>1 DEF IdleWorkers, Looking, workers
  <2>2. Cardinality(IdleWorkers) \in Nat
    BY IdsFinite DEF IdleWorkers
  <2> QED BY <1>1, <2>1, <2>2 DEF SizesOK, queue, config
<1>7. PlacesOK'
  BY <1>1 DEF PlacesOK, queue, workers, users
<1>8. NoLostWakeup'
  BY <1>1 DEF NoLostWakeup, HasRoom, config, queue, workers, users
<1> QED BY <1>3, <1>4, <1>5, <1>6, <1>7, <1>8

-----------------------------------------------------------------------------
(* submitTask().                                                           *)

\* A user begins to wait with its task, or waits again.
LEMMA SubmitWaitsOK ==
    ASSUME IInv, NEW u \in Users, NEW t \in Tasks, isPoolRunning_, ~HasRoom,
           owner = "starting" => mode_ = "MODE_FIXD",
           \/ user[u] = "idle" /\ fate[t] = "new"
           \/ user[u] # "idle" /\ offer[u] = t,
           user' = [user EXCEPT ![u] = "wait"],
           offer' = [offer EXCEPT ![u] = t],
           fate' = [fate EXCEPT ![t] = "offered"],
           UNCHANGED <<rest, owner, counters, queue, workers>>
    PROVE  IInv'
<1> USE DEF IInv
<1>1. UNCHANGED <<config, isPoolRunning_, starting, spurious>>
  BY DEF rest, flags
<1>2. /\ user \in [Users -> {"idle", "wait", "woken", "expired"}]
      /\ offer \in [Users -> Tasks \cup {NoTask}]
      /\ fate \in [Tasks -> {"new", "offered", "queued", "running", "done", "rejected"}]
      /\ NoTask \notin Tasks
  BY ThreadPoolAssumption DEF TypeOK
<1>3. fate[t] \in {"new", "offered"} /\ (fate[t] = "offered" => offer[u] = t)
  BY DEF PlacesOK
<1>4. TypeOK'
  BY <1>1 DEF TypeOK, config, counters, queue, starting, workers
<1>5. PhaseOK'
  BY <1>1, <1>2 DEF PhaseOK, config, counters, starting
<1>6. ThreadsOK'
  <2>1. AcceptedTasks' = AcceptedTasks
    BY <1>2, <1>3 DEF AcceptedTasks
  <2>2. Launched' = Launched
    BY <1>1 DEF Launched, starting, counters
  <2> QED BY <2>1, <2>2 DEF ThreadsOK, counters, workers
<1>7. SizesOK'
  <2>1. IdleWorkers' = IdleWorkers
    BY DEF IdleWorkers, Looking, workers
  <2> QED BY <1>1, <2>1 DEF SizesOK, counters, queue, config, starting
<1>8. PlacesOK'
  <2>1. \A s \in Tasks : s # t => fate'[s] = fate[s]
    BY <1>2
  <2>2. \A v \in Users : v # u => offer'[v] = offer[v] /\ user'[v] = user[v]
    BY <1>2
  <2>3. fate'[t] = "offered" /\ offer'[u] = t /\ user'[u] = "wait"
    BY <1>2
  <2>4. \A v \in Users : v # u => offer[v] # t
    BY <1>3, <1>2 DEF PlacesOK
  <2>5. \A s \in Tasks : s \in SeqRange(taskQue_') <=> fate'[s] = "queued"
    BY <1>3, <2>1, <2>3 DEF PlacesOK, queue
  <2>6. \A w \in Ids : worker'[w] = "exec" => job'[w] \in Tasks /\ fate'[job'[w]] = "running"
    BY <1>3, <2>1 DEF PlacesOK, workers
  <2>7. \A s \in Tasks : fate'[s] = "running" => \E w \in Ids : worker'[w] = "exec" /\ job'[w] = s
    BY <1>3, <2>1, <2>3 DEF PlacesOK, workers
  <2>8. \A v \in Users : user'[v] = "idle" <=> offer'[v] = NoTask
    BY <1>2, <2>2, <2>3 DEF PlacesOK
  <2>9. \A v \in Users : offer'[v] # NoTask => offer'[v] \in Tasks /\ fate'[offer'[v]] = "offered"
    BY <1>2, <2>1, <2>2, <2>3 DEF PlacesOK
  <2>10. \A v, x \in Users : offer'[v] = offer'[x] /\ offer'[v] # NoTask => v = x
    BY <2>2, <2>3, <2>4 DEF PlacesOK
  <2>11. \A s \in Tasks : fate'[s] = "offered" => \E v \in Users : offer'[v] = s
    <3> SUFFICES ASSUME NEW s \in Tasks, fate'[s] = "offered", s # t
                 PROVE  \E v \in Users : offer'[v] = s
      BY <2>3
    <3>1. PICK v \in Users : offer[v] = s
      BY <2>1 DEF PlacesOK
    <3>2. CASE v = u
      <4>1. user[u] = "idle"
        BY <3>1, <3>2
      <4> QED BY <3>1, <3>2, <4>1, <1>2 DEF PlacesOK
    <3> QED BY <3>1, <3>2, <2>2
  <2> QED BY <2>5, <2>6, <2>7, <2>8, <2>9, <2>10, <2>11 DEF PlacesOK, queue, workers
<1>9. NoLostWakeup'
  BY <1>1 DEF NoLostWakeup, HasRoom, config, queue, workers
<1> QED BY <1>4, <1>5, <1>6, <1>7, <1>8, <1>9

\* The deadline has passed and the queue is full: the user leaves, its task is
\* rejected.
LEMMA RejectOK ==
    ASSUME IInv, NEW u \in Users, user[u] = "expired", ~HasRoom,
           user' = [user EXCEPT ![u] = "idle"],
           offer' = [offer EXCEPT ![u] = NoTask],
           fate' = [fate EXCEPT ![offer[u]] = "rejected"],
           UNCHANGED <<rest, owner, counters, queue, workers>>
    PROVE  IInv'
<1> USE DEF IInv
<1>1. UNCHANGED <<config, isPoolRunning_, starting, spurious>>
  BY DEF rest, flags
<1>2. /\ user \in [Users -> {"idle", "wait", "woken", "expired"}]
      /\ offer \in [Users -> Tasks \cup {NoTask}]
      /\ fate \in [Tasks -> {"new", "offered", "queued", "running", "done", "rejected"}]
      /\ NoTask \notin Tasks
  BY ThreadPoolAssumption DEF TypeOK
<1>3. PICK t \in Tasks : t = offer[u] /\ fate[t] = "offered"
  BY DEF PlacesOK
<1>4. TypeOK'
  BY <1>1 DEF TypeOK, config, counters, queue, starting, workers
<1>5. PhaseOK'
  BY <1>1, <1>2, <1>3 DEF PhaseOK, config, counters, starting
<1>6. ThreadsOK'
  <2>1. AcceptedTasks' = AcceptedTasks
    BY <1>2, <1>3 DEF AcceptedTasks
  <2>2. Launched' = Launched
    BY <1>1 DEF Launched, starting, counters
  <2> QED BY <2>1, <2>2 DEF ThreadsOK, counters, workers
<1>7. SizesOK'
  <2>1. IdleWorkers' = IdleWorkers
    BY DEF IdleWorkers, Looking, workers
  <2> QED BY <1>1, <2>1 DEF SizesOK, counters, queue, config, starting
<1>8. PlacesOK'
  <2>1. /\ \A s \in Tasks : s # t => fate'[s] = fate[s]
        /\ \A v \in Users : v # u => offer'[v] = offer[v] /\ user'[v] = user[v]
        /\ fate'[t] = "rejected" /\ offer'[u] = NoTask /\ user'[u] = "idle"
    BY <1>2, <1>3
  <2>2. \A s \in Tasks : s \in SeqRange(taskQue_') <=> fate'[s] = "queued"
    BY <1>3, <2>1 DEF PlacesOK, queue
  <2>3. /\ \A w \in Ids : worker'[w] = "exec" => job'[w] \in Tasks /\ fate'[job'[w]] = "running"
        /\ \A s \in Tasks : fate'[s] = "running" => \E w \in Ids : worker'[w] = "exec" /\ job'[w] = s
    BY <1>3, <2>1 DEF PlacesOK, workers
  <2>4. /\ \A v \in Users : user'[v] = "idle" <=> offer'[v] = NoTask
        /\ \A v \in Users : offer'[v] # NoTask => offer'[v] \in Tasks /\ fate'[offer'[v]] = "offered"
        /\ \A v, x \in Users : offer'[v] = offer'[x] /\ offer'[v] # NoTask => v = x
    BY <1>2, <1>3, <2>1 DEF PlacesOK
  <2>5. \A s \in Tasks : fate'[s] = "offered" => \E v \in Users : offer'[v] = s
    BY <1>3, <2>1 DEF PlacesOK
  <2> QED BY <2>2, <2>3, <2>4, <2>5 DEF PlacesOK, queue, workers
<1>9. NoLostWakeup'
  BY <1>1, <1>2 DEF NoLostWakeup, HasRoom, config, queue, workers
<1> QED BY <1>4, <1>5, <1>6, <1>7, <1>8, <1>9

\* The queue has room: the task is pushed, the workers are notified, and in the cached
\* mode a thread may be made, which is counted at once.
LEMMA EnqueueOK ==
    ASSUME IInv, NEW u \in Users, NEW t \in Tasks, isPoolRunning_, HasRoom,
           owner = "starting" => mode_ = "MODE_FIXD",
           \/ user[u] = "idle" /\ fate[t] = "new"
           \/ user[u] # "idle" /\ offer[u] = t,
           Enqueue(u, t),
           UNCHANGED <<rest, owner, job, aged>>
    PROVE  IInv'
<1> USE DEF IInv
<1>1. UNCHANGED <<config, isPoolRunning_, starting, spurious>>
  BY DEF rest, flags
<1>2. /\ user \in [Users -> {"idle", "wait", "woken", "expired"}]
      /\ offer \in [Users -> Tasks \cup {NoTask}]
      /\ fate \in [Tasks -> {"new", "offered", "queued", "running", "done", "rejected"}]
      /\ NoTask \notin Tasks
      /\ worker \in [Ids -> WorkerStates]
      /\ taskQue_ \in Seq(Tasks)
      /\ generateID_ \in Nat /\ initThreadSize \in Nat /\ curThreadSize_ \in Nat
      /\ idleThreadSize_ \in Int /\ threadSizeThreshHold_ \in Int /\ threads_ \in SUBSET Ids
  BY ThreadPoolAssumption DEF TypeOK
<1>3. /\ user' = [user EXCEPT ![u] = "idle"]
      /\ offer' = [offer EXCEPT ![u] = NoTask]
      /\ fate' = [fate EXCEPT ![t] = "queued"]
      /\ taskQue_' = Append(taskQue_, t) /\ taskSize_' = taskSize_ + 1
  BY DEF Enqueue, PushTask
<1>4. fate[t] \in {"new", "offered"} /\ (fate[t] = "offered" => offer[u] = t)
  BY DEF PlacesOK
<1>5. owner # "starting" => generateID_ \in Ids /\ worker[generateID_] = "none"
  BY <1>2, <1>4, NewId DEF ThreadsOK, Launched
<1>6. /\ taskQue_' \in Seq(Tasks) /\ Len(taskQue_') = Len(taskQue_) + 1 /\ Len(taskQue_) \in Nat
      /\ SeqRange(taskQue_') = SeqRange(taskQue_) \cup {t}
      /\ Distinct(taskQue_')
  BY <1>2, <1>3, <1>4, PushFacts, AppendProperties, LenProperties DEF PlacesOK
<1>7. \/ \* no new thread
         /\ UNCHANGED counters
         /\ worker' = NoEmptyNotified(worker)
      \/ \* one new thread
         /\ owner # "starting" /\ curThreadSize_ < threadSizeThreshHold_
         /\ generateID_ \in Ids /\ worker[generateID_] = "none"
         /\ threads_' = threads_ \cup {generateID_}
         /\ worker' = NoEmptyNotified([worker EXCEPT ![generateID_] = "ready"])
         /\ generateID_' = generateID_ + 1
         /\ curThreadSize_' = curThreadSize_ + 1
         /\ idleThreadSize_' = idleThreadSize_ + 1
  BY <1>5 DEF Enqueue, ShouldGrow
<1>8. /\ worker' \in [Ids -> WorkerStates]
      /\ \A w \in Ids : worker'[w] # "wait"
      /\ \A w \in Ids : \/ worker'[w] = worker[w]
                        \/ worker[w] = "wait" /\ worker'[w] = "woken"
                        \/ /\ w = generateID_ /\ generateID_' = generateID_ + 1
                           /\ worker[w] = "none" /\ worker'[w] = "ready"
  <2>1. CASE worker' = NoEmptyNotified(worker)
    BY <1>2, <2>1, NoEmptyNotifies
  <2>2. CASE /\ generateID_ \in Ids /\ worker[generateID_] = "none"
             /\ generateID_' = generateID_ + 1
             /\ worker' = NoEmptyNotified([worker EXCEPT ![generateID_] = "ready"])
    <3> DEFINE ws == [worker EXCEPT ![generateID_] = "ready"]
    <3>1. /\ ws \in [Ids -> WorkerStates] /\ ws[generateID_] = "ready"
          /\ \A w \in Ids : w # generateID_ => ws[w] = worker[w]
      BY <1>2, <2>2 DEF WorkerStates
    <3>2. worker' = NoEmptyNotified(ws)
      BY <2>2
    <3> HIDE DEF ws
    <3>3. /\ worker' \in [Ids -> WorkerStates]
          /\ \A w \in Ids : worker'[w] = IF ws[w] = "wait" THEN "woken" ELSE ws[w]
      BY <3>1, <3>2 DEF NoEmptyNotified, WorkerStates
    <3> QED BY <2>2, <3>1, <3>3
  <2> QED BY <1>7, <2>1, <2>2
<1>9. TypeOK'
  <2>1. threads_' \subseteq Ids /\ generateID_' \in Nat /\ curThreadSize_' \in Nat /\ idleThreadSize_' \in Int
    BY <1>2, <1>7 DEF counters
  <2>2. user' \in [Users -> {"idle", "wait", "woken", "expired"}]
        /\ offer' \in [Users -> Tasks \cup {NoTask}]
        /\ fate' \in [Tasks -> {"new", "offered", "queued", "running", "done", "rejected"}]
    BY <1>2, <1>3
  <2> QED BY <1>1, <1>3, <1>6, <1>8, <2>1, <2>2 DEF TypeOK, config, starting
<1>10. PhaseOK'
  <2>1. owner # "config"
    BY DEF PhaseOK
  <2> QED BY <1>1, <1>2, <1>3, <1>7, <2>1 DEF PhaseOK, config, counters, starting
<1>11. ThreadsOK'
  <2>1. /\ Cardinality(AcceptedTasks') = Cardinality(AcceptedTasks) + 1
        /\ Cardinality(AcceptedTasks) \in Nat
    BY <1>2, <1>3, <1>4, AcceptedGrow
  <2>2. generateID_' <= initThreadSize + Cardinality(AcceptedTasks')
    BY <1>2, <1>7, <2>1 DEF ThreadsOK, counters
  <2>3. \A w \in Ids : w \in Nat
    BY IdsFinite, ThreadPoolAssumption DEF Ids
  <2>4. CASE generateID_' = generateID_ + 1
    <3>1. owner # "starting" /\ generateID_ \in Ids /\ worker'[generateID_] # "none"
          /\ worker'[generateID_] # "exited"
      <4>1. owner # "starting" /\ generateID_ \in Ids /\ worker[generateID_] = "none"
        BY <1>2, <1>7, <2>4 DEF counters
      <4>2. worker'[generateID_] = "ready"
        <5>1. CASE worker' = NoEmptyNotified([worker EXCEPT ![generateID_] = "ready"])
          BY <1>2, <4>1, <5>1 DEF NoEmptyNotified
        <5> QED BY <1>2, <1>7, <2>4, <5>1 DEF counters
      <4> QED BY <4>1, <4>2
    <3>2. threads_' = threads_ \cup {generateID_}
      BY <1>2, <1>7, <2>4 DEF counters
    <3>3. \A w \in Ids : worker'[w] = "none" <=> w >= generateID_ + 1
      BY <1>2, <1>8, <2>3, <3>1 DEF ThreadsOK, Launched
    <3>4. threads_' = {w \in Ids : w < generateID_ + 1 /\ worker'[w] # "exited"}
      BY <1>2, <1>8, <2>3, <3>1, <3>2, SMTT(30) DEF ThreadsOK
    <3> QED BY <2>2, <2>4, <3>1, <3>3, <3>4 DEF ThreadsOK, Launched
  <2>5. CASE UNCHANGED counters
    <3>1. \A w \in Ids : /\ worker'[w] = "none" <=> worker[w] = "none"
                         /\ worker'[w] = "exited" <=> worker[w] = "exited"
      BY <1>2, <1>8, <2>5 DEF counters
    <3>2. Launched' = Launched
      BY <1>1, <2>5 DEF Launched, counters, starting
    <3> QED BY <2>2, <2>5, <3>1, <3>2 DEF ThreadsOK, counters
  <2> QED BY <1>7, <2>4, <2>5
<1>12. SizesOK'
  <2>1. CASE generateID_' = generateID_ + 1
    <3>1. /\ generateID_ \in Ids /\ worker[generateID_] = "none"
          /\ threads_' = threads_ \cup {generateID_}
          /\ curThreadSize_ < threadSizeThreshHold_
          /\ curThreadSize_' = curThreadSize_ + 1 /\ idleThreadSize_' = idleThreadSize_ + 1
      BY <1>2, <1>7, <2>1 DEF counters
    <3>2. generateID_ \notin threads_ /\ generateID_ \notin IdleWorkers
      BY <1>2, <3>1 DEF ThreadsOK, IdleWorkers, Looking
    <3>3. IdleWorkers' = IdleWorkers \cup {generateID_}
      <4>1. worker'[generateID_] \in {"ready"}
        <5>1. CASE worker' = NoEmptyNotified([worker EXCEPT ![generateID_] = "ready"])
          BY <1>2, <3>1, <5>1 DEF NoEmptyNotified
        <5> QED BY <1>2, <1>7, <2>1, <5>1 DEF counters
      <4> QED BY <1>8, <3>1, <4>1 DEF IdleWorkers, Looking
    <3>4. /\ Cardinality(threads_') = Cardinality(threads_) + 1
          /\ Cardinality(IdleWorkers') = Cardinality(IdleWorkers) + 1
          /\ Cardinality(threads_) \in Nat /\ Cardinality(IdleWorkers) \in Nat
      <4>1. threads_ \in SUBSET Ids /\ IdleWorkers \in SUBSET Ids
        BY <1>2 DEF IdleWorkers
      <4>2. Cardinality(threads_ \cup {generateID_}) = Cardinality(threads_) + 1
        BY <3>1, <3>2, <4>1, CountOne
      <4>3. Cardinality(IdleWorkers \cup {generateID_}) = Cardinality(IdleWorkers) + 1
        BY <3>1, <3>2, <4>1, CountOne
      <4>4. Cardinality(threads_) \in Nat /\ Cardinality(IdleWorkers) \in Nat
        BY <4>1, IdsFinite
      <4> QED BY <3>1, <3>3, <4>2, <4>3, <4>4
    <3>5. owner' # "destroyed"
      BY DEF PhaseOK
    <3>6. taskSize_' = Len(taskQue_')
      BY <1>3, <1>6 DEF SizesOK
    <3>7. curThreadSize_' = Cardinality(threads_') /\ curThreadSize_' >= initThreadSize
      BY <1>2, <3>1, <3>4 DEF SizesOK
    <3>8. Cardinality(threads_') <= threadSizeThreshHold_'
      BY <1>1, <1>2, <3>1, <3>7 DEF config
    <3>9. idleThreadSize_' = Cardinality(IdleWorkers') - uncounted'
      BY <1>1, <1>2, <3>1, <3>4, SMTT(30) DEF SizesOK, starting, TypeOK
    <3> QED BY <3>5, <3>6, <3>7, <3>8, <3>9 DEF SizesOK
  <2>2. CASE UNCHANGED counters
    <3>1. IdleWorkers' = IdleWorkers
      BY <1>2, <1>8, <2>2 DEF IdleWorkers, Looking, counters
    <3> QED BY <1>1, <1>2, <1>3, <1>6, <2>2, <3>1 DEF SizesOK, config, starting, counters
  <2> QED BY <1>7, <2>1, <2>2
<1>13. PlacesOK'
  <2>1. /\ \A s \in Tasks : s # t => fate'[s] = fate[s]
        /\ \A v \in Users : v # u => offer'[v] = offer[v] /\ user'[v] = user[v]
        /\ fate'[t] = "queued" /\ offer'[u] = NoTask /\ user'[u] = "idle"
    BY <1>2, <1>3
  <2>2. \A v \in Users : v # u => offer[v] # t
    BY <1>2, <1>4 DEF PlacesOK
  <2>3. \A w \in Ids : worker'[w] = "exec" <=> worker[w] = "exec"
    BY <1>8
  <2>4. \A s \in Tasks : s \in SeqRange(taskQue_') <=> fate'[s] = "queued"
    BY <1>6, <2>1 DEF PlacesOK
  <2>5. /\ \A w \in Ids : worker'[w] = "exec" => job'[w] \in Tasks /\ fate'[job'[w]] = "running"
        /\ \A v, w \in Ids : worker'[v] = "exec" /\ worker'[w] = "exec" /\ job'[v] = job'[w] => v = w
        /\ \A s \in Tasks : fate'[s] = "running" => \E w \in Ids : worker'[w] = "exec" /\ job'[w] = s
    BY <1>4, <2>1, <2>3 DEF PlacesOK
  <2>6. /\ \A v \in Users : user'[v] = "idle" <=> offer'[v] = NoTask
        /\ \A v \in Users : offer'[v] # NoTask => offer'[v] \in Tasks /\ fate'[offer'[v]] = "offered"
        /\ \A v, x \in Users : offer'[v] = offer'[x] /\ offer'[v] # NoTask => v = x
    BY <1>2, <2>1, <2>2 DEF PlacesOK
  <2>7. \A s \in Tasks : fate'[s] = "offered" => \E v \in Users : offer'[v] = s
    <3> SUFFICES ASSUME NEW s \in Tasks, fate'[s] = "offered"
                 PROVE  \E v \in Users : offer'[v] = s
      OBVIOUS
    <3>1. s # t /\ fate[s] = "offered"
      BY <2>1
    <3>2. PICK v \in Users : offer[v] = s
      BY <3>1 DEF PlacesOK
    <3>3. v # u
      BY <1>2, <3>1, <3>2 DEF PlacesOK
    <3> QED BY <2>1, <3>2, <3>3
  <2> QED BY <1>6, <2>4, <2>5, <2>6, <2>7 DEF PlacesOK
<1>14. NoLostWakeup'
  <2>1. HasRoom' => HasRoom
    BY <1>1, <1>6 DEF HasRoom, config, TypeOK
  <2> QED BY <1>2, <1>3, <1>8, <2>1 DEF NoLostWakeup
<1> QED BY <1>9, <1>10, <1>11, <1>12, <1>13, <1>14

\* The first look of submitTask() at the queue.
LEMMA SubmitTaskOK ==
    ASSUME IInv, NEW u \in Users, NEW t \in Tasks, SubmitTask(u, t)
    PROVE  IInv'
<1>1. /\ isPoolRunning_ /\ (owner = "starting" => mode_ = "MODE_FIXD")
      /\ user[u] = "idle" /\ fate[t] = "new"
      /\ UNCHANGED <<rest, owner, job, aged>>
  BY DEF SubmitTask, CanSubmit, IInv, PhaseOK
<1>2. CASE HasRoom /\ Enqueue(u, t)
  BY <1>1, <1>2, EnqueueOK
<1>3. CASE /\ ~HasRoom
           /\ user' = [user EXCEPT ![u] = "wait"]
           /\ offer' = [offer EXCEPT ![u] = t]
           /\ fate' = [fate EXCEPT ![t] = "offered"]
           /\ UNCHANGED <<counters, queue, worker>>
  BY <1>1, <1>3, SubmitWaitsOK DEF workers
<1> QED BY <1>2, <1>3 DEF SubmitTask

\* Its later looks, after a notification or at its deadline.
LEMMA SubmitResumesOK ==
    ASSUME IInv, NEW u \in Users, SubmitResumes(u)
    PROVE  IInv'
<1>1. /\ isPoolRunning_ /\ (owner = "starting" => mode_ = "MODE_FIXD")
      /\ user[u] # "idle"
      /\ UNCHANGED <<rest, owner, job, aged>>
  BY DEF SubmitResumes, IInv, PhaseOK
<1>2. PICK t \in Tasks : offer[u] = t /\ fate[t] = "offered"
  BY <1>1 DEF IInv, PlacesOK
<1>3. CASE HasRoom /\ Enqueue(u, offer[u])
  <2>1. Enqueue(u, t)
    BY <1>2, <1>3 DEF Enqueue, PushTask
  <2> QED BY <1>1, <1>2, <1>3, <2>1, EnqueueOK
<1>4. CASE /\ ~HasRoom
           /\ user' = [user EXCEPT ![u] = "wait"]
           /\ UNCHANGED <<counters, queue, worker, offer, fate>>
  <2>1. offer' = [offer EXCEPT ![u] = t] /\ fate' = [fate EXCEPT ![t] = "offered"]
    BY <1>2, <1>4 DEF IInv, TypeOK
  <2> QED BY <1>1, <1>2, <1>4, <2>1, SubmitWaitsOK DEF workers
<1>5. CASE /\ ~HasRoom
           /\ user[u] = "expired"
           /\ user' = [user EXCEPT ![u] = "idle"]
           /\ offer' = [offer EXCEPT ![u] = NoTask]
           /\ fate' = [fate EXCEPT ![offer[u]] = "rejected"]
           /\ UNCHANGED <<counters, queue, worker>>
  BY <1>1, <1>5, RejectOK DEF workers
<1> QED BY <1>3, <1>4, <1>5 DEF SubmitResumes

-----------------------------------------------------------------------------
(* threadFunc().                                                           *)

\* What taking the front of the queue does.
LEMMA TakeFacts ==
    ASSUME IInv, NEW w \in Ids, TakeTask(w)
    PROVE  /\ worker[w] \in IdleStates /\ worker[w] # "wait"
           /\ taskQue_ # <<>> /\ taskQue_' = Tail(taskQue_)
           /\ Head(taskQue_) \in Tasks /\ fate[Head(taskQue_)] = "queued"
           /\ taskQue_' \in Seq(Tasks) /\ Len(taskQue_') = Len(taskQue_) - 1
           /\ Len(taskQue_) \in Nat
           /\ Distinct(taskQue_') /\ SeqRange(taskQue_') = SeqRange(taskQue_) \ {Head(taskQue_)}
           /\ job' = [job EXCEPT ![w] = Head(taskQue_)]
           /\ fate' = [fate EXCEPT ![Head(taskQue_)] = "running"]
           /\ worker' \in [Ids -> WorkerStates] /\ worker'[w] = "exec"
           /\ \A v \in Ids : v # w => worker'[v] = worker[v]
           /\ user' \in [Users -> {"idle", "wait", "woken", "expired"}]
           /\ \A u \in Users : user'[u] # "wait" /\ (user'[u] = "idle" <=> user[u] = "idle")
<1> USE DEF IInv
<1>1. /\ worker[w] \in IdleStates /\ worker[w] # "wait"
      /\ taskQue_ # <<>> /\ taskQue_' = Tail(taskQue_) /\ taskQue_ \in Seq(Tasks)
      /\ job' = [job EXCEPT ![w] = Head(taskQue_)]
      /\ fate' = [fate EXCEPT ![Head(taskQue_)] = "running"]
  BY DEF TakeTask, Continues, Looking, IdleStates, PopTask, TypeOK
<1>2. /\ Head(taskQue_) \in Tasks /\ Head(taskQue_) \in SeqRange(taskQue_)
      /\ taskQue_' \in Seq(Tasks) /\ Len(taskQue_') = Len(taskQue_) - 1
      /\ Distinct(taskQue_') /\ SeqRange(taskQue_') = SeqRange(taskQue_) \ {Head(taskQue_)}
  BY <1>1, PopFacts DEF PlacesOK
<1>3. /\ worker' \in [Ids -> WorkerStates] /\ worker'[w] = "exec"
      /\ \A v \in Ids : v # w => worker'[v] = worker[v]
  <2>1. worker \in [Ids -> WorkerStates] /\ \A v \in Ids : worker[v] # "wait"
    BY <1>1 DEF TypeOK, NoLostWakeup
  <2>2. \/ worker' = [worker EXCEPT ![w] = "exec"]
        \/ worker' = NoEmptyNotified([worker EXCEPT ![w] = "exec"])
    BY DEF TakeTask
  <2> QED BY <2>1, <2>2 DEF NoEmptyNotified, WorkerStates
<1>4. /\ user' \in [Users -> {"idle", "wait", "woken", "expired"}]
      /\ \A u \in Users : user'[u] # "wait" /\ (user'[u] = "idle" <=> user[u] = "idle")
  BY NotFullNotifies DEF TakeTask, TypeOK
<1> QED BY <1>1, <1>2, <1>3, <1>4, LenProperties DEF PlacesOK

\* A worker takes a task.
LEMMA TakeTaskOK ==
    ASSUME IInv, NEW w \in Ids, TakeTask(w)
    PROVE  IInv'
<1> USE DEF IInv
<1>1. /\ UNCHANGED <<owner, config, isPoolRunning_, starting, spurious, generateID_, threads_,
                     curThreadSize_, aged, offer>>
      /\ idleThreadSize_' = idleThreadSize_ - 1 /\ taskSize_' = taskSize_ - 1
  BY DEF TakeTask, PopTask, rest, flags
<1>2. PICK t \in Tasks : t = Head(taskQue_) /\ fate[t] = "queued"
  BY TakeFacts
<1>3. /\ fate \in [Tasks -> {"new", "offered", "queued", "running", "done", "rejected"}]
      /\ job \in [Ids -> Tasks \cup {NoTask}]
      /\ fate' = [fate EXCEPT ![t] = "running"] /\ job' = [job EXCEPT ![w] = t]
  BY <1>2, TakeFacts DEF TypeOK
<1>4. TypeOK'
  <2>1. taskSize_' \in Nat
    BY <1>1, TakeFacts DEF SizesOK, TypeOK
  <2>2. fate' \in [Tasks -> {"new", "offered", "queued", "running", "done", "rejected"}]
        /\ job' \in [Ids -> Tasks \cup {NoTask}]
    BY <1>3
  <2> QED BY <1>1, <2>1, <2>2, TakeFacts DEF TypeOK, config, starting
<1>5. PhaseOK'
  <2>1. owner # "config"
    BY <1>2 DEF PhaseOK
  <2> QED BY <1>1, <2>1, TakeFacts DEF PhaseOK, config, starting
<1>6. ThreadsOK'
  <2>1. AcceptedTasks' = AcceptedTasks
    BY <1>2, <1>3 DEF AcceptedTasks
  <2>2. Launched' = Launched
    BY <1>1 DEF Launched, starting
  <2>3. \A v \in Ids : /\ worker'[v] = "none" <=> worker[v] = "none"
                       /\ worker'[v] = "exited" <=> worker[v] = "exited"
    BY TakeFacts DEF IdleStates
  <2> QED BY <1>1, <2>1, <2>2, <2>3 DEF ThreadsOK
<1>7. SizesOK'
  <2>1. IdleWorkers' = IdleWorkers \ {w} /\ w \in IdleWorkers
    BY TakeFacts DEF IdleWorkers, Looking, IdleStates
  <2>2. Cardinality(IdleWorkers') = Cardinality(IdleWorkers) - 1 /\ Cardinality(IdleWorkers) \in Nat
    BY <2>1, CountOne DEF IdleWorkers
  <2>3. taskSize_' = Len(taskQue_')
    BY <1>1, TakeFacts DEF SizesOK
  <2>4. isPoolRunning_' => idleThreadSize_' = Cardinality(IdleWorkers') - uncounted'
    BY <1>1, <2>2 DEF SizesOK, starting, TypeOK
  <2> QED BY <1>1, <2>3, <2>4, TakeFacts DEF SizesOK, config
<1>8. PlacesOK'
  <2>1. /\ \A s \in Tasks : s # t => fate'[s] = fate[s]
        /\ fate'[t] = "running" /\ job'[w] = t
        /\ \A v \in Ids : v # w => job'[v] = job[v]
    BY <1>3
  <2>2. /\ \A v \in Ids : worker'[v] = "exec" <=> worker[v] = "exec" \/ v = w
        /\ worker[w] # "exec"
    BY TakeFacts DEF IdleStates
  <2>3. \A s \in Tasks : s \in SeqRange(taskQue_') <=> fate'[s] = "queued"
    BY <1>2, <2>1, TakeFacts DEF PlacesOK
  <2>4. /\ \A v \in Ids : worker'[v] = "exec" => job'[v] \in Tasks /\ fate'[job'[v]] = "running"
        /\ \A v, x \in Ids : worker'[v] = "exec" /\ worker'[x] = "exec" /\ job'[v] = job'[x] => v = x
    BY <1>2, <2>1, <2>2 DEF PlacesOK
  <2>5. \A s \in Tasks : fate'[s] = "running" => \E v \in Ids : worker'[v] = "exec" /\ job'[v] = s
    BY <1>2, <2>1, <2>2 DEF PlacesOK
  <2>6. /\ \A u \in Users : user'[u] = "idle" <=> offer'[u] = NoTask
        /\ \A u \in Users : offer'[u] # NoTask => offer'[u] \in Tasks /\ fate'[offer'[u]] = "offered"
        /\ \A u, v \in Users : offer'[u] = offer'[v] /\ offer'[u] # NoTask => u = v
    BY <1>1, <1>2, <2>1, TakeFacts DEF PlacesOK
  <2>7. \A s \in Tasks : fate'[s] = "offered" => \E u \in Users : offer'[u] = s
    BY <1>1, <2>1 DEF PlacesOK
  <2> QED BY <2>3, <2>4, <2>5, <2>6, <2>7, TakeFacts DEF PlacesOK
<1>9. NoLostWakeup'
  BY <1>1, TakeFacts DEF NoLostWakeup
<1> QED BY <1>4, <1>5, <1>6, <1>7, <1>8, <1>9

\* A worker leaves: because the pool is being destroyed and the queue is empty, or
\* because it is surplus.  Only the first tells the destructor, and only the second
\* adjusts the counters.
LEMMA LeaveOK ==
    ASSUME IInv, NEW w \in Ids, WorkerExits(w) \/ WorkerReclaimed(w)
    PROVE  IInv'
<1> USE DEF IInv
<1>1. /\ UNCHANGED <<config, isPoolRunning_, starting, spurious, generateID_, queue, job, aged, users>>
      /\ threads_' = threads_ \ {w} /\ worker' = [worker EXCEPT ![w] = "exited"]
      /\ worker[w] \in IdleStates
      /\ owner' = owner \/ (owner = "wait" /\ owner' = "woken")
  BY DEF WorkerExits, WorkerReclaimed, rest, flags, Continues, Looking, IdleStates, ExitCondNotified
<1>2. \/ /\ ~isPoolRunning_ /\ taskQue_ = <<>>
         /\ UNCHANGED <<curThreadSize_, idleThreadSize_>>
      \/ /\ curThreadSize_ > initThreadSize
         /\ curThreadSize_' = curThreadSize_ - 1 /\ idleThreadSize_' = idleThreadSize_ - 1
  BY DEF WorkerExits, WorkerReclaimed, MayReclaim
<1>3. /\ worker \in [Ids -> WorkerStates] /\ threads_ \in SUBSET Ids /\ initThreadSize \in Nat
      /\ curThreadSize_ \in Nat /\ idleThreadSize_ \in Int /\ threadSizeThreshHold_ \in Int
  BY ThreadPoolAssumption DEF TypeOK
<1>4. w \in threads_
  BY <1>1, LiveAreThreads DEF LiveWorkers, IdleStates
<1>5. /\ Cardinality(threads_') = Cardinality(threads_) - 1 /\ Cardinality(threads_) \in Nat
  BY <1>1, <1>3, <1>4, CountOne
<1>6. TypeOK'
  <2>1. worker' \in [Ids -> WorkerStates] /\ threads_' \subseteq Ids
    BY <1>1, <1>3 DEF WorkerStates
  <2>2. curThreadSize_' \in Nat /\ idleThreadSize_' \in Int
    BY <1>2, <1>3
  <2> QED BY <1>1, <2>1, <2>2 DEF TypeOK, OwnerStates, config, starting, queue, users
<1>7. PhaseOK'
  <2>1. owner # "config"
    BY <1>4 DEF PhaseOK
  <2> QED BY <1>1, <2>1 DEF PhaseOK, config, starting, users
<1>8. ThreadsOK'
  <2>1. AcceptedTasks' = AcceptedTasks
    BY <1>1 DEF AcceptedTasks, users
  <2>2. Launched' = Launched
    BY <1>1 DEF Launched, starting
  <2>3. \A v \in Ids : worker'[v] = "none" <=> v >= Launched'
    BY <1>1, <1>3, <2>2 DEF ThreadsOK, IdleStates
  <2>4. threads_' = {v \in Ids : v < generateID_' /\ worker'[v] # "exited"}
    BY <1>1, <1>3 DEF ThreadsOK
  <2> QED BY <1>1, <2>1, <2>3, <2>4 DEF ThreadsOK
<1>9. SizesOK'
  <2>1. IdleWorkers' = IdleWorkers \ {w} /\ w \in IdleWorkers
    BY <1>1, <1>3 DEF IdleWorkers, Looking, IdleStates
  <2>2. Cardinality(IdleWorkers') = Cardinality(IdleWorkers) - 1 /\ Cardinality(IdleWorkers) \in Nat
    BY <2>1, CountOne DEF IdleWorkers
  <2>3. isPoolRunning_' \/ taskQue_' # <<>> =>
            curThreadSize_' = Cardinality(threads_') /\ curThreadSize_' >= initThreadSize
    BY <1>1, <1>2, <1>3, <1>5 DEF SizesOK, queue
  <2>4. Cardinality(threads_') <= initThreadSize \/ Cardinality(threads_') <= threadSizeThreshHold_'
    BY <1>1, <1>3, <1>5 DEF SizesOK, config
  <2>5. isPoolRunning_' => idleThreadSize_' = Cardinality(IdleWorkers') - uncounted'
    BY <1>1, <1>2, <1>3, <2>2 DEF SizesOK, starting, TypeOK
  <2>6. owner' # "destroyed"
    BY <1>1, <1>4 DEF SizesOK
  <2> QED BY <1>1, <2>3, <2>4, <2>5, <2>6 DEF SizesOK, queue
<1>10. PlacesOK'
  <2>1. \A v \in Ids : worker'[v] = "exec" <=> worker[v] = "exec"
    BY <1>1, <1>3 DEF IdleStates
  <2> QED BY <1>1, <2>1 DEF PlacesOK, queue, users
<1>11. NoLostWakeup'
  <2>1. \A v \in Ids : worker'[v] = "wait" => worker[v] = "wait"
    BY <1>1, <1>3
  <2> QED BY <1>1, <2>1 DEF NoLostWakeup, HasRoom, config, queue, users
<1> QED BY <1>6, <1>7, <1>8, <1>9, <1>10, <1>11

\* A worker has run its task.
LEMMA RunTaskOK ==
    ASSUME IInv, NEW w \in Ids, RunTask(w)
    PROVE  IInv'
<1> USE DEF IInv
<1>1. /\ UNCHANGED <<owner, config, isPoolRunning_, starting, spurious, counters, queue, job, aged,
                     user, offer>>
      /\ worker[w] = "exec" /\ worker' = [worker EXCEPT ![w] = "done"]
      /\ fate' = [fate EXCEPT ![job[w]] = "done"]
  BY DEF RunTask, rest, flags
<1>2. PICK t \in Tasks : t = job[w] /\ fate[t] = "running"
  BY <1>1 DEF PlacesOK
<1>3. /\ worker \in [Ids -> WorkerStates]
      /\ fate \in [Tasks -> {"new", "offered", "queued", "running", "done", "rejected"}]
  BY DEF TypeOK
<1>4. TypeOK'
  BY <1>1, <1>3 DEF TypeOK, WorkerStates, config, starting, counters, queue
<1>5. PhaseOK'
  <2>1. owner # "config"
    BY <1>2 DEF PhaseOK
  <2> QED BY <1>1, <2>1 DEF PhaseOK, config, starting, counters
<1>6. ThreadsOK'
  <2>1. AcceptedTasks' = AcceptedTasks
    BY <1>1, <1>2, <1>3 DEF AcceptedTasks
  <2>2. Launched' = Launched
    BY <1>1 DEF Launched, starting, counters
  <2>3. \A v \in Ids : /\ worker'[v] = "none" <=> worker[v] = "none"
                       /\ worker'[v] = "exited" <=> worker[v] = "exited"
    BY <1>1, <1>3
  <2> QED BY <1>1, <2>1, <2>2, <2>3 DEF ThreadsOK, counters
<1>7. SizesOK'
  <2>1. IdleWorkers' = IdleWorkers
    BY <1>1, <1>3 DEF IdleWorkers, Looking
  <2> QED BY <1>1, <2>1 DEF SizesOK, config, starting, counters, queue
<1>8. PlacesOK'
  <2>1. /\ \A s \in Tasks : s # t => fate'[s] = fate[s]
        /\ fate'[t] = "done"
    BY <1>1, <1>2, <1>3
  <2>2. \A v \in Ids : worker'[v] = "exec" <=> worker[v] = "exec" /\ v # w
    BY <1>1, <1>3
  <2>3. \A s \in Tasks : s \in SeqRange(taskQue_') <=> fate'[s] = "queued"
    BY <1>1, <1>2, <2>1 DEF PlacesOK, queue
  <2>4. /\ \A v \in Ids : worker'[v] = "exec" => job'[v] \in Tasks /\ fate'[job'[v]] = "running"
        /\ \A v, x \in Ids : worker'[v] = "exec" /\ worker'[x] = "exec" /\ job'[v] = job'[x] => v = x
    BY <1>1, <1>2, <2>1, <2>2 DEF PlacesOK
  <2>5. \A s \in Tasks : fate'[s] = "running" => \E v \in Ids : worker'[v] = "exec" /\ job'[v] = s
    BY <1>1, <1>2, <2>1, <2>2 DEF PlacesOK
  <2>6. /\ \A u \in Users : user'[u] = "idle" <=> offer'[u] = NoTask
        /\ \A u \in Users : offer'[u] # NoTask => offer'[u] \in Tasks /\ fate'[offer'[u]] = "offered"
        /\ \A u, v \in Users : offer'[u] = offer'[v] /\ offer'[u] # NoTask => u = v
    BY <1>1, <1>2, <2>1 DEF PlacesOK
  <2>7. \A s \in Tasks : fate'[s] = "offered" => \E u \in Users : offer'[u] = s
    BY <1>1, <2>1 DEF PlacesOK
  <2> QED BY <1>1, <2>3, <2>4, <2>5, <2>6, <2>7 DEF PlacesOK, queue
<1>9. NoLostWakeup'
  BY <1>1, <1>3 DEF NoLostWakeup, HasRoom, config, queue
<1> QED BY <1>4, <1>5, <1>6, <1>7, <1>8, <1>9

\* A worker counts itself idle again, without the mutex.
LEMMA FinishTaskOK ==
    ASSUME IInv, NEW w \in Ids, FinishTask(w)
    PROVE  IInv'
<1> USE DEF IInv
<1>1. /\ UNCHANGED <<owner, config, isPoolRunning_, starting, spurious, generateID_, threads_,
                     curThreadSize_, queue, users>>
      /\ worker[w] = "done" /\ worker' = [worker EXCEPT ![w] = "ready"]
      /\ job' = [job EXCEPT ![w] = NoTask] /\ aged' = [aged EXCEPT ![w] = FALSE]
      /\ idleThreadSize_' = idleThreadSize_ + 1
  BY DEF FinishTask, rest, flags
<1>2. worker \in [Ids -> WorkerStates] /\ job \in [Ids -> Tasks \cup {NoTask}]
      /\ aged \in [Ids -> BOOLEAN] /\ idleThreadSize_ \in Int
  BY DEF TypeOK
<1>3. TypeOK'
  <2>1. worker' \in [Ids -> WorkerStates] /\ job' \in [Ids -> Tasks \cup {NoTask}]
        /\ aged' \in [Ids -> BOOLEAN] /\ idleThreadSize_' \in Int
    BY <1>1, <1>2 DEF WorkerStates
  <2> QED BY <1>1, <2>1 DEF TypeOK, config, starting, queue, users
<1>4. PhaseOK'
  <2>1. owner # "config"
    BY <1>1, LiveAreThreads DEF PhaseOK, LiveWorkers
  <2> QED BY <1>1, <2>1 DEF PhaseOK, config, starting, users
<1>5. ThreadsOK'
  <2>1. AcceptedTasks' = AcceptedTasks
    BY <1>1 DEF AcceptedTasks, users
  <2>2. Launched' = Launched
    BY <1>1 DEF Launched, starting
  <2>3. \A v \in Ids : /\ worker'[v] = "none" <=> worker[v] = "none"
                       /\ worker'[v] = "exited" <=> worker[v] = "exited"
    BY <1>1, <1>2
  <2> QED BY <1>1, <2>1, <2>2, <2>3 DEF ThreadsOK
<1>6. SizesOK'
  <2>1. IdleWorkers' = IdleWorkers \cup {w} /\ w \notin IdleWorkers
    BY <1>1, <1>2 DEF IdleWorkers, Looking
  <2>2. Cardinality(IdleWorkers') = Cardinality(IdleWorkers) + 1 /\ Cardinality(IdleWorkers) \in Nat
    BY <2>1, CountOne DEF IdleWorkers
  <2>3. isPoolRunning_' => idleThreadSize_' = Cardinality(IdleWorkers') - uncounted'
    BY <1>1, <1>2, <2>2 DEF SizesOK, starting, TypeOK
  <2> QED BY <1>1, <2>3 DEF SizesOK, config, queue
<1>7. PlacesOK'
  <2>1. \A v \in Ids : /\ worker'[v] = "exec" <=> worker[v] = "exec"
                       /\ worker[v] = "exec" => job'[v] = job[v]
    BY <1>1, <1>2
  <2> QED BY <1>1, <2>1 DEF PlacesOK, queue, users
<1>8. NoLostWakeup'
  BY <1>1, <1>2 DEF NoLostWakeup, HasRoom, config, queue, users
<1> QED BY <1>3, <1>4, <1>5, <1>6, <1>7, <1>8

-----------------------------------------------------------------------------
(* The theorems.                                                           *)

\* Every step of the pool keeps the invariant.
LEMMA NextOK == IInv /\ [Next]_vars => IInv'
<1> SUFFICES ASSUME IInv, [Next]_vars PROVE IInv'
  OBVIOUS
<1>1. CASE Configure
  BY <1>1, ConfigureOK
<1>2. CASE Start \/ StartStep
  BY <1>2, StartOK, StartThreadOK, CountIdleOK, StartReturnsOK DEF StartStep
<1>3. CASE Close \/ CloseStep
  BY <1>3, CloseOK DEF CloseStep
<1>4. ASSUME NEW u \in Users, UserStep(u) PROVE IInv'
  BY <1>4, SubmitTaskOK, SubmitResumesOK, WaitOK DEF UserStep
<1>5. ASSUME NEW w \in Ids, WorkerStep(w) PROVE IInv'
  BY <1>5, TakeTaskOK, LeaveOK, RunTaskOK, FinishTaskOK, WaitOK DEF WorkerStep, Look
<1>6. CASE SpuriousWakeup
  BY <1>6, WaitOK
<1>7. CASE UNCHANGED vars
  <2> USE <1>7 DEF vars, config, counters, queue, starting, workers, users, IInv
  <2>1. TypeOK'
    BY DEF TypeOK
  <2>2. PhaseOK'
    BY DEF PhaseOK
  <2>3. Launched' = Launched
    BY DEF Launched
  <2>4. ThreadsOK' /\ SizesOK' /\ PlacesOK'
    BY <2>3, QuietOK DEF SizesOK
  <2>5. NoLostWakeup'
    BY DEF NoLostWakeup, HasRoom
  <2> QED BY <2>1, <2>2, <2>4, <2>5
<1> QED BY <1>1, <1>2, <1>3, <1>4, <1>5, <1>6, <1>7 DEF Next

\* The invariant holds in every reachable state.
THEOREM Invariance == Spec => []IInv
BY InitOK, NextOK, PTL DEF Spec

\* The variables of the thread pool keep their types; in particular the number of
\* threads never becomes negative and a new thread always has a fresh id.
THEOREM TypeCorrect == Spec => []TypeOK
<1>1. IInv => TypeOK
  BY DEF IInv
<1> QED BY <1>1, Invariance, PTL

\* However users, workers and the destructor interleave, nobody sleeps on a condition
\* variable whose condition already holds.
THEOREM Wakeups == Spec => []NoLostWakeup
<1>1. IInv => NoLostWakeup
  BY DEF IInv
<1> QED BY <1>1, Invariance, PTL

\* A set with one element has cardinality one, an empty one has none.
LEMMA OneOrNone ==
    ASSUME NEW S, NEW P \in BOOLEAN,
           \A x, y \in S : x = y,
           P <=> \E x \in S : TRUE
    PROVE  Cardinality(S) = IF P THEN 1 ELSE 0
<1>1. CASE P
  <2>1. PICK x \in S : TRUE
    BY <1>1
  <2>2. S = {x}
    BY <2>1
  <2> QED BY <1>1, <2>2, FS_Singleton
<1>2. CASE ~P
  <2>1. S = {}
    BY <1>2
  <2> QED BY <1>2, <2>1, FS_EmptySet
<1> QED BY <1>1, <1>2

\* A task is queued once, with one worker, or with one user, as its future believes:
\* no task is run twice or lost between submitTask() and threadFunc().
THEOREM OnePlace == Spec => []TaskHasOnePlace
<1>1. IInv => TaskHasOnePlace
  <2> SUFFICES ASSUME IInv PROVE TaskHasOnePlace
    OBVIOUS
  <2> USE DEF IInv
  <2>1. ASSUME NEW t \in Tasks
        PROVE  /\ t \in Queued <=> fate[t] = "queued"
               /\ Cardinality({w \in Ids : worker[w] = "exec" /\ job[w] = t}) =
                     IF fate[t] = "running" THEN 1 ELSE 0
               /\ Cardinality({u \in Users : offer[u] = t}) =
                     IF fate[t] = "offered" THEN 1 ELSE 0
    <3>1. t \in Queued <=> fate[t] = "queued"
      BY DEF PlacesOK, Queued, SeqRange
    <3>2. Cardinality({w \in Ids : worker[w] = "exec" /\ job[w] = t}) =
              IF fate[t] = "running" THEN 1 ELSE 0
      <4> DEFINE S == {w \in Ids : worker[w] = "exec" /\ job[w] = t}
                 P == fate[t] = "running"
      <4>1. \A x, y \in S : x = y
        BY DEF PlacesOK
      <4>2. P <=> \E x \in S : TRUE
        BY DEF PlacesOK
      <4>3. P \in BOOLEAN
        OBVIOUS
      <4> HIDE DEF S, P
      <4>4. Cardinality(S) = IF P THEN 1 ELSE 0
        BY <4>1, <4>2, <4>3, OneOrNone
      <4> QED BY <4>4 DEF S, P
    <3>3. Cardinality({u \in Users : offer[u] = t}) = IF fate[t] = "offered" THEN 1 ELSE 0
      <4> DEFINE S == {u \in Users : offer[u] = t}
                 P == fate[t] = "offered"
      <4>1. t # NoTask
        BY ThreadPoolAssumption
      <4>2. \A x, y \in S : x = y
        BY <4>1 DEF PlacesOK
      <4>3. P <=> \E x \in S : TRUE
        BY <4>1 DEF PlacesOK
      <4>4. P \in BOOLEAN
        OBVIOUS
      <4> HIDE DEF S, P
      <4>5. Cardinality(S) = IF P THEN 1 ELSE 0
        BY <4>2, <4>3, <4>4, OneOrNone
      <4> QED BY <4>5 DEF S, P
    <3> QED BY <3>1, <3>2, <3>3
  <2>2. \A i, j \in 1..Len(taskQue_) : taskQue_[i] = taskQue_[j] => i = j
    BY DEF PlacesOK, Distinct
  <2> QED BY <2>1, <2>2 DEF TaskHasOnePlace
<1> QED BY <1>1, Invariance, PTL

\* While the pool runs taskSize_, curThreadSize_ and idleThreadSize_ are exact, although
\* idleThreadSize_ is changed outside the mutex.
THEOREM Counting == Spec => []CountersExact
<1>1. IInv => CountersExact
  BY DEF IInv, SizesOK, CountersExact
<1> QED BY <1>1, Invariance, PTL

\* The pool never has more threads than the larger of its start size and its threshold,
\* and while it runs never fewer than it was started with.
THEOREM PoolSize == Spec => []PoolSizeBounded
<1>1. IInv => PoolSizeBounded
  <2> SUFFICES ASSUME IInv PROVE PoolSizeBounded
    OBVIOUS
  <2>1. /\ Cardinality(LiveWorkers) <= Cardinality(threads_)
        /\ Cardinality(LiveWorkers) \in Nat /\ Cardinality(threads_) \in Nat
    BY LiveAreThreads, CountMonotone
  <2>2. initThreadSize \in Nat /\ threadSizeThreshHold_ \in Int
    BY ThreadPoolAssumption DEF IInv, TypeOK
  <2>3. owner = "running" => Cardinality(threads_) >= initThreadSize /\ LiveWorkers = threads_
    BY LiveAreThreads DEF IInv, PhaseOK, SizesOK
  <2> QED BY <2>1, <2>2, <2>3 DEF IInv, SizesOK, PoolSizeBounded
<1> QED BY <1>1, Invariance, PTL

\* When the destructor is about to return and the pool was started with a thread, no
\* worker is left and no task is queued, running or offered.
LEMMA QuietWhenEmpty ==
    ASSUME IInv, initThreadSize > 0, threads_ = {}, ~isPoolRunning_
    PROVE  /\ LiveWorkers = {} /\ taskQue_ = <<>>
           /\ \A t \in Tasks : fate[t] \in {"new", "done", "rejected"}
<1> USE DEF IInv
<1>1. LiveWorkers = {}
  BY LiveAreThreads
<1>2. taskQue_ = <<>>
  BY FS_EmptySet, ThreadPoolAssumption DEF SizesOK
<1>3. \A t \in Tasks : fate[t] # "queued"
  BY <1>2 DEF PlacesOK, SeqRange
<1>4. \A t \in Tasks : fate[t] # "running"
  BY <1>1 DEF PlacesOK, LiveWorkers
<1>5. \A t \in Tasks : fate[t] # "offered"
  BY ThreadPoolAssumption DEF PlacesOK, PhaseOK
<1> QED BY <1>1, <1>2, <1>3, <1>4, <1>5 DEF TypeOK

\* When the destructor of a pool that was started with at least one thread returns,
\* everything it accepted has been run and no thread is left.
THEOREM QuietDestruction == initThreadSize > 0 /\ Spec => []DestroyedWhenQuiet
<1> SUFFICES ASSUME initThreadSize > 0 PROVE Spec => []DestroyedWhenQuiet
  OBVIOUS
<1>1. IInv => DestroyedWhenQuiet
  BY QuietWhenEmpty DEF IInv, SizesOK, PhaseOK, DestroyedWhenQuiet
<1> QED BY <1>1, Invariance, PTL

-----------------------------------------------------------------------------
(* The refinement.                                                         *)

\* A task that no user or worker knows yet is unknown to the abstract executor.
LEMMA NewUnknown ==
    ASSUME IInv, NEW t \in Tasks, fate[t] \in {"new", "offered"}
    PROVE  t \notin TE!Known
BY DEF IInv, PlacesOK, SeqRange, TE!Known, InState

\* While a worker looks at the queue, fewer tasks run than the executor may run.
LEMMA RunningBelowWidth ==
    ASSUME IInv, NEW w \in Ids, worker[w] \in IdleStates
    PROVE  Cardinality(InState("running")) < Width
<1> USE DEF IInv
<1> DEFINE Busy == {v \in Ids : worker[v] = "exec"}
<1>1. /\ Busy \in SUBSET LiveWorkers /\ w \in LiveWorkers /\ w \notin Busy
      /\ LiveWorkers \in SUBSET Ids /\ LiveWorkers \in SUBSET threads_ /\ threads_ \in SUBSET Ids
  BY LiveAreThreads DEF LiveWorkers, IdleStates
<1>2. /\ IsFiniteSet(Busy) /\ IsFiniteSet(LiveWorkers)
      /\ Cardinality(Busy) \in Nat /\ Cardinality(LiveWorkers) \in Nat /\ Cardinality(threads_) \in Nat
  BY <1>1, IdsFinite
<1>3. Cardinality(Busy) < Cardinality(LiveWorkers)
  <2>1. /\ Cardinality(Busy) <= Cardinality(LiveWorkers)
        /\ Cardinality(Busy) = Cardinality(LiveWorkers) => Busy = LiveWorkers
    BY <1>1, <1>2, FS_Subset
  <2> QED BY <1>1, <1>2, <2>1
<1>4. Cardinality(InState("running")) <= Cardinality(Busy) /\ IsFiniteSet(InState("running"))
  <2>1. [v \in Busy |-> job[v]] \in Surjection(Busy, InState("running"))
    BY DEF Surjection, InState, PlacesOK
  <2> QED BY <1>2, <2>1, FS_Surjection
<1>5. Cardinality(LiveWorkers) <= Cardinality(threads_)
  BY <1>1, CountMonotone
<1>6. Cardinality(threads_) <= Width /\ Width \in Int
  BY <1>2, ThreadPoolAssumption DEF SizesOK, Width, TypeOK
<1> QED BY <1>2, <1>3, <1>4, <1>5, <1>6, FS_CardinalityType

\* The executor sees a step only through its own variables.
LEMMA Unseen ==
    ASSUME UNCHANGED <<taskQueMaxThreadHold_, threadSizeThreshHold_, taskQue_, fate>>,
           owner' = "destroyed" <=> owner = "destroyed"
    PROVE  UNCHANGED TE!vars
<1>1. (owner = "destroyed")' = (owner = "destroyed")
  OBVIOUS
<1>2. Width' = Width /\ \A f \in {"running", "done", "rejected"} : InState(f)' = InState(f)
  BY DEF Width, InState
<1> QED BY <1>1, <1>2 DEF TE!vars

\* A step of submitTask() accepts or rejects one task, or the executor sees nothing.
LEMMA SubmitRefines ==
    ASSUME IInv, NEW u \in Users, (\E t \in Tasks : SubmitTask(u, t)) \/ SubmitResumes(u)
    PROVE  (\E t \in Tasks : TE!Accept(t) \/ TE!Refuse(t)) \/ UNCHANGED TE!vars
<1> USE DEF IInv
<1>1. /\ owner # "destroyed" /\ UNCHANGED <<owner, taskQueMaxThreadHold_, threadSizeThreshHold_>>
  BY DEF SubmitTask, SubmitResumes, CanSubmit, PhaseOK, rest, config
<1>2. fate \in [Tasks -> {"new", "offered", "queued", "running", "done", "rejected"}]
  BY DEF TypeOK
<1>3. (owner = "destroyed")' = (owner = "destroyed") /\ (owner = "destroyed") = FALSE
      /\ Width' = Width
  BY <1>1 DEF Width
<1>4. ASSUME NEW t \in Tasks, fate[t] \in {"new", "offered"}, HasRoom,
             taskQue_' = Append(taskQue_, t), fate' = [fate EXCEPT ![t] = "queued"]
      PROVE  TE!Accept(t)
  <2>1. InState("running")' = InState("running") /\ InState("done")' = InState("done")
        /\ InState("rejected")' = InState("rejected")
    BY <1>2, <1>4 DEF InState
  <2> QED BY <1>1, <1>3, <1>4, <2>1, NewUnknown DEF TE!Accept, TE!HasRoom, HasRoom
<1>5. ASSUME NEW t \in Tasks, fate[t] = "offered", ~HasRoom,
             taskQue_' = taskQue_, fate' = [fate EXCEPT ![t] = "rejected"]
      PROVE  TE!Refuse(t)
  <2>1. InState("running")' = InState("running") /\ InState("done")' = InState("done")
        /\ InState("rejected")' = InState("rejected") \cup {t}
    BY <1>2, <1>5 DEF InState
  <2> QED BY <1>1, <1>3, <1>5, <2>1, NewUnknown DEF TE!Refuse, TE!HasRoom, HasRoom
<1>6. ASSUME NEW t \in Tasks, fate[t] = "new", taskQue_' = taskQue_,
             fate' = [fate EXCEPT ![t] = "offered"]
      PROVE  UNCHANGED TE!vars
  <2>1. InState("running")' = InState("running") /\ InState("done")' = InState("done")
        /\ InState("rejected")' = InState("rejected")
    BY <1>2, <1>6 DEF InState
  <2> QED BY <1>1, <1>3, <1>6, <2>1 DEF TE!vars
<1>7. ASSUME NEW t \in Tasks, SubmitTask(u, t)
      PROVE  TE!Accept(t) \/ UNCHANGED TE!vars
  BY <1>4, <1>6, <1>7 DEF SubmitTask, Enqueue, PushTask, queue
<1>8. ASSUME SubmitResumes(u)
      PROVE  (\E t \in Tasks : TE!Accept(t) \/ TE!Refuse(t)) \/ UNCHANGED TE!vars
  <2>1. PICK t \in Tasks : t = offer[u] /\ fate[t] = "offered"
    BY <1>8 DEF SubmitResumes, PlacesOK
  <2>2. CASE HasRoom /\ Enqueue(u, offer[u])
    BY <1>4, <2>1, <2>2 DEF Enqueue, PushTask
  <2>3. CASE UNCHANGED <<counters, queue, worker, offer, fate>>
    BY <1>1, <2>3, Unseen DEF queue
  <2>4. CASE /\ ~HasRoom
             /\ fate' = [fate EXCEPT ![offer[u]] = "rejected"]
             /\ UNCHANGED <<counters, queue, worker>>
    BY <1>5, <2>1, <2>4 DEF queue
  <2> QED BY <1>8, <2>2, <2>3, <2>4 DEF SubmitResumes
<1> QED BY <1>7, <1>8

\* A step of a worker begins or finishes one task, or the executor sees nothing.
LEMMA WorkerRefines ==
    ASSUME IInv, NEW w \in Ids, WorkerStep(w)
    PROVE  TE!Begin \/ (\E t \in Tasks : TE!Finish(t)) \/ UNCHANGED TE!vars
<1> USE DEF IInv
<1>1. fate \in [Tasks -> {"new", "offered", "queued", "running", "done", "rejected"}]
  BY DEF TypeOK
<1>2. CASE TakeTask(w)
  <2>1. Cardinality(InState("running")) < Width
    BY <1>2, TakeFacts, RunningBelowWidth
  <2>2. TE!Cardinality(InState("running")) = Cardinality(InState("running"))
    BY DEF TE!Cardinality, Cardinality
  <2>3. UNCHANGED <<owner, taskQueMaxThreadHold_, threadSizeThreshHold_>>
    BY <1>2 DEF TakeTask, rest, config
  <2>4. (owner = "destroyed")' = (owner = "destroyed") /\ Width' = Width
    BY <2>3 DEF Width
  <2>5. /\ InState("running")' = InState("running") \cup {Head(taskQue_)}
        /\ InState("done")' = InState("done") /\ InState("rejected")' = InState("rejected")
    BY <1>1, <1>2, TakeFacts DEF InState
  <2>6. taskQue_ # <<>> /\ taskQue_' = Tail(taskQue_)
    BY <1>2, TakeFacts
  <2> QED BY <2>1, <2>2, <2>3, <2>4, <2>5, <2>6 DEF TE!Begin
<1>3. CASE RunTask(w)
  <2>1. PICK t \in Tasks : t = job[w] /\ fate[t] = "running"
    BY <1>3 DEF RunTask, PlacesOK
  <2>2. /\ UNCHANGED <<owner, taskQueMaxThreadHold_, threadSizeThreshHold_, taskQue_>>
        /\ fate' = [fate EXCEPT ![t] = "done"]
    BY <1>3, <2>1 DEF RunTask, rest, config, queue
  <2>3. (owner = "destroyed")' = (owner = "destroyed") /\ Width' = Width
    BY <2>2 DEF Width
  <2>4. /\ InState("running")' = InState("running") \ {t} /\ t \in InState("running")
        /\ InState("done")' = InState("done") \cup {t} /\ InState("rejected")' = InState("rejected")
    BY <1>1, <2>1, <2>2 DEF InState
  <2>5. TE!Finish(t)
    BY <2>2, <2>3, <2>4 DEF TE!Finish
  <2> QED BY <2>5
<1>4. CASE WorkerWaits(w) \/ WaitExpires(w) \/ Age(w) \/ FinishTask(w) \/ WorkerReclaimed(w)
  BY <1>4, Unseen
     DEF WorkerWaits, WaitExpires, Age, FinishTask, WorkerReclaimed, rest, config, queue, users
<1>5. CASE WorkerExits(w)
  <2>1. owner' = "destroyed" <=> owner = "destroyed"
    BY <1>5 DEF WorkerExits, ExitCondNotified
  <2> QED BY <1>5, <2>1, Unseen DEF WorkerExits, rest, config, queue, users
<1> QED BY <1>2, <1>3, <1>4, <1>5 DEF WorkerStep, Look

\* The destructor closes the executor when it returns.
LEMMA CloseRefines ==
    ASSUME IInv, initThreadSize > 0, Close \/ CloseStep
    PROVE  TE!Close \/ UNCHANGED TE!vars
<1> USE DEF IInv
<1>1. UNCHANGED <<taskQueMaxThreadHold_, threadSizeThreshHold_, taskQue_, fate>> /\ owner # "destroyed"
  BY DEF Close, CloseStep, CloseLocked, CloseResumes, rest, config, shared, queue, users
<1>2. CASE owner' # "destroyed"
  BY <1>1, <1>2, Unseen
<1>3. CASE owner' = "destroyed"
  <2>1. threads_ = {} /\ ~isPoolRunning_
    BY <1>3 DEF Close, CloseStep, CloseLocked, CloseResumes, PhaseOK
  <2>2. taskQue_ = <<>> /\ InState("running") = {}
    BY <2>1, QuietWhenEmpty DEF InState
  <2>3. Width' = Width /\ \A f \in {"running", "done", "rejected"} : InState(f)' = InState(f)
    BY <1>1 DEF Width, InState
  <2>4. (owner = "destroyed")' = TRUE /\ ~(owner = "destroyed")
    BY <1>1, <1>3
  <2> QED BY <1>1, <2>2, <2>3, <2>4 DEF TE!Close
<1> QED BY <1>2, <1>3

\* The setters configure the executor, which knows no task yet.
LEMMA ConfigureRefines ==
    ASSUME IInv, Configure
    PROVE  TE!Configure
<1> USE DEF IInv
<1>1. /\ owner = "config" /\ UNCHANGED <<owner, taskQue_, fate>>
      /\ taskQueMaxThreadHold_' \in Int /\ threadSizeThreshHold_' \in Int
  BY ThreadPoolAssumption
     DEF Configure, SetMode, SetTaskQueueMaxThreadHold, SetThreadSizeThreshHold, shared, queue,
         users, TypeOK
<1>2. Width' \in Int
  BY <1>1, ThreadPoolAssumption DEF Width
<1>3. \A t \in Tasks : t \notin TE!Known
  BY <1>1, NewUnknown DEF PhaseOK
<1>4. TE!Known \subseteq Tasks
  <2>1. \A i \in 1..Len(taskQue_) : taskQue_[i] \in Tasks
    BY ElementOfSeq DEF TypeOK
  <2> QED BY <2>1 DEF TE!Known, InState
<1>5. (owner = "destroyed")' = (owner = "destroyed")
      /\ \A f \in {"running", "done", "rejected"} : InState(f)' = InState(f)
  BY <1>1 DEF InState
<1> QED BY <1>1, <1>2, <1>3, <1>4, <1>5 DEF TE!Configure

\* Every step of the pool is a step of the abstract executor or leaves it alone.
LEMMA NextRefines ==
    ASSUME initThreadSize > 0
    PROVE  IInv /\ [Next]_vars => [TE!Next]_(TE!vars)
<1> SUFFICES ASSUME IInv, [Next]_vars PROVE TE!Next \/ UNCHANGED TE!vars
  OBVIOUS
<1>1. CASE Configure
  BY <1>1, ConfigureRefines DEF TE!Next
<1>2. CASE Start \/ StartStep
  BY <1>2, Unseen
     DEF Start, StartStep, StartThread, CountIdle, StartReturns, rest, config, shared, queue, users
<1>3. CASE Close \/ CloseStep
  BY <1>3, CloseRefines DEF TE!Next
<1>4. ASSUME NEW u \in Users, UserStep(u) PROVE TE!Next \/ UNCHANGED TE!vars
  <2>1. CASE SubmitDeadline(u)
    BY <2>1, Unseen DEF SubmitDeadline, rest, config, queue
  <2> QED BY <1>4, <2>1, SubmitRefines DEF UserStep, TE!Next
<1>5. ASSUME NEW w \in Ids, WorkerStep(w) PROVE TE!Next \/ UNCHANGED TE!vars
  BY <1>5, WorkerRefines DEF TE!Next
<1>6. CASE SpuriousWakeup
  BY <1>6, Unseen DEF SpuriousWakeup, config, queue
<1>7. CASE UNCHANGED vars
  BY <1>7, Unseen DEF vars, config, queue, users
<1> QED BY <1>1, <1>2, <1>3, <1>4, <1>5, <1>6, <1>7 DEF Next

\* A pool started with at least one thread implements the abstract executor: every
\* accepted task is run once, in order, by no more threads than the pool may have, a
\* task is rejected only while the queue is full, and the destructor returns only
\* when everything is done.
THEOREM Refinement == initThreadSize > 0 /\ Spec => ImplementsTaskExecutor
<1> SUFFICES ASSUME initThreadSize > 0 PROVE Spec => ImplementsTaskExecutor
  OBVIOUS
<1>1. Init => TE!Init
  <2> SUFFICES ASSUME Init PROVE TE!Init
    OBVIOUS
  <2>1. InState("running") = {} /\ InState("done") = {} /\ InState("rejected") = {}
    BY DEF Init, InState
  <2>2. Width \in Int /\ taskQueMaxThreadHold_ \in Int
    BY ThreadPoolAssumption DEF Init, Width
  <2> QED BY <2>1, <2>2 DEF Init, TE!Init
<1>2. IInv /\ [Next]_vars => [TE!Next]_(TE!vars)
  BY NextRefines
<1> QED BY <1>1, <1>2, Invariance, PTL DEF Spec, ImplementsTaskExecutor, TE!Spec
=============================================================================
