-------------------------- MODULE TaskResultProofs --------------------------
(***************************************************************************)
(* Proofs about the hand-over of TaskResult, for every set of submissions  *)
(* and Task objects.  TaskResult has no specification of its own: the      *)
(* lemmas say which operation keeps the invariant of the hand-over and     *)
(* what the pool that calls the operation owes it.  FixedPoolProofs and    *)
(* ResultPoolProofs pay that debt.                                         *)
(***************************************************************************)
EXTENDS TaskResult, TLAPS

\* The Result exists and stands for a queued or executed task.
Accepted(s) == life[s] # "none" /\ isValid_[s]

\* Nothing has happened to a Result that does not exist.
UnbornOK(s) ==
    life[s] = "none" =>
        /\ any_[s] = NoValue /\ resLimit_[s] = 0 /\ getter[s] = "idle" /\ exec[s] = "no"
        /\ isValid_[s]

\* No worker ever touches an invalid Result, and nobody waits for it.
InvalidOK(s) ==
    ~isValid_[s] => /\ any_[s] = NoValue /\ resLimit_[s] = 0 /\ exec[s] = "no"
                    /\ getter[s] \in {"idle", "got"}

\* Before the post: the Task object still points to this Result, exec() has read
\* that pointer, and the owner cannot have passed the semaphore.
BeforePost(s) ==
    Accepted(s) /\ exec[s] # "done" =>
        /\ result_[TaskOf[s]] = s
        /\ exec[s] # "no" => reached[s] = s
        /\ any_[s] = IF exec[s] = "stored" THEN s ELSE NoValue
        /\ resLimit_[s] = 0 /\ getter[s] \in {"idle", "wait", "woken"}

\* After the post: the value is in the Result until get() has moved it out, and the
\* unit of the semaphore is there until get() has taken it.
AfterPost(s) ==
    Accepted(s) /\ exec[s] = "done" =>
        \/ any_[s] = s /\ resLimit_[s] = 1 /\ getter[s] \in {"idle", "woken"}
        \/ any_[s] = s /\ resLimit_[s] = 0 /\ getter[s] = "moving"
        \/ resLimit_[s] = 0 /\ getter[s] = "got"

\* What get() has returned.
TakenOK(s) == taken[s] = IF getter[s] = "got" /\ isValid_[s] THEN s ELSE NoValue

\* Unless callers may destroy Results early, only a received one is destroyed and
\* no worker has met a destroyed one.
AliveOK == ~EarlyDrop => ~dangling /\ \A s \in Subs : life[s] = "dead" => getter[s] = "got"

\* The inductive invariant of the hand-over.
HandInv ==
    /\ HandTypeOK
    /\ \A s \in Subs : UnbornOK(s) /\ InvalidOK(s) /\ BeforePost(s) /\ AfterPost(s) /\ TakenOK(s)
    /\ AliveOK

\* At the beginning no Result exists.
LEMMA HandInitOK == HandInit => HandInv
<1> SUFFICES ASSUME HandInit PROVE HandInv
  OBVIOUS
<1> USE TaskResultAssumption DEF HandInit
<1>1. isValid_ \in [Subs -> BOOLEAN] /\ dangling \in BOOLEAN
  OBVIOUS
<1>2. HandTypeOK
  BY <1>1 DEF HandTypeOK
<1>3. ASSUME NEW s \in Subs
      PROVE  UnbornOK(s) /\ InvalidOK(s) /\ BeforePost(s) /\ AfterPost(s) /\ TakenOK(s)
  BY DEF UnbornOK, InvalidOK, BeforePost, AfterPost, TakenOK, Accepted
<1>4. AliveOK
  BY DEF AliveOK
<1> QED BY <1>2, <1>3, <1>4 DEF HandInv

\* get() of an accepted submission returns that submission's own value.
LEMMA HandInvOwnValue == HandInv => OwnValue
BY DEF HandInv, OwnValue, TakenOK

\* Without early destruction no worker writes into a dead Result.
LEMMA HandInvNoDangling == HandInv /\ ~EarlyDrop => NoDanglingResult
BY DEF HandInv, NoDanglingResult, AliveOK

\* Nothing but the variables of the hand-over matters to its invariant.
LEMMA HandStutter == HandInv /\ UNCHANGED handVars => HandInv'
BY DEF handVars, HandInv, HandTypeOK, UnbornOK, InvalidOK, BeforePost, AfterPost, TakenOK,
       AliveOK, Accepted

\* Result::Result(): constructing a Result that did not exist is harmless when every
\* other submission of the same Task object is settled, so that redirecting the
\* object's pointer cannot take a Result away from a task that has yet to run.
LEMMA ConstructOK ==
    ASSUME HandInv, NEW s \in Subs, NEW v \in BOOLEAN,
           life[s] = "none", Settled(s), Construct(s, v)
    PROVE  HandInv'
<1> USE TaskResultAssumption DEF HandInv, HandTypeOK
<1>1. HandTypeOK'
  BY DEF Construct
<1>2. ASSUME NEW r \in Subs
      PROVE  (UnbornOK(r) /\ InvalidOK(r) /\ AfterPost(r) /\ TakenOK(r))'
  BY DEF Construct, UnbornOK, InvalidOK, AfterPost, TakenOK, Accepted
<1>3. ASSUME NEW r \in Subs
      PROVE  BeforePost(r)'
  <2>1. CASE r = s
    BY <2>1, ZenonT(60) DEF Construct, BeforePost, Accepted, UnbornOK
  <2>2. CASE r # s /\ TaskOf[r] = TaskOf[s]
    <3>1. ~(Accepted(r) /\ exec[r] # "done")
      BY <2>2 DEF Settled, BeforePost, Accepted
    <3> QED BY <2>2, <3>1 DEF Construct, BeforePost, Accepted
  <2>3. CASE r # s /\ TaskOf[r] # TaskOf[s]
    BY <2>3 DEF Construct, BeforePost, Accepted
  <2> QED BY <2>1, <2>2, <2>3
<1>4. AliveOK'
  BY DEF Construct, AliveOK
<1> QED BY <1>1, <1>2, <1>3, <1>4

\* Task::exec() and Result::setVal(): a worker may run a submission that has been
\* accepted.  It reaches the Result of that submission and no other.
LEMMA ExecStepOK ==
    ASSUME HandInv, NEW s \in Subs, Accepted(s), ExecStep(s)
    PROVE  HandInv'
<1> USE TaskResultAssumption DEF HandInv, HandTypeOK
<1>1. CASE ExecReads(s)
  <2>0. exec[s] = "no" /\ result_[TaskOf[s]] = s /\ s # NoResult
    BY <1>1 DEF ExecReads, BeforePost
  <2>1. /\ exec[s] = "no"
        /\ exec' = [exec EXCEPT ![s] = "run"] /\ reached' = [reached EXCEPT ![s] = s]
        /\ UNCHANGED <<result_, life, isValid_, any_, resLimit_, getter, taken, dangling>>
    BY <1>1, <2>0 DEF ExecReads
  <2>2. HandTypeOK' /\ AliveOK'
    BY <2>1 DEF AliveOK
  <2>3. ASSUME NEW r \in Subs
        PROVE  (UnbornOK(r) /\ InvalidOK(r) /\ BeforePost(r) /\ AfterPost(r) /\ TakenOK(r))'
    BY <2>1 DEF UnbornOK, InvalidOK, BeforePost, AfterPost, TakenOK, Accepted
  <2> QED BY <2>2, <2>3
<1>2. CASE ExecStores(s)
  <2>1. /\ exec[s] = "run" /\ reached[s] = s
        /\ exec' = [exec EXCEPT ![s] = "stored"] /\ any_' = [any_ EXCEPT ![s] = s]
        /\ dangling' = (dangling \/ life[s] = "dead")
        /\ UNCHANGED <<result_, life, isValid_, resLimit_, getter, taken, reached>>
    BY <1>2 DEF ExecStores, BeforePost
  <2>2. HandTypeOK'
    BY <2>1
  <2>3. AliveOK'
    BY <2>1 DEF AliveOK, BeforePost
  <2>4. ASSUME NEW r \in Subs
        PROVE  (UnbornOK(r) /\ InvalidOK(r) /\ BeforePost(r) /\ AfterPost(r) /\ TakenOK(r))'
    BY <2>1 DEF UnbornOK, InvalidOK, BeforePost, AfterPost, TakenOK, Accepted
  <2> QED BY <2>2, <2>3, <2>4
<1>3. CASE ExecPosts(s)
  <2>0. /\ exec[s] = "stored" /\ reached[s] = s /\ any_[s] = s /\ resLimit_[s] = 0
        /\ getter[s] \in {"idle", "wait", "woken"}
    BY <1>3 DEF ExecPosts, BeforePost
  <2>1. /\ exec' = [exec EXCEPT ![s] = "done"]
        /\ resLimit_' = [resLimit_ EXCEPT ![s] = 1]
        /\ getter' = [getter EXCEPT ![s] = IF @ = "wait" THEN "woken" ELSE @]
        /\ dangling' = (dangling \/ life[s] = "dead")
        /\ UNCHANGED <<result_, life, isValid_, any_, taken, reached>>
    BY <1>3, <2>0 DEF ExecPosts, Post
  <2>2. HandTypeOK'
    BY <2>0, <2>1
  <2>3. AliveOK'
    BY <2>0, <2>1 DEF AliveOK
  <2>4. ASSUME NEW r \in Subs
        PROVE  (UnbornOK(r) /\ InvalidOK(r) /\ BeforePost(r) /\ AfterPost(r) /\ TakenOK(r))'
    BY <2>0, <2>1 DEF UnbornOK, InvalidOK, BeforePost, AfterPost, TakenOK, Accepted
  <2> QED BY <2>2, <2>3, <2>4
<1> QED BY <1>1, <1>2, <1>3 DEF ExecStep

\* Result::get() and ~Result(): whatever the owner of a Result does, whenever it
\* does it.
LEMMA CallerStepOK ==
    ASSUME HandInv, NEW s \in Subs, CallerStep(s)
    PROVE  HandInv'
<1> USE TaskResultAssumption DEF HandInv, HandTypeOK
<1>1. CASE Get(s) \/ GetWakes(s)
  <2>1. /\ getter[s] \in {"idle", "woken"} /\ (life[s] # "none" \/ getter[s] = "woken")
        /\ UNCHANGED <<result_, life, isValid_, any_, taken, exec, reached, dangling>>
        /\ \/ /\ ~isValid_[s] /\ getter[s] = "idle" /\ resLimit_' = resLimit_
              /\ getter' = [getter EXCEPT ![s] = "got"]
           \/ /\ isValid_[s] /\ resLimit_[s] = 1 /\ resLimit_' = [resLimit_ EXCEPT ![s] = 0]
              /\ getter' = [getter EXCEPT ![s] = "moving"]
           \/ /\ isValid_[s] /\ resLimit_[s] = 0 /\ resLimit_' = resLimit_
              /\ getter' = [getter EXCEPT ![s] = "wait"]
    BY <1>1 DEF Get, GetWakes, SemWait, InvalidOK
  <2>2. HandTypeOK'
    BY <2>1
  <2>3. AliveOK'
    BY <1>1, <2>1 DEF AliveOK, Get
  <2>4. ASSUME NEW r \in Subs
        PROVE  (UnbornOK(r) /\ InvalidOK(r) /\ BeforePost(r) /\ AfterPost(r) /\ TakenOK(r))'
    BY <2>1 DEF UnbornOK, InvalidOK, BeforePost, AfterPost, TakenOK, Accepted
  <2> QED BY <2>2, <2>3, <2>4
<1>2. CASE GetMoves(s)
  <2>1. any_[s] = s /\ isValid_[s]
    BY <1>2 DEF GetMoves, UnbornOK, InvalidOK, BeforePost, AfterPost, Accepted
  <2>2. HandTypeOK'
    BY <1>2 DEF GetMoves
  <2>3. AliveOK'
    BY <1>2 DEF GetMoves, AliveOK
  <2>4. ASSUME NEW r \in Subs
        PROVE  (UnbornOK(r) /\ InvalidOK(r) /\ BeforePost(r) /\ AfterPost(r) /\ TakenOK(r))'
    BY <1>2, <2>1 DEF GetMoves, UnbornOK, InvalidOK, BeforePost, AfterPost, TakenOK, Accepted
  <2> QED BY <2>2, <2>3, <2>4
<1>3. CASE GetSpurious(s)
  <2>1. HandTypeOK'
    BY <1>3 DEF GetSpurious
  <2>2. AliveOK'
    BY <1>3 DEF GetSpurious, AliveOK
  <2>3. ASSUME NEW r \in Subs
        PROVE  (UnbornOK(r) /\ InvalidOK(r) /\ BeforePost(r) /\ AfterPost(r) /\ TakenOK(r))'
    BY <1>3 DEF GetSpurious, UnbornOK, InvalidOK, BeforePost, AfterPost, TakenOK, Accepted
  <2> QED BY <2>1, <2>2, <2>3
<1>4. CASE Drop(s)
  <2>1. HandTypeOK'
    BY <1>4 DEF Drop
  <2>2. AliveOK'
    BY <1>4 DEF Drop, AliveOK
  <2>3. ASSUME NEW r \in Subs
        PROVE  (UnbornOK(r) /\ InvalidOK(r) /\ BeforePost(r) /\ AfterPost(r) /\ TakenOK(r))'
    BY <1>4 DEF Drop, UnbornOK, InvalidOK, BeforePost, AfterPost, TakenOK, Accepted
  <2> QED BY <2>1, <2>2, <2>3
<1> QED BY <1>1, <1>2, <1>3, <1>4 DEF CallerStep, GetStep

\* What no step of a worker or of an owner undoes: a Result exists or does not, it is
\* valid or not, and what get() has received stays received.
LEMMA HandKeeps ==
    ASSUME HandInv, NEW s \in Subs, CallerStep(s) \/ ExecStep(s)
    PROVE  /\ isValid_' = isValid_
           /\ \A r \in Subs : life'[r] = "none" <=> life[r] = "none"
           /\ \A r \in Subs : getter[r] = "got" => getter'[r] = "got"
           /\ \A r \in Subs : r # s => exec'[r] = exec[r]
           /\ CallerStep(s) => exec' = exec
<1> USE DEF HandInv, HandTypeOK
<1>1. ASSUME ExecStep(s)
      PROVE  /\ isValid_' = isValid_ /\ life' = life
             /\ \A r \in Subs : getter[r] = "got" => getter'[r] = "got"
             /\ \A r \in Subs : r # s => exec'[r] = exec[r]
  BY <1>1 DEF ExecStep, ExecReads, ExecStores, ExecPosts, Post
<1>2. ASSUME CallerStep(s)
      PROVE  /\ isValid_' = isValid_ /\ exec' = exec
             /\ \A r \in Subs : life'[r] = "none" <=> life[r] = "none"
             /\ \A r \in Subs : getter[r] = "got" => getter'[r] = "got"
  BY <1>2 DEF CallerStep, Get, GetStep, GetWakes, GetMoves, GetSpurious, Drop, SemWait
<1> QED BY <1>1, <1>2
=============================================================================
