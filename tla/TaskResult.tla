----------------------------- MODULE TaskResult -----------------------------
(***************************************************************************)
(* How a worker hands the value of a task to the caller of                 *)
(* Result::get(): classes Any, Semaphore, Result and Task of threadpool.h  *)
(* and threadpool.cpp, used by both pools that return Result objects.      *)
(*                                                                         *)
(* A Task object points to the Result of its last submission (result_).    *)
(* The Result lives in the caller's frame and the worker writes into it    *)
(* through the raw pointer.  A submission s of the object TaskOf[s] has    *)
(* one Result, also named s, and run() of that submission returns the      *)
(* value s: the value a caller gets tells whose value it is.               *)
(***************************************************************************)
EXTENDS Naturals

CONSTANTS
    Subs,       \* submissions, and their Result objects
    Objects,    \* Task objects
    TaskOf,     \* the Task object of each submission
    NoResult,   \* a null pointer to a Result
    NoValue,    \* an empty Any
    EarlyDrop   \* may a caller destroy a Result before get() has returned

ASSUME TaskResultAssumption ==
    /\ TaskOf \in [Subs -> Objects]
    /\ NoResult \notin Subs /\ NoValue \notin Subs
    /\ EarlyDrop \in BOOLEAN

VARIABLES
    result_,    \* each Task object: its pointer
    life,       \* each Result: "none", "live" or "dead"
    isValid_, any_,
    resLimit_,  \* each Result: the count of its semaphore
    getter,     \* each Result: where its owner is in get()
    taken,      \* each Result: what get() has returned
    exec,       \* each submission: where a worker is in Task::exec()
    reached,    \* each submission: the pointer exec() has read
    dangling    \* has a worker written into a dead Result

handVars == <<result_, life, isValid_, any_, resLimit_, getter, taken, exec, reached, dangling>>

HandInit ==
    /\ result_ = [o \in Objects |-> NoResult]
    /\ life = [s \in Subs |-> "none"]
    /\ isValid_ = [s \in Subs |-> TRUE]
    /\ any_ = [s \in Subs |-> NoValue]
    /\ resLimit_ = [s \in Subs |-> 0]
    /\ getter = [s \in Subs |-> "idle"]
    /\ taken = [s \in Subs |-> NoValue]
    /\ exec = [s \in Subs |-> "no"]
    /\ reached = [s \in Subs |-> NoResult]
    /\ dangling = FALSE

HandTypeOK ==
    /\ result_ \in [Objects -> Subs \cup {NoResult}]
    /\ life \in [Subs -> {"none", "live", "dead"}]
    /\ isValid_ \in [Subs -> BOOLEAN]
    /\ any_ \in [Subs -> Subs \cup {NoValue}]
    /\ resLimit_ \in [Subs -> {0, 1}]
    /\ getter \in [Subs -> {"idle", "wait", "woken", "moving", "got"}]
    /\ taken \in [Subs -> Subs \cup {NoValue}]
    /\ exec \in [Subs -> {"no", "run", "stored", "done"}]
    /\ reached \in [Subs -> Subs \cup {NoResult}]
    /\ dangling \in BOOLEAN

\* The protocol of the callers: a Task object is submitted again only after get()
\* has returned what its earlier submission had to give.
Settled(s) ==
    \A r \in Subs \ {s} :
        TaskOf[r] = TaskOf[s] => getter[r] = "got" \/ life[r] = "none"

-----------------------------------------------------------------------------
(* Result::Result(), run by subMitTask().                                  *)

\* Seeded fault: a Task object keeps the Result of its first submission.
ConstructOnce(s, valid) ==
    /\ life' = [life EXCEPT ![s] = "live"]
    /\ isValid_' = [isValid_ EXCEPT ![s] = valid]
    /\ result_' = [result_ EXCEPT ![TaskOf[s]] = IF @ = NoResult THEN s ELSE @]
    /\ UNCHANGED <<any_, resLimit_, getter, taken, exec, reached, dangling>>

\* Result(sp) and Result(sp, false): both redirect the Task object to the Result.
Construct(s, valid) ==
    /\ life' = [life EXCEPT ![s] = "live"]
    /\ isValid_' = [isValid_ EXCEPT ![s] = valid]
    /\ result_' = [result_ EXCEPT ![TaskOf[s]] = s]
    /\ UNCHANGED <<any_, resLimit_, getter, taken, exec, reached, dangling>>

-----------------------------------------------------------------------------
(* Task::exec() and Result::setVal(), run by a worker.                     *)

\* if(result_): the pointer is read before run() begins, and without a Result the
\* task is not run at all.
ExecReads(s) ==
    /\ exec[s] = "no"
    /\ LET p == result_[TaskOf[s]]
       IN  /\ reached' = [reached EXCEPT ![s] = p]
           /\ exec' = [exec EXCEPT ![s] = IF p = NoResult THEN "done" ELSE "run"]
    /\ UNCHANGED <<result_, life, isValid_, any_, resLimit_, getter, taken, dangling>>

\* run() has returned: any_ = std::move(any)
ExecStores(s) ==
    /\ exec[s] = "run"
    /\ exec' = [exec EXCEPT ![s] = "stored"]
    /\ any_' = [any_ EXCEPT ![reached[s]] = s]
    /\ dangling' = (dangling \/ life[reached[s]] = "dead")
    /\ UNCHANGED <<result_, life, isValid_, resLimit_, getter, taken, reached>>

\* Seeded fault: post() does not notify.
PostSilently(p) ==
    /\ resLimit_' = [resLimit_ EXCEPT ![p] = @ + 1]
    /\ UNCHANGED getter

\* Semaphore::post(): count and notify with the mutex of the semaphore held.  The
\* second version's isExit_ is set by the destructor only, so for a live Result it
\* is false, and for a dead one reading it is already an access to a dead object.
Post(p) ==
    /\ resLimit_' = [resLimit_ EXCEPT ![p] = @ + 1]
    /\ getter' = [getter EXCEPT ![p] = IF @ = "wait" THEN "woken" ELSE @]

ExecPosts(s) ==
    /\ exec[s] = "stored"
    /\ exec' = [exec EXCEPT ![s] = "done"]
    /\ Post(reached[s])
    /\ dangling' = (dangling \/ life[reached[s]] = "dead")
    /\ UNCHANGED <<result_, life, isValid_, any_, taken, reached>>

ExecStep(s) == ExecReads(s) \/ ExecStores(s) \/ ExecPosts(s)

-----------------------------------------------------------------------------
(* Result::get() and ~Result(), run by the owner of the Result.            *)

\* Seeded fault: the wait is not repeated when the count is still zero.
SemWaitUnchecked(s) ==
    \/ /\ resLimit_[s] > 0 \/ getter[s] = "woken"
       /\ resLimit_' = [resLimit_ EXCEPT ![s] = IF @ > 0 THEN @ - 1 ELSE 0]
       /\ getter' = [getter EXCEPT ![s] = "moving"]
    \/ /\ resLimit_[s] = 0 /\ getter[s] # "woken"
       /\ getter' = [getter EXCEPT ![s] = "wait"]
       /\ UNCHANGED resLimit_

\* Semaphore::wait() with its mutex held: take a unit, or sleep.
SemWait(s) ==
    \/ /\ resLimit_[s] > 0
       /\ resLimit_' = [resLimit_ EXCEPT ![s] = @ - 1]
       /\ getter' = [getter EXCEPT ![s] = "moving"]
    \/ /\ resLimit_[s] = 0
       /\ getter' = [getter EXCEPT ![s] = "wait"]
       /\ UNCHANGED resLimit_

\* get() is called, at most once for a Result.  An invalid Result gives an empty
\* Any at once.
Get(s) ==
    /\ life[s] = "live" /\ getter[s] = "idle"
    /\ \/ /\ ~isValid_[s]
          /\ getter' = [getter EXCEPT ![s] = "got"]
          /\ UNCHANGED resLimit_
       \/ isValid_[s] /\ SemWait(s)
    /\ UNCHANGED <<result_, life, isValid_, any_, taken, exec, reached, dangling>>

GetWakes(s) ==
    /\ getter[s] = "woken"
    /\ SemWait(s)
    /\ UNCHANGED <<result_, life, isValid_, any_, taken, exec, reached, dangling>>

\* return std::move(any_), after the mutex of the semaphore has been released.
GetMoves(s) ==
    /\ getter[s] = "moving"
    /\ getter' = [getter EXCEPT ![s] = "got"]
    /\ taken' = [taken EXCEPT ![s] = any_[s]]
    /\ any_' = [any_ EXCEPT ![s] = NoValue]
    /\ UNCHANGED <<result_, life, isValid_, resLimit_, exec, reached, dangling>>

\* The Result goes out of scope.
Drop(s) ==
    /\ life[s] = "live"
    /\ getter[s] = "got" \/ (EarlyDrop /\ getter[s] = "idle")
    /\ life' = [life EXCEPT ![s] = "dead"]
    /\ UNCHANGED <<result_, isValid_, any_, resLimit_, getter, taken, exec, reached, dangling>>

\* A condition variable may wake a waiter for no reason.
GetSpurious(s) ==
    /\ getter[s] = "wait"
    /\ getter' = [getter EXCEPT ![s] = "woken"]
    /\ UNCHANGED <<result_, life, isValid_, any_, resLimit_, taken, exec, reached, dangling>>

GetStep(s) == GetWakes(s) \/ GetMoves(s)

CallerStep(s) == Get(s) \/ GetStep(s) \/ GetSpurious(s) \/ Drop(s)

-----------------------------------------------------------------------------
(* What the hand-over promises.                                            *)

\* get() on an accepted submission returns the value of that submission's own
\* run(), never an empty Any and never the value of another submission of the
\* same Task object.
OwnValue ==
    \A s \in Subs : getter[s] = "got" => taken[s] = IF isValid_[s] THEN s ELSE NoValue

\* No worker writes into a Result that its owner has destroyed.
NoDanglingResult == ~dangling

\* A call of get() returns.
GetReturns == \A s \in Subs : (getter[s] = "wait") ~> (getter[s] = "got")
=============================================================================
