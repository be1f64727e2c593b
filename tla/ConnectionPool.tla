--------------------------- MODULE ConnectionPool ---------------------------
(***************************************************************************)
(* The MySQL connection pool, class ConnectionPool                         *)
(* (CommonConnectionPool.h, CommonConnectionPool.cpp).                     *)
(*                                                                         *)
(* Actors: the application threads that call getConnection() and later     *)
(* drop the shared_ptr they got (Clients, one shared_ptr each), the        *)
(* detached producer thread and the detached scanner thread.  All of them  *)
(* share the queue and the counter under _queueMutex and one condition     *)
(* variable cv.  A critical section without a wait is one action; a wait   *)
(* ends the action, and the thread comes back in a later one, after a      *)
(* notify_all, a timeout or a spurious wakeup, when it has the mutex.      *)
(***************************************************************************)
EXTENDS Integers, Sequences, FiniteSets, Connection

CONSTANTS
    Clients,    \* application threads, each with one getConnection() at a time
    Conns,      \* addresses of Connection objects
    NULL,       \* nullptr
    initSize,   \* _initSize
    maxSize,    \* _maxSize
    IdleLimit,  \* _maxIdleTime * 1000, in the units of getAliveTime()
    MaxSpurious \* bound: how many spurious wakeups a behaviour has

ASSUME PoolAssumption ==
    /\ NULL \notin Conns
    /\ initSize \in Int
    /\ maxSize \in Int
    /\ IdleLimit \in Nat
    /\ MaxSpurious \in Nat

VARIABLES
    phase,          \* how far the static pool object is constructed
    connetionQueue, \* _connetionQueue, the idle connections
    connectionCnt,  \* _connectionCnt
    live,           \* the Connection objects on the heap
    link,           \* the link of each Connection
    alive,          \* getAliveTime() of each, capped at IdleLimit: the scanner
                    \* compares it with nothing else
    prod,           \* the producer thread
    scan,           \* the scanner thread
    pc,             \* each client: where it is in getConnection()
    held,           \* each client: the Connection its shared_ptr owns
    spurious,       \* spurious wakeups so far
    ub              \* a step had undefined behaviour

vars == <<phase, connetionQueue, connectionCnt, live, link, alive,
          prod, scan, pc, held, spurious, ub>>

\* The groups of variables that actions leave alone together.
objects == <<connectionCnt, live, link, alive>>
rest == <<phase, spurious, ub>>

Phases == {"none", "constructing", "unconfigured", "running"}

\* Phases in which getConnectionPool() has returned the object.
Constructed == phase \in {"running", "unconfigured"}

Idle == {connetionQueue[i] : i \in 1..Len(connetionQueue)}

Held == {held[c] : c \in Clients} \ {NULL}

-----------------------------------------------------------------------------
(* The pieces the threads share.                                           *)

\* cv.notify_all(): every thread that is blocked on cv competes for the mutex.
NotifyAll(clients) ==
    /\ pc' = [c \in Clients |-> IF clients[c] = "wait" THEN "woken" ELSE clients[c]]
    /\ prod' = IF prod = "wait" THEN "ready" ELSE prod

\* Seeded fault: the front is used and stays in the queue.
PopForgotten == UNCHANGED connetionQueue

\* _connetionQueue.pop()
Pop == connetionQueue' = Tail(connetionQueue)

\* Seeded fault: the idle time of a connection that is used again runs on.
RefreshForgotten(p) == UNCHANGED alive

RefreshAliveTime(p) == alive' = [alive EXCEPT ![p] = 0]

\* Seeded fault: a deleted connection is not subtracted.
DeleteUncounted(p) ==
    /\ live' = live \ {p}
    /\ link' = [link EXCEPT ![p] = AfterDelete]
    /\ alive' = [alive EXCEPT ![p] = 0]
    /\ UNCHANGED connectionCnt

\* delete p, _connectionCnt--
DeleteConnection(p) ==
    /\ live' = live \ {p}
    /\ link' = [link EXCEPT ![p] = AfterDelete]
    /\ alive' = [alive EXCEPT ![p] = 0]
    /\ connectionCnt' = connectionCnt - 1

\* new Connection, connect(), refreshAliveTime(), push, _connectionCnt++.  The
\* result of connect() is not looked at.
CreateConnection ==
    \E p \in Conns \ live, l \in AfterConnect :
        /\ live' = live \cup {p}
        /\ link' = [link EXCEPT ![p] = l]
        /\ RefreshAliveTime(p)
        /\ connetionQueue' = Append(connetionQueue, p)
        /\ connectionCnt' = connectionCnt + 1

\* Seeded fault: the limit is off by one.
BelowMaxOffByOne == connectionCnt <= maxSize

BelowMax == connectionCnt < maxSize

\* Seeded fault: the floor is off by one.
AboveInitOffByOne == connectionCnt >= initSize

AboveInit == connectionCnt > initSize

-----------------------------------------------------------------------------
(* Construction, inside the initialisation of the function-local static:   *)
(* callers of getConnectionPool() other than the first one are blocked.    *)

\* loadConfigFile() fails: the constructor returns, no thread is started and
\* every field keeps the zero of static storage.
LoadConfigFails ==
    /\ phase = "none"
    /\ phase' = "unconfigured"
    /\ UNCHANGED <<connetionQueue, objects, prod, scan, pc, held, spurious, ub>>

LoadConfigFile ==
    /\ phase = "none"
    /\ phase' = "constructing"
    /\ UNCHANGED <<connetionQueue, objects, prod, scan, pc, held, spurious, ub>>

\* One iteration of the constructor's loop.
CreateInitial ==
    /\ phase = "constructing"
    /\ connectionCnt < initSize
    /\ CreateConnection
    /\ UNCHANGED <<rest, prod, scan, pc, held>>

StartThreads ==
    /\ phase = "constructing"
    /\ connectionCnt >= initSize
    /\ phase' = "running"
    /\ prod' = "ready"
    /\ scan' = "sleep"
    /\ UNCHANGED <<connetionQueue, objects, pc, held, spurious, ub>>

-----------------------------------------------------------------------------
(* produceConnectionTask(): one pass of its for(;;).                       *)

ProducerWaits ==
    /\ prod = "ready"
    /\ connetionQueue # <<>>
    /\ prod' = "wait"
    /\ UNCHANGED <<rest, connetionQueue, objects, scan, pc, held>>

ProducerProduces ==
    /\ prod = "ready"
    /\ connetionQueue = <<>>
    /\ BelowMax
    /\ CreateConnection
    /\ NotifyAll(pc)
    /\ UNCHANGED <<rest, scan, held>>

\* At the limit: nothing to create, and still notify_all and another pass.
ProducerAtLimit ==
    /\ prod = "ready"
    /\ connetionQueue = <<>>
    /\ ~BelowMax
    /\ NotifyAll(pc)
    /\ UNCHANGED <<rest, connetionQueue, objects, scan, held>>

ProduceConnectionTask == ProducerWaits \/ ProducerProduces \/ ProducerAtLimit

-----------------------------------------------------------------------------
(* getConnection() and the deleter of the shared_ptr it returns.           *)

\* The loop ends: take the front, pop, notify_all.
TakeConnection(c) ==
    /\ Constructed
    /\ pc[c] \in {"idle", "woken", "expired"}
    /\ connetionQueue # <<>>
    /\ held' = [held EXCEPT ![c] = Head(connetionQueue)]
    /\ Pop
    /\ NotifyAll([pc EXCEPT ![c] = "using"])
    /\ UNCHANGED <<rest, objects, scan>>

\* The queue is empty: cv.wait_for() with a full _connectionTimeout, on entry
\* and again after each wakeup that is not a timeout.
AwaitConnection(c) ==
    /\ Constructed
    /\ pc[c] \in {"idle", "woken"}
    /\ connetionQueue = <<>>
    /\ pc' = [pc EXCEPT ![c] = "wait"]
    /\ UNCHANGED <<rest, connetionQueue, objects, prod, scan, held>>

\* Seeded fault: a timeout returns nullptr without a second look at the queue.
GiveUpUnchecked(c) ==
    /\ pc[c] = "expired"
    /\ pc' = [pc EXCEPT ![c] = "idle"]
    /\ UNCHANGED <<rest, connetionQueue, objects, prod, scan, held>>

\* Seeded fault: a timeout is treated like any other wakeup.
GiveUpNever(c) ==
    /\ pc[c] \in {"woken", "expired"}
    /\ connetionQueue = <<>>
    /\ pc' = [pc EXCEPT ![c] = "wait"]
    /\ UNCHANGED <<rest, connetionQueue, objects, prod, scan, held>>

\* wait_for() reports a timeout and the queue is still empty: return nullptr.
\* A client that was notified may find the deadline passed as well, since the
\* status is read from the clock after the mutex is taken again.
GiveUp(c) ==
    /\ pc[c] \in {"woken", "expired"}
    /\ connetionQueue = <<>>
    /\ pc' = [pc EXCEPT ![c] = "idle"]
    /\ UNCHANGED <<rest, connetionQueue, objects, prod, scan, held>>

WaitExpires(c) ==
    /\ pc[c] = "wait"
    /\ pc' = [pc EXCEPT ![c] = "expired"]
    /\ UNCHANGED <<rest, connetionQueue, objects, prod, scan, held>>

\* The part of getConnection() after a wait.
Resume(c) == pc[c] # "idle" /\ (TakeConnection(c) \/ AwaitConnection(c) \/ GiveUp(c))

\* Seeded fault: the shared_ptr is cleared before its connection is pushed.
ReleaseClearsFirst(c) ==
    /\ pc[c] = "using"
    /\ held' = [held EXCEPT ![c] = NULL]
    /\ connetionQueue' = Append(connetionQueue, NULL)
    /\ pc' = [pc EXCEPT ![c] = "idle"]
    /\ UNCHANGED <<rest, objects, prod, scan>>

\* The deleter: refreshAliveTime() and push, under the mutex.  It does not
\* notify.
ReleaseConnection(c) ==
    /\ pc[c] = "using"
    /\ RefreshAliveTime(held[c])
    /\ connetionQueue' = Append(connetionQueue, held[c])
    /\ held' = [held EXCEPT ![c] = NULL]
    /\ pc' = [pc EXCEPT ![c] = "idle"]
    /\ UNCHANGED <<rest, connectionCnt, live, link, prod, scan>>

\* The client works on its connection.
UseConnection(c) ==
    /\ pc[c] = "using"
    /\ \E l \in AfterQuery(link[held[c]]) \cup AfterUpdate(link[held[c]])
                  \cup {AfterFreeResult(link[held[c]])} :
           link' = [link EXCEPT ![held[c]] = l]
    /\ UNCHANGED <<rest, connetionQueue, connectionCnt, live, alive, prod, scan, pc, held>>

-----------------------------------------------------------------------------
(* scannerConnectionTask(): one pass, after the sleep.                     *)

\* No more than the initial connections: sleep again.
ScannerIdles ==
    /\ scan = "sleep"
    /\ ~AboveInit
    /\ UNCHANGED vars

\* front() of the queue although it is empty: undefined behaviour.  What the
\* process does afterwards is not modelled.
ScannerReadsEmptyQueue ==
    /\ scan = "sleep"
    /\ AboveInit
    /\ connetionQueue = <<>>
    /\ ub' = TRUE
    /\ UNCHANGED <<phase, connetionQueue, objects, prod, scan, pc, held, spurious>>

\* The head has been idle for long enough: pop, delete, count.  One per pass.
ScannerReclaims ==
    /\ scan = "sleep"
    /\ AboveInit
    /\ connetionQueue # <<>>
    /\ alive[Head(connetionQueue)] >= IdleLimit
    /\ Pop
    /\ DeleteConnection(Head(connetionQueue))
    /\ UNCHANGED <<rest, prod, scan, pc, held>>

\* The head is too young: `break` leaves the for(;;), and the thread ends.
ScannerBreaks ==
    /\ scan = "sleep"
    /\ AboveInit
    /\ connetionQueue # <<>>
    /\ alive[Head(connetionQueue)] < IdleLimit
    /\ scan' = "ended"
    /\ UNCHANGED <<rest, connetionQueue, objects, prod, pc, held>>

ScannerConnectionTask ==
    ScannerIdles \/ ScannerReadsEmptyQueue \/ ScannerReclaims \/ ScannerBreaks

-----------------------------------------------------------------------------
(* The environment.                                                        *)

\* clock() advances.
Tick ==
    /\ alive' = [p \in Conns |-> IF p \in live /\ alive[p] < IdleLimit
                               THEN alive[p] + 1 ELSE alive[p]]
    /\ UNCHANGED <<rest, connetionQueue, connectionCnt, live, link, prod, scan, pc, held>>

\* A condition variable may wake its waiters for no reason.
SpuriousWakeup ==
    /\ spurious < MaxSpurious
    /\ spurious' = spurious + 1
    /\ \/ \E c \in Clients : /\ pc[c] = "wait"
                             /\ pc' = [pc EXCEPT ![c] = "woken"]
                             /\ UNCHANGED prod
       \/ prod = "wait" /\ prod' = "ready" /\ UNCHANGED pc
    /\ UNCHANGED <<phase, connetionQueue, objects, scan, held, ub>>

-----------------------------------------------------------------------------
Init ==
    /\ phase = "none"
    /\ connetionQueue = <<>>
    /\ connectionCnt = 0
    /\ live = {}
    /\ link = [p \in Conns |-> "none"]
    /\ alive = [p \in Conns |-> 0]
    /\ prod = "off"
    /\ scan = "off"
    /\ pc = [c \in Clients |-> "idle"]
    /\ held = [c \in Clients |-> NULL]
    /\ spurious = 0
    /\ ub = FALSE

Construct == LoadConfigFails \/ LoadConfigFile \/ CreateInitial \/ StartThreads

ClientStep(c) ==
    \/ TakeConnection(c) \/ AwaitConnection(c) \/ GiveUp(c) \/ WaitExpires(c)
    \/ ReleaseConnection(c) \/ UseConnection(c)

Step ==
    \/ Construct
    \/ ProduceConnectionTask
    \/ ScannerConnectionTask
    \/ \E c \in Clients : ClientStep(c)
    \/ Tick
    \/ SpuriousWakeup

Next == ~ub /\ Step

Spec == Init /\ [][Next]_vars

\* Every started thread that can run does run, a timer that is set expires, and
\* the constructor finishes.  Nothing obliges a client to call, to use or to
\* drop a connection, and nothing obliges clock() (process time) to advance.
Fairness ==
    /\ WF_vars(~ub /\ Construct)
    /\ WF_vars(~ub /\ ProduceConnectionTask)
    /\ WF_vars(~ub /\ ScannerConnectionTask)
    /\ \A c \in Clients : WF_vars(~ub /\ Resume(c)) /\ WF_vars(~ub /\ WaitExpires(c))

FairSpec == Spec /\ Fairness

-----------------------------------------------------------------------------
(* Properties the code has.                                                *)

\* Every variable keeps its type: only connections are queued, and the counter
\* does not become negative.
TypeOK ==
    /\ phase \in Phases
    /\ connetionQueue \in Seq(Conns)
    /\ connectionCnt \in Nat
    /\ live \in SUBSET Conns
    /\ link \in [Conns -> LinkStates]
    /\ alive \in [Conns -> 0..IdleLimit]
    /\ prod \in {"off", "ready", "wait"}
    /\ scan \in {"off", "sleep", "ended"}
    /\ pc \in [Clients -> {"idle", "wait", "woken", "expired", "using"}]
    /\ held \in [Clients -> Conns \cup {NULL}]
    /\ spurious \in 0..MaxSpurious
    /\ ub \in BOOLEAN

\* Every Connection on the heap is in the queue exactly once or owned by exactly
\* one client, and nothing else is: no connection is lost, handed to two
\* clients, or deleted while a client or the queue still refers to it.
OwnedExactlyOnce ==
    /\ live = Idle \cup Held
    /\ Idle \cap Held = {}
    /\ \A i, j \in 1..Len(connetionQueue) : connetionQueue[i] = connetionQueue[j] => i = j
    /\ \A c, d \in Clients : held[c] = held[d] /\ held[c] # NULL => c = d

\* _connectionCnt, which the producer and the scanner compare with the limits, is
\* the number of Connection objects that exist.
CountExact == IsFiniteSet(live) /\ connectionCnt = Cardinality(live)

\* The producer never takes the pool past _maxSize (or past the _initSize that the
\* constructor creates without looking at _maxSize), and the scanner never
\* takes it below _initSize.
WithinLimits ==
    /\ connectionCnt > 0 => connectionCnt <= maxSize \/ connectionCnt <= initSize
    /\ phase = "running" => connectionCnt >= initSize

\* "If the head has not been idle for too long, the others certainly have not"
\* (the comment at the scanner's break): the queue is ordered by idle time.
HeadIsOldest ==
    \A i, j \in 1..Len(connetionQueue) :
        i <= j => alive[connetionQueue[i]] >= alive[connetionQueue[j]]

\* Whoever changes the link of an existing connection has it to himself: it is the
\* only client that holds it, while it is not queued for another one, or the
\* scanner, while nobody holds it and nobody can get it any more.
Undisturbed ==
    \A p \in live : link'[p] # link[p] =>
       \/ /\ p \in live' /\ p \notin Idle
          /\ \E c \in Clients : \A d \in Clients : held[d] = p <=> d = c
       \/ p \notin live' \cup Held \cup Idle'

\* A MYSQL handle must not be used by two threads at once.  update() and query()
\* take no lock; what keeps a second client's statement and the scanner's
\* mysql_close away from a handle is only that the pool hands it to one owner.
OneThreadPerHandle == [][Undisturbed]_vars

Waiting(c) == pc[c] \in {"wait", "woken", "expired"}

\* Although the deleter does not notify, a client that waits while a connection is
\* idle gets one, unless others empty the queue first: its own timeout wakes
\* it, and it looks at the queue again before it returns nullptr.
IdleConnectionReachesWaiter ==
    \A c \in Clients :
        (Waiting(c) /\ connetionQueue # <<>>) ~> (pc[c] = "using" \/ connetionQueue = <<>> \/ ub)

\* Without a configuration file there is no producer, and getConnection() returns
\* nullptr instead of waiting for ever.
UnconfiguredReturns ==
    \A c \in Clients : (phase = "unconfigured" /\ Waiting(c)) ~> pc[c] = "idle"

\* The pool implements the abstract pool of resources: `idle` is what is in the
\* queue, `owner` is who holds a shared_ptr.
Capacity == IF initSize > maxSize THEN initSize ELSE maxSize

RP == INSTANCE ResourcePool WITH
        Users <- Clients, Resources <- Conns, Floor <- initSize, Cap <- Capacity,
        idle <- Idle, owner <- held

ImplementsResourcePool == RP!Spec

-----------------------------------------------------------------------------
(* Properties the comments claim and the code does not have.               *)

\* "The queue is not empty, enter the waiting state": the producer sleeps only
\* while there are idle connections.
ProducerSleepsOnlyBesideIdle == prod = "wait" => connetionQueue # <<>>

\* The scanner looks only at connections that are idle.
ScannerReadsQueuedOnly == ~ub

\* A call of getConnection() returns, with a connection or by timeout.
GetConnectionReturns ==
    \A c \in Clients : Waiting(c) ~> (~Waiting(c) \/ ub)
=============================================================================
