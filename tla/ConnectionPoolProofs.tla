------------------------ MODULE ConnectionPoolProofs ------------------------
(***************************************************************************)
(* Proofs about ConnectionPool, for every set of clients, every number of  *)
(* connections and every configuration.                                    *)
(***************************************************************************)
EXTENDS ConnectionPool, ProofFacts, FiniteSetTheorems

\* A client is past getConnection() exactly while its shared_ptr owns something.
UsingIffHeld == \A c \in Clients : pc[c] = "using" <=> held[c] # NULL

\* The inductive invariant.  OwnedExactlyOnce needs UsingIffHeld, so that a client
\* that takes a connection does not drop another one; CountExact needs
\* OwnedExactlyOnce, so that the connection the scanner deletes was counted;
\* WithinLimits and the type of the counter need CountExact; HeadIsOldest needs
\* OwnedExactlyOnce, so that refreshing a connection changes no queued one.
IInv == TypeOK /\ UsingIffHeld /\ OwnedExactlyOnce /\ CountExact /\ WithinLimits /\ HeadIsOldest

\* CreateConnection (constructor and producer) adds one connection, counts it, and
\* puts it at the back with idle time 0.
LEMMA CreateFacts ==
    ASSUME IInv, CreateConnection, UNCHANGED held
    PROVE  /\ connetionQueue' \in Seq(Conns)
           /\ connectionCnt' = connectionCnt + 1
           /\ live' \in SUBSET Conns
           /\ link' \in [Conns -> LinkStates]
           /\ alive' \in [Conns -> 0..IdleLimit]
           /\ OwnedExactlyOnce'
           /\ CountExact'
           /\ HeadIsOldest'
<1> USE DEF IInv
<1>1. PICK p \in Conns \ live, l \in AfterConnect :
          /\ live' = live \cup {p}
          /\ link' = [link EXCEPT ![p] = l]
          /\ alive' = [alive EXCEPT ![p] = 0]
          /\ connetionQueue' = Append(connetionQueue, p)
          /\ connectionCnt' = connectionCnt + 1
  BY DEF CreateConnection, RefreshAliveTime
<1>2. /\ connetionQueue \in Seq(Conns)
      /\ alive \in [Conns -> 0..IdleLimit]
      /\ link \in [Conns -> LinkStates]
      /\ live \in SUBSET Conns
      /\ held \in [Clients -> Conns \cup {NULL}]
      /\ IdleLimit \in Nat
  BY PoolAssumption DEF TypeOK
<1>3. l \in LinkStates
  BY DEF AfterConnect, LinkStates
<1>4. /\ Idle = SeqRange(connetionQueue) /\ Idle' = SeqRange(connetionQueue')
      /\ Distinct(connetionQueue) /\ p \notin Idle /\ p \notin Held
  BY DEF Idle, SeqRange, Distinct, OwnedExactlyOnce
<1>5. /\ connetionQueue' \in Seq(Conns)
      /\ Idle' = Idle \cup {p}
      /\ Distinct(connetionQueue')
  BY <1>1, <1>2, <1>4, PushFacts
<1>6. link' \in [Conns -> LinkStates] /\ alive' \in [Conns -> 0..IdleLimit] /\ live' \in SUBSET Conns
  BY <1>1, <1>2, <1>3
<1>7. OwnedExactlyOnce'
  <2>1. Held' = Held
    BY DEF Held
  <2> QED BY <1>1, <1>4, <1>5, <2>1 DEF OwnedExactlyOnce, Distinct
<1>8. CountExact'
  BY <1>1, FS_AddElement DEF CountExact
<1>9. HeadIsOldest'
  <2>1. \A i \in 1..Len(connetionQueue') :
            \/ /\ i \in 1..Len(connetionQueue)
               /\ connetionQueue'[i] = connetionQueue[i]
               /\ alive'[connetionQueue'[i]] = alive[connetionQueue[i]]
            \/ i = Len(connetionQueue) + 1 /\ alive'[connetionQueue'[i]] = 0
    <3>1. /\ Len(connetionQueue') = Len(connetionQueue) + 1
          /\ \A i \in 1..Len(connetionQueue) : connetionQueue'[i] = connetionQueue[i]
          /\ connetionQueue'[Len(connetionQueue) + 1] = p
          /\ Len(connetionQueue) \in Nat
      BY <1>1, <1>2, AppendProperties, LenProperties
    <3>2. \A i \in 1..Len(connetionQueue) : connetionQueue[i] \in Conns /\ connetionQueue[i] # p
      BY <1>2, <1>4, ElementOfSeq DEF Idle
    <3> QED BY <3>1, <3>2, <1>1, <1>2
  <2>2. \A i \in 1..Len(connetionQueue) : alive[connetionQueue[i]] \in Nat
    BY <1>2, ElementOfSeq
  <2>3. Len(connetionQueue) \in Nat
    BY <1>2, LenProperties
  <2> QED BY <2>1, <2>2, <2>3, SMTT(30) DEF HeadIsOldest
<1> QED BY <1>1, <1>5, <1>6, <1>7, <1>8, <1>9

\* A pop (getConnection and scanner) takes exactly the front out of the idle
\* connections, and leaves the rest in order.
LEMMA TakeFrontFacts ==
    ASSUME IInv, connetionQueue # <<>>, Pop,
           \A p \in Conns \ {Head(connetionQueue)} : alive'[p] = alive[p]
    PROVE  /\ connetionQueue' \in Seq(Conns)
           /\ Head(connetionQueue) \in Conns
           /\ Head(connetionQueue) \in Idle
           /\ Idle' = Idle \ {Head(connetionQueue)}
           /\ Distinct(connetionQueue')
           /\ HeadIsOldest'
<1> DEFINE h == Head(connetionQueue)
<1>1. connetionQueue \in Seq(Conns) /\ connetionQueue' = Tail(connetionQueue)
  BY DEF IInv, TypeOK, Pop
<1>2. /\ Idle = SeqRange(connetionQueue) /\ Idle' = SeqRange(connetionQueue')
      /\ Distinct(connetionQueue)
  BY DEF IInv, Idle, SeqRange, Distinct, OwnedExactlyOnce
<1>3. /\ connetionQueue' \in Seq(Conns)
      /\ h \in Conns
      /\ h \in Idle
      /\ Idle' = Idle \ {h}
      /\ Distinct(connetionQueue')
      /\ Len(connetionQueue') = Len(connetionQueue) - 1
      /\ \A i \in 1..Len(connetionQueue') :
             i + 1 \in 1..Len(connetionQueue) /\ connetionQueue'[i] = connetionQueue[i + 1]
  BY <1>1, <1>2, PopFacts
<1>4. ASSUME NEW i \in 1..Len(connetionQueue')
      PROVE  connetionQueue'[i] \in Conns \ {h}
  <2>1. connetionQueue'[i] \in Conns
    BY <1>3, ElementOfSeq
  <2>2. connetionQueue'[i] \in Idle'
    BY DEF Idle
  <2> QED BY <1>3, <2>1, <2>2
<1>5. \A i \in 1..Len(connetionQueue') : alive'[connetionQueue'[i]] = alive[connetionQueue[i + 1]]
  BY <1>3, <1>4
<1>6. HeadIsOldest'
  <2> SUFFICES ASSUME NEW i \in 1..Len(connetionQueue'), NEW j \in 1..Len(connetionQueue'), i <= j
               PROVE  alive'[connetionQueue'[i]] >= alive'[connetionQueue'[j]]
    BY DEF HeadIsOldest
  <2>1. i + 1 \in 1..Len(connetionQueue) /\ j + 1 \in 1..Len(connetionQueue) /\ i + 1 <= j + 1
    BY <1>3
  <2> QED BY <2>1, <1>5 DEF IInv, HeadIsOldest
<1> QED BY <1>3, <1>6

\* Steps that only move threads about: no connection changes hands.
LEMMA ThreadStep ==
    ASSUME IInv, UNCHANGED <<connetionQueue, objects, held>>,
           phase' = phase \/ phase' # "running" \/ connectionCnt >= initSize,
           phase' \in Phases,
           prod' \in {"off", "ready", "wait"},
           scan' \in {"off", "sleep", "ended"},
           pc' \in [Clients -> {"idle", "wait", "woken", "expired", "using"}],
           \A c \in Clients : pc'[c] = "using" <=> pc[c] = "using",
           spurious' \in 0..MaxSpurious,
           ub' \in BOOLEAN
    PROVE  IInv'
<1>1. TypeOK'
  BY DEF IInv, TypeOK, objects
<1>2. UsingIffHeld'
  BY DEF IInv, UsingIffHeld
<1>3. OwnedExactlyOnce'
  BY DEF IInv, OwnedExactlyOnce, Idle, Held, objects
<1>4. CountExact' /\ WithinLimits' /\ HeadIsOldest'
  BY DEF IInv, CountExact, WithinLimits, HeadIsOldest, objects
<1> QED BY <1>1, <1>2, <1>3, <1>4 DEF IInv

\* What notify_all does to the threads that wait on cv.
LEMMA NotifyAllFacts ==
    ASSUME NEW f \in [Clients -> {"idle", "wait", "woken", "expired", "using"}],
           prod \in {"off", "ready", "wait"},
           NotifyAll(f)
    PROVE  /\ pc' \in [Clients -> {"idle", "wait", "woken", "expired", "using"}]
           /\ prod' \in {"off", "ready", "wait"}
           /\ \A c \in Clients : pc'[c] = "using" <=> f[c] = "using"
BY DEF NotifyAll

-----------------------------------------------------------------------------
\* Before the constructor runs there is no connection, and no thread has one.
LEMMA InitIInv == Init => IInv
<1> SUFFICES ASSUME Init PROVE IInv
  OBVIOUS
<1>1. connetionQueue \in Seq(Conns) /\ Len(connetionQueue) = 0
  BY EmptySeq DEF Init
<1>2. TypeOK
  <2>1. phase \in Phases /\ connectionCnt \in Nat /\ live \in SUBSET Conns /\ ub \in BOOLEAN
    BY DEF Init, Phases
  <2>2. link \in [Conns -> LinkStates] /\ alive \in [Conns -> 0..IdleLimit]
    BY PoolAssumption DEF Init, LinkStates
  <2>3. prod \in {"off", "ready", "wait"} /\ scan \in {"off", "sleep", "ended"}
    BY DEF Init
  <2>4. pc \in [Clients -> {"idle", "wait", "woken", "expired", "using"}]
    BY DEF Init
  <2>5. held \in [Clients -> Conns \cup {NULL}] /\ spurious \in 0..MaxSpurious
    BY PoolAssumption DEF Init
  <2> QED BY <1>1, <2>1, <2>2, <2>3, <2>4, <2>5 DEF TypeOK
<1>3. UsingIffHeld
  BY DEF Init, UsingIffHeld
<1>4. OwnedExactlyOnce
  BY <1>1 DEF Init, OwnedExactlyOnce, Idle, Held
<1>5. CountExact
  BY FS_EmptySet DEF Init, CountExact
<1>6. WithinLimits /\ HeadIsOldest
  BY <1>1, PoolAssumption DEF Init, WithinLimits, HeadIsOldest
<1> QED BY <1>2, <1>3, <1>4, <1>5, <1>6 DEF IInv

\* The constructor creates the first connections before any other thread runs.
LEMMA ConstructIInv == IInv /\ Construct => IInv'
<1> SUFFICES ASSUME IInv, Construct PROVE IInv'
  OBVIOUS
<1>1. CASE LoadConfigFails \/ LoadConfigFile \/ StartThreads
  <2>1. /\ UNCHANGED <<connetionQueue, objects, held, pc, spurious, ub>>
        /\ phase' # "running" \/ connectionCnt >= initSize
        /\ phase' \in Phases
        /\ prod' \in {"off", "ready", "wait"}
        /\ scan' \in {"off", "sleep", "ended"}
    BY <1>1 DEF LoadConfigFails, LoadConfigFile, StartThreads, IInv, TypeOK, Phases
  <2> QED BY <2>1, ThreadStep DEF IInv, TypeOK
<1>2. CASE CreateInitial
  <2>1. /\ CreateConnection /\ connectionCnt < initSize
        /\ UNCHANGED <<phase, spurious, ub, prod, scan, pc, held>>
    BY <1>2 DEF CreateInitial, rest
  <2>2. /\ connetionQueue' \in Seq(Conns)
        /\ connectionCnt' = connectionCnt + 1
        /\ live' \in SUBSET Conns
        /\ link' \in [Conns -> LinkStates]
        /\ alive' \in [Conns -> 0..IdleLimit]
        /\ OwnedExactlyOnce' /\ CountExact' /\ HeadIsOldest'
    BY <2>1, CreateFacts
  <2>3. TypeOK' /\ UsingIffHeld'
    BY <2>1, <2>2 DEF IInv, TypeOK, UsingIffHeld
  <2>4. WithinLimits'
    BY <2>1, <2>2, PoolAssumption DEF IInv, TypeOK, WithinLimits
  <2> QED BY <2>2, <2>3, <2>4 DEF IInv
<1> QED BY <1>1, <1>2 DEF Construct

\* The producer adds one connection, or none, and wakes the waiting threads.
LEMMA ProducerIInv == IInv /\ ProduceConnectionTask => IInv'
<1> SUFFICES ASSUME IInv, ProduceConnectionTask PROVE IInv'
  OBVIOUS
<1>0. /\ pc \in [Clients -> {"idle", "wait", "woken", "expired", "using"}]
      /\ prod \in {"off", "ready", "wait"}
  BY DEF IInv, TypeOK
<1>1. CASE ProducerWaits
  BY <1>1, ThreadStep DEF ProducerWaits, IInv, TypeOK, rest
<1>2. CASE ProducerAtLimit
  <2>1. NotifyAll(pc) /\ UNCHANGED <<connetionQueue, objects, held, phase, spurious, ub, scan>>
    BY <1>2 DEF ProducerAtLimit, rest
  <2> QED BY <1>0, <2>1, NotifyAllFacts, ThreadStep DEF IInv, TypeOK
<1>3. CASE ProducerProduces
  <2>1. /\ CreateConnection /\ connectionCnt < maxSize /\ NotifyAll(pc)
        /\ UNCHANGED <<phase, spurious, ub, scan, held>>
    BY <1>3 DEF ProducerProduces, BelowMax, rest
  <2>2. /\ connetionQueue' \in Seq(Conns)
        /\ connectionCnt' = connectionCnt + 1
        /\ live' \in SUBSET Conns
        /\ link' \in [Conns -> LinkStates]
        /\ alive' \in [Conns -> 0..IdleLimit]
        /\ OwnedExactlyOnce' /\ CountExact' /\ HeadIsOldest'
    BY <2>1, CreateFacts
  <2>3. TypeOK' /\ UsingIffHeld'
    BY <1>0, <2>1, <2>2, NotifyAllFacts DEF IInv, TypeOK, UsingIffHeld
  <2>4. WithinLimits'
    BY <2>1, <2>2, PoolAssumption DEF IInv, TypeOK, WithinLimits
  <2> QED BY <2>2, <2>3, <2>4 DEF IInv
<1> QED BY <1>1, <1>2, <1>3 DEF ProduceConnectionTask

\* getConnection(): the front moves from the queue to the client.
LEMMA TakeIInv ==
    ASSUME IInv, NEW c \in Clients, TakeConnection(c)
    PROVE  IInv'
<1> DEFINE h == Head(connetionQueue)
<1> DEFINE f == [pc EXCEPT ![c] = "using"]
<1>1. /\ pc[c] # "using" /\ connetionQueue # <<>>
      /\ held' = [held EXCEPT ![c] = h]
      /\ Pop /\ NotifyAll(f)
      /\ UNCHANGED <<phase, spurious, ub, connectionCnt, live, link, alive, scan>>
  BY DEF TakeConnection, rest, objects
<1>2. /\ pc \in [Clients -> {"idle", "wait", "woken", "expired", "using"}]
      /\ prod \in {"off", "ready", "wait"}
      /\ held \in [Clients -> Conns \cup {NULL}]
      /\ NULL \notin Conns
  BY PoolAssumption DEF IInv, TypeOK
<1>3. /\ connetionQueue' \in Seq(Conns)
      /\ h \in Conns /\ h \in Idle
      /\ Idle' = Idle \ {h}
      /\ Distinct(connetionQueue')
      /\ HeadIsOldest'
  BY <1>1, TakeFrontFacts
<1>4. f \in [Clients -> {"idle", "wait", "woken", "expired", "using"}]
  BY <1>2
<1>5. /\ pc' \in [Clients -> {"idle", "wait", "woken", "expired", "using"}]
      /\ prod' \in {"off", "ready", "wait"}
      /\ \A d \in Clients : pc'[d] = "using" <=> f[d] = "using"
  BY <1>1, <1>2, <1>4, NotifyAllFacts
<1>6. held[c] = NULL /\ held' \in [Clients -> Conns \cup {NULL}]
  BY <1>1, <1>2, <1>3 DEF IInv, UsingIffHeld
<1>7. TypeOK'
  BY <1>1, <1>3, <1>5, <1>6 DEF IInv, TypeOK
<1>8. UsingIffHeld'
  BY <1>1, <1>2, <1>3, <1>5 DEF IInv, UsingIffHeld
<1>9. OwnedExactlyOnce'
  <2>1. Held' = Held \cup {h}
    BY <1>1, <1>2, <1>3, <1>6 DEF Held
  <2>2. h \notin Held
    BY <1>3 DEF IInv, OwnedExactlyOnce
  <2>3. \A a, b \in Clients : held'[a] = held'[b] /\ held'[a] # NULL => a = b
    BY <1>1, <1>2, <1>3, <2>2 DEF IInv, OwnedExactlyOnce, Held
  <2> QED BY <1>1, <1>3, <2>1, <2>2, <2>3 DEF IInv, OwnedExactlyOnce, Distinct
<1>10. CountExact' /\ WithinLimits'
  BY <1>1 DEF IInv, CountExact, WithinLimits
<1> QED BY <1>3, <1>7, <1>8, <1>9, <1>10 DEF IInv

\* The deleter of the shared_ptr: the connection moves from the client to the back of
\* the queue, with idle time 0.
LEMMA ReleaseIInv ==
    ASSUME IInv, NEW c \in Clients, ReleaseConnection(c)
    PROVE  IInv'
<1> DEFINE h == held[c]
<1>1. /\ pc[c] = "using"
      /\ alive' = [alive EXCEPT ![h] = 0]
      /\ connetionQueue' = Append(connetionQueue, h)
      /\ held' = [held EXCEPT ![c] = NULL]
      /\ pc' = [pc EXCEPT ![c] = "idle"]
      /\ UNCHANGED <<phase, spurious, ub, connectionCnt, live, link, prod, scan>>
  BY DEF ReleaseConnection, RefreshAliveTime, rest
<1>2. /\ connetionQueue \in Seq(Conns)
      /\ alive \in [Conns -> 0..IdleLimit]
      /\ held \in [Clients -> Conns \cup {NULL}]
      /\ pc \in [Clients -> {"idle", "wait", "woken", "expired", "using"}]
      /\ IdleLimit \in Nat
      /\ NULL \notin Conns
  BY PoolAssumption DEF IInv, TypeOK
<1>3. h \in Conns /\ h \in Held /\ h # NULL
  BY <1>1, <1>2 DEF IInv, UsingIffHeld, Held
<1>4. /\ Idle = SeqRange(connetionQueue) /\ Idle' = SeqRange(connetionQueue')
      /\ Distinct(connetionQueue) /\ h \notin Idle
  BY <1>3 DEF IInv, Idle, SeqRange, Distinct, OwnedExactlyOnce
<1>5. /\ connetionQueue' \in Seq(Conns)
      /\ Idle' = Idle \cup {h}
      /\ Distinct(connetionQueue')
  BY <1>1, <1>2, <1>3, <1>4, PushFacts
<1>6. TypeOK'
  <2>1. alive' \in [Conns -> 0..IdleLimit]
    BY <1>1, <1>2, <1>3
  <2>3. held' \in [Clients -> Conns \cup {NULL}]
    BY <1>1, <1>2
  <2>2. pc' \in [Clients -> {"idle", "wait", "woken", "expired", "using"}]
    BY <1>1, <1>2
  <2> QED BY <1>1, <1>5, <2>1, <2>2, <2>3 DEF IInv, TypeOK
<1>7. UsingIffHeld'
  BY <1>1, <1>2 DEF IInv, UsingIffHeld
<1>8. OwnedExactlyOnce'
  <2>1. Held' = Held \ {h}
    BY <1>1, <1>2, <1>3 DEF IInv, OwnedExactlyOnce, Held
  <2>2. \A a, b \in Clients : held'[a] = held'[b] /\ held'[a] # NULL => a = b
    BY <1>1, <1>2 DEF IInv, OwnedExactlyOnce
  <2> QED BY <1>1, <1>3, <1>5, <2>1, <2>2 DEF IInv, OwnedExactlyOnce, Distinct
<1>9. CountExact' /\ WithinLimits'
  BY <1>1 DEF IInv, CountExact, WithinLimits
<1>10. HeadIsOldest'
  <2>1. /\ Len(connetionQueue') = Len(connetionQueue) + 1
        /\ \A i \in 1..Len(connetionQueue) : connetionQueue'[i] = connetionQueue[i]
        /\ connetionQueue'[Len(connetionQueue) + 1] = h
        /\ Len(connetionQueue) \in Nat
    BY <1>1, <1>2, <1>3, AppendProperties, LenProperties
  <2>2. \A i \in 1..Len(connetionQueue) : connetionQueue[i] \in Conns /\ connetionQueue[i] # h
    BY <1>2, <1>4, ElementOfSeq DEF Idle
  <2>3. \A i \in 1..Len(connetionQueue) :
            /\ alive'[connetionQueue'[i]] = alive[connetionQueue[i]]
            /\ alive[connetionQueue[i]] \in Nat
    BY <1>1, <1>2, <2>1, <2>2
  <2>4. alive'[connetionQueue'[Len(connetionQueue) + 1]] = 0
    BY <1>1, <1>2, <1>3, <2>1
  <2> QED BY <2>1, <2>3, <2>4 DEF IInv, HeadIsOldest
<1> QED BY <1>6, <1>7, <1>8, <1>9, <1>10 DEF IInv

\* The client's steps that move no connection: a wait, its end, and the use of the
\* connection it owns.
LEMMA ClientIInv ==
    ASSUME IInv, NEW c \in Clients, ClientStep(c)
    PROVE  IInv'
<1>0. /\ pc \in [Clients -> {"idle", "wait", "woken", "expired", "using"}]
      /\ link \in [Conns -> LinkStates]
      /\ held \in [Clients -> Conns \cup {NULL}]
  BY DEF IInv, TypeOK
<1>1. CASE AwaitConnection(c) \/ GiveUp(c) \/ WaitExpires(c)
  <2>1. /\ UNCHANGED <<connetionQueue, objects, held, phase, spurious, ub, prod, scan>>
        /\ pc[c] # "using"
        /\ \E x \in {"idle", "wait", "expired"} : pc' = [pc EXCEPT ![c] = x]
    BY <1>1 DEF AwaitConnection, GiveUp, WaitExpires, rest
  <2>2. /\ pc' \in [Clients -> {"idle", "wait", "woken", "expired", "using"}]
        /\ \A d \in Clients : pc'[d] = "using" <=> pc[d] = "using"
    BY <1>0, <2>1
  <2> QED BY <2>1, <2>2, ThreadStep DEF IInv, TypeOK
<1>2. CASE UseConnection(c)
  <2>1. /\ UNCHANGED <<connetionQueue, connectionCnt, live, alive, held, phase, spurious, ub, prod, scan, pc>>
        /\ \E l : /\ l \in AfterQuery(link[held[c]]) \cup AfterUpdate(link[held[c]])
                              \cup {AfterFreeResult(link[held[c]])}
                  /\ link' = [link EXCEPT ![held[c]] = l]
    BY <1>2 DEF UseConnection, rest
  <2>2. held[c] \in Conns
    BY <1>0, <1>2 DEF UseConnection, IInv, UsingIffHeld
  <2>3. link' \in [Conns -> LinkStates]
    BY <1>0, <2>1, <2>2 DEF AfterQuery, AfterUpdate, AfterFreeResult, LinkStates
  <2>4. TypeOK' /\ UsingIffHeld'
    BY <2>1, <2>3 DEF IInv, TypeOK, UsingIffHeld
  <2>5. OwnedExactlyOnce'
    BY <2>1 DEF IInv, OwnedExactlyOnce, Idle, Held
  <2>6. CountExact' /\ WithinLimits' /\ HeadIsOldest'
    BY <2>1 DEF IInv, CountExact, WithinLimits, HeadIsOldest
  <2> QED BY <2>4, <2>5, <2>6 DEF IInv
<1> QED BY <1>1, <1>2, TakeIInv, ReleaseIInv DEF ClientStep

\* The scanner: the front leaves the queue, the heap and the count together.
LEMMA ScannerIInv == IInv /\ ScannerConnectionTask => IInv'
<1> SUFFICES ASSUME IInv, ScannerConnectionTask PROVE IInv'
  OBVIOUS
<1>1. CASE ScannerIdles \/ ScannerReadsEmptyQueue \/ ScannerBreaks
  <2>1. /\ UNCHANGED <<connetionQueue, objects, held, phase, spurious, prod, pc>>
        /\ scan' \in {"off", "sleep", "ended"}
    BY <1>1 DEF ScannerIdles, ScannerReadsEmptyQueue, ScannerBreaks, vars, objects, rest, IInv, TypeOK
  <2>2. ub' \in BOOLEAN
    BY <1>1 DEF ScannerIdles, ScannerReadsEmptyQueue, ScannerBreaks, vars, rest, IInv, TypeOK
  <2> QED BY <2>1, <2>2, ThreadStep DEF IInv, TypeOK
<1>2. CASE ScannerReclaims
  <2> DEFINE h == Head(connetionQueue)
  <2>1. /\ connectionCnt > initSize /\ connetionQueue # <<>>
        /\ Pop
        /\ live' = live \ {h}
        /\ link' = [link EXCEPT ![h] = "none"]
        /\ alive' = [alive EXCEPT ![h] = 0]
        /\ connectionCnt' = connectionCnt - 1
        /\ UNCHANGED <<phase, spurious, ub, prod, scan, pc, held>>
    BY <1>2 DEF ScannerReclaims, AboveInit, DeleteConnection, AfterDelete, rest
  <2>2. /\ alive \in [Conns -> 0..IdleLimit]
        /\ link \in [Conns -> LinkStates]
        /\ connectionCnt \in Nat
        /\ IdleLimit \in Nat /\ initSize \in Int /\ maxSize \in Int
    BY PoolAssumption DEF IInv, TypeOK
  <2>3. \A p \in Conns \ {h} : alive'[p] = alive[p]
    BY <2>1, <2>2
  <2>4. /\ connetionQueue' \in Seq(Conns)
        /\ h \in Conns /\ h \in Idle
        /\ Idle' = Idle \ {h}
        /\ Distinct(connetionQueue')
        /\ HeadIsOldest'
    BY <2>1, <2>3, TakeFrontFacts
  <2>5. h \in live /\ h \notin Held /\ Held' = Held
    BY <2>1, <2>4 DEF IInv, OwnedExactlyOnce, Held
  <2>6. CountExact' /\ connectionCnt' \in Nat
    <3>1. /\ IsFiniteSet(live')
          /\ Cardinality(live') = Cardinality(live) - 1
          /\ Cardinality(live') \in Nat
      BY <2>1, <2>5, FS_RemoveElement, FS_CardinalityType DEF IInv, CountExact
    <3> QED BY <2>1, <3>1 DEF IInv, CountExact
  <2>7. TypeOK'
    <3>1. link' \in [Conns -> LinkStates]
      BY <2>1, <2>2 DEF LinkStates
    <3>2. alive' \in [Conns -> 0..IdleLimit]
      BY <2>1, <2>2, <2>4
    <3> QED BY <2>1, <2>4, <2>6, <3>1, <3>2 DEF IInv, TypeOK
  <2>8. UsingIffHeld'
    BY <2>1 DEF IInv, UsingIffHeld
  <2>9. OwnedExactlyOnce'
    BY <2>1, <2>4, <2>5 DEF IInv, OwnedExactlyOnce, Distinct
  <2>10. WithinLimits'
    BY <2>1, <2>2 DEF IInv, WithinLimits
  <2> QED BY <2>4, <2>6, <2>7, <2>8, <2>9, <2>10 DEF IInv
<1> QED BY <1>1, <1>2 DEF ScannerConnectionTask

\* Time passes for all connections alike, so the order of the queue stays.
LEMMA TickIInv == IInv /\ Tick => IInv'
<1> SUFFICES ASSUME IInv, Tick PROVE IInv'
  OBVIOUS
<1>1. /\ alive' = [p \in Conns |-> IF p \in live /\ alive[p] < IdleLimit
                                   THEN alive[p] + 1 ELSE alive[p]]
      /\ UNCHANGED <<phase, spurious, ub, connetionQueue, connectionCnt, live, link, prod, scan, pc, held>>
  BY DEF Tick, rest
<1>2. /\ alive \in [Conns -> 0..IdleLimit] /\ IdleLimit \in Nat
      /\ connetionQueue \in Seq(Conns)
  BY PoolAssumption DEF IInv, TypeOK
<1>3. TypeOK'
  <2>1. alive' \in [Conns -> 0..IdleLimit]
    BY <1>1, <1>2
  <2> QED BY <1>1, <2>1 DEF IInv, TypeOK
<1>4. UsingIffHeld' /\ CountExact' /\ WithinLimits'
  BY <1>1 DEF IInv, UsingIffHeld, CountExact, WithinLimits
<1>5. OwnedExactlyOnce'
  BY <1>1 DEF IInv, OwnedExactlyOnce, Idle, Held
<1>6. HeadIsOldest'
  <2>1. \A i \in 1..Len(connetionQueue) : connetionQueue[i] \in Conns /\ connetionQueue[i] \in live
    BY <1>2, ElementOfSeq DEF IInv, OwnedExactlyOnce, Idle
  <2>2. \A i \in 1..Len(connetionQueue) :
            /\ alive[connetionQueue[i]] \in 0..IdleLimit
            /\ alive'[connetionQueue[i]] = IF alive[connetionQueue[i]] < IdleLimit
                                           THEN alive[connetionQueue[i]] + 1
                                           ELSE alive[connetionQueue[i]]
    BY <1>1, <1>2, <2>1
  <2> QED BY <1>1, <1>2, <2>2, SMTT(30) DEF IInv, HeadIsOldest
<1> QED BY <1>3, <1>4, <1>5, <1>6 DEF IInv

\* A spurious wakeup moves one waiting thread.
LEMMA SpuriousIInv == IInv /\ SpuriousWakeup => IInv'
<1> SUFFICES ASSUME IInv, SpuriousWakeup PROVE IInv'
  OBVIOUS
<1>1. /\ pc \in [Clients -> {"idle", "wait", "woken", "expired", "using"}]
      /\ prod \in {"off", "ready", "wait"}
      /\ spurious \in 0..MaxSpurious /\ MaxSpurious \in Nat
  BY PoolAssumption DEF IInv, TypeOK
<1>2. /\ UNCHANGED <<connetionQueue, objects, held, phase, ub, scan>>
      /\ spurious < MaxSpurious /\ spurious' = spurious + 1
  BY DEF SpuriousWakeup
<1>3. spurious' \in 0..MaxSpurious
  BY <1>1, <1>2
<1>4. /\ pc' \in [Clients -> {"idle", "wait", "woken", "expired", "using"}]
      /\ prod' \in {"off", "ready", "wait"}
      /\ \A c \in Clients : pc'[c] = "using" <=> pc[c] = "using"
  BY <1>1 DEF SpuriousWakeup
<1> QED BY <1>2, <1>3, <1>4, ThreadStep DEF IInv, TypeOK

\* IInv is inductive: every step of every thread preserves it.
LEMMA NextIInv == IInv /\ [Next]_vars => IInv'
<1> SUFFICES ASSUME IInv, [Next]_vars PROVE IInv'
  OBVIOUS
<1>1. CASE UNCHANGED vars
  BY <1>1, ThreadStep DEF vars, objects, IInv, TypeOK
<1>2. CASE Next
  BY <1>2, ConstructIInv, ProducerIInv, ScannerIInv, ClientIInv, TickIInv, SpuriousIInv DEF Next, Step
<1> QED BY <1>1, <1>2

\* The inductive invariant holds in every reachable state.
LEMMA Invariance == Spec => []IInv
<1>1. Init => IInv
  BY InitIInv
<1>2. IInv /\ [Next]_vars => IInv'
  BY NextIInv
<1> QED BY <1>1, <1>2, PTL DEF Spec

-----------------------------------------------------------------------------
\* Every variable keeps its type: in particular _connectionCnt is never negative and
\* no NULL enters the queue.
THEOREM TypeCorrect == Spec => []TypeOK
<1>1. IInv => TypeOK
  BY DEF IInv
<1> QED BY <1>1, Invariance, PTL

\* No connection is lost, handed out twice, or deleted while it is referred to,
\* whatever the interleaving of getConnection(), the deleter, the producer and
\* the scanner.
THEOREM Ownership == Spec => []OwnedExactlyOnce
<1>1. IInv => OwnedExactlyOnce
  BY DEF IInv
<1> QED BY <1>1, Invariance, PTL

\* _connectionCnt is the number of connections that exist.
THEOREM Counting == Spec => []CountExact
<1>1. IInv => CountExact
  BY DEF IInv
<1> QED BY <1>1, Invariance, PTL

\* The pool's size stays within the configured limits.
THEOREM Limits == Spec => []WithinLimits
<1>1. IInv => WithinLimits
  BY DEF IInv
<1> QED BY <1>1, Invariance, PTL

\* The scanner may stop at the first connection that is too young: none behind it is
\* older.
THEOREM IdleOrder == Spec => []HeadIsOldest
<1>1. IInv => HeadIsOldest
  BY DEF IInv
<1> QED BY <1>1, Invariance, PTL

\* A new connection takes a name that is not in use; the scanner closes what was
\* only in the queue, and takes it out; a client works on what only it holds.
LEMMA NextUndisturbed == IInv /\ [Next]_vars => Undisturbed
<1> SUFFICES ASSUME IInv, [Next]_vars PROVE Undisturbed
  OBVIOUS
<1>0. /\ link \in [Conns -> LinkStates] /\ live \in SUBSET Conns
      /\ connetionQueue \in Seq(Conns)
      /\ held \in [Clients -> Conns \cup {NULL}]
  BY DEF IInv, TypeOK
<1>1. CASE UNCHANGED link
  BY <1>1 DEF Undisturbed
<1>2. CASE CreateConnection
  <2>1. PICK p \in Conns \ live, l \in AfterConnect : link' = [link EXCEPT ![p] = l]
    BY <1>2 DEF CreateConnection
  <2> QED BY <1>0, <2>1 DEF Undisturbed
<1>3. CASE ScannerReclaims
  <2>1. PICK h : h = Head(connetionQueue)
    OBVIOUS
  <2>2. /\ connetionQueue # <<>> /\ connetionQueue' = Tail(connetionQueue)
        /\ live' = live \ {h} /\ link' = [link EXCEPT ![h] = AfterDelete]
    BY <1>3, <2>1 DEF ScannerReclaims, DeleteConnection, Pop
  <2>3. h \in Idle /\ h \notin Held
    <3>1. 1 \in 1..Len(connetionQueue) /\ h = connetionQueue[1]
      BY <1>0, <2>1, <2>2
    <3> QED BY <3>1 DEF Idle, IInv, OwnedExactlyOnce
  <2>4. h \notin Idle'
    <3>1. \A i \in 1..Len(connetionQueue) : connetionQueue[i] = h => i = 1
      BY <1>0, <2>1, <2>2 DEF IInv, OwnedExactlyOnce
    <3>2. \A i \in 1..Len(Tail(connetionQueue)) :
             i + 1 \in 1..Len(connetionQueue) /\ Tail(connetionQueue)[i] = connetionQueue[i + 1]
      BY <1>0, <2>2
    <3> QED BY <2>2, <3>1, <3>2 DEF Idle
  <2>5. \A p \in live : link'[p] # link[p] => p = h
    BY <1>0, <2>2
  <2> QED BY <2>2, <2>3, <2>4, <2>5 DEF Undisturbed
<1>4. ASSUME NEW c \in Clients, UseConnection(c)
      PROVE  Undisturbed
  <2>1. PICK l : link' = [link EXCEPT ![held[c]] = l] /\ live' = live /\ pc[c] = "using"
    BY <1>4 DEF UseConnection
  <2>2. held[c] # NULL /\ held[c] \in live /\ held[c] \in Held
    BY <2>1 DEF IInv, UsingIffHeld, OwnedExactlyOnce, Held
  <2>3. held[c] \notin Idle /\ \A d \in Clients : held[d] = held[c] <=> d = c
    BY <2>2 DEF IInv, OwnedExactlyOnce
  <2>4. \A p \in live : link'[p] # link[p] => p = held[c]
    BY <1>0, <2>1
  <2> QED BY <2>1, <2>2, <2>3, <2>4 DEF Undisturbed
<1>5. CASE UNCHANGED vars
  BY <1>1, <1>5 DEF vars
<1>6. CASE Construct \/ ProduceConnectionTask
  BY <1>1, <1>2, <1>6 DEF Construct, LoadConfigFails, LoadConfigFile, CreateInitial, StartThreads,
       ProduceConnectionTask, ProducerWaits, ProducerProduces, ProducerAtLimit, objects
<1>7. CASE ScannerConnectionTask
  BY <1>1, <1>3, <1>7 DEF ScannerConnectionTask, ScannerIdles, ScannerReadsEmptyQueue,
       ScannerBreaks, objects, vars
<1>8. CASE \E c \in Clients : ClientStep(c)
  BY <1>1, <1>4, <1>8 DEF ClientStep, TakeConnection, AwaitConnection, GiveUp, WaitExpires,
       ReleaseConnection, objects
<1>9. CASE Tick \/ SpuriousWakeup
  BY <1>1, <1>9 DEF Tick, SpuriousWakeup, objects
<1> QED BY <1>5, <1>6, <1>7, <1>8, <1>9 DEF Next, Step

\* No two threads work on one MYSQL handle: a statement is sent only by the one
\* client that holds the connection, and the scanner closes only what nobody
\* holds or can get.
THEOREM Sessions == Spec => OneThreadPerHandle
<1>1. IInv /\ [Next]_vars => [Undisturbed]_vars
  BY NextUndisturbed
<1> QED BY <1>1, Invariance, PTL DEF Spec, OneThreadPerHandle

-----------------------------------------------------------------------------
\* The size the abstract pool sees is the counter the code compares.
LEMMA SizeSeen ==
    ASSUME IInv
    PROVE  RP!All = live /\ RP!Cardinality(RP!All) = connectionCnt
<1>1. RP!InUse = Held
  BY DEF RP!InUse, Held
<1>2. RP!Cardinality(live) = Cardinality(live)
  BY DEF RP!Cardinality, Cardinality
<1> QED BY <1>1, <1>2 DEF IInv, OwnedExactlyOnce, CountExact, RP!All

\* A creation, in the constructor or the producer, is an abstract Create.
LEMMA CreateRefines ==
    ASSUME IInv, CreateConnection, UNCHANGED held,
           connectionCnt < initSize \/ connectionCnt < maxSize
    PROVE  RP!Next
<1>1. PICK p \in Conns \ live : connetionQueue' = Append(connetionQueue, p)
  BY DEF CreateConnection
<1>2. connetionQueue \in Seq(Conns)
  BY DEF IInv, TypeOK
<1>3. Idle' = Idle \cup {p}
  BY <1>1, <1>2, PushFacts DEF Idle, SeqRange
<1>4. connectionCnt \in Nat /\ initSize \in Int /\ maxSize \in Int
  BY PoolAssumption DEF IInv, TypeOK
<1>5. RP!Cardinality(RP!All) < Capacity
  BY <1>4, SizeSeen DEF Capacity
<1>6. p \notin RP!All
  BY SizeSeen
<1>7. RP!Create(p)
  BY <1>3, <1>5, <1>6 DEF RP!Create
<1> QED BY <1>7 DEF RP!Next

\* getConnection() is an abstract Acquire, the deleter an abstract Release, the
\* scanner's reclaim an abstract Destroy; every other step is invisible.
LEMMA StepRefines ==
    ASSUME IInv, [Next]_vars
    PROVE  [RP!Next]_(RP!vars)
<1>1. CASE UNCHANGED <<connetionQueue, held>>
  BY <1>1 DEF RP!vars, Idle
<1>2. CASE CreateInitial \/ ProducerProduces
  <2>1. CreateConnection /\ UNCHANGED held /\ (connectionCnt < initSize \/ connectionCnt < maxSize)
    BY <1>2 DEF CreateInitial, ProducerProduces, BelowMax
  <2> QED BY <2>1, CreateRefines
<1>3. ASSUME NEW c \in Clients, TakeConnection(c)
      PROVE  RP!Next
  <2> DEFINE h == Head(connetionQueue)
  <2>1. /\ pc[c] # "using" /\ connetionQueue # <<>> /\ Pop
        /\ held' = [held EXCEPT ![c] = h] /\ UNCHANGED alive
    BY <1>3 DEF TakeConnection, objects
  <2>2. h \in Conns /\ h \in Idle /\ Idle' = Idle \ {h}
    BY <2>1, TakeFrontFacts
  <2>3. held[c] = NULL
    BY <2>1 DEF IInv, UsingIffHeld
  <2>4. RP!Acquire(c, h)
    BY <2>1, <2>2, <2>3 DEF RP!Acquire
  <2> QED BY <2>2, <2>4 DEF RP!Next
<1>4. ASSUME NEW c \in Clients, ReleaseConnection(c)
      PROVE  RP!Next
  <2>1. /\ pc[c] = "using" /\ connetionQueue' = Append(connetionQueue, held[c])
        /\ held' = [held EXCEPT ![c] = NULL]
    BY <1>4 DEF ReleaseConnection
  <2>2. held[c] # NULL /\ held[c] \in Conns /\ connetionQueue \in Seq(Conns)
    BY <2>1 DEF IInv, TypeOK, UsingIffHeld
  <2>3. Idle' = Idle \cup {held[c]}
    BY <2>1, <2>2, PushFacts DEF Idle, SeqRange
  <2>4. RP!Release(c)
    BY <2>1, <2>2, <2>3 DEF RP!Release
  <2> QED BY <2>4 DEF RP!Next
<1>5. CASE ScannerReclaims
  <2> DEFINE h == Head(connetionQueue)
  <2>1. /\ connectionCnt > initSize /\ connetionQueue # <<>> /\ Pop
        /\ alive' = [alive EXCEPT ![h] = 0] /\ UNCHANGED held
    BY <1>5 DEF ScannerReclaims, AboveInit, DeleteConnection
  <2>2. \A p \in Conns \ {h} : alive'[p] = alive[p]
    BY <2>1 DEF IInv, TypeOK
  <2>3. h \in Conns /\ h \in Idle /\ Idle' = Idle \ {h}
    BY <2>1, <2>2, TakeFrontFacts
  <2>4. RP!Destroy(h)
    BY <2>1, <2>3, SizeSeen DEF RP!Destroy
  <2> QED BY <2>3, <2>4 DEF RP!Next
<1>6. \/ UNCHANGED <<connetionQueue, held>>
      \/ CreateInitial \/ ProducerProduces \/ ScannerReclaims
      \/ \E c \in Clients : TakeConnection(c) \/ ReleaseConnection(c)
  BY DEF vars, Next, Step, Construct, LoadConfigFails, LoadConfigFile, StartThreads,
         ProduceConnectionTask, ProducerWaits, ProducerAtLimit,
         ScannerConnectionTask, ScannerIdles, ScannerReadsEmptyQueue, ScannerBreaks,
         ClientStep, AwaitConnection, GiveUp, WaitExpires, UseConnection,
         Tick, SpuriousWakeup
<1> QED BY <1>1, <1>2, <1>3, <1>4, <1>5, <1>6

\* The connection pool, with its queue, counter, timeouts and threads, implements the
\* abstract pool of resources.
THEOREM Refinement == Spec => ImplementsResourcePool
<1>1. Init => RP!Init
  <2>1. ASSUME Init PROVE Len(connetionQueue) = 0
    BY <2>1, EmptySeq DEF Init
  <2> QED BY <2>1 DEF Init, RP!Init, Idle
<1>2. IInv /\ [Next]_vars => [RP!Next]_(RP!vars)
  BY StepRefines
<1> QED BY <1>1, <1>2, Invariance, PTL DEF Spec, ImplementsResourcePool, RP!Spec
=============================================================================
