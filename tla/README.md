# Verification of the pools in Cmyql

The repository holds three concurrent or stateful libraries of its own — a
MySQL **connection pool**, a **thread pool** in three generations, and a port
of the **nginx memory pool** — next to small demo programs and an unmodified
copy of nginx 1.13.1 kept for reading. This directory contains TLA+ models of
these libraries, TLC configurations that check them on small instances, and
TLAPS proofs of every safety property the passing runs check. `PROJECT.json` lists components, runs,
seeded faults, findings, hazards, theorems, and the source lines behind every
definition.

Paths below are relative to `src/`.

## 1. Inventory

| Component | Source | State | Operations | Status |
|---|---|---|---|---|
| Connection pool | `CommonConnectionPool.{h,cpp}` | queue of idle connections, counter, limits, one mutex, one condition variable `cv` | constructor, `getConnection`, the deleter of the `shared_ptr` it returns, producer thread, scanner thread | modelled, proved |
| MySQL connection | `Connection.{h,cpp}` | link to the server, idle clock | `connect`, `update`, `query`, `refreshAliveTime`, destructor | modelled (state of the link) |
| Configuration loader | `CommonConnectionPool.cpp`, `mysql.cnf` | limits and credentials | `loadConfigFile` | modelled, proved |
| Thread pool with futures | `threadpool/threadpool_new.{h,cpp}` | map of threads, task queue, four atomic counters, one mutex, three condition variables | setters, `start`, `submitTask`, `threadFunc`, destructor | modelled, proved |
| Thread pool with Result objects | `threadpool/threadpool.{h,cpp}` | the same, plus `Task`, `Result`, `Semaphore`, `Any` | the same, plus `Result::get`, `setVal` | modelled, proved |
| First thread pool | `threadpool.{h,cpp}` | vector of threads, queue | `start`, `subMitTask`, `threadFunc`; no shutdown | modelled, proved |
| Memory pool port | `nginx/ngx_mem_pool.{h,cpp}` | list of blocks, `current`, large list, cleanup list | create, palloc, pnalloc, pcalloc, pfree, reset, cleanup_add, destroy | modelled, proved |
| Memory pool stub, demo programs, logging macro, build files | `nginx/ngx_pool/`, `main.cpp` files, `public.h` | none | — | no behaviour of their own |
| nginx 1.13.1 | `nginx/nginx-release-1.13.1/` | — | — | third-party, neither changed nor built here |

### How the parts interact

*Connection pool.* Clients call `getConnection`, which waits on `cv` while the
queue is empty, and hold the result through a `shared_ptr`. Its deleter is a
callback: it runs on the client's thread and pushes the connection back. The
producer, woken through the same `cv`, fills an empty queue up to `_maxSize`.
The scanner wakes periodically and deletes connections that have been idle for
too long, down to `_initSize`. All of them share `_queueMutex` and the counter
`_connectionCnt`. A connection goes from client to client in the state its
last user left it in.

*Thread pool.* The owner configures, starts and destroys the pool. Users call
`submitTask`, which waits up to one second on `notFull_`, and in the cached
mode starts another thread when there are more tasks than idle ones. Workers
wait on `noEmpty_`; in the cached mode they wake every second and leave when
they are surplus and have been idle long enough. The destructor waits on
`exitCond_` until `threads_` is empty. `idleThreadSize_` is changed outside
the mutex too. (`threadpool/CMakeLists.txt` compiles `threadpool.cpp` while
`threadpool/main.cpp` includes `threadpool_new.h`; the model follows
`threadpool_new.*`.)

*Results.* The first two pools take `shared_ptr<Task>` and return a `Result`
by value. Its constructor, run inside `subMitTask` with the pool's mutex held,
stores its own address in the Task (`setResult`). A worker runs
`Task::exec`: it reads that address, runs the task, moves the value into the
`Result` and posts its semaphore; the caller's `get` waits for the post and
moves the value out. The `Result` belongs to the caller's frame, so its life
is not tied to the pool's or the task's.

*Memory pool.* Sequential. Nodes of the large list and of the cleanup list are
themselves small requests, so an operation on a list may create a block, and
any of the mallocs in the middle of an operation may fail.

### What is hard about it

- **Lost wakeups**: a notification is missing in the deleter, in the scanner
  and in the reclaim path of a worker; elsewhere it is sent while its receiver
  is between its check and its wait.
- **Timeouts racing events**: a connection comes back, a task arrives, or room
  appears between the expiry of a timer and the moment the mutex is taken.
- **Counters beside the containers they count**, changed by different threads.
- **Shutdown** while workers are waiting, running, being reclaimed or starting.
- **Raw pointers across threads**: a worker writes into a `Result` in another
  thread's frame, which may be gone, or into that of an earlier submission of
  the same Task.
- **Partial failure and wrap-around** in the memory pool: `size_t`
  differences, blocks refilled from another position after a reset.

What makes each component correct: a connection is owned by exactly one party
and the pool stays within its limits; an accepted task runs exactly once and
submission and destruction terminate; `get` returns the value of its own
submission and nobody writes into a dead `Result`; the settings are those the
file states; memory is given out once between two resets, inside its
block, and large requests are neither leaked nor freed twice.

## 2. Modules

| Module | Role |
|---|---|
| `Connection` | what each operation of a connection leaves the link in |
| `ConnectionPool` | pool, clients, producer, scanner; uses `Connection` |
| `ResourcePool` | abstract promise of a connection pool |
| `ThreadPool` | owner, users, workers |
| `TaskExecutor` | abstract promise of a thread pool |
| `TaskResult` | hand-over of a value: `Task`, `Result`, `Semaphore` |
| `FixedPool` | the first thread pool; uses `TaskResult`, implements `TaskExecutor` |
| `ResultPool` | the second thread pool: `ThreadPool` composed with `TaskResult` |
| `ConfigFile` | `loadConfigFile` |
| `MemPool` | the memory pool |
| `ProofFacts` | lemmas several proofs share: queues, smallest and largest numbers |
| `ConnectionPoolProofs`, `ThreadPoolProofs`, `FixedPoolProofs`, `ResultPoolProofs`, `MemPoolProofs`, `ConfigFileProofs` | theorems about the module of that name |
| `TaskResultProofs` | lemmas about the hand-over, used by the proofs of both pools that have it |
| `MC*` | instances for TLC |

Definitions called *Seeded fault* are not part of any specification; each one
is a plausible mistake that replaces the definition after it, to make sure
that the property named for it in `PROJECT.json` can fail.

### ConnectionPool

`connetionQueue` (spelled as in the code), `connectionCnt` and the limits
`initSize`, `maxSize` are the fields. `live` is the set of `Connection`
objects on the heap, `link` and `alive` their link state and idle clock,
`held` who owns a `shared_ptr`. `pc`, `prod`, `scan` say where each thread is.

| Action | Code |
|---|---|
| `LoadConfigFails`, `LoadConfigFile`, `CreateInitial`, `StartThreads` | constructor |
| `ProducerWaits`, `ProducerProduces`, `ProducerAtLimit` | one pass of `produceConnectionTask` |
| `TakeConnection`, `AwaitConnection`, `GiveUp`, `WaitExpires` | `getConnection`, split at `wait_for` |
| `ReleaseConnection` | the deleter |
| `UseConnection` | `update`, `query`, freeing a result |
| `ScannerIdles`, `ScannerReclaims`, `ScannerBreaks`, `ScannerReadsEmptyQueue` | one pass of `scannerConnectionTask` |
| `Tick`, `SpuriousWakeup` | clock, condition variable |

A critical section up to a wait is one action, since everything shared is
touched under `_queueMutex`. A client woken by a notification may still report
a timeout, because `wait_for` reads the clock after it has the mutex back.
`front()` of an empty queue is undefined behaviour: the flag `ub` is raised
and the model stops there, which is why deadlock is not checked. Idle time is
counted up to `IdleLimit`, the point where the scanner calls it too long.

### ThreadPool

The variables carry the names of the fields. `threads_` is the set of keys of
the map; `worker`, `user`, `owner` say where each thread is; `fate` is what
the future of a task will see; `aged` says that a worker has been idle for
`THREAD_MAX_IDLE_TIME`. `start` is split after its first loop and, for each
thread, between starting it and `idleThreadSize_++`; a worker is split between
running its task and `idleThreadSize_++`; the destructor between clearing
`isPoolRunning_`, which happens before the lock, and the rest.
Comparisons of signed with unsigned values are modelled by what they do
(`HasRoom`, `ShouldGrow`): a negative limit means no limit.

Callers are assumed to respect the protocol: `start` at most once, `submitTask`
not before `start` (in the cached mode not before it has returned, as both
touch `threads_`), no call of `submitTask` during the destructor, tasks that
do not submit tasks themselves.

### TaskResult, FixedPool, ResultPool

A *submission* `s` is one call of `subMitTask` with the Task object
`TaskOf[s]`; its `Result` bears the same name, and its `run()` returns the
value `s`. `result_` is the pointer of each Task object; `life`, `isValid_`,
`any_`, `resLimit_` are the parts of each `Result`; `getter` says where its
owner is in `get`, `exec` where a worker is in `Task::exec`, `reached` what
address it has read. `exec` reads the pointer before it runs the task: since
C++17 (both build files ask for it or for C++20) the object expression of a
call is evaluated before the arguments. `dangling` records that a worker has
touched a dead `Result`; what happens afterwards is undefined and not
modelled. `Any` is its contents.

| Action | Code |
|---|---|
| `Construct` | `Result::Result` with `Task::setResult` |
| `ExecReads`, `ExecStores`, `ExecPosts` | `Task::exec`, `Result::setVal`, `Semaphore::post` |
| `Get`, `GetWakes`, `GetMoves` | `Result::get`, split at the wait and before the move |
| `Drop` | the `Result` goes out of scope |

Callers follow the protocol under which the code works: `get` at most once
for a `Result`; a Task object is submitted again only after `get` has returned
for its earlier submissions (`Settled`); and, unless `EarlyDrop` is set, a
`Result` is destroyed only after `get` has returned.

`FixedPool` gives every submission a thread of its own. It has no close: the
destructor of the first pool is empty. `subMitTask` may be called before
`start`. `setMode` sets a variable nothing reads and is left out.

`ResultPool` takes the actions of `ThreadPool` as they are: apart from the
type of the queue the second version's `start`, setters, `threadFunc` and
destructor are those of the third. What `subMitTask` does at its return is
conjoined to the step that accepts or refuses (`ResultOf`), since the `Result`
is built before the mutex is released, and a worker stays in `exec` while
`TaskResult` takes the steps of `Task::exec`.

### ConfigFile

A file is any sequence over five characters: the name of a string setting, the
name of a numeric one, `=`, a digit and the newline. One pass of the loop is
one action: `fgets` with its buffer, the cut at `=` and at the newline, and
the assignment. `FgetsEnd` and `FgetsEof` say how far `fgets` reads and when
it has met the end of the file. A read that fails never sets `feof`
(`ReadFails`). The reference (`Says`) is stated on the lines of the file,
without buffer or loop. A number is told by its count of leading digits.

### MemPool

`pool` is the record of blocks (`last`, `failed`), `current`, the large list
(`NULL` for a node whose memory was freed), `heap`, what malloc has given
for large requests and was not freed, and `given`, every chunk cut from the
blocks since they were last empty. Positions are offsets in a block. The
private functions are operators from a pool to the set of its outcomes, one of
which is that malloc fails; the public ones are actions. `sizeof` values are those of a 64-bit build. The contents of memory are left
out, and with them the handlers of cleanup entries.

## 3. Runs

Passing runs:

| Run | Bounds | Shows |
|---|---|---|
| `ConnectionPool_correct` | 3 clients, 3 names for up to 2 connections (`initSize` 1, `maxSize` 2), 1 spurious wakeup | `OwnedExactlyOnce`, `CountExact`, `WithinLimits`, `HeadIsOldest`; action property `OneThreadPerHandle`; refinement `ImplementsResourcePool`; `IdleConnectionReachesWaiter`, `UnconfiguredReturns` |
| `ThreadPool_correct` | 2 users, 3 tasks, 2 workers in the fixed mode, 2 or 3 in the cached one, queue limits 1, 0 and none, 1 spurious wakeup | `NoLostWakeup`, `TaskHasOnePlace`, `CountersExact`, `PoolSizeBounded`, `DestroyedWhenQuiet`; refinement `ImplementsTaskExecutor`; `AcceptedTaskRuns`, `SubmitReturns`, `FixedDestructorReturns` |
| `FixedPool_correct` | 3 submissions of 2 Task objects, 2 threads, queue limits 2, 1 and 0 | `OwnValue`, `NoDanglingResult`; `StartedGetReturns`; refinement `ImplementsTaskExecutor` |
| `ResultPool_correct` | 2 users, 3 submissions of 2 Task objects, 1 or 2 workers in the cached mode, 1 in the fixed one, queue limits 1 and 0, 1 spurious wakeup of the pool | `AcceptedIsLinked`, `OwnValue`, `NoDanglingResult`; `GetReturns`, also through the destructor |
| `ConfigFile_correct` | all files of up to 6 characters, a buffer of 6 | `ReadsWhatTheFileSays`; `LoadReturnsEventually` |
| `MemPool_correct` | 96 bytes (`NGX_MIN_POOL_SIZE`), requests of 21 and 40 bytes, up to 8 blocks, 1 large node, 1 cleanup entry, 1 failing request | `InsideBlock`, `NeverGivenTwice`, `LargeListed`, `SkippedHaveFailed` |

Why the bounds are enough: with `initSize` 1 and `maxSize` 2 the pool grows,
reaches its limit and shrinks while three clients compete for what is there,
and a third name lets TLC tell an overrun from a shortage of names. In the fixed mode two workers
leave one after the other when the pool is destroyed, so the destructor wakes,
finds `threads_` not empty and sleeps again; in the cached mode a third worker
is started when two are busy, and all three compete for being the one that is
reclaimed. `ResultPool_correct` starts with one worker, so that growing begins
with the second task. Three tasks exceed every finite queue limit by two. As
tasks are interchangeable, they are submitted in a fixed order (`InOrder`),
which leaves out nothing but other names for the same behaviours. Requests
of 21 bytes leave `last` at unaligned places, among them the one where a
request fits before the alignment and not after it; 40 is above `max` (32) and
therefore large. `current` moves first when the seventh block is added behind
the first one, hence eight blocks. The limit of five nodes in the search for an
empty slot is not reached (`LargeKnown` covers lists of any length). In `FixedPool_correct` and
in `ResultPool_correct` one Task object is submitted twice, next to one that
competes for queue and threads. To leave room for growing, reclaiming and
destruction, the owner of that third submission of `ResultPool_correct` never
calls `get` (`OneAgainBesideAnother`): a `Result` has its own semaphore, so
owners in `get` meet each other only through the Task object they share. Six
characters hold two lines with a setting each, the same
key twice, an empty value, a missing last newline and a line longer than the
buffer of five characters and the terminator; 1024 plays no other role in the
code.

Deadlock is not checked: pools may be destroyed, and the model stops at
undefined behaviour.

Violated, each against what a comment in the code says (quoted in
`PROJECT.json` under `findings`):

| Run | Property | What happens |
|---|---|---|
| `ConnectionPool_producer_asleep` | `ProducerSleepsOnlyBesideIdle` | the scanner pops the last idle connection without notifying; the producer sleeps on beside an empty queue |
| `ConnectionPool_scanner_empty` | `ScannerReadsQueuedOnly` | all connections are handed out; the scanner reads `front()` of an empty queue |
| `ConnectionPool_starved` | `GetConnectionReturns` | at the limit the producer notifies in a loop, and each wakeup starts the full timeout again |
| `ThreadPool_destructor_hangs` | `DestructorReturns` | cached mode: the last worker leaves by the reclaim path, which does not notify `exitCond_` |
| `ResultPool_dead_result` | `NoDanglingResult` | a `Result` is destroyed before its task has run (as in `threadpool/main.cpp`), and the worker writes into it; the flag `isExit_` that should help is part of the dead object |
| `MemPool_unaligned` | `InsideBlock` | a pool of 100 bytes gives out memory beyond its block; `InsideBlock` holds for the aligned size above |

### Fairness

Weak fairness of each thread's own steps: a started thread that can run
eventually does, a mutex starves nobody for ever, timers expire, the
constructor and `start` finish, and tasks terminate. In `submitTask` the
predicate form of `wait_for` uses one absolute deadline, so `SubmitDeadline`
is fair also for a user that is being woken again and again. In
`getConnection` the timeout starts anew after every wakeup, so `WaitExpires`
is fair only for a wait that lasts; that difference is why `SubmitReturns`
holds and `GetConnectionReturns` does not. Nothing is assumed of the callers:
they need not call, return a connection, call `get`, or destroy the pool, and
clocks of idle time need not advance. `get` returns only if the pool was
started, which `StartedGetReturns` says; in `ResultPool` a submission is made
only after `start` was called.

## 4. Proofs

Every safety property of a passing run, refinement included, is a theorem for
all values of the constants that the named assumptions of its module allow.
Some have a hypothesis besides, which the code needs:

| Module | Theorem | States | Hypothesis |
|---|---|---|---|
| `ConnectionPoolProofs` | `TypeCorrect`, `Ownership`, `Counting`, `Limits`, `IdleOrder`, `Sessions` | `TypeOK`, `OwnedExactlyOnce`, `CountExact`, `WithinLimits`, `HeadIsOldest`, `OneThreadPerHandle` | |
| | `Refinement` | `ImplementsResourcePool` | |
| `ThreadPoolProofs` | `TypeCorrect`, `Wakeups`, `OnePlace`, `Counting`, `PoolSize` | `TypeOK`, `NoLostWakeup`, `TaskHasOnePlace`, `CountersExact`, `PoolSizeBounded` | |
| | `QuietDestruction`, `Refinement` | `DestroyedWhenQuiet`, `ImplementsTaskExecutor` | `initThreadSize > 0` |
| `FixedPoolProofs` | `TypeCorrect`, `OwnValues`, `Refinement` | `TypeOK`, `OwnValue`, `ImplementsTaskExecutor` | |
| | `NoDangling` | `NoDanglingResult` | `~EarlyDrop` |
| `ResultPoolProofs` | `ImplementsThreadPool` | the specification of `ThreadPool` | |
| | `Linked`, `OwnValues` | `AcceptedIsLinked`, `OwnValue` | |
| | `NoDangling` | `NoDanglingResult` | `~EarlyDrop` |
| `MemPoolProofs` | `TypeCorrect`, `GivenOnce`, `LargeKnown`, `Skipping` | `TypeOK`, `NeverGivenTwice`, `LargeListed`, `SkippedHaveFailed` | |
| | `Inside` | `InsideBlock` | `AlignedPool` |
| `ConfigFileProofs` | `ReadsTheFile` | `ReadsWhatTheFileSays` | |

The hypotheses cannot be dropped. Without `~EarlyDrop` and `AlignedPool` the
runs `ResultPool_dead_result` and `MemPool_unaligned` are counterexamples.
`initThreadSize > 0` came out of the attempt to prove `DestroyedWhenQuiet`: a
pool started with no thread in the fixed mode accepts a task that nobody will
run, and its destructor, which waits for `threads_` to be empty, returns at
once with the task still queued. `start` takes any `int`, with 4 as its
default, and does not check it.

### Connection pool

The inductive invariant `IInv` is the conjunction of the first five properties with
`UsingIffHeld`: a client owns a connection exactly when it is past
`getConnection` and before the deleter. That part is needed since
`ReleaseConnection` is guarded by where the client is and pushes what it
holds; without it the deleter might push `NULL`, or `TakeConnection` overwrite
a connection. `OwnedExactlyOnce` carries `CountExact` (a created name is not
in use, a deleted one was), and both carry `WithinLimits`: the comparisons are
made on the counter, the promise is about the connections. `HeadIsOldest`
needs the queue to hold every connection at most once, because refreshing a
connection while it is also elsewhere in the queue would break the order.
The proof has one lemma per thread (`ConstructIInv`, `ProducerIInv`,
`TakeIInv`, `ReleaseIInv`, `ClientIInv`, `ScannerIInv`, `TickIInv`,
`SpuriousIInv`) on top of facts about pushing to and popping from the queue.
`Sessions` is an action property and follows from `IInv` step by step: only
creation, a statement and the scanner change a link, and `OwnedExactlyOnce`
says who else could refer to the connection in each case; for the scanner the
queue must hold it only once, or it would still be there after the pop.
`Refinement` maps `idle` to the contents of the queue and `owner` to `held`;
every step creates, acquires, releases or destroys one connection, or stutters.

### Thread pool

`IInv` is `TypeOK`, `NoLostWakeup` and four parts. `PhaseOK` ties
`isPoolRunning_` and the users to where the owner is in its calls; it is needed
because counters are promised to be exact only while the pool runs and users
are inside `submitTask` only then. `ThreadsOK` says which threads exist:
`threads_` are those made and not yet gone, and at most one thread is made for
each accepted task, which is why a fresh id is always an unused one. `SizesOK`
holds the counters; `curThreadSize_` is exact also after the destructor has
begun as long as a task is queued, since until then threads leave by being
reclaimed only. `DestroyedWhenQuiet` rests on that: beside a queued task at
least `initThreadSize` threads are left, so `threads_` is not empty and the
destructor waits. `PlacesOK` is `TaskHasOnePlace` without cardinalities, in the
form a step keeps. `NoLostWakeup` needs the rest to know that a sleeping worker
and a queued task are not created by one step together: each push notifies
under the mutex, and each pop that leaves a task behind passes the
notification on. `Refinement` maps the queue, the running and the finished
tasks and the close of the pool to those of `TaskExecutor`.

### Hand-over of results

`TaskResultProofs` has no specification to prove things about; its lemmas say
which operation keeps `HandInv` and what the calling pool owes it: a Task
object is submitted only when it is `Settled`, only accepted submissions are
executed, each once. `HandInv` follows a `Result` through its life. Until the
post (`BeforePost`) the Task points to this `Result`, `exec` has read this
address, the semaphore is at zero and the owner has not passed it; after the
post (`AfterPost`) exactly one of value waiting, value being moved, value taken
holds. `OwnValue` by itself is not inductive: it says nothing of a value that
is still on its way.

`FixedPoolProofs` adds that a submission is queued or executed once
(`QueuedOK`, `RunningOK`) and that one still waiting for room has no `Result`
and a settled Task. `ResultPoolProofs` takes `IInv` of the thread pool as it
is, because `ImplementsThreadPool` shows that the steps of the composition are
steps of `ThreadPool` or leave its variables alone; `LinkInv` ties the fate of
a task to the life of its `Result`. So `Wakeups`, `OnePlace`, `Counting`,
`PoolSize` and, for `initThreadSize > 0`, `QuietDestruction` and `Refinement`
hold of the second pool too.

### Memory pool

The private functions are operators on a pool record, so the lemmas
`PallocBlockOK`, `PallocSmallOK`, `PallocLargeOK` and `AllocateOK` say of any
record what each of them keeps; the actions then follow, also
`ngx_pool_cleanup_add` with its two allocations in a row. `PoolInv` needs no
hypothesis on the pool size: a chunk lies between the header and `last` of its
block (`PlacesOK`), a new one begins at or behind `last`, hence `Apart`.
`FailedOK` strengthens `SkippedHaveFailed`: failures do not increase along the
list, since one search fails in all blocks from `current` to the last but one;
without it, moving `current` behind one block that has failed often enough
could skip another that has not. `Listed` is `LargeListed` on a list and a set
of addresses, with one lemma for each way the list changes. `EndInv`, that no
`last` is beyond the end, needs `AlignedPool`: aligning a position that is not
beyond an aligned end does not move it beyond, so the `size_t` difference in
`Fits` does not wrap around, and `max` keeps small requests below what a new
block holds.

### Configuration loader

`LoopInv` is the invariant of the read loop: if the lines fit the buffer, what
has been read ends where a line ends or with the file, and the settings are
those of the lines that begin in it (`SaidBy`). `FgetsLine` shows that one
`fgets` reads exactly the line `Says` talks about, `AssignedFacts` that
cutting it at the first `=` and at the newline agrees with it, `SaidMore` that
the newest line overrides the earlier ones. No induction over the file is
needed, as the loop makes one step per line.

### Checked by TLC only

The liveness properties (`IdleConnectionReachesWaiter`, `UnconfiguredReturns`,
`AcceptedTaskRuns`, `SubmitReturns`, `FixedDestructorReturns`,
`StartedGetReturns`, `GetReturns`, `LoadReturnsEventually`): reasoning about
fairness and `ENABLED` is beyond the prover. The violated properties are
refuted by TLC.

## 5. Not modelled

- Duration of critical sections: `connect()` blocks on the network under
  `_queueMutex`, which one atomic action cannot show.
- Failing allocations in the connection and thread pools (`mysql_init` among
  them, so the null check in `~Connection` always succeeds); exceptions thrown by
  tasks; process exit with detached threads.
- SQL text, result rows, credentials, logging.
- Units and overflow of idle times (`clock()` against seconds): a connection
  is old enough or it is not.
- Lines that do not fit the buffer of `loadConfigFile`: the model cuts them as
  the code does, and nothing is claimed about the settings then. A carriage
  return before the newline stays part of a value.
- A second pool in one process, a second `start`, or in the cached mode a
  submission before `start`: thread ids come from a static counter, and
  `start` then dereferences null (`threads_[i]`).
- That connections are handed out in whatever state they are in: `connect()`
  is not checked, and rows may be unread. The state is in the model (`link`),
  but the pool never looks at it.
- That the scanner, once it has met a young connection, is gone
  (`ScannerBreaks`): nothing is claimed about reclaiming afterwards.
- Tasks that submit tasks and wait for them; `get` called twice; a Task object
  submitted again while it is queued; a refused future, whose default value
  the caller cannot tell from a result.
- The destruction of the first pool under its waiting threads.
- What becomes of the cleanup list after `ngx_reset_pool`. The reset keeps the
  list and recycles the memory of its nodes, so the next request is given a
  node that is still linked, and `ngx_destroy_pool` may not find the handlers
  that `nginx/main.cpp:59` says it calls. The model goes through these states
  (`cleanup` keeps the places of the nodes), but contents are left out, and
  `NeverGivenTwice` speaks of the chunks cut since the last reset. A pool
  smaller than its header is left out, too.
- The vendored nginx tree, build files and demo programs. The tree is by far
  the largest part of the repository, unmodified third-party code that no
  target builds; the author's own code is covered.

## 6. Plan

Done, in this order: connection pool with its abstract specification and
proofs; thread pool with its abstract specification; memory pool; hand-over of
results with the first and the second thread pool; configuration loader;
proofs of the safety properties of all of them.

Next:

1. Action properties of the memory pool (what a request may never change) and
   of the thread pool, from the invariants that are proved.
2. The safety half of the liveness properties: that in each state in which a
   waiter should go on, the step that lets it go on is possible.

Also open: tasks that submit tasks and wait for them.
