------------------------------- MODULE MemPool ------------------------------
(***************************************************************************)
(* The port of the nginx memory pool, class ngx_mem_pool                   *)
(* (nginx/ngx_mem_pool.h, nginx/ngx_mem_pool.cpp).                         *)
(*                                                                         *)
(* A pool is a list of blocks of the same size.  Small requests are cut    *)
(* from a block by moving its `last` forward; large ones go to malloc and  *)
(* are remembered in the list `large`, whose nodes are small requests      *)
(* themselves.  Positions are byte offsets from the start of a block:      *)
(* malloc aligns blocks, so offsets and addresses are aligned alike.  The  *)
(* contents of the memory are left out.                                    *)
(*                                                                         *)
(* The private functions are operators on the record `pool`.  They yield a *)
(* set of outcomes, because every malloc may fail: [pool |-> the pool      *)
(* afterwards, res |-> the result].                                        *)
(***************************************************************************)
EXTENDS Integers, Sequences, FiniteSets, FiniteSetsExt, SequencesExt

CONSTANTS
    PoolSize,       \* the argument of ngx_create_pool()
    Sizes,          \* sizes of requests
    Bigs,           \* addresses malloc returns for large requests
    NULL,
    MaxBlocks,      \* bound: malloc fails when the pool has this many blocks
    MaxLarge,       \* bound: large requests fail when the list is this long
    MaxCleanups,    \* bound: entries of the cleanup list
    MaxFailures     \* bound: requests that fail in a behaviour

ASSUME MemPoolAssumption ==
    /\ PoolSize \in Nat
    /\ Sizes \subseteq Nat \ {0}
    /\ NULL \notin Bigs
    /\ MaxBlocks \in Nat \ {0} /\ MaxLarge \in Nat /\ MaxCleanups \in Nat /\ MaxFailures \in Nat

\* sizeof of the structures of a 64-bit build, and NGX_ALIGNMENT.
SizeofPool == 64
SizeofData == 32
SizeofLarge == 16
SizeofCleanup == 24
NGX_ALIGNMENT == 8
NGX_MAX_ALLOC_FROM_POOL == 4095

VARIABLES
    state,    \* "none", "live", "destroyed"
    pool,     \* [blocks, current, large, heap, given]: heap is what malloc has
              \* given out for large requests, given the chunks cut from blocks
              \* since they were last empty
    cleanup,  \* where the nodes of the cleanup list are, newest first: a chunk,
              \* or an address from malloc when max is smaller than a node
    failures

vars == <<state, pool, cleanup, failures>>

Chunk == [blk : 1..MaxBlocks, lo : Nat, hi : Nat]

Disjoint(c, d) == c.blk # d.blk \/ c.hi <= d.lo \/ d.hi <= c.lo

\* `failed` is only compared with 4, so counting stops at 6.
FailedCap == 6

-----------------------------------------------------------------------------
(* The private functions.                                                  *)

ngx_align_ptr(n) == ((n + NGX_ALIGNMENT - 1) \div NGX_ALIGNMENT) * NGX_ALIGNMENT

\* size - sizeof(ngx_pool_s) is a size_t: for a pool smaller than its header it
\* wraps around to a huge number.
MaxSmall ==
    LET room == PoolSize - SizeofPool
    IN  IF room >= 0 /\ room < NGX_MAX_ALLOC_FROM_POOL THEN room ELSE NGX_MAX_ALLOC_FROM_POOL

NothingFrom(p) == [pool |-> p, res |-> NULL]

\* Where block b would put a request.
Position(p, b, align) == IF align THEN ngx_align_ptr(p.blocks[b].last) ELSE p.blocks[b].last

\* Seeded fault: the room is taken before the alignment.
FitsUnaligned(p, b, size, align) == PoolSize - p.blocks[b].last >= size

\* (size_t)(end - m) >= size: when m is beyond end the difference is huge.
Fits(p, b, size, align) ==
    LET room == PoolSize - Position(p, b, align)
    IN  room < 0 \/ room >= size

\* failed++ > 4
Skips(failed) == failed > 4

\* A new block at the end of the list.  Every block from current on that is not the
\* last one has failed once more, and current moves behind the blocks that
\* have failed too often.
ngx_palloc_block(p, size) ==
    LET n == Len(p.blocks)
        tried == p.current..(n - 1)
        lo == ngx_align_ptr(SizeofData)
        older == [b \in 1..n |->
                    IF b \in tried /\ p.blocks[b].failed < FailedCap
                    THEN [p.blocks[b] EXCEPT !.failed = @ + 1] ELSE p.blocks[b]]
        chunk == [blk |-> n + 1, lo |-> lo, hi |-> lo + size]
    IN  {NothingFrom(p)} \cup
        IF n = MaxBlocks THEN {}
        ELSE {[pool |-> [p EXCEPT
                  !.blocks = Append(older, [last |-> lo + size, failed |-> 0]),
                  !.current = Max({@} \cup {b + 1 : b \in {x \in tried : Skips(p.blocks[x].failed)}}),
                  !.given = @ \cup {chunk}],
               res |-> chunk]}

\* Seeded fault: `last` stays where it is.
LastKept(p, b, chunk) == p

\* p->d.last = m + size
LastMoved(p, b, chunk) == [p EXCEPT !.blocks[b].last = chunk.hi]

\* The first block from current on that has room, or a new one.
ngx_palloc_small(p, size, align) ==
    LET fitting == {b \in p.current..Len(p.blocks) : Fits(p, b, size, align)}
        b == Min(fitting)
        lo == Position(p, b, align)
        chunk == [blk |-> b, lo |-> lo, hi |-> lo + size]
    IN  IF fitting = {} THEN ngx_palloc_block(p, size)
        ELSE {[pool |-> [LastMoved(p, b, chunk) EXCEPT !.given = @ \cup {chunk}], res |-> chunk]}

\* malloc, then the first empty one of the five newest nodes, or else a new node,
\* without which the memory is given back.
ngx_palloc_large(p) ==
    LET slots == {i \in 1..Len(p.large) : i <= 5 /\ p.large[i] = NULL}
        noded(g) == {[o EXCEPT !.pool.large = <<g>> \o @, !.pool.heap = @ \cup {g}, !.res = g] :
                        o \in {x \in ngx_palloc_small(p, SizeofLarge, TRUE) : x.res # NULL}}
        slotted(g) == [p EXCEPT !.large[Min(slots)] = g, !.heap = @ \cup {g}]
    IN  {NothingFrom(p)} \cup
        UNION {IF slots # {} THEN {[pool |-> slotted(g), res |-> g]}
               ELSE IF Len(p.large) < MaxLarge THEN noded(g) ELSE {} : g \in Bigs \ p.heap}

Allocate(p, size, align) ==
    IF size <= MaxSmall THEN ngx_palloc_small(p, size, align) ELSE ngx_palloc_large(p)

-----------------------------------------------------------------------------
(* The public functions.                                                   *)

\* The outcome of a request is what the pool becomes.
Outcome(o) ==
    /\ pool' = o.pool
    /\ failures' = IF o.res = NULL THEN failures + 1 ELSE failures
    /\ failures' <= MaxFailures

\* When malloc fails there is no pool, and the caller may try again.
ngx_create_pool ==
    /\ state = "none"
    /\ \/ /\ state' = "live"
          /\ pool' = [pool EXCEPT !.blocks = <<[last |-> SizeofPool, failed |-> 0]>>]
          /\ UNCHANGED failures
       \/ Outcome(NothingFrom(pool)) /\ UNCHANGED state
    /\ UNCHANGED cleanup

\* ngx_pcalloc() is the same: it clears the chunk it gets.
ngx_palloc(size) ==
    /\ state = "live"
    /\ \E o \in Allocate(pool, size, TRUE) : Outcome(o)
    /\ UNCHANGED <<state, cleanup>>

ngx_pnalloc(size) ==
    /\ state = "live"
    /\ \E o \in Allocate(pool, size, FALSE) : Outcome(o)
    /\ UNCHANGED <<state, cleanup>>

\* Seeded fault: the node keeps the address of what is freed.
SlotKept(large, g) == large

\* l->alloc = NULL
SlotEmptied(large, g) == [i \in DOMAIN large |-> IF large[i] = g THEN NULL ELSE large[i]]

\* Free a large request; its node stays in the list.
ngx_pfree(g) ==
    /\ state = "live"
    /\ g \in ToSet(pool.large)
    /\ pool' = [pool EXCEPT !.large = SlotEmptied(@, g), !.heap = @ \ {g}]
    /\ UNCHANGED <<state, cleanup, failures>>

\* Seeded fault: the node is linked although there is none.
LinkedUnchecked(list, node) == <<node>> \o list

\* if (c == nullptr) return; c->next = pool_->cleanup; pool_->cleanup = c
Linked(list, node) == IF node = NULL THEN list ELSE <<node>> \o list

\* A node for the list and, if size is not 0, memory for its data; when the second
\* allocation fails, the node is not linked.
ngx_pool_cleanup_add(size) ==
    /\ state = "live"
    /\ Len(cleanup) < MaxCleanups
    /\ \E node \in Allocate(pool, SizeofCleanup, TRUE) :
          \/ /\ node.res = NULL \/ size = 0
             /\ Outcome(node)
             /\ cleanup' = Linked(cleanup, node.res)
          \/ /\ node.res # NULL /\ size # 0
             /\ \E data \in Allocate(node.pool, size, TRUE) :
                   /\ Outcome(data)
                   /\ cleanup' = IF data.res = NULL THEN cleanup ELSE Linked(cleanup, node.res)
    /\ UNCHANGED state

\* Seeded fault: allocation goes on behind the blocks given up before the reset.
CurrentKept(p) == p.current

\* pool_->current = pool_
CurrentReset(p) == 1

\* Free the large requests and start every block anew.  The cleanup list stays.
ngx_reset_pool ==
    /\ state = "live"
    /\ pool' = [blocks |-> [b \in DOMAIN pool.blocks |-> [last |-> SizeofPool, failed |-> 0]],
                current |-> CurrentReset(pool), large |-> <<>>,
                heap |-> pool.heap \ ToSet(pool.large), given |-> {}]
    /\ UNCHANGED <<state, cleanup, failures>>

\* Run the cleanup handlers, free the large requests, free the blocks.
ngx_destroy_pool ==
    /\ state = "live"
    /\ state' = "destroyed"
    /\ pool' = [pool EXCEPT !.blocks = <<>>, !.large = <<>>, !.heap = @ \ ToSet(pool.large),
                             !.given = {}]
    /\ cleanup' = <<>>
    /\ UNCHANGED failures

-----------------------------------------------------------------------------
Init ==
    /\ state = "none"
    /\ pool = [blocks |-> <<>>, current |-> 1, large |-> <<>>, heap |-> {}, given |-> {}]
    /\ cleanup = <<>>
    /\ failures = 0

Next ==
    \/ ngx_create_pool \/ ngx_reset_pool \/ ngx_destroy_pool
    \/ \E size \in Sizes : ngx_palloc(size) \/ ngx_pnalloc(size)
    \/ \E size \in Sizes \cup {0} : ngx_pool_cleanup_add(size)
    \/ \E g \in Bigs : ngx_pfree(g)

Spec == Init /\ [][Next]_vars

-----------------------------------------------------------------------------
(* Properties the code has, for a pool whose size is aligned and at least  *)
(* that of the header.                                                     *)

\* Every variable keeps its type.
TypeOK ==
    /\ state \in {"none", "live", "destroyed"}
    /\ pool.blocks \in Seq([last : Nat, failed : 0..FailedCap])
    /\ pool.current \in 1..MaxBlocks
    /\ state = "live" => pool.current <= Len(pool.blocks)
    /\ pool.large \in Seq(Bigs \cup {NULL})
    /\ pool.heap \subseteq Bigs
    /\ cleanup \in Seq(Chunk \cup Bigs)
    /\ pool.given \subseteq Chunk
    /\ failures \in 0..MaxFailures

\* A chunk lies in its block: behind the header and not beyond the end.
InsideBlock ==
    \A c \in pool.given :
        /\ c.lo >= IF c.blk = 1 THEN SizeofPool ELSE SizeofData
        /\ c.hi <= PoolSize

\* Between two resets nothing is given out twice, be it to the user or as a node of
\* the large or of the cleanup list: the chunks cut since the last reset do not
\* overlap, and what a block has left to give begins behind all of them.  A
\* reset takes every chunk back, also those of the cleanup nodes it leaves
\* linked; these are given out again, and nothing is said of them here.
NeverGivenTwice ==
    /\ \A c, d \in pool.given : c # d => Disjoint(c, d)
    /\ \A c \in pool.given : c.hi <= pool.blocks[c.blk].last

\* The large list knows every large request that is not freed, exactly once, and
\* nothing that is: no leak, and no double free on reset and destroy.
LargeListed ==
    /\ pool.heap = ToSet(pool.large) \ {NULL}
    /\ \A i, j \in DOMAIN pool.large : pool.large[i] = pool.large[j] /\ pool.large[i] # NULL => i = j

\* The search for room leaves out only blocks that have failed six times since the
\* last reset.
SkippedHaveFailed == \A b \in 1..(pool.current - 1) : b \in DOMAIN pool.blocks => pool.blocks[b].failed >= 6

=============================================================================
