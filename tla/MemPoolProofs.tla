---------------------------- MODULE MemPoolProofs ---------------------------
(***************************************************************************)
(* The invariants of the memory pool port, for every pool size, every set  *)
(* of request sizes and every bound on blocks and failures.                *)
(*                                                                         *)
(* The private functions are operators on a pool record, so what they keep *)
(* is stated of a record p and proved once per function: PoolOK for every  *)
(* pool size, and EndOK, that no block is cut beyond its end, for a pool   *)
(* size that is aligned and at least that of the header.                   *)
(***************************************************************************)
EXTENDS MemPool, ProofFacts, SequenceTheorems, TLAPS

-----------------------------------------------------------------------------
(* Facts about the operators.                                              *)

\* The walk along the blocks from current on finds the first one with room.
LEMMA MinFacts ==
    ASSUME NEW S, S \subseteq Nat, S # {}
    PROVE  Min(S) \in S /\ \A y \in S : Min(S) <= y
BY SmallestExists DEF Min

\* current ends behind the last block that has failed too often.
LEMMA MaxFacts ==
    ASSUME NEW S, S \subseteq Nat, S # {}, NEW n \in Nat, \A y \in S : y <= n
    PROVE  Max(S) \in S /\ \A y \in S : Max(S) >= y
BY LargestExists DEF Max

\* ngx_align_ptr moves a position forward to the next multiple of NGX_ALIGNMENT,
\* which is never beyond an end that is one itself.
LEMMA AlignFacts ==
    ASSUME NEW n \in Nat
    PROVE  /\ ngx_align_ptr(n) \in Nat
           /\ ngx_align_ptr(n) >= n
           /\ \A m \in Nat : m % NGX_ALIGNMENT = 0 /\ n <= m => ngx_align_ptr(n) <= m
BY DEF ngx_align_ptr, NGX_ALIGNMENT

\* The header of a block is aligned.
LEMMA HeaderAligned == ngx_align_ptr(SizeofData) = SizeofData
BY DEF ngx_align_ptr, NGX_ALIGNMENT, SizeofData


-----------------------------------------------------------------------------
(* What the private functions keep of a pool.                              *)

Block == [last : Nat, failed : 0..FailedCap]

PoolRecord == [blocks : Seq(Block), current : 1..MaxBlocks, large : Seq(Bigs \cup {NULL}),
               heap : SUBSET Bigs, given : SUBSET Chunk]

\* Where the first chunk of block b may begin.
Header(b) == IF b = 1 THEN SizeofPool ELSE SizeofData

\* The search for room begins at a block of the list.
CurrentOK(p) == Len(p.blocks) <= MaxBlocks /\ p.current \in 1..Len(p.blocks)

\* No block gives out its own header.
HeaderOK(p) == \A b \in 1..Len(p.blocks) : Header(b) <= p.blocks[b].last

\* A chunk lies in a block of the list, between its header and its last.
PlacesOK(p) ==
    \A c \in p.given :
        /\ c.blk \in 1..Len(p.blocks)
        /\ Header(c.blk) <= c.lo
        /\ c.hi <= p.blocks[c.blk].last

Apart(p) == \A c, d \in p.given : c # d => Disjoint(c, d)

\* A block has failed at least as often as the ones behind it, and six times when
\* the search leaves it out.
FailedOK(p) ==
    /\ \A b, d \in 1..Len(p.blocks) : b < d => p.blocks[b].failed >= p.blocks[d].failed
    /\ \A b \in 1..(p.current - 1) : p.blocks[b].failed >= 6

BlocksOK(p) ==
    /\ p \in PoolRecord
    /\ CurrentOK(p) /\ HeaderOK(p) /\ PlacesOK(p) /\ Apart(p) /\ FailedOK(p)

\* No block has given out more than it has.
EndOK(p) == \A b \in 1..Len(p.blocks) : p.blocks[b].last <= PoolSize

\* What the unaligned sizes break: see the run of MemPool_unaligned.cfg.
AlignedPool == PoolSize % NGX_ALIGNMENT = 0 /\ PoolSize >= SizeofPool

\* A chunk that begins where its block had ended so far touches none of the
\* others.
LEMMA ApartKept ==
    ASSUME NEW p \in PoolRecord, Apart(p), NEW c \in Chunk,
           \A d \in p.given : d.blk = c.blk => d.hi <= c.lo,
           NEW q, q.given = p.given \cup {c}
    PROVE  Apart(q)
<1>1. \A d \in p.given : Disjoint(c, d) /\ Disjoint(d, c)
  BY DEF Disjoint, PoolRecord, Chunk
<1> QED BY <1>1 DEF Apart


\* What holds of every outcome o of a request that p serves from its blocks.
ServedOK(p, o) ==
    /\ BlocksOK(o.pool)
    /\ o.pool.large = p.large /\ o.pool.heap = p.heap
    /\ o.res \in Chunk \cup {NULL}

\* ngx_palloc_block: the new block is at the end, and current moves only behind
\* blocks that have failed for the sixth time.
LEMMA PallocBlockOK ==
    ASSUME NEW p, BlocksOK(p), NEW size \in Nat, NEW o \in ngx_palloc_block(p, size)
    PROVE  /\ ServedOK(p, o)
           /\ EndOK(p) /\ SizeofData + size <= PoolSize => EndOK(o.pool)
<1> DEFINE n == Len(p.blocks)
           tried == p.current..(n - 1)
           older == [b \in 1..n |->
                       IF b \in tried /\ p.blocks[b].failed < FailedCap
                       THEN [p.blocks[b] EXCEPT !.failed = @ + 1] ELSE p.blocks[b]]
           lo == SizeofData
           new == [last |-> lo + size, failed |-> 0]
           chunk == [blk |-> n + 1, lo |-> lo, hi |-> lo + size]
           ends == {p.current} \cup {b + 1 : b \in {x \in tried : Skips(p.blocks[x].failed)}}
           q == [p EXCEPT !.blocks = Append(older, new),
                          !.current = Max(ends),
                          !.given = p.given \cup {chunk}]
<1>1. CASE o = NothingFrom(p)
  BY <1>1 DEF NothingFrom, ServedOK
<1>2. CASE n # MaxBlocks /\ o = [pool |-> q, res |-> chunk]
  <2>1. /\ p \in PoolRecord /\ n \in 1..MaxBlocks /\ n + 1 \in 1..MaxBlocks
        /\ p.current \in 1..n
        /\ \A b \in 1..n : p.blocks[b] \in Block
    <3>1. p \in PoolRecord /\ p.blocks \in Seq(Block) /\ CurrentOK(p)
      BY DEF BlocksOK, PoolRecord
    <3>2. n \in Nat /\ \A b \in 1..n : p.blocks[b] \in Block
      BY <3>1
    <3>3. n <= MaxBlocks /\ p.current \in 1..n
      BY <3>1 DEF CurrentOK
    <3> HIDE DEF n
    <3> QED BY <1>2, <3>1, <3>2, <3>3, MemPoolAssumption
  <2>2. ASSUME NEW b \in 1..n
        PROVE  /\ older[b] \in Block
               /\ older[b].last = p.blocks[b].last
               /\ older[b].failed = IF b \in tried /\ p.blocks[b].failed < 6
                                    THEN p.blocks[b].failed + 1 ELSE p.blocks[b].failed
    <3>1. PICK r : r = p.blocks[b]
      OBVIOUS
    <3>2. r \in Block
      BY <2>1, <3>1
    <3>3. older[b] = IF b \in tried /\ r.failed < 6 THEN [r EXCEPT !.failed = @ + 1] ELSE r
      BY <3>1 DEF FailedCap
    <3> HIDE DEF older, tried
    <3> QED BY <3>1, <3>2, <3>3 DEF Block, FailedCap
  <2>3. older \in Seq(Block) /\ Len(older) = n
    <3>1. n \in Nat /\ older = [b \in 1..n |-> older[b]]
      BY <2>1
    <3> HIDE DEF older
    <3>2. older \in [1..n -> Block]
      BY <2>2, <3>1
    <3> QED BY <3>1, <3>2
  <2>4. new \in Block /\ new.last = SizeofData + size /\ new.failed = 0
    BY DEF Block, SizeofData, FailedCap
  <2>5. /\ Append(older, new) \in Seq(Block)
        /\ Len(Append(older, new)) = n + 1
        /\ \A b \in 1..n : Append(older, new)[b] = older[b]
        /\ Append(older, new)[n + 1] = new
    <3> HIDE DEF older, new
    <3> QED BY <2>3, <2>4, AppendProperties
  <2>6. /\ Max(ends) \in ends
        /\ \A y \in ends : Max(ends) >= y
        /\ Max(ends) \in 1..n
    <3>1. ends \subseteq 1..n
      BY <2>1
    <3>2. ends \subseteq Nat /\ ends # {} /\ \A y \in ends : y <= n
      <4>1. p.current \in ends
        OBVIOUS
      <4> HIDE DEF ends, n
      <4> QED BY <2>1, <3>1, <4>1
    <3> HIDE DEF ends, n
    <3>3. n \in Nat
      BY <2>1
    <3>4. Max(ends) \in ends /\ \A y \in ends : Max(ends) >= y
      BY <3>2, <3>3, MaxFacts
    <3> QED BY <3>1, <3>4
  <2>7. /\ chunk \in Chunk
        /\ chunk.blk = n + 1 /\ chunk.lo = SizeofData /\ chunk.hi = SizeofData + size
    BY <2>1 DEF Chunk, SizeofData
  <2>8. /\ q.blocks = Append(older, new) /\ q.current = Max(ends)
        /\ q.given = p.given \cup {chunk}
        /\ q.large = p.large /\ q.heap = p.heap
        /\ q \in PoolRecord
    <3>1. PICK bs, cur, gv : bs = Append(older, new) /\ cur = Max(ends) /\ gv = p.given \cup {chunk}
      OBVIOUS
    <3>2. q = [p EXCEPT !.blocks = bs, !.current = cur, !.given = gv]
      BY <3>1
    <3>3. bs \in Seq(Block) /\ cur \in 1..MaxBlocks /\ gv \in SUBSET Chunk
      <4> HIDE DEF older, new, ends, chunk, n
      <4>1. bs \in Seq(Block)
        BY <2>5, <3>1
      <4>2. cur \in 1..MaxBlocks
        BY <2>1, <2>6, <3>1, MemPoolAssumption
      <4>3. gv \in SUBSET Chunk
        BY <2>1, <2>7, <3>1 DEF PoolRecord
      <4> QED BY <4>1, <4>2, <4>3
    <3> HIDE DEF q, older, new, ends, chunk, n
    <3> QED BY <2>1, <3>1, <3>2, <3>3 DEF PoolRecord
  <2> HIDE DEF q, older, new, chunk
  <2>9. Len(q.blocks) = n + 1 /\ 1..(n + 1) = 1..n \cup {n + 1}
    <3>1. 1..(n + 1) = 1..n \cup {n + 1}
      BY <2>1
    <3> QED BY <2>5, <2>8, <3>1
  <2>10. CurrentOK(q)
    <3>1. Max(ends) \in 1..(n + 1) /\ n + 1 <= MaxBlocks
      BY <2>1, <2>6
    <3> QED BY <2>8, <2>9, <3>1 DEF CurrentOK
  <2>11. \A b \in 1..n : q.blocks[b].last = p.blocks[b].last
    BY <2>2, <2>5, <2>8
  <2>12. HeaderOK(q)
    <3>1. Header(n + 1) <= q.blocks[n + 1].last
      <4>1. n + 1 # 1
        BY <2>1
      <4> QED BY <2>4, <2>5, <2>8, <4>1 DEF Header, SizeofData
    <3> QED BY <2>9, <2>11, <3>1 DEF BlocksOK, HeaderOK
  <2>13. PlacesOK(q)
    <3>1. Header(chunk.blk) <= chunk.lo /\ chunk.hi <= q.blocks[chunk.blk].last
      <4>1. n + 1 # 1
        BY <2>1
      <4> QED BY <2>4, <2>5, <2>7, <2>8, <4>1 DEF Header, SizeofData
    <3>2. chunk.blk \in 1..(n + 1)
      BY <2>1, <2>7
    <3> QED BY <2>8, <2>9, <2>11, <3>1, <3>2 DEF BlocksOK, PlacesOK
  <2>14. Apart(q)
    <3>1. \A d \in p.given : d.blk # chunk.blk
      BY <2>1, <2>7 DEF BlocksOK, PlacesOK
    <3> QED BY <2>1, <2>7, <2>8, <3>1, ApartKept DEF BlocksOK
  <2>15. FailedOK(q)
    <3>1. \A b \in 1..n : q.blocks[b].failed \in 0..6
      BY <2>2, <2>5, <2>8 DEF Block, FailedCap
    <3>2. q.blocks[n + 1].failed = 0
      BY <2>4, <2>5, <2>8
    <3>3. \A b \in 1..n : p.blocks[b].failed \in 0..6
      BY <2>1 DEF Block, FailedCap
    <3>4. \A b \in 1..n : q.blocks[b].failed =
                          IF b \in tried /\ p.blocks[b].failed < 6
                          THEN p.blocks[b].failed + 1 ELSE p.blocks[b].failed
      <4> HIDE DEF tried
      <4> QED BY <2>2, <2>5, <2>8
    <3>5. ASSUME NEW b \in 1..(n + 1), NEW d \in 1..(n + 1), b < d
          PROVE  q.blocks[b].failed >= q.blocks[d].failed
      <4>1. CASE d = n + 1
        <5>1. b \in 1..n
          BY <2>1, <3>5, <4>1
        <5> HIDE DEF n
        <5> QED BY <3>1, <3>2, <4>1, <5>1
      <4>2. CASE d \in 1..n
        <5>1. b \in 1..n /\ p.blocks[b].failed >= p.blocks[d].failed
          BY <4>2, <3>5 DEF BlocksOK, FailedOK
        <5>2. b < p.current => p.blocks[b].failed >= 6
          BY <2>1, <5>1 DEF BlocksOK, FailedOK
        <5>3. d < n => (b \in tried <=> b >= p.current)
          BY <2>1, <3>5, <5>1
        <5>4. d \in tried => d < n /\ d >= p.current
          BY <2>1
        <5>5. p.blocks[b].failed \in 0..6 /\ p.blocks[d].failed \in 0..6
          BY <3>3, <4>2, <5>1
        <5> HIDE DEF n, tried
        <5> QED BY <2>1, <3>4, <3>5, <4>2, <5>1, <5>2, <5>3, <5>4, <5>5
      <4> QED BY <4>1, <4>2, <2>9
    <3>6. ASSUME NEW b \in 1..(q.current - 1)
          PROVE  q.blocks[b].failed >= 6
      <4>1. b \in 1..n
        BY <2>1, <2>6, <2>8
      <4>2. CASE b < p.current
        <5>1. b \in 1..(p.current - 1) /\ b \notin tried
          BY <2>1, <4>1, <4>2
        <5>2. p.blocks[b].failed >= 6
          BY <5>1 DEF BlocksOK, FailedOK
        <5>3. q.blocks[b].failed = p.blocks[b].failed
          BY <3>4, <4>1, <5>1
        <5> QED BY <5>2, <5>3
      <4>3. CASE b >= p.current
        <5>1. PICK x \in tried : Max(ends) = x + 1 /\ p.blocks[x].failed > 4
          <6>1. Max(ends) # p.current
            BY <2>1, <2>6, <2>8, <4>1, <4>3
          <6> QED BY <2>6, <6>1 DEF Skips
        <5>2. b <= x /\ x \in 1..n /\ b \in tried
          BY <2>1, <2>8, <4>1, <4>3, <5>1
        <5>3. p.blocks[b].failed >= p.blocks[x].failed
          <6>1. p.blocks[b].failed \in 0..6
            BY <3>3, <4>1
          <6>2. b < x => p.blocks[b].failed >= p.blocks[x].failed
            BY <4>1, <5>2 DEF BlocksOK, FailedOK
          <6>3. b = x \/ b < x
            BY <4>1, <5>2
          <6> QED BY <6>1, <6>2, <6>3
        <5>4. p.blocks[b].failed \in 0..6 /\ p.blocks[x].failed \in 0..6
          BY <3>3, <4>1, <5>2
        <5> HIDE DEF n, tried, ends
        <5> QED BY <3>4, <4>1, <5>1, <5>2, <5>3, <5>4
      <4> QED BY <2>1, <4>1, <4>2, <4>3
    <3> QED BY <2>9, <3>5, <3>6 DEF FailedOK
  <2>16. EndOK(p) /\ SizeofData + size <= PoolSize => EndOK(q)
    <3>1. q.blocks[n + 1].last = SizeofData + size
      BY <2>4, <2>5, <2>8
    <3> QED BY <2>9, <2>11, <3>1 DEF EndOK
  <2>17. o.pool = q /\ o.res = chunk
    BY <1>2
  <2> QED BY <2>7, <2>8, <2>17, <2>10, <2>12, <2>13, <2>14, <2>15, <2>16 DEF ServedOK, BlocksOK
<1> QED
  BY <1>1, <1>2, HeaderAligned DEF ngx_palloc_block

\* Where a block puts a request: behind what it has given so far, and for an
\* aligned pool not beyond its end.
LEMMA PositionFacts ==
    ASSUME NEW p, BlocksOK(p), NEW align \in BOOLEAN, NEW b \in 1..Len(p.blocks)
    PROVE  /\ Position(p, b, align) \in Nat
           /\ p.blocks[b].last <= Position(p, b, align)
           /\ AlignedPool /\ p.blocks[b].last <= PoolSize => Position(p, b, align) <= PoolSize
<1>1. p.blocks[b].last \in Nat
  <2>1. p.blocks \in Seq(Block)
    BY DEF BlocksOK, PoolRecord
  <2>2. p.blocks[b] \in Block
    BY <2>1
  <2> QED BY <2>2 DEF Block
<1>2. CASE align
  BY <1>1, <1>2, AlignFacts, MemPoolAssumption DEF Position, AlignedPool
<1>3. CASE ~align
  BY <1>1, <1>3 DEF Position
<1> QED BY <1>2, <1>3

\* ngx_palloc_small: the first block with room gives the chunk from its end.
LEMMA PallocSmallOK ==
    ASSUME NEW p, BlocksOK(p), NEW size \in Nat, NEW align \in BOOLEAN,
           NEW o \in ngx_palloc_small(p, size, align)
    PROVE  /\ ServedOK(p, o)
           /\ AlignedPool /\ EndOK(p) /\ SizeofData + size <= PoolSize => EndOK(o.pool)
<1> DEFINE fitting == {b \in p.current..Len(p.blocks) : Fits(p, b, size, align)}
<1>1. CASE fitting = {}
  BY <1>1, PallocBlockOK DEF ngx_palloc_small
<1>2. CASE fitting # {}
  <2>1. PICK b : b = Min(fitting)
    OBVIOUS
  <2>2. PICK lo : lo = Position(p, b, align)
    OBVIOUS
  <2>3. PICK chunk : chunk = [blk |-> b, lo |-> lo, hi |-> lo + size]
    OBVIOUS
  <2>4. PICK q : q = [LastMoved(p, b, chunk) EXCEPT !.given = @ \cup {chunk}]
    OBVIOUS
  <2>5. o = [pool |-> q, res |-> chunk]
    BY <1>2, <2>1, <2>2, <2>3, <2>4 DEF ngx_palloc_small
  <2>6. PICK n : n = Len(p.blocks)
    OBVIOUS
  <2>7. /\ p \in PoolRecord /\ p.blocks \in Seq(Block) /\ n \in Nat /\ n <= MaxBlocks
        /\ p.current \in 1..n
        /\ \A x \in 1..n : p.blocks[x] \in Block
    <3>1. p \in PoolRecord /\ p.blocks \in Seq(Block) /\ CurrentOK(p)
      BY DEF BlocksOK, PoolRecord
    <3> QED BY <2>6, <3>1 DEF CurrentOK
  <2>8. b \in fitting /\ b \in p.current..n /\ b \in 1..n
    <3>1. fitting \subseteq Nat
      BY <2>6, <2>7
    <3>2. b \in fitting
      BY <1>2, <2>1, <3>1, MinFacts
    <3> QED BY <2>6, <2>7, <3>2
  <2>9. /\ lo \in Nat /\ p.blocks[b].last <= lo
        /\ AlignedPool /\ p.blocks[b].last <= PoolSize => lo <= PoolSize
    BY <2>2, <2>6, <2>8, PositionFacts
  <2> HIDE DEF fitting
  <2>10. chunk \in Chunk
    BY <2>3, <2>7, <2>8, <2>9, MemPoolAssumption DEF Chunk
  <2>11. PICK bs : bs = [p.blocks EXCEPT ![b].last = chunk.hi]
    OBVIOUS
  <2>12. /\ bs \in Seq(Block) /\ Len(bs) = n
         /\ bs[b].last = lo + size /\ bs[b].failed = p.blocks[b].failed
         /\ \A x \in 1..n : x # b => bs[x] = p.blocks[x]
    <3>1. PICK hi : hi = chunk.hi
      OBVIOUS
    <3>2. hi = lo + size /\ hi \in Nat
      BY <2>3, <2>9, <3>1
    <3>3. PICK r : r = [p.blocks[b] EXCEPT !.last = hi]
      OBVIOUS
    <3>4. r \in Block /\ r.last = hi /\ r.failed = p.blocks[b].failed
      BY <2>7, <2>8, <3>2, <3>3 DEF Block
    <3>5. bs = [p.blocks EXCEPT ![b] = r]
      BY <2>11, <3>1, <3>3
    <3> QED BY <2>6, <2>7, <2>8, <3>2, <3>4, <3>5
  <2>13. /\ q \in PoolRecord
         /\ q.blocks = bs /\ q.current = p.current /\ q.given = p.given \cup {chunk}
         /\ q.large = p.large /\ q.heap = p.heap
    <3>1. LastMoved(p, b, chunk) = [p EXCEPT !.blocks = bs]
      BY <2>7, <2>11 DEF LastMoved, PoolRecord
    <3>2. q = [p EXCEPT !.blocks = bs, !.given = p.given \cup {chunk}]
      BY <2>4, <2>7, <3>1 DEF PoolRecord
    <3> QED BY <2>7, <2>10, <2>12, <3>2 DEF PoolRecord
  <2>14. CurrentOK(q)
    BY <2>7, <2>12, <2>13 DEF CurrentOK
  <2>15. \A x \in 1..n : p.blocks[x].last <= q.blocks[x].last
    <3>1. \A x \in 1..n : p.blocks[x].last \in Nat
      BY <2>7 DEF Block
    <3> QED BY <2>8, <2>9, <2>12, <2>13, <3>1
  <2>16. /\ HeaderOK(q)
         /\ \A x \in 1..n : /\ Header(x) <= p.blocks[x].last
                            /\ p.blocks[x].last \in Nat /\ q.blocks[x].last \in Nat
    <3>1. ASSUME NEW x \in 1..n
          PROVE  /\ Header(x) <= p.blocks[x].last /\ Header(x) \in Nat
                 /\ p.blocks[x].last \in Nat /\ q.blocks[x].last \in Nat
      <4>1. Header(x) <= p.blocks[x].last
        BY <2>6 DEF BlocksOK, HeaderOK
      <4>2. Header(x) \in Nat
        BY DEF Header, SizeofPool, SizeofData
      <4>3. p.blocks[x] \in Block /\ q.blocks[x] \in Block
        BY <2>7, <2>12, <2>13
      <4> QED BY <4>1, <4>2, <4>3 DEF Block
    <3>2. ASSUME NEW x \in 1..n
          PROVE  Header(x) <= q.blocks[x].last
      BY <2>15, <3>1
    <3> QED BY <2>12, <2>13, <3>1, <3>2 DEF HeaderOK
  <2>17. PlacesOK(q)
    <3>1. Header(b) <= lo /\ chunk.hi <= q.blocks[b].last
      BY <2>3, <2>8, <2>9, <2>12, <2>13, <2>16 DEF Header, SizeofPool, SizeofData
    <3>2. ASSUME NEW c \in p.given
          PROVE  c.blk \in 1..n /\ Header(c.blk) <= c.lo /\ c.hi <= q.blocks[c.blk].last
      <4>1. c.blk \in 1..n /\ Header(c.blk) <= c.lo /\ c.hi <= p.blocks[c.blk].last
        BY <2>6 DEF BlocksOK, PlacesOK
      <4>2. c.hi \in Nat /\ p.blocks[c.blk].last \in Nat /\ q.blocks[c.blk].last \in Nat
        BY <2>7, <2>16, <4>1 DEF PoolRecord, Chunk
      <4> QED BY <2>15, <4>1, <4>2
    <3> QED BY <2>3, <2>8, <2>12, <2>13, <3>1, <3>2 DEF PlacesOK
  <2>18. Apart(q)
    <3>1. ASSUME NEW d \in p.given, d.blk = chunk.blk
          PROVE  d.hi <= chunk.lo
      <4>1. d.hi <= p.blocks[b].last /\ d.hi \in Nat /\ p.blocks[b].last \in Nat
        BY <2>3, <2>7, <2>8, <3>1 DEF BlocksOK, PlacesOK, PoolRecord, Chunk, Block
      <4> QED BY <2>3, <2>9, <4>1
    <3> QED BY <2>7, <2>10, <2>13, <3>1, ApartKept DEF BlocksOK
  <2>19. FailedOK(q)
    <3>1. \A x \in 1..n : q.blocks[x].failed = p.blocks[x].failed
      BY <2>8, <2>12, <2>13
    <3>2. \A x \in 1..(q.current - 1) : x \in 1..n
      BY <2>7, <2>13
    <3> QED BY <2>6, <2>12, <2>13, <3>1, <3>2 DEF BlocksOK, FailedOK
  <2>20. AlignedPool /\ EndOK(p) => EndOK(q)
    <3> SUFFICES ASSUME AlignedPool, EndOK(p)
                 PROVE  EndOK(q)
      OBVIOUS
    <3>1. p.blocks[b].last <= PoolSize /\ lo <= PoolSize
      BY <2>6, <2>8, <2>9 DEF EndOK
    <3>2. lo + size <= PoolSize
      BY <2>2, <2>8, <2>9, <3>1, MemPoolAssumption DEF fitting, Fits
    <3> QED BY <2>6, <2>8, <2>12, <2>13, <3>2 DEF EndOK
  <2> QED
    BY <2>5, <2>10, <2>13, <2>14, <2>16, <2>17, <2>18, <2>19, <2>20 DEF ServedOK, BlocksOK
<1> QED BY <1>1, <1>2


-----------------------------------------------------------------------------
(* The list of the large requests.                                         *)

\* The list L knows the addresses H, each of them once.
Listed(L, H) ==
    /\ H = ToSet(L) \ {NULL}
    /\ \A i, j \in DOMAIN L : L[i] = L[j] /\ L[i] # NULL => i = j

PoolOK(p) == BlocksOK(p) /\ Listed(p.large, p.heap)

\* An address that is not in use goes into an empty node.
LEMMA SlotFilled ==
    ASSUME NEW L \in Seq(Bigs \cup {NULL}), NEW H, Listed(L, H), NEW g \in Bigs \ H,
           NEW i \in 1..Len(L), L[i] = NULL
    PROVE  /\ [L EXCEPT ![i] = g] \in Seq(Bigs \cup {NULL})
           /\ Listed([L EXCEPT ![i] = g], H \cup {g})
<1>1. PICK M : M = [L EXCEPT ![i] = g]
  OBVIOUS
<1>2. /\ M \in Seq(Bigs \cup {NULL}) /\ DOMAIN L = 1..Len(L) /\ DOMAIN M = 1..Len(L)
      /\ M[i] = g /\ \A j \in 1..Len(L) : j # i => M[j] = L[j]
  BY <1>1
<1>3. g # NULL /\ \A j \in 1..Len(L) : L[j] # g
  BY <1>2, MemPoolAssumption DEF Listed, ToSet
<1>4. H \cup {g} = ToSet(M) \ {NULL}
  BY <1>2, <1>3 DEF Listed, ToSet
<1>5. \A j, k \in DOMAIN M : M[j] = M[k] /\ M[j] # NULL => j = k
  BY <1>2, <1>3 DEF Listed
<1> QED BY <1>1, <1>2, <1>4, <1>5 DEF Listed

\* An address that is not in use goes into a new node at the front.
LEMMA NodeAdded ==
    ASSUME NEW L \in Seq(Bigs \cup {NULL}), NEW H, Listed(L, H), NEW g \in Bigs \ H
    PROVE  /\ <<g>> \o L \in Seq(Bigs \cup {NULL})
           /\ Listed(<<g>> \o L, H \cup {g})
<1>1. PICK M : M = <<g>> \o L
  OBVIOUS
<1>2. /\ M \in Seq(Bigs \cup {NULL}) /\ DOMAIN L = 1..Len(L) /\ DOMAIN M = 1..(Len(L) + 1)
      /\ Len(L) \in Nat
      /\ M[1] = g /\ \A j \in 1..(Len(L) + 1) : j # 1 => j - 1 \in 1..Len(L) /\ M[j] = L[j - 1]
  BY <1>1
<1>3. g # NULL /\ \A j \in 1..Len(L) : L[j] # g
  BY <1>2, MemPoolAssumption DEF Listed, ToSet
<1>4. ASSUME NEW j \in 1..Len(L)
      PROVE  j + 1 \in 1..(Len(L) + 1) /\ M[j + 1] = L[j]
  BY <1>2
<1>5. ToSet(M) = {g} \cup ToSet(L)
  <2>1. ToSet(L) \subseteq ToSet(M) /\ g \in ToSet(M)
    <3>1. ASSUME NEW x \in ToSet(L)
          PROVE  x \in ToSet(M)
      <4>1. PICK j \in 1..Len(L) : x = L[j]
        BY <1>2 DEF ToSet
      <4>2. j + 1 \in DOMAIN M /\ M[j + 1] = x
        BY <1>2, <1>4, <4>1
      <4> QED BY <4>2 DEF ToSet
    <3>2. 1 \in DOMAIN M /\ M[1] = g
      BY <1>2
    <3>3. g \in ToSet(M)
      BY <3>2 DEF ToSet
    <3> QED BY <3>1, <3>3
  <2>2. ToSet(M) \subseteq {g} \cup ToSet(L)
    BY <1>2 DEF ToSet
  <2> QED BY <2>1, <2>2
<1>6. ASSUME NEW j \in DOMAIN M, NEW k \in DOMAIN M, M[j] = M[k], M[j] # NULL
      PROVE  j = k
  <2>1. CASE j = 1 \/ k = 1
    BY <1>2, <1>3, <1>6, <2>1
  <2>2. CASE j # 1 /\ k # 1
    <3>1. j - 1 \in 1..Len(L) /\ k - 1 \in 1..Len(L) /\ L[j - 1] = L[k - 1] /\ L[j - 1] # NULL
      BY <1>2, <1>6, <2>2
    <3>2. j - 1 = k - 1
      BY <1>2, <3>1 DEF Listed
    <3> QED BY <1>2, <3>2
  <2> QED BY <2>1, <2>2
<1>7. H \cup {g} = ToSet(M) \ {NULL}
  BY <1>3, <1>5 DEF Listed
<1> QED BY <1>1, <1>2, <1>6, <1>7 DEF Listed

\* Freeing an address empties its node (ngx_pfree).
LEMMA SlotEmptiedOK ==
    ASSUME NEW L \in Seq(Bigs \cup {NULL}), NEW H, Listed(L, H), NEW g \in Bigs
    PROVE  /\ SlotEmptied(L, g) \in Seq(Bigs \cup {NULL})
           /\ Listed(SlotEmptied(L, g), H \ {g})
<1>1. PICK M : M = SlotEmptied(L, g)
  OBVIOUS
<1>2. DOMAIN L = 1..Len(L) /\ Len(L) \in Nat
  OBVIOUS
<1>3. M = [i \in 1..Len(L) |-> IF L[i] = g THEN NULL ELSE L[i]]
  BY <1>1, <1>2 DEF SlotEmptied
<1>4. \A i \in 1..Len(L) : M[i] = (IF L[i] = g THEN NULL ELSE L[i]) /\ M[i] \in Bigs \cup {NULL}
  BY <1>2, <1>3
<1>5. M \in Seq(Bigs \cup {NULL}) /\ DOMAIN M = 1..Len(L)
  <2>1. M \in [1..Len(L) -> Bigs \cup {NULL}]
    BY <1>3, <1>4
  <2> QED BY <1>2, <2>1
<1>6. ToSet(M) \ {NULL} = (ToSet(L) \ {NULL}) \ {g}
  BY <1>2, <1>4, <1>5 DEF ToSet
<1>7. \A j, k \in DOMAIN M : M[j] = M[k] /\ M[j] # NULL => j = k
  BY <1>2, <1>4, <1>5 DEF Listed
<1> QED BY <1>1, <1>5, <1>6, <1>7 DEF Listed

\* Forgetting the whole list forgets every address (ngx_reset_pool and
\* ngx_destroy_pool).
LEMMA AllFreed ==
    ASSUME NEW L, NEW H, Listed(L, H)
    PROVE  H \ ToSet(L) = {} /\ Listed(<<>>, {})
BY DEF Listed, ToSet


\* What holds of every outcome o of a request to p.
OutcomeOK(p, o) ==
    /\ PoolOK(o.pool)
    /\ o.res \in Chunk \cup Bigs \cup {NULL}
    /\ AlignedPool /\ EndOK(p) => EndOK(o.pool)

\* The predicates on blocks do not look at the large list.
LEMMA BlocksOnly ==
    ASSUME NEW p, BlocksOK(p), NEW q \in PoolRecord,
           q.blocks = p.blocks, q.current = p.current, q.given = p.given
    PROVE  /\ BlocksOK(q)
           /\ EndOK(p) => EndOK(q)
<1>1. CurrentOK(q) /\ HeaderOK(q) /\ PlacesOK(q) /\ Apart(q) /\ FailedOK(q)
  BY DEF BlocksOK, CurrentOK, HeaderOK, PlacesOK, Apart, FailedOK
<1>2. EndOK(p) => EndOK(q)
  BY DEF EndOK
<1> QED BY <1>1, <1>2 DEF BlocksOK

\* ngx_palloc_large: the address malloc returns is in the list afterwards, or
\* nothing is taken.
LEMMA PallocLargeOK ==
    ASSUME NEW p, PoolOK(p), NEW o \in ngx_palloc_large(p)
    PROVE  OutcomeOK(p, o)
<1>1. /\ BlocksOK(p) /\ Listed(p.large, p.heap) /\ p \in PoolRecord
      /\ p.large \in Seq(Bigs \cup {NULL}) /\ p.heap \in SUBSET Bigs
  BY DEF PoolOK, BlocksOK, PoolRecord
<1> DEFINE slots == {i \in 1..Len(p.large) : i <= 5 /\ p.large[i] = NULL}
<1>2. CASE o = NothingFrom(p)
  BY <1>2 DEF NothingFrom, OutcomeOK
<1>3. ASSUME NEW g \in Bigs \ p.heap, slots # {},
             o = [pool |-> [p EXCEPT !.large[Min(slots)] = g, !.heap = @ \cup {g}], res |-> g]
      PROVE  OutcomeOK(p, o)
  <2>1. PICK i : i = Min(slots)
    OBVIOUS
  <2>2. i \in 1..Len(p.large) /\ p.large[i] = NULL
    <3>1. slots \subseteq Nat
      OBVIOUS
    <3>2. i \in slots
      BY <1>3, <2>1, <3>1, MinFacts
    <3> QED BY <3>2
  <2>3. PICK L, H : L = [p.large EXCEPT ![i] = g] /\ H = p.heap \cup {g}
    OBVIOUS
  <2>4. L \in Seq(Bigs \cup {NULL}) /\ H \in SUBSET Bigs /\ Listed(L, H)
    BY <1>1, <1>3, <2>2, <2>3, SlotFilled
  <2>5. o = [pool |-> [p EXCEPT !.large[i] = g, !.heap = @ \cup {g}], res |-> g]
    BY <1>3, <2>1
  <2>6. PICK z : z = [p EXCEPT !.large = L, !.heap = H]
    OBVIOUS
  <2>7. o.pool = z /\ o.res = g
    BY <1>1, <2>3, <2>5, <2>6 DEF PoolRecord
  <2>8. /\ z \in PoolRecord /\ z.large = L /\ z.heap = H
        /\ z.blocks = p.blocks /\ z.current = p.current /\ z.given = p.given
    BY <1>1, <2>3, <2>5, <2>4, <2>6 DEF PoolRecord
  <2>9. BlocksOK(z) /\ (EndOK(p) => EndOK(z))
    BY <1>1, <2>8, BlocksOnly
  <2> QED BY <2>4, <2>7, <2>8, <2>9 DEF OutcomeOK, PoolOK
<1>4. ASSUME NEW g \in Bigs \ p.heap,
             NEW x \in ngx_palloc_small(p, SizeofLarge, TRUE), x.res # NULL,
             o = [x EXCEPT !.pool.large = <<g>> \o @, !.pool.heap = @ \cup {g}, !.res = g]
      PROVE  OutcomeOK(p, o)
  <2>1. /\ ServedOK(p, x)
        /\ AlignedPool /\ EndOK(p) => EndOK(x.pool)
    <3>1. SizeofLarge \in Nat /\ TRUE \in BOOLEAN /\ (AlignedPool => SizeofData + SizeofLarge <= PoolSize)
      BY MemPoolAssumption DEF AlignedPool, SizeofLarge, SizeofData, SizeofPool
    <3> QED BY <1>1, <3>1, PallocSmallOK
  <2>2. \E q, r : x = [pool |-> q, res |-> r]
    BY DEF ngx_palloc_small, ngx_palloc_block, NothingFrom
  <2>3. PICK q, r : x = [pool |-> q, res |-> r]
    BY <2>2
  <2>4. x.pool = q /\ BlocksOK(q) /\ q.large = p.large /\ q.heap = p.heap /\ q \in PoolRecord
    BY <2>1, <2>3 DEF ServedOK, BlocksOK
  <2>5. PICK L, H : L = <<g>> \o p.large /\ H = p.heap \cup {g}
    OBVIOUS
  <2>6. L \in Seq(Bigs \cup {NULL}) /\ H \in SUBSET Bigs /\ Listed(L, H)
    BY <1>1, <1>4, <2>5, NodeAdded
  <2>7. PICK z : z = [q EXCEPT !.large = L, !.heap = H]
    OBVIOUS
  <2>8. o.pool = z /\ o.res = g
    BY <1>4, <2>3, <2>4, <2>5, <2>7 DEF PoolRecord
  <2>9. /\ z \in PoolRecord /\ z.large = L /\ z.heap = H
        /\ z.blocks = q.blocks /\ z.current = q.current /\ z.given = q.given
    BY <1>4, <2>3, <2>4, <2>5, <2>6, <2>7 DEF PoolRecord
  <2>10. BlocksOK(z) /\ (EndOK(q) => EndOK(z))
    BY <2>4, <2>9, BlocksOnly
  <2> QED BY <2>1, <2>4, <2>6, <2>8, <2>9, <2>10 DEF OutcomeOK, PoolOK
<1>5. \/ o = NothingFrom(p)
      \/ \E g \in Bigs \ p.heap :
           o \in IF slots # {}
                THEN {[pool |-> [p EXCEPT !.large[Min(slots)] = g, !.heap = @ \cup {g}], res |-> g]}
                ELSE IF Len(p.large) < MaxLarge
                THEN {[x EXCEPT !.pool.large = <<g>> \o @, !.pool.heap = @ \cup {g}, !.res = g] :
                         x \in {y \in ngx_palloc_small(p, SizeofLarge, TRUE) : y.res # NULL}}
                ELSE {}
  BY DEF ngx_palloc_large
<1>6. ASSUME o # NothingFrom(p)
      PROVE  \E g \in Bigs \ p.heap :
                \/ /\ slots # {}
                   /\ o = [pool |-> [p EXCEPT !.large[Min(slots)] = g, !.heap = @ \cup {g}], res |-> g]
                \/ \E x \in ngx_palloc_small(p, SizeofLarge, TRUE) :
                      /\ x.res # NULL
                      /\ o = [x EXCEPT !.pool.large = <<g>> \o @, !.pool.heap = @ \cup {g}, !.res = g]
  BY <1>5, <1>6
<1> HIDE DEF slots
<1> QED BY <1>2, <1>3, <1>4, <1>6

\* A request of any size leaves the pool in order.
LEMMA AllocateOK ==
    ASSUME NEW p, PoolOK(p), NEW size \in Nat, NEW align \in BOOLEAN,
           NEW o \in Allocate(p, size, align)
    PROVE  OutcomeOK(p, o)
<1>1. CASE size <= MaxSmall
  <2>1. o \in ngx_palloc_small(p, size, align) /\ BlocksOK(p) /\ Listed(p.large, p.heap)
    BY <1>1 DEF Allocate, PoolOK
  <2>2. AlignedPool => SizeofData + size <= PoolSize
    BY <1>1, MemPoolAssumption
       DEF AlignedPool, MaxSmall, SizeofData, SizeofPool, NGX_MAX_ALLOC_FROM_POOL
  <2>3. ServedOK(p, o) /\ (AlignedPool /\ EndOK(p) => EndOK(o.pool))
    BY <2>1, <2>2, PallocSmallOK
  <2> QED BY <2>1, <2>3 DEF ServedOK, OutcomeOK, PoolOK
<1>2. CASE ~(size <= MaxSmall)
  BY <1>2, PallocLargeOK DEF Allocate
<1> QED BY <1>1, <1>2


-----------------------------------------------------------------------------
(* The inductive invariants of the specification.                          *)

NoPool == [blocks |-> <<>>, current |-> 1, large |-> <<>>, heap |-> {}, given |-> {}]

\* A live pool is in order; a pool that is not live has no blocks and owns no
\* memory.
PoolInv ==
    /\ state \in {"none", "live", "destroyed"}
    /\ state = "none" => pool = NoPool
    /\ state = "live" => PoolOK(pool)
    /\ state = "destroyed" => /\ pool \in PoolRecord
                              /\ pool.blocks = <<>> /\ pool.large = <<>>
                              /\ pool.heap = {} /\ pool.given = {}
    /\ cleanup \in Seq(Chunk \cup Bigs)
    /\ failures \in 0..MaxFailures

\* No block of a live pool has given out more than it has.
EndInv == state = "live" => EndOK(pool)


\* A pool whose blocks are all empty: after ngx_create_pool and ngx_reset_pool.
LEMMA FreshOK ==
    ASSUME NEW n \in 1..MaxBlocks, NEW bs \in Seq(Block), Len(bs) = n,
           \A b \in 1..n : bs[b].last = SizeofPool /\ bs[b].failed = 0,
           NEW q, q = [blocks |-> bs, current |-> 1, large |-> <<>>, heap |-> {}, given |-> {}]
    PROVE  PoolOK(q) /\ (AlignedPool => EndOK(q))
<1>1. /\ q \in PoolRecord
      /\ q.blocks = bs /\ q.current = 1 /\ q.large = <<>> /\ q.heap = {} /\ q.given = {}
  BY MemPoolAssumption DEF PoolRecord
<1>2. CurrentOK(q) /\ PlacesOK(q) /\ Apart(q)
  BY <1>1, MemPoolAssumption DEF CurrentOK, PlacesOK, Apart
<1>3. HeaderOK(q)
  BY <1>1 DEF HeaderOK, Header, SizeofPool, SizeofData
<1>4. FailedOK(q)
  BY <1>1 DEF FailedOK
<1>5. Listed(q.large, q.heap)
  BY <1>1 DEF Listed, ToSet
<1>6. AlignedPool => EndOK(q)
  BY <1>1 DEF EndOK, AlignedPool
<1> QED BY <1>1, <1>2, <1>3, <1>4, <1>5, <1>6 DEF PoolOK, BlocksOK

\* A step of a live pool that replaces it by one in order.
LEMMA OutcomeKeeps ==
    ASSUME PoolInv, state = "live", UNCHANGED state,
           NEW p, PoolOK(p), EndInv /\ AlignedPool => EndOK(p),
           NEW o, OutcomeOK(p, o), Outcome(o),
           cleanup' \in Seq(Chunk \cup Bigs)
    PROVE  PoolInv' /\ (AlignedPool /\ EndInv => EndInv')
<1>1. pool' = o.pool /\ state' = "live"
  BY DEF Outcome
<1>2. PoolOK(pool') /\ (AlignedPool /\ EndOK(p) => EndOK(pool'))
  BY <1>1 DEF OutcomeOK
<1>3. failures' \in 0..MaxFailures
  <2>1. failures \in Nat /\ MaxFailures \in Nat
    BY MemPoolAssumption DEF PoolInv
  <2> QED BY <2>1 DEF Outcome
<1> QED BY <1>1, <1>2, <1>3 DEF PoolInv, EndInv

\* One step per function of the class: the invariants are kept, the one on the
\* ends of the blocks for an aligned pool.
LEMMA StepOK ==
    ASSUME PoolInv, [Next]_vars
    PROVE  PoolInv' /\ (AlignedPool /\ EndInv => EndInv')
<1>1. CASE ngx_create_pool /\ state' = "live"
  <2>1. PICK r, bs : r = [last |-> SizeofPool, failed |-> 0] /\ bs = <<r>>
    OBVIOUS
  <2>2. r \in Block /\ r.last = SizeofPool /\ r.failed = 0
    BY <2>1 DEF Block, SizeofPool, FailedCap
  <2>3. /\ bs \in Seq(Block) /\ Len(bs) = 1
        /\ \A b \in 1..1 : bs[b].last = SizeofPool /\ bs[b].failed = 0
    BY <2>1, <2>2
  <2>4. /\ pool = NoPool /\ pool' = [pool EXCEPT !.blocks = bs]
        /\ UNCHANGED <<cleanup, failures>>
    BY <1>1, <2>1 DEF ngx_create_pool, PoolInv
  <2>5. pool' = [blocks |-> bs, current |-> 1, large |-> <<>>, heap |-> {}, given |-> {}]
    BY <2>4 DEF NoPool
  <2>6. PoolOK(pool') /\ (AlignedPool => EndOK(pool'))
    <3>1. 1 \in 1..MaxBlocks
      BY MemPoolAssumption
    <3> QED BY <2>3, <2>5, <3>1, FreshOK
  <2> QED BY <1>1, <2>4, <2>6 DEF PoolInv, EndInv
<1>2. CASE ngx_reset_pool
  <2>1. PoolOK(pool) /\ state = "live" /\ state' = "live" /\ UNCHANGED <<cleanup, failures>>
    BY <1>2 DEF ngx_reset_pool, PoolInv
  <2>2. PICK n : n = Len(pool.blocks)
    OBVIOUS
  <2>3. DOMAIN pool.blocks = 1..n /\ n \in 1..MaxBlocks
    <3>1. pool.blocks \in Seq(Block) /\ CurrentOK(pool)
      BY <2>1 DEF PoolOK, BlocksOK, PoolRecord
    <3> QED BY <2>2, <3>1, MemPoolAssumption DEF CurrentOK
  <2>4. PICK r, bs : r = [last |-> SizeofPool, failed |-> 0] /\ bs = [b \in 1..n |-> r]
    OBVIOUS
  <2>5. r \in Block /\ r.last = SizeofPool /\ r.failed = 0
    BY <2>4 DEF Block, SizeofPool, FailedCap
  <2>6. /\ bs \in Seq(Block) /\ Len(bs) = n
        /\ \A b \in 1..n : bs[b].last = SizeofPool /\ bs[b].failed = 0
    <3>1. bs \in [1..n -> Block]
      BY <2>4, <2>5
    <3> QED BY <2>3, <2>4, <2>5, <3>1
  <2>7. pool.heap \ ToSet(pool.large) = {}
    BY <2>1, AllFreed DEF PoolOK
  <2>8. pool' = [blocks |-> bs, current |-> 1, large |-> <<>>, heap |-> {}, given |-> {}]
    BY <1>2, <2>3, <2>4, <2>7 DEF ngx_reset_pool, CurrentReset
  <2>9. PoolOK(pool') /\ (AlignedPool => EndOK(pool'))
    BY <2>3, <2>6, <2>8, FreshOK
  <2> QED BY <2>1, <2>9 DEF PoolInv, EndInv
<1>3. CASE ngx_destroy_pool
  <2>1. PoolOK(pool) /\ pool \in PoolRecord
    BY <1>3 DEF ngx_destroy_pool, PoolInv, PoolOK, BlocksOK
  <2>2. pool.heap \ ToSet(pool.large) = {}
    BY <2>1, AllFreed DEF PoolOK
  <2>3. /\ state' = "destroyed" /\ cleanup' = <<>> /\ UNCHANGED failures
        /\ pool' = [pool EXCEPT !.blocks = <<>>, !.large = <<>>, !.heap = {}, !.given = {}]
    BY <1>3, <2>1, <2>2 DEF ngx_destroy_pool, PoolRecord
  <2>4. /\ pool' \in PoolRecord /\ pool'.blocks = <<>> /\ pool'.large = <<>>
        /\ pool'.heap = {} /\ pool'.given = {}
    <3>1. PICK L, H : L = <<>> /\ H = {}
      OBVIOUS
    <3>2. \A S : L \in Seq(S)
      BY <3>1
    <3>3. pool' = [pool EXCEPT !.blocks = L, !.large = L, !.heap = H, !.given = H]
      BY <2>3, <3>1
    <3>4. /\ pool' \in PoolRecord /\ pool'.blocks = L /\ pool'.large = L
          /\ pool'.heap = H /\ pool'.given = H
      BY <2>1, <3>1, <3>2, <3>3 DEF PoolRecord
    <3> QED BY <3>1, <3>4
  <2> QED BY <2>3, <2>4 DEF PoolInv, EndInv
<1>4. ASSUME NEW size \in Sizes, NEW align \in BOOLEAN, state = "live",
             \E o \in Allocate(pool, size, align) : Outcome(o), UNCHANGED <<state, cleanup>>
      PROVE  PoolInv' /\ (AlignedPool /\ EndInv => EndInv')
  <2>1. PICK o \in Allocate(pool, size, align) : Outcome(o)
    BY <1>4
  <2>2. PoolOK(pool) /\ size \in Nat
    BY <1>4, MemPoolAssumption DEF PoolInv
  <2>3. OutcomeOK(pool, o)
    BY <2>2, AllocateOK
  <2>4. cleanup' \in Seq(Chunk \cup Bigs)
    BY <1>4 DEF PoolInv
  <2>5. EndInv => EndOK(pool)
    BY <1>4 DEF EndInv
  <2> QED BY <1>4, <2>1, <2>2, <2>3, <2>4, <2>5, OutcomeKeeps
<1>5. ASSUME NEW size \in Sizes \cup {0}, ngx_pool_cleanup_add(size)
      PROVE  PoolInv' /\ (AlignedPool /\ EndInv => EndInv')
  <2>1. PICK node \in Allocate(pool, SizeofCleanup, TRUE) :
            \/ /\ node.res = NULL \/ size = 0
               /\ Outcome(node)
               /\ cleanup' = Linked(cleanup, node.res)
            \/ /\ node.res # NULL /\ size # 0
               /\ \E data \in Allocate(node.pool, size, TRUE) :
                     /\ Outcome(data)
                     /\ cleanup' = IF data.res = NULL THEN cleanup ELSE Linked(cleanup, node.res)
    BY <1>5 DEF ngx_pool_cleanup_add
  <2>2. /\ PoolOK(pool) /\ state = "live" /\ UNCHANGED state /\ size \in Nat
        /\ SizeofCleanup \in Nat /\ TRUE \in BOOLEAN /\ (EndInv => EndOK(pool))
        /\ cleanup \in Seq(Chunk \cup Bigs)
    BY <1>5, MemPoolAssumption DEF ngx_pool_cleanup_add, PoolInv, EndInv, SizeofCleanup
  <2>3. OutcomeOK(pool, node)
    BY <2>2, AllocateOK
  <2>4. Linked(cleanup, node.res) \in Seq(Chunk \cup Bigs)
    <3>1. node.res = NULL \/ node.res \in Chunk \cup Bigs
      BY <2>3 DEF OutcomeOK
    <3>2. PICK r : r = node.res
      OBVIOUS
    <3>3. r \in Chunk \cup Bigs => <<r>> \o cleanup \in Seq(Chunk \cup Bigs)
      <4>1. PICK S : S = Chunk \cup Bigs
        OBVIOUS
      <4>2. r \in S => <<r>> \o cleanup \in Seq(S)
        BY <2>2, <4>1
      <4> QED BY <4>1, <4>2
    <3> QED BY <2>2, <3>1, <3>2, <3>3 DEF Linked
  <2>5. CASE Outcome(node) /\ cleanup' = Linked(cleanup, node.res)
    BY <2>2, <2>3, <2>4, <2>5, OutcomeKeeps
  <2>6. ASSUME NEW data \in Allocate(node.pool, size, TRUE), Outcome(data),
               cleanup' = IF data.res = NULL THEN cleanup ELSE Linked(cleanup, node.res)
        PROVE  PoolInv' /\ (AlignedPool /\ EndInv => EndInv')
    <3>1. PICK p : p = node.pool
      OBVIOUS
    <3>2. PoolOK(p) /\ (EndInv /\ AlignedPool => EndOK(p))
      BY <2>2, <2>3, <3>1 DEF OutcomeOK
    <3>3. data \in Allocate(p, size, TRUE)
      BY <3>1
    <3>4. OutcomeOK(p, data)
      BY <2>2, <3>2, <3>3, AllocateOK
    <3>5. cleanup' \in Seq(Chunk \cup Bigs)
      BY <2>2, <2>4, <2>6
    <3> QED BY <2>2, <2>6, <3>2, <3>4, <3>5, OutcomeKeeps
  <2> QED BY <2>1, <2>5, <2>6
<1>6. ASSUME NEW g \in Bigs, ngx_pfree(g)
      PROVE  PoolInv' /\ (AlignedPool /\ EndInv => EndInv')
  <2>1. /\ PoolOK(pool) /\ pool \in PoolRecord /\ state = "live"
        /\ UNCHANGED <<state, cleanup, failures>>
        /\ pool.large \in Seq(Bigs \cup {NULL}) /\ pool.heap \in SUBSET Bigs
    BY <1>6 DEF ngx_pfree, PoolInv, PoolOK, BlocksOK, PoolRecord
  <2>2. PICK L, H : L = SlotEmptied(pool.large, g) /\ H = pool.heap \ {g}
    OBVIOUS
  <2>3. L \in Seq(Bigs \cup {NULL}) /\ Listed(L, H) /\ H \in SUBSET Bigs
    BY <2>1, <2>2, SlotEmptiedOK DEF PoolOK
  <2>4. pool' = [pool EXCEPT !.large = L, !.heap = H]
    BY <1>6, <2>1, <2>2 DEF ngx_pfree, PoolRecord
  <2>5. /\ pool' \in PoolRecord /\ pool'.large = L /\ pool'.heap = H
        /\ pool'.blocks = pool.blocks /\ pool'.current = pool.current /\ pool'.given = pool.given
    BY <2>1, <2>3, <2>4 DEF PoolRecord
  <2>6. BlocksOK(pool') /\ (EndOK(pool) => EndOK(pool'))
    BY <2>1, <2>5, BlocksOnly DEF PoolOK
  <2> QED BY <2>1, <2>3, <2>5, <2>6 DEF PoolInv, EndInv, PoolOK
<1>7. CASE UNCHANGED vars
  BY <1>7 DEF vars, PoolInv, EndInv
<1>9. CASE ngx_create_pool /\ state' # "live"
  <2>1. /\ state = "none" /\ state' = "none" /\ UNCHANGED cleanup
        /\ Outcome(NothingFrom(pool))
    BY <1>9 DEF ngx_create_pool
  <2>2. pool' = pool
    BY <2>1 DEF Outcome, NothingFrom
  <2>3. failures' \in 0..MaxFailures
    <3>1. failures \in Nat /\ MaxFailures \in Nat
      BY MemPoolAssumption DEF PoolInv
    <3> QED BY <2>1, <3>1 DEF Outcome
  <2> QED BY <2>1, <2>2, <2>3 DEF PoolInv, EndInv
<1>8. ASSUME NEW size \in Sizes, ngx_palloc(size) \/ ngx_pnalloc(size)
      PROVE  PoolInv' /\ (AlignedPool /\ EndInv => EndInv')
  BY <1>4, <1>8 DEF ngx_palloc, ngx_pnalloc
<1> QED BY <1>1, <1>2, <1>3, <1>5, <1>6, <1>7, <1>8, <1>9 DEF Next


\* Before ngx_create_pool there is no pool.
LEMMA InitOK ==
    ASSUME Init
    PROVE  PoolInv /\ EndInv
BY MemPoolAssumption DEF Init, PoolInv, EndInv, NoPool

\* In every state the pool record has its type, and it owns what is listed.
LEMMA PoolInvShape ==
    ASSUME PoolInv
    PROVE  /\ pool \in PoolRecord
           /\ Listed(pool.large, pool.heap)
           /\ state = "live" \/ (pool.blocks = <<>> /\ pool.given = {})
<1>1. CASE state = "live"
  BY <1>1 DEF PoolInv, PoolOK, BlocksOK
<1>2. CASE state = "none"
  <2>1. pool = NoPool
    BY <1>2 DEF PoolInv
  <2>2. /\ pool.blocks = <<>> /\ pool.current = 1 /\ pool.large = <<>>
        /\ pool.heap = {} /\ pool.given = {}
    BY <2>1 DEF NoPool
  <2>3. pool \in PoolRecord
    BY <2>1, MemPoolAssumption DEF NoPool, PoolRecord
  <2> QED BY <2>2, <2>3 DEF Listed, ToSet
<1>3. CASE state = "destroyed"
  BY <1>3 DEF PoolInv, Listed, ToSet
<1> QED BY <1>1, <1>2, <1>3 DEF PoolInv

-----------------------------------------------------------------------------
(* The theorems.                                                           *)

\* For every pool size, every function of the class keeps the pool in order.
THEOREM Invariance == Spec => []PoolInv
<1>1. Init => PoolInv
  BY InitOK
<1>2. PoolInv /\ [Next]_vars => PoolInv'
  BY StepOK
<1> QED BY <1>1, <1>2, PTL DEF Spec

\* For an aligned pool size, no function of the class moves the last of a block
\* beyond its end.
THEOREM EndInvariance == AlignedPool /\ Spec => []EndInv
<1> SUFFICES ASSUME AlignedPool
             PROVE  Spec => []EndInv
  OBVIOUS
<1>1. Init => PoolInv /\ EndInv
  BY InitOK
<1>2. PoolInv /\ EndInv /\ [Next]_vars => (PoolInv /\ EndInv)'
  BY StepOK
<1> QED BY <1>1, <1>2, PTL DEF Spec

\* Every variable keeps its type; current is a block of a live pool.
THEOREM TypeCorrect == Spec => []TypeOK
<1>1. PoolInv => TypeOK
  <2> SUFFICES ASSUME PoolInv
               PROVE  TypeOK
    OBVIOUS
  <2>1. state = "live" => pool.current <= Len(pool.blocks)
    <3>1. state = "live" => pool.current \in 1..Len(pool.blocks)
      BY DEF PoolInv, PoolOK, BlocksOK, CurrentOK
    <3>2. Len(pool.blocks) \in Nat
      BY PoolInvShape DEF PoolRecord
    <3> QED BY <3>1, <3>2
  <2> QED BY <2>1, PoolInvShape DEF TypeOK, PoolInv, PoolRecord, Block
<1> QED BY <1>1, Invariance, PTL

\* The chunks ngx_palloc, ngx_pnalloc, the large list and the cleanup list have cut
\* from a block since the last ngx_reset_pool do not overlap, and the block goes
\* on behind all of them.  This holds for every pool size: even a pool that
\* hands out memory beyond a block's end does not hand out the same offsets
\* twice between two resets.
THEOREM GivenOnce == Spec => []NeverGivenTwice
<1>1. PoolInv => NeverGivenTwice
  BY PoolInvShape DEF PoolInv, PoolOK, BlocksOK, PlacesOK, Apart, NeverGivenTwice
<1> QED BY <1>1, Invariance, PTL

\* For a pool size that is a multiple of NGX_ALIGNMENT and holds the header, a
\* chunk lies behind the header of its block and ends inside it.
THEOREM Inside == AlignedPool /\ Spec => []InsideBlock
<1>1. PoolInv /\ EndInv => InsideBlock
  <2> SUFFICES ASSUME PoolInv, EndInv, NEW c \in pool.given
               PROVE  /\ c.lo >= IF c.blk = 1 THEN SizeofPool ELSE SizeofData
                      /\ c.hi <= PoolSize
    BY DEF InsideBlock
  <2>1. state = "live" /\ pool \in PoolRecord
    BY PoolInvShape
  <2>2. /\ c.blk \in 1..Len(pool.blocks) /\ Header(c.blk) <= c.lo
        /\ c.hi <= pool.blocks[c.blk].last /\ pool.blocks[c.blk].last <= PoolSize
    BY <2>1 DEF PoolInv, PoolOK, BlocksOK, PlacesOK, EndInv, EndOK
  <2>3. c.lo \in Nat /\ c.hi \in Nat
    BY <2>1 DEF PoolRecord, Chunk
  <2>4. pool.blocks[c.blk].last \in Nat
    <3>1. pool.blocks \in Seq(Block)
      BY <2>1 DEF PoolRecord
    <3>2. pool.blocks[c.blk] \in Block
      BY <2>2, <3>1
    <3> QED BY <3>2 DEF Block
  <2> QED BY <2>2, <2>3, <2>4, MemPoolAssumption DEF Header, SizeofPool, SizeofData
<1> QED BY <1>1, Invariance, EndInvariance, PTL

\* What malloc has given out for large requests and ngx_pfree has not returned is
\* in the large list exactly once: ngx_reset_pool and ngx_destroy_pool leak
\* nothing and free nothing twice.
THEOREM LargeKnown == Spec => []LargeListed
<1>1. PoolInv => LargeListed
  BY PoolInvShape DEF Listed, LargeListed
<1> QED BY <1>1, Invariance, PTL

\* ngx_palloc_block moves current only behind blocks that have failed six times
\* since the last ngx_reset_pool.
THEOREM Skipping == Spec => []SkippedHaveFailed
<1>1. PoolInv => SkippedHaveFailed
  BY PoolInvShape DEF PoolInv, PoolOK, BlocksOK, FailedOK, SkippedHaveFailed
<1> QED BY <1>1, Invariance, PTL
=============================================================================
