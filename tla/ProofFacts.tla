----------------------------- MODULE ProofFacts -----------------------------
(***************************************************************************)
(* Facts the proofs of several components need: what is in a queue after a *)
(* push or a pop, where std::queue is a sequence, and that sets of natural *)
(* numbers have a smallest and, when bounded, a largest member.            *)
(***************************************************************************)
EXTENDS Integers, Sequences, SequenceTheorems, WellFoundedInduction, TLAPS

-----------------------------------------------------------------------------
(* Queues.                                                                 *)

SeqRange(s) == {s[i] : i \in 1..Len(s)}

Distinct(s) == \A i, j \in 1..Len(s) : s[i] = s[j] => i = j

\* Pushing adds the element to what is in the queue, and keeps the elements
\* distinct when it is new (queue::push).
LEMMA PushFacts ==
    ASSUME NEW S, NEW s \in Seq(S), NEW e \in S
    PROVE  /\ Append(s, e) \in Seq(S)
           /\ SeqRange(Append(s, e)) = SeqRange(s) \cup {e}
           /\ Distinct(s) /\ e \notin SeqRange(s) => Distinct(Append(s, e))
<1>1. /\ Append(s, e) \in Seq(S)
      /\ Len(Append(s, e)) = Len(s) + 1
      /\ \A i \in 1..Len(s) : Append(s, e)[i] = s[i]
      /\ Append(s, e)[Len(s) + 1] = e
      /\ Len(s) \in Nat
  BY AppendProperties, LenProperties
<1>2. 1..(Len(s) + 1) = 1..Len(s) \cup {Len(s) + 1}
  BY <1>1
<1>3. SeqRange(Append(s, e)) = SeqRange(s) \cup {e}
  BY <1>1, <1>2 DEF SeqRange
<1>4. ASSUME Distinct(s), e \notin SeqRange(s)
      PROVE  Distinct(Append(s, e))
  BY <1>1, <1>2, <1>4 DEF Distinct, SeqRange
<1> QED BY <1>1, <1>3, <1>4

\* Popping a queue of distinct elements removes exactly its front (queue::pop).
LEMMA PopFacts ==
    ASSUME NEW S, NEW s \in Seq(S), s # <<>>
    PROVE  /\ Tail(s) \in Seq(S)
           /\ Head(s) \in S
           /\ Head(s) \in SeqRange(s)
           /\ Len(Tail(s)) = Len(s) - 1
           /\ \A i \in 1..Len(Tail(s)) : i + 1 \in 1..Len(s) /\ Tail(s)[i] = s[i + 1]
           /\ Distinct(s) => Distinct(Tail(s)) /\ SeqRange(Tail(s)) = SeqRange(s) \ {Head(s)}
<1>1. /\ Tail(s) \in Seq(S)
      /\ Len(Tail(s)) = Len(s) - 1
      /\ \A i \in 1..Len(Tail(s)) : Tail(s)[i] = s[i + 1]
      /\ Head(s) \in S
  BY HeadTailProperties
<1>2. Len(s) \in Nat /\ Len(s) # 0 /\ Head(s) = s[1]
  BY LenProperties, EmptySeq
<1>3. \A i \in 1..Len(Tail(s)) : i + 1 \in 1..Len(s) /\ Tail(s)[i] = s[i + 1]
  BY <1>1, <1>2
<1>4. Head(s) \in SeqRange(s)
  BY <1>2 DEF SeqRange
<1>5. ASSUME Distinct(s)
      PROVE  Distinct(Tail(s)) /\ SeqRange(Tail(s)) = SeqRange(s) \ {Head(s)}
  <2>1. Distinct(Tail(s))
    BY <1>1, <1>2, <1>3, <1>5 DEF Distinct
  <2>2. SeqRange(Tail(s)) \subseteq SeqRange(s) \ {Head(s)}
    BY <1>1, <1>2, <1>3, <1>5 DEF Distinct, SeqRange
  <2>3. ASSUME NEW x \in SeqRange(s) \ {Head(s)}
        PROVE  x \in SeqRange(Tail(s))
    <3>1. PICK i \in 1..Len(s) : x = s[i]
      BY DEF SeqRange
    <3>2. i # 1
      BY <3>1, <1>2
    <3>3. i - 1 \in 1..Len(Tail(s)) /\ Tail(s)[i - 1] = s[i]
      BY <3>2, <1>1, <1>2
    <3> QED BY <3>1, <3>3 DEF SeqRange
  <2> QED BY <2>1, <2>2, <2>3
<1> QED BY <1>1, <1>3, <1>4, <1>5

-----------------------------------------------------------------------------
(* Smallest and largest members.                                           *)

\* A nonempty set of natural numbers has a smallest member: what a loop finds that
\* searches upwards and stops at the first hit.
LEMMA SmallestExists ==
    ASSUME NEW S, S \subseteq Nat, S # {}
    PROVE  \E x \in S : \A y \in S : x <= y
<1>1. \E x \in S : \A y \in S : ~ (<<y, x>> \in OpToRel(<, Nat))
  BY WFMin, NatLessThanWellFounded
<1>2. PICK x \in S : \A y \in S : ~ (<<y, x>> \in OpToRel(<, Nat))
  BY <1>1
<1>3. ASSUME NEW y \in S
      PROVE  x <= y
  <2>1. ~ (<<y, x>> \in OpToRel(<, Nat))
    BY <1>2
  <2>2. ~ (y < x)
    BY <2>1 DEF OpToRel
  <2> QED BY <2>2
<1> QED BY <1>3

\* A bounded nonempty set of natural numbers has a largest member: what a loop
\* keeps that goes on to the last hit.
LEMMA LargestExists ==
    ASSUME NEW S, S \subseteq Nat, S # {}, NEW n \in Nat, \A y \in S : y <= n
    PROVE  \E x \in S : \A y \in S : x >= y
<1> DEFINE T == {n - y : y \in S}
<1>1. T \subseteq Nat /\ T # {}
  <2>1. ASSUME NEW y \in S
        PROVE  n - y \in Nat
    <3>1. y \in Nat /\ y <= n
      OBVIOUS
    <3> QED BY <3>1
  <2>2. PICK y \in S : TRUE
    OBVIOUS
  <2>3. n - y \in T
    BY <2>2
  <2> QED BY <2>1, <2>3
<1>2. PICK m \in T : \A z \in T : m <= z
  BY <1>1, SmallestExists
<1>3. PICK x \in S : m = n - x
  OBVIOUS
<1>4. ASSUME NEW y \in S
      PROVE  x >= y
  <2>1. n - y \in T
    OBVIOUS
  <2>2. n - x <= n - y
    BY <2>1, <1>2, <1>3
  <2>3. x \in Nat /\ y \in Nat
    OBVIOUS
  <2> QED BY <2>2, <2>3
<1> QED BY <1>4
=============================================================================
