---------------------------- MODULE ResourcePool ----------------------------
(***************************************************************************)
(* What a connection pool promises, without queue, counter, threads or     *)
(* locks: every resource is idle or owned by exactly one user, there are   *)
(* never more than Cap of them, and one is destroyed only while it is idle *)
(* and more than Floor exist.                                              *)
(***************************************************************************)
EXTENDS Integers, FiniteSets

CONSTANTS Users, Resources, NULL, Floor, Cap

VARIABLES idle, owner

vars == <<idle, owner>>

InUse == {owner[u] : u \in Users} \ {NULL}

All == idle \cup InUse

Init == idle = {} /\ owner = [u \in Users |-> NULL]

Create(r) ==
    /\ r \notin All
    /\ Cardinality(All) < Cap
    /\ idle' = idle \cup {r}
    /\ UNCHANGED owner

Acquire(u, r) ==
    /\ owner[u] = NULL
    /\ r \in idle
    /\ idle' = idle \ {r}
    /\ owner' = [owner EXCEPT ![u] = r]

Release(u) ==
    /\ owner[u] # NULL
    /\ idle' = idle \cup {owner[u]}
    /\ owner' = [owner EXCEPT ![u] = NULL]

Destroy(r) ==
    /\ r \in idle
    /\ Cardinality(All) > Floor
    /\ idle' = idle \ {r}
    /\ UNCHANGED owner

Next ==
    \/ \E r \in Resources : Create(r) \/ Destroy(r)
    \/ \E u \in Users : Release(u) \/ \E r \in Resources : Acquire(u, r)

Spec == Init /\ [][Next]_vars
=============================================================================
