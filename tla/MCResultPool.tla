---------------------------- MODULE MCResultPool ----------------------------
(* Small instances of ResultPool for TLC.  Liveness is checked, so there   *)
(* is no symmetry.                                                         *)
EXTENDS ResultPool

CONSTANTS s1, s2, s3, t1, t2

\* Every submission has a Task object of its own.
OneEach == [s \in {s1, s2} |-> IF s = s1 THEN t1 ELSE t2]

\* The first Task object is submitted twice.
ThreeOfTwo == [s \in {s1, s2, s3} |-> IF s = s3 THEN t2 ELSE t1]

\* A bound: the two submissions of the first object, which are interchangeable, come
\* in this order, and the third one, which competes for the queue and the
\* workers, has an owner who keeps its Result and never calls get().
OneAgainBesideAnother ==
    /\ fate[s1] = "new" => fate'[s2] = "new"
    /\ getter'[s3] = "idle"
=============================================================================
