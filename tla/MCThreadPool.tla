---------------------------- MODULE MCThreadPool ----------------------------
(* Small instances of ThreadPool for TLC.  Liveness is checked, so there   *)
(* is no symmetry.                                                         *)
EXTENDS ThreadPool

CONSTANTS t1, t2, t3

\* A queue of no tasks, and a negative limit, which the code takes for no limit.
ZeroOrUnlimited == {0, -1}

\* Tasks are interchangeable, so they may as well be submitted in this order.
InOrder ==
    /\ fate[t1] = "new" => fate'[t2] = "new"
    /\ fate[t2] = "new" => fate'[t3] = "new"
=============================================================================
