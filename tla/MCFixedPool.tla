---------------------------- MODULE MCFixedPool -----------------------------
(* Small instances of FixedPool for TLC: the first Task object is          *)
(* submitted twice.  Liveness is checked, so there is no symmetry.         *)
EXTENDS FixedPool

CONSTANTS s1, s2, s3, t1, t2

ThreeOfTwo == [s \in {s1, s2, s3} |-> IF s = s3 THEN t2 ELSE t1]
=============================================================================
