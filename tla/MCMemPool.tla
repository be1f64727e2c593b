------------------------------ MODULE MCMemPool -----------------------------
(* Small instances of MemPool for TLC. *)
EXTENDS MemPool, TLC

\* The addresses of large requests are interchangeable.
Symmetry == Permutations(Bigs)
=============================================================================
