-------------------------- MODULE MCConnectionPool --------------------------
(* Small instances of ConnectionPool for TLC: the configurations give the  *)
(* constants their values.  Liveness is checked, so there is no symmetry.  *)
EXTENDS ConnectionPool
=============================================================================
