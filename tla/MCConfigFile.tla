---------------------------- MODULE MCConfigFile ----------------------------
(* Small instances of ConfigFile for TLC: the configurations give the      *)
(* constants their values.                                                 *)
EXTENDS ConfigFile
=============================================================================
