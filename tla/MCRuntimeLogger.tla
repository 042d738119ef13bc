-------------------------- MODULE MCRuntimeLogger ---------------------------
(* Two sessions of a ring that holds two events, filled by two events of   *)
(* the Job and two commands.                                               *)
EXTENDS RuntimeLogger
=============================================================================
