-------------------------- MODULE MCEnableMachine --------------------------
(***************************************************************************)
(* A small instance of EnableMachine: delays and debounces of one or two   *)
(* cycles, so that a wait, a debounce that starts again and a confirmed    *)
(* one all occur, and a wait counter of three values, so that the wrap     *)
(* below zero shows.                                                       *)
(***************************************************************************)
EXTENDS EnableMachine
=============================================================================
