--------------------------- MODULE MCSetpointPath ---------------------------
(***************************************************************************)
(* A small instance of SetpointPath: every channel, a dwell of two cycles, *)
(* so that it can be interrupted, and three epochs, so that a setpoint can *)
(* meet a safety reset and a mode change after it, in either order.        *)
(***************************************************************************)
EXTENDS SetpointPath
=============================================================================
