---------------------------- MODULE MCSafeOutput ----------------------------
(***************************************************************************)
(* Small instances of SafeOutput: a window of two cycles in a counter of   *)
(* four values, so that it wraps within a short run.                       *)
(***************************************************************************)
EXTENDS SafeOutput
=============================================================================
