---------------------------- MODULE MCIghRuntime ----------------------------
(* Small instances of IghRuntime: two anomalies in a row, or in a window of *)
(* two, stop the bus; one deadline miss or DC drift does.                   *)
EXTENDS IghRuntime

MCPolicies ==
  [m \in Monitors |->
     IF m = "wkc" THEN [consecutive_stop |-> 2, window_size |-> 2, window_stop |-> 2]
     ELSE [consecutive_stop |-> 1, window_size |-> 1, window_stop |-> 1]]
=============================================================================
