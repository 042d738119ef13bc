-------------------------- MODULE MCMasterLifecycle --------------------------
(* Two Masters of one index, one of them for supervised motion and one for *)
(* observation, alive at once or one after the other.                      *)
EXTENDS MasterLifecycle
=============================================================================
