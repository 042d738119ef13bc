------------------------- MODULE AnomalyTrackerLoop -------------------------
(***************************************************************************)
(* One AnomalyTracker under any sequence of observe() and reset() calls.   *)
(* policy_ is chosen once, by the constructor, from any raw configuration. *)
(* The names are not those of IghRuntime, so that one module can extend    *)
(* both.                                                                   *)
(***************************************************************************)
EXTENDS AnomalyTracker

CONSTANT Configurations   (* the raw policies the environment may configure *)

ASSUME ConfigurationAssumption == Configurations \subseteq RawPolicies

VARIABLES policy, tracked

trackerVars == <<policy, tracked>>

TrackerTypeOK ==
  /\ policy \in Policies
  /\ tracked \in Trackers(policy)

TrackerInit ==
  /\ \E raw \in Configurations : policy = Sanitize(raw)
  /\ tracked = Cleared

ObserveStep(anomaly) ==
  /\ tracked' = Observe(policy, tracked, anomaly)
  /\ UNCHANGED policy

ResetKeepsRun ==
  /\ tracked' = [Cleared EXCEPT !.consecutive = tracked.consecutive]
  /\ UNCHANGED policy

ResetStep ==
  /\ tracked' = Cleared
  /\ UNCHANGED policy

TrackerNext == ResetStep \/ \E anomaly \in BOOLEAN : ObserveStep(anomaly)

TrackerSpec == TrackerInit /\ [][TrackerNext]_trackerVars

-----------------------------------------------------------------------------
(* The running count is the number of 1 bits, whatever the history: the    *)
(* decrement on eviction (lines 56-58) never misses or doubles a bit.      *)
CountIsExact == tracked.window_count = Cardinality(tracked.bits)

(* A window full of anomalies always stops the bus, whatever was           *)
(* configured: sanitize never leaves a threshold the window cannot reach   *)
(* (the fail-closed comment at lines 39-40).                               *)
FullWindowStops ==
  tracked.bits = 0..(policy.window_size - 1) => StopRequired(policy, tracked)

-----------------------------------------------------------------------------
(* The slot that holds the sample of the given age (1 = newest).           *)
Slot(cursor, age) ==
  IF age <= cursor THEN cursor - age ELSE cursor + policy.window_size - age

Recent == [age \in 1..policy.window_size |-> Slot(tracked.cursor, age) \in tracked.bits]
Run == IF tracked.consecutive < policy.consecutive_stop
         THEN tracked.consecutive ELSE policy.consecutive_stop

Abstract == INSTANCE SlidingWindow WITH
  recent <- Recent, run <- Run, stop <- StopRequired(policy, tracked)

(* The bitmap tracker implements the sliding window: its stop_required is  *)
(* exactly "consecutive_stop anomalies in a row, or window_stop of the     *)
(* last window_size samples", at every moment and after every reset.       *)
ImplementsSlidingWindow == Abstract!Spec
=============================================================================
