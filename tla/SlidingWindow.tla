---------------------------- MODULE SlidingWindow ----------------------------
(***************************************************************************)
(* What an anomaly tracker promises, without bitmap, cursor or counters:   *)
(* it remembers the last window_size samples (recent[1] is the newest) and *)
(* the length of the current run of anomalies, and asks for a stop exactly *)
(* when the run is long enough or enough of the remembered samples are     *)
(* anomalies.                                                              *)
(***************************************************************************)
EXTENDS Naturals, FiniteSets

VARIABLES
  policy,   (* thresholds, fixed at construction                           *)
  recent,   (* [1..window_size -> BOOLEAN]                                 *)
  run,      (* current run of anomalies, counted up to consecutive_stop    *)
  stop      (* the verdict                                                 *)

vars == <<policy, recent, run, stop>>

Ages == 1..policy.window_size
Anomalous(samples) == {age \in Ages : samples[age]}
Verdict(samples, length) ==
  \/ length = policy.consecutive_stop
  \/ Cardinality(Anomalous(samples)) >= policy.window_stop

Quiet ==
  /\ recent = [age \in Ages |-> FALSE]
  /\ run = 0
  /\ stop = FALSE

Observe(anomaly) ==
  /\ recent' = [age \in Ages |-> IF age = 1 THEN anomaly ELSE recent[age - 1]]
  /\ run' = IF ~anomaly THEN 0
            ELSE IF run = policy.consecutive_stop THEN run ELSE run + 1
  /\ stop' = Verdict(recent', run')
  /\ UNCHANGED policy

Reset ==
  /\ recent' = [age \in Ages |-> FALSE]
  /\ run' = 0
  /\ stop' = FALSE
  /\ UNCHANGED policy

Next == Reset \/ \E anomaly \in BOOLEAN : Observe(anomaly)

Spec == Quiet /\ [][Next]_vars
=============================================================================
