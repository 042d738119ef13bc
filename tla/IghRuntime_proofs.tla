------------------------- MODULE IghRuntime_proofs -------------------------
(* Proofs about the supervision: about one anomaly tracker under any calls,  *)
(* for every bitmap width and policy, and about IghRuntime, which keeps      *)
(* three of them, for every policy, dwell, warmup and disturbance.           *)
EXTENDS IghRuntime, AnomalyTrackerLoop, FiniteSetTheorems, TLAPS

(* What sanitize(), observe() and reset() return. *)

(* sanitize() turns every configuration into a usable policy (lines 91-98). *)
LEMMA SanitizeType ==
  ASSUME NEW raw \in RawPolicies
  PROVE  Sanitize(raw) \in Policies
  BY WidthAssumption DEF RawPolicies, Policies, Sanitize, AtLeast, Clamp

(* Advancing the ring cursor (line 65), without the remainder. *)
LEMMA CursorStep ==
  ASSUME NEW n \in Nat \ {0}, NEW c \in 0..(n - 1)
  PROVE  (c + 1) % n = IF c + 1 = n THEN 0 ELSE c + 1
  OBVIOUS

LEMMA BitsFinite ==
  ASSUME NEW n \in Nat, NEW S \in SUBSET (0..(n - 1))
  PROVE  /\ IsFiniteSet(S)
         /\ Cardinality(S) \in 0..n
         /\ Cardinality(0..(n - 1)) = n
<1>1. IsFiniteSet(0..(n - 1)) /\ Cardinality(0..(n - 1)) = n
  BY FS_Interval
<1>2. IsFiniteSet(S) /\ Cardinality(S) <= n /\ Cardinality(S) \in Nat
  BY <1>1, FS_Subset, FS_CardinalityType
<1> QED BY <1>1, <1>2

(* One observe() keeps the ring well formed and its count exact.            *)
LEMMA ObserveKeepsCount ==
  ASSUME NEW p \in Policies, NEW t \in Trackers(p), NEW anomaly \in BOOLEAN,
         t.window_count = Cardinality(t.bits)
  PROVE  LET u == Observe(p, t, anomaly)
         IN  u \in Trackers(p) /\ u.window_count = Cardinality(u.bits)
<1> DEFINE n == p.window_size
           u == Observe(p, t, anomaly)
<1>1. n \in Nat \ {0} /\ t.cursor \in 0..(n - 1) /\ t.bits \in SUBSET (0..(n - 1))
  BY WidthAssumption DEF Policies, Trackers
<1>2. (t.cursor + 1) % n \in 0..(n - 1)
  BY <1>1, CursorStep
<1>3. u.bits \in SUBSET (0..(n - 1))
  BY <1>1 DEF Observe
<1>4. IsFiniteSet(t.bits) /\ Cardinality(t.bits) \in 0..n /\ Cardinality(u.bits) \in 0..n
  BY <1>1, <1>3, BitsFinite
<1>5. Cardinality(u.bits) = CountAfter(t, anomaly)
  <2>1. CASE anomaly /\ t.cursor \in t.bits
    <3>1. u.bits = t.bits
      BY <2>1 DEF Observe
    <3>2. t.window_count > 0
      <4>1. t.bits # {}
        BY <2>1
      <4>2. Cardinality(t.bits) # 0
        BY <4>1, <1>4, FS_EmptySet
      <4> QED BY <4>2, <1>4
    <3> QED BY <3>1, <3>2, <2>1, <1>4 DEF CountAfter
  <2>2. CASE anomaly /\ t.cursor \notin t.bits
    <3>1. u.bits = t.bits \union {t.cursor}
      BY <2>2 DEF Observe
    <3>2. Cardinality(u.bits) = Cardinality(t.bits) + 1
      BY <3>1, <2>2, <1>4, FS_AddElement
    <3> QED BY <3>2, <2>2, <1>4 DEF CountAfter
  <2>3. CASE ~anomaly /\ t.cursor \in t.bits
    <3>1. u.bits = t.bits \ {t.cursor}
      BY <2>3 DEF Observe
    <3>2. Cardinality(u.bits) = Cardinality(t.bits) - 1
      BY <3>1, <2>3, <1>4, FS_RemoveElement
    <3>3. t.window_count > 0
      BY <3>2, <1>4
    <3> QED BY <3>2, <3>3, <2>3, <1>4 DEF CountAfter
  <2>4. CASE ~anomaly /\ t.cursor \notin t.bits
    <3>1. u.bits = t.bits
      BY <2>4 DEF Observe
    <3> QED BY <3>1, <2>4, <1>4 DEF CountAfter
  <2> QED BY <2>1, <2>2, <2>3, <2>4
<1>6. u.total \in 0..MaxTotal /\ u.consecutive \in 0..MaxConsecutive
  BY WidthAssumption DEF Trackers, Observe, Saturating
<1> QED
  <2>1. u.window_count = Cardinality(u.bits)
    BY <1>5 DEF Observe
  <2>2. u \in Trackers(p)
    BY <2>1, <1>2, <1>3, <1>4, <1>6 DEF Trackers, Observe
  <2> QED BY <2>1, <2>2

LEMMA ClearedType ==
  ASSUME NEW p \in Policies
  PROVE  Cleared \in Trackers(p) /\ Cleared.window_count = Cardinality(Cleared.bits)
<1>1. Cardinality({}) = 0
  BY FS_EmptySet
<1> QED BY <1>1, WidthAssumption DEF Cleared, Trackers, Policies

-----------------------------------------------------------------------------
(* One tracker. *)

(* The bitmap never disagrees with its count: inductive as it stands. *)
TrackerInv == TrackerTypeOK /\ CountIsExact

(* The count equals the number of 1 bits in every reachable state, for      *)
(* every width, policy and sequence of observe and reset (lines 42-86).     *)
THEOREM TrackerInvariant == TrackerSpec => [](TrackerTypeOK /\ CountIsExact)
<1>1. TrackerInit => TrackerInv
  BY SanitizeType, ClearedType, ConfigurationAssumption DEF TrackerInit, TrackerInv, TrackerTypeOK, CountIsExact
<1>2. TrackerInv /\ [TrackerNext]_trackerVars => TrackerInv'
  <2> SUFFICES ASSUME TrackerInv, [TrackerNext]_trackerVars PROVE TrackerInv'
    OBVIOUS
  <2>1. CASE ResetStep
    BY <2>1, ClearedType DEF TrackerInv, TrackerTypeOK, CountIsExact, ResetStep
  <2>2. ASSUME NEW anomaly \in BOOLEAN, ObserveStep(anomaly) PROVE TrackerInv'
    BY <2>2, ObserveKeepsCount DEF TrackerInv, TrackerTypeOK, CountIsExact, ObserveStep
  <2>3. CASE UNCHANGED trackerVars
    BY <2>3 DEF TrackerInv, TrackerTypeOK, CountIsExact, trackerVars
  <2> QED BY <2>1, <2>2, <2>3 DEF TrackerNext
<1> QED BY <1>1, <1>2, PTL DEF TrackerSpec, TrackerInv

(* A full window of anomalies always asks for the stop. *)
THEOREM FullWindowTheorem == TrackerSpec => []FullWindowStops
<1>1. TrackerTypeOK /\ CountIsExact => FullWindowStops
  <2> SUFFICES ASSUME TrackerTypeOK, CountIsExact, tracked.bits = 0..(policy.window_size - 1)
               PROVE  StopRequired(policy, tracked)
    BY DEF FullWindowStops
  <2>1. policy.window_size \in Nat /\ policy.window_stop <= policy.window_size
    BY WidthAssumption DEF TrackerTypeOK, Policies
  <2>2. tracked.window_count = policy.window_size
    BY <2>1, BitsFinite DEF CountIsExact
  <2> QED BY <2>1, <2>2 DEF StopRequired
<1> QED BY <1>1, TrackerInvariant, PTL

-----------------------------------------------------------------------------
(* Refinement: the bitmap with its cursor is the window of recent samples. *)

(* Every slot has exactly one age. *)
LEMMA SlotBijective ==
  ASSUME TrackerTypeOK
  PROVE  /\ \A age \in 1..policy.window_size :
               Slot(tracked.cursor, age) \in 0..(policy.window_size - 1)
         /\ \A a, b \in 1..policy.window_size :
               Slot(tracked.cursor, a) = Slot(tracked.cursor, b) => a = b
         /\ \A s \in 0..(policy.window_size - 1) :
               \E age \in 1..policy.window_size : Slot(tracked.cursor, age) = s
<1> DEFINE n == policy.window_size
           c == tracked.cursor
<1>1. n \in Nat \ {0} /\ c \in 0..(n - 1)
  BY WidthAssumption DEF TrackerTypeOK, Policies, Trackers
<1>2. \A age \in 1..n : Slot(c, age) \in 0..(n - 1)
  BY <1>1 DEF Slot
<1>3. \A a, b \in 1..n : Slot(c, a) = Slot(c, b) => a = b
  BY <1>1 DEF Slot
<1>4. ASSUME NEW s \in 0..(n - 1) PROVE \E age \in 1..n : Slot(c, age) = s
  <2>1. CASE s < c
    <3>1. c - s \in 1..n /\ Slot(c, c - s) = s
      BY <1>1, <2>1 DEF Slot
    <3> QED BY <3>1
  <2>2. CASE s >= c
    <3>1. c + n - s \in 1..n /\ Slot(c, c + n - s) = s
      BY <1>1, <2>2 DEF Slot
    <3> QED BY <3>1
  <2> QED BY <1>1, <2>1, <2>2
<1> QED BY <1>2, <1>3, <1>4

(* As many remembered anomalies as 1 bits. *)
LEMMA AnomalousCount ==
  ASSUME TrackerTypeOK
  PROVE  Cardinality({age \in 1..policy.window_size : Recent[age]}) = Cardinality(tracked.bits)
<1> DEFINE n == policy.window_size
           A == {age \in 1..n : Recent[age]}
           f == [age \in A |-> Slot(tracked.cursor, age)]
<1>1. n \in Nat /\ tracked.bits \in SUBSET (0..(n - 1))
  BY WidthAssumption DEF TrackerTypeOK, Policies, Trackers
<1>2. A = {age \in 1..n : Slot(tracked.cursor, age) \in tracked.bits}
  BY DEF Recent
<1>3. IsFiniteSet(A)
  <2>1. IsFiniteSet(1..n)
    BY <1>1, FS_Interval
  <2> QED BY <2>1, FS_Subset
<1>4. f \in [A -> tracked.bits]
  BY <1>2
<1>5. \A a, b \in A : f[a] = f[b] => a = b
  BY SlotBijective
<1>6. \A s \in tracked.bits : \E a \in A : f[a] = s
  <2> TAKE s \in tracked.bits
  <2>1. PICK age \in 1..n : Slot(tracked.cursor, age) = s
    BY <1>1, SlotBijective
  <2>2. age \in A /\ f[age] = s
    BY <2>1, <1>2
  <2> QED BY <2>2
<1>7. f \in Bijection(A, tracked.bits)
  BY <1>4, <1>5, <1>6 DEF Bijection, Injection, Surjection, IsInjective
<1>8. ExistsBijection(A, tracked.bits)
  BY <1>7 DEF ExistsBijection
<1> QED BY <1>3, <1>8, FS_Bijection

(* The instance's Cardinality is the usual one. *)
LEMMA SameCardinality ==
  ASSUME NEW S
  PROVE  Abstract!Cardinality(S) = Cardinality(S)
  BY DEF Abstract!Cardinality, Cardinality

(* The tracker's verdict is the abstract one.                              *)
LEMMA VerdictAgrees ==
  ASSUME TrackerTypeOK, CountIsExact
  PROVE  StopRequired(policy, tracked) <=> Abstract!Verdict(Recent, Run)
<1>1. tracked.consecutive \in Nat /\ policy.consecutive_stop \in Nat
  BY WidthAssumption DEF TrackerTypeOK, Policies, Trackers
<1>2. tracked.consecutive >= policy.consecutive_stop <=> Run = policy.consecutive_stop
  BY <1>1 DEF Run
<1>3. tracked.window_count = Cardinality(Abstract!Anomalous(Recent))
  BY AnomalousCount DEF CountIsExact, Abstract!Anomalous, Abstract!Ages
<1> QED BY <1>2, <1>3, SameCardinality DEF StopRequired, Abstract!Verdict

(* Writing under the cursor and advancing it ages every sample by one.     *)
LEMMA ObserveShifts ==
  ASSUME TrackerTypeOK, NEW anomaly \in BOOLEAN, ObserveStep(anomaly)
  PROVE  Recent' = [age \in 1..policy.window_size |->
                      IF age = 1 THEN anomaly ELSE Recent[age - 1]]
<1> DEFINE n == policy.window_size
           c == tracked.cursor
<1>1. n \in Nat \ {0} /\ c \in 0..(n - 1) /\ tracked.bits \in SUBSET (0..(n - 1))
  BY WidthAssumption DEF TrackerTypeOK, Policies, Trackers
<1>2. /\ policy' = policy
      /\ tracked'.cursor = (IF c + 1 = n THEN 0 ELSE c + 1)
      /\ tracked'.bits = IF anomaly THEN tracked.bits \union {c} ELSE tracked.bits \ {c}
  BY <1>1, CursorStep DEF ObserveStep, Observe
<1>3. Recent' = [age \in 1..n |-> Slot(tracked.cursor, age)' \in tracked'.bits]
  BY <1>2 DEF Recent, Slot
<1>4. ASSUME NEW age \in 1..n
      PROVE  (Slot(tracked.cursor, age)' \in tracked'.bits)
               = (IF age = 1 THEN anomaly ELSE Recent[age - 1])
  <2>1. CASE age = 1
    <3>1. Slot(tracked.cursor, age)' = c
      BY <1>1, <1>2, <2>1 DEF Slot
    <3> QED BY <3>1, <1>2, <2>1
  <2>2. CASE age # 1
    <3>1. age - 1 \in 1..n
      BY <1>1, <2>2
    <3>2. Slot(tracked.cursor, age)' = Slot(c, age - 1)
      BY <1>1, <1>2, <2>2 DEF Slot
    <3>3. Slot(c, age - 1) # c
      BY <1>1, <2>2 DEF Slot
    <3>4. Recent[age - 1] = (Slot(c, age - 1) \in tracked.bits)
      BY <3>1 DEF Recent
    <3> QED BY <3>2, <3>3, <3>4, <1>2, <2>2
  <2> QED BY <2>1, <2>2
<1> QED BY <1>3, <1>4

(* Every step of the tracker is a step of the sliding window: its stop is   *)
(* exactly the documented one, for every width, policy and history.        *)
THEOREM TrackerImplementsWindow == TrackerSpec => ImplementsSlidingWindow
<1>1. TrackerInit => Abstract!Quiet
  <2> SUFFICES ASSUME TrackerInit PROVE Abstract!Quiet
    OBVIOUS
  <2>1. TrackerTypeOK /\ tracked = Cleared
    BY SanitizeType, ClearedType, ConfigurationAssumption DEF TrackerInit, TrackerTypeOK
  <2>2. policy.consecutive_stop \in Nat \ {0} /\ policy.window_stop \in Nat \ {0}
    BY <2>1, WidthAssumption DEF TrackerTypeOK, Policies
  <2>3. Recent = [age \in 1..policy.window_size |-> FALSE]
    <3>1. tracked.bits = {}
      BY <2>1 DEF Cleared
    <3>2. \A age \in 1..policy.window_size : (Slot(tracked.cursor, age) \in tracked.bits) = FALSE
      BY <3>1
    <3> QED BY <3>2 DEF Recent
  <2>4. Run = 0 /\ ~StopRequired(policy, tracked)
    BY <2>1, <2>2 DEF Run, Cleared, StopRequired
  <2> QED BY <2>3, <2>4 DEF Abstract!Quiet, Abstract!Ages
<1>2. (TrackerTypeOK /\ CountIsExact) /\ (TrackerTypeOK /\ CountIsExact)' /\ [TrackerNext]_trackerVars
        => [Abstract!Next]_Abstract!vars
  <2> SUFFICES ASSUME TrackerTypeOK, CountIsExact, TrackerTypeOK', CountIsExact', [TrackerNext]_trackerVars
               PROVE  [Abstract!Next]_Abstract!vars
    OBVIOUS
  <2>1. policy.consecutive_stop \in 1..MaxConsecutive /\ tracked.consecutive \in 0..MaxConsecutive
    BY DEF TrackerTypeOK, Policies, Trackers
  <2>2. ASSUME NEW anomaly \in BOOLEAN, ObserveStep(anomaly)
        PROVE  Abstract!Observe(anomaly)
    <3>1. policy' = policy
      BY <2>2 DEF ObserveStep
    <3>2. Run' = IF ~anomaly THEN 0
                 ELSE IF Run = policy.consecutive_stop THEN Run ELSE Run + 1
      BY <2>1, <2>2, WidthAssumption DEF ObserveStep, Observe, Saturating, Run
    <3>3. StopRequired(policy, tracked)' <=> Abstract!Verdict(Recent, Run)'
      BY VerdictAgrees, PTL
    <3>4. Abstract!Verdict(Recent, Run)' = Abstract!Verdict(Recent', Run')
      BY <3>1 DEF Abstract!Verdict, Abstract!Anomalous, Abstract!Ages
    <3>5. StopRequired(policy, tracked)' = Abstract!Verdict(Recent', Run')
      BY <3>3, <3>4 DEF StopRequired, Abstract!Verdict
    <3> QED BY <2>2, <3>1, <3>2, <3>5, ObserveShifts DEF Abstract!Observe, Abstract!Ages
  <2>3. ASSUME ResetStep PROVE Abstract!Reset
    <3>1. policy' = policy /\ tracked' = Cleared
      BY <2>3 DEF ResetStep
    <3>2. policy.window_stop \in Nat \ {0}
      BY WidthAssumption DEF TrackerTypeOK, Policies
    <3>3. Recent' = [age \in 1..policy.window_size |-> FALSE]
      <4>1. tracked'.bits = {}
        BY <3>1 DEF Cleared
      <4>2. \A age \in 1..policy.window_size :
              (Slot(tracked.cursor, age)' \in tracked'.bits) = FALSE
        BY <4>1
      <4>3. Recent' = [age \in 1..policy.window_size |-> Slot(tracked.cursor, age)' \in tracked'.bits]
        BY <3>1 DEF Recent, Slot
      <4> QED BY <4>2, <4>3
    <3>4. Run' = 0 /\ ~StopRequired(policy, tracked)'
      BY <2>1, <3>1, <3>2 DEF Run, Cleared, StopRequired
    <3> QED BY <3>1, <3>3, <3>4 DEF Abstract!Reset, Abstract!Ages
  <2>4. CASE UNCHANGED trackerVars
    BY <2>4 DEF trackerVars, Abstract!vars, StopRequired, Slot, Recent, Run
  <2> QED BY <2>2, <2>3, <2>4 DEF TrackerNext, Abstract!Next
<1> QED BY <1>1, <1>2, TrackerInvariant, PTL DEF TrackerSpec, ImplementsSlidingWindow, Abstract!Spec

-----------------------------------------------------------------------------
(* The supervision.  The types. *)

Exact(t) == t.window_count = Cardinality(t.bits)

(* Every tracker, and the copy observe() works on, is well formed and exact. *)
TrackersExact ==
  /\ \A m \in Monitors : Exact(tracker[m])
  /\ job_pc = "observed" =>
       call.held \in Trackers(AnomalyPolicies[call.monitor]) /\ Exact(call.held)

TInv == TypeOK /\ TrackersExact

LEMMA PolicyType ==
  ASSUME NEW m \in Monitors
  PROVE  /\ AnomalyPolicies[m] \in Policies
         /\ Trackers(AnomalyPolicies[m]) \subseteq AnyTracker
  BY RuntimeAssumption DEF AnyTracker

LEMMA ClearedExact ==
  /\ Cleared \in AnyTracker /\ Exact(Cleared)
  /\ \A m \in Monitors : Cleared \in Trackers(AnomalyPolicies[m])
<1>1. \A m \in Monitors : Cleared \in Trackers(AnomalyPolicies[m]) /\ Exact(Cleared)
  BY PolicyType, ClearedType DEF Exact
<1>2. "wkc" \in Monitors
  BY DEF Monitors
<1> QED BY <1>1, <1>2, PolicyType

LEMMA DwellType ==
  /\ Required \in Nat \ {0}
  /\ DwellInitial \in Dwells /\ DwellFault \in Dwells /\ DwellReset \in Dwells
  /\ \A d \in Dwells, seen \in 0..Required, healthy \in BOOLEAN :
       DwellObserve(d, seen, healthy) \in Dwells
<1>1. Required \in Nat \ {0}
  BY RuntimeAssumption DEF Required, AtLeast
<1> HIDE DEF Required
<1>2. DwellInitial \in Dwells /\ DwellFault \in Dwells /\ DwellReset \in Dwells
  BY <1>1 DEF DwellInitial, DwellFault, DwellReset, Dwells
<1>3. ASSUME NEW d \in Dwells, NEW seen \in 0..Required, NEW healthy \in BOOLEAN
      PROVE  DwellObserve(d, seen, healthy) \in Dwells
  <2>1. CASE healthy /\ ~(seen + 1 >= Required)
    <3>1. seen + 1 \in 0..Required
      BY <1>1, <2>1
    <3> QED BY <3>1, <2>1 DEF DwellObserve, Dwells
  <2>2. CASE ~healthy \/ seen + 1 >= Required
    BY <1>1, <1>2, <2>2 DEF DwellObserve, Dwells
  <2> QED BY <2>1, <2>2
<1>4. \A d \in Dwells, seen \in 0..Required, healthy \in BOOLEAN :
        DwellObserve(d, seen, healthy) \in Dwells
  BY <1>3
<1> QED BY <1>1, <1>2, <1>4

LEMMA FreshType == NewCycle \in Locals /\ NoCall \in Calls
<1>1. 0 \in 0..Required /\ Cleared \in AnyTracker
  BY DwellType, ClearedExact
<1> QED BY <1>1 DEF NewCycle, Locals, NoCall, CallOf, Calls, Monitors

LEMMA CallType ==
  ASSUME NEW m \in Monitors, NEW a \in BOOLEAN,
         NEW r \in {"receive", "deadlineGate", "dcSample", "healthy"}
  PROVE  CallOf(m, a, r) \in Calls
  BY ClearedExact DEF CallOf, Calls

LEMMA InitTyped == Init => TInv
<1> SUFFICES ASSUME Init PROVE TInv
  OBVIOUS
<1>1. /\ tracker \in [Monitors -> AnyTracker]
      /\ \A m \in Monitors : tracker[m] \in Trackers(AnomalyPolicies[m]) /\ Exact(tracker[m])
  BY ClearedExact DEF Init
<1>2. dwell \in Dwells /\ streak \in 0..Required /\ dc_warmup \in 0..WarmupCycles
  BY DwellType, RuntimeAssumption DEF Init
<1> QED BY <1>1, <1>2, FreshType
        DEF Init, TInv, TypeOK, TrackersExact, JobPcs, ApiPcs, Phases, BusStates

-----------------------------------------------------------------------------
(* The steps that touch only the Job's own variables. *)
LEMMA JobLocalTyped ==
  ASSUME TInv, JobLocal, job_pc' \in JobPcs, job_pc' # "observed",
         local' \in Locals, call' \in Calls
  PROVE  TInv'
  BY DEF TInv, TypeOK, TrackersExact, JobLocal, JobFrame, flags, shared, hist

LEMMA GateTyped ==
  ASSUME TInv, NEW from \in JobPcs, NEW open \in BOOLEAN, NEW m \in Monitors,
         NEW a \in BOOLEAN, NEW r \in {"receive", "deadlineGate", "dcSample", "healthy"},
         Gate(from, open, m, a, r)
  PROVE  job_pc' \in JobPcs /\ job_pc' # "observed" /\ call' \in Calls
  BY CallType DEF Gate, JobStep, JobPcs, TInv, TypeOK

LEMMA JobLocalStepTyped ==
  ASSUME TInv,
         \/ JobWake \/ JobLoadOperational \/ JobLoadForce \/ JobCheckFreshness \/ JobReceive
         \/ JobDecide \/ JobWkcGate \/ JobDeadlineGate \/ JobDcSample \/ JobDcGate
         \/ JobHealthy \/ JobSyncLoad
  PROVE  TInv'
<1> USE DEF TInv, TypeOK
<1>1. CASE JobWake
  BY <1>1, JobLocalTyped DEF JobWake, JobStep, JobPcs
<1>2. CASE JobLoadOperational
  BY <1>2, JobLocalTyped DEF JobLoadOperational, JobStep, JobPcs, Locals
<1>3. CASE JobLoadForce
  BY <1>3, JobLocalTyped DEF JobLoadForce, JobStep, JobPcs, Locals
<1>4. CASE JobCheckFreshness
  BY <1>4, JobLocalTyped, FreshType DEF JobCheckFreshness, JobStep, JobPcs
<1>5. CASE JobReceive
  BY <1>5, JobLocalTyped DEF JobReceive, JobStep, JobPcs, Locals
<1>6. CASE JobDecide
  BY <1>6, JobLocalTyped DEF JobDecide, JobStep, JobPcs, Locals
<1>7. CASE JobWkcGate
  <2>1. local.good \in BOOLEAN /\ local.armed \in BOOLEAN
    BY DEF Locals
  <2>2. job_pc' \in JobPcs /\ job_pc' # "observed" /\ call' \in Calls
    BY <1>7, <2>1, GateTyped DEF JobWkcGate, JobPcs, Monitors
  <2> QED BY <1>7, <2>2, JobLocalTyped DEF JobWkcGate
<1>8. CASE JobDeadlineGate
  <2>1. local.good \in BOOLEAN /\ local.armed \in BOOLEAN /\ RequireRealtime \in BOOLEAN
    BY RuntimeAssumption DEF Locals
  <2>2. job_pc' \in JobPcs /\ job_pc' # "observed" /\ call' \in Calls
    BY <1>8, <2>1, GateTyped DEF JobDeadlineGate, JobPcs, Monitors
  <2>3. local' \in Locals
    BY <1>8 DEF JobDeadlineGate, Locals
  <2> QED BY <1>8, <2>2, <2>3, JobLocalTyped DEF JobDeadlineGate
<1>9. CASE JobDcSample
  <2>1. call' \in Calls
    BY <1>9, CallType DEF JobDcSample, Monitors
  <2>2. local' \in Locals
    BY <1>9 DEF JobDcSample, Locals
  <2> QED BY <1>9, <2>1, <2>2, JobLocalTyped DEF JobDcSample, JobStep, JobPcs
<1>10. CASE JobDcGate
  BY <1>10, JobLocalTyped DEF JobDcGate, JobStep, JobPcs
<1>11. CASE JobHealthy
  <2>1. local' \in Locals
    BY <1>11 DEF JobHealthy, Locals
  <2> QED BY <1>11, <2>1, JobLocalTyped, FreshType DEF JobHealthy, JobStep, JobPcs
<1>12. CASE JobSyncLoad
  <2>1. local' \in Locals
    BY <1>12 DEF JobSyncLoad, Locals, Dwells
  <2> QED BY <1>12, <2>1, JobLocalTyped DEF JobSyncLoad, JobStep, JobPcs
<1> QED BY <1>1, <1>2, <1>3, <1>4, <1>5, <1>6, <1>7, <1>8, <1>9, <1>10, <1>11, <1>12

-----------------------------------------------------------------------------
(* The Job's steps on shared objects. *)
LEMMA JobObserveTyped ==
  ASSUME TInv, JobObserveLoad \/ JobObserveStore
  PROVE  TInv'
<1>1. CASE JobObserveLoad
  <2>1. call.monitor \in Monitors
    BY DEF TInv, TypeOK, Calls
  <2>2. /\ tracker[call.monitor] \in Trackers(AnomalyPolicies[call.monitor])
        /\ tracker[call.monitor] \in AnyTracker
        /\ Exact(tracker[call.monitor])
    BY <2>1, PolicyType DEF TInv, TypeOK, TrackersExact
  <2>3. /\ call' \in Calls /\ call'.monitor = call.monitor
        /\ call'.held = tracker[call.monitor]
    BY <1>1, <2>2 DEF JobObserveLoad, TInv, TypeOK, Calls
  <2> QED BY <1>1, <2>2, <2>3
          DEF JobObserveLoad, JobStep, JobPcs, JobLocal, JobFrame, flags, shared, hist,
              TInv, TypeOK, TrackersExact
<1>2. CASE JobObserveStore
  <2> DEFINE m == call.monitor
             after == Observe(AnomalyPolicies[m], call.held, call.anomaly)
  <2>1. m \in Monitors /\ call.anomaly \in BOOLEAN
        /\ call.ret \in {"receive", "deadlineGate", "dcSample", "healthy"}
    BY DEF TInv, TypeOK, Calls
  <2>2. call.held \in Trackers(AnomalyPolicies[m]) /\ Exact(call.held)
    BY <1>2 DEF JobObserveStore, JobStep, TInv, TrackersExact
  <2>3. after \in Trackers(AnomalyPolicies[m]) /\ Exact(after)
    BY <2>1, <2>2, PolicyType, ObserveKeepsCount DEF Exact
  <2>4. tracker' = [tracker EXCEPT ![m] = after]
    BY <1>2 DEF JobObserveStore
  <2> HIDE DEF m, after
  <2>5. /\ tracker' \in [Monitors -> AnyTracker]
        /\ \A k \in Monitors : tracker'[k] \in Trackers(AnomalyPolicies[k]) /\ Exact(tracker'[k])
    BY <2>1, <2>3, <2>4, PolicyType DEF TInv, TypeOK, TrackersExact
  <2>6. call' \in Calls
    BY <1>2, <2>1, CallType DEF JobObserveStore, Monitors
  <2>7. job_pc' \in JobPcs /\ job_pc' # "observed"
    BY <1>2, <2>1 DEF JobObserveStore, JobStep, JobPcs
  <2> QED BY <1>2, <2>5, <2>6, <2>7, ZenonT(60)
          DEF JobObserveStore, JobFrame, flags, hist, TInv, TypeOK, TrackersExact
<1> QED BY <1>1, <1>2

LEMMA JobSharedTyped ==
  ASSUME TInv,
         \/ JobTakePending \/ JobPendingFault \/ JobApply \/ JobDcWarmup
         \/ JobLatchComm \/ JobLatchSafe \/ JobLatchReenable \/ JobLatchPending
         \/ JobLatchDwell \/ JobDwellLoad \/ JobDwellStore \/ JobSyncStore
  PROVE  TInv'
<1> USE DEF TInv, TypeOK, TrackersExact, JobStep, JobPcs, JobFrame, flags, shared, hist
<1>1. CASE JobTakePending
  <2>1. job_pc' \in JobPcs /\ job_pc' # "observed"
    BY <1>1 DEF JobTakePending
  <2> QED BY <1>1, <2>1, ZenonT(60) DEF JobTakePending
<1>2. CASE JobPendingFault
  <2>1. 0 \in 0..Required
    BY DwellType
  <2> QED BY <1>2, <2>1, DwellType DEF JobPendingFault, Restarted
<1>3. CASE JobApply
  <2>1. local.drive \in BOOLEAN
    BY DEF Locals
  <2> QED BY <1>3, <2>1 DEF JobApply
<1>4. CASE JobDcWarmup
  <2>1. dc_warmup' \in 0..WarmupCycles
    BY <1>4, RuntimeAssumption DEF JobDcWarmup
  <2> QED BY <1>4, <2>1 DEF JobDcWarmup
<1>5. CASE JobLatchComm
  BY <1>5, ZenonT(60) DEF JobLatchComm
<1>6. CASE JobLatchSafe
  BY <1>6, ZenonT(60) DEF JobLatchSafe
<1>7. CASE JobLatchReenable
  BY <1>7, ZenonT(60) DEF JobLatchReenable
<1>8. CASE JobLatchPending
  BY <1>8 DEF JobLatchPending
<1>9. CASE JobLatchDwell
  <2>1. call.ret \in {"receive", "deadlineGate", "dcSample", "healthy"}
    BY DEF Calls
  <2>2. 0 \in 0..Required
    BY DwellType
  <2> QED BY <1>9, <2>1, <2>2, DwellType DEF JobLatchDwell, Restarted
<1>10. CASE JobDwellLoad
  <2>1. local' \in Locals /\ job_pc' \in {"dwellStore", "sync"}
    BY <1>10 DEF JobDwellLoad, Locals, Dwells
  <2>2. streak' \in 0..Required
    <3>1. Required \in Nat /\ streak \in 0..Required
      BY DwellType
    <3>2. streak' \in {0, streak} \/ (streak # Required /\ streak' = streak + 1)
      BY <1>10 DEF JobDwellLoad
    <3> QED BY <3>1, <3>2
  <2> QED BY <1>10, <2>1, <2>2 DEF JobDwellLoad
<1>11. CASE JobDwellStore
  <2>1. local.seen \in 0..Required /\ local.good \in BOOLEAN
    BY DEF Locals
  <2>2. dwell' \in Dwells
    BY <1>11, <2>1, DwellType DEF JobDwellStore
  <2>3. overtaken' \in BOOLEAN
    BY <1>11, <2>1 DEF JobDwellStore
  <2> QED BY <1>11, <2>2, <2>3 DEF JobDwellStore
<1>12. CASE JobSyncStore
  <2>1. local.allow \in BOOLEAN
    BY DEF Locals
  <2> QED BY <1>12, <2>1, FreshType DEF JobSyncStore, JobAt
<1> QED BY <1>1, <1>2, <1>3, <1>4, <1>5, <1>6, <1>7, <1>8, <1>9, <1>10, <1>11, <1>12

-----------------------------------------------------------------------------
(* The caller's steps. *)
(* A caller's step that leaves the trackers, the dwell and the Job alone. *)
LEMMA FlagStepTyped ==
  ASSUME TInv, ApiFrame, UNCHANGED <<dwell, tracker, dc_warmup, streak, overtaken>>,
         api' \in ApiPcs, phase' \in Phases,
         comm_fault' \in BOOLEAN, safe_output_required' \in BOOLEAN,
         motion_reenable_allowed' \in BOOLEAN, pending_dwell_fault' \in BOOLEAN,
         operational' \in BOOLEAN, job_running' \in BOOLEAN, desired_enable' \in BOOLEAN,
         raced' \in BOOLEAN
  PROVE  TInv'
  BY DEF TInv, TypeOK, TrackersExact, ApiFrame, job

LEMMA ApiFlagTyped ==
  ASSUME TInv,
         \/ RequestSafeOutput \/ RequestExchange \/ RequestReenable
         \/ ReleaseSafeOutput \/ ReleaseComm \/ ReleaseReenable \/ ReleaseStore
         \/ SafetyReset \/ ResetDisable
         \/ Cycle \/ CycleComm \/ CycleSafe
         \/ EnableComm \/ EnableSafe \/ EnableReenable \/ EnableStore
         \/ ClearComm \/ ClearSafe \/ ClearPending \/ ClearReenable
         \/ AbortStart \/ SlavesInOp \/ SetOperational \/ Stop
  PROVE  TInv'
<1> USE FlagStepTyped DEF ApiStep, ApiPcs, Phases, ApiLocal, AfterRequest, flags, shared, hist
<1>0. TypeOK
  BY DEF TInv
<1>1. CASE RequestSafeOutput
  BY <1>0, <1>1 DEF RequestSafeOutput, TypeOK
<1>2. CASE RequestExchange
  BY <1>0, <1>2 DEF RequestExchange, TypeOK
<1>3. CASE RequestReenable
  BY <1>0, <1>3, ZenonT(60) DEF RequestReenable, TypeOK
<1>4. CASE ReleaseSafeOutput
  BY <1>0, <1>4 DEF ReleaseSafeOutput, TypeOK
<1>5. CASE ReleaseComm
  BY <1>0, <1>5 DEF ReleaseComm, TypeOK
<1>6. CASE ReleaseReenable
  BY <1>0, <1>6 DEF ReleaseReenable, TypeOK
<1>7. CASE ReleaseStore
  BY <1>0, <1>7, ZenonT(60) DEF ReleaseStore, TypeOK
<1>8. CASE SafetyReset
  BY <1>0, <1>8 DEF SafetyReset, TypeOK
<1>9. CASE ResetDisable
  BY <1>0, <1>9, ZenonT(60) DEF ResetDisable, TypeOK
<1>10. CASE Cycle
  BY <1>0, <1>10 DEF Cycle, TypeOK
<1>11. CASE CycleComm
  BY <1>0, <1>11 DEF CycleComm, TypeOK
<1>12. CASE CycleSafe
  <2>1. api' \in {"idle", "enableComm"}
    BY <1>12 DEF CycleSafe
  <2>2. desired_enable' \in BOOLEAN
    <3>1. desired_enable' = desired_enable \/ desired_enable' = FALSE
      BY <1>12, Zenon DEF CycleSafe
    <3> QED BY <1>0, <3>1, Zenon DEF TypeOK
  <2>3. UNCHANGED <<flags, dwell, tracker, dc_warmup, phase, hist>> /\ ApiFrame
    BY <1>12 DEF CycleSafe
  <2> QED BY <1>0, <2>1, <2>2, <2>3 DEF TypeOK
<1>13. CASE EnableComm
  BY <1>0, <1>13 DEF EnableComm, TypeOK
<1>14. CASE EnableSafe
  BY <1>0, <1>14 DEF EnableSafe, TypeOK
<1>15. CASE EnableReenable
  BY <1>0, <1>15 DEF EnableReenable, TypeOK
<1>16. CASE EnableStore
  BY <1>0, <1>16 DEF EnableStore, TypeOK
<1>17. CASE ClearComm
  BY <1>0, <1>17, ZenonT(60) DEF ClearComm, TypeOK
<1>18. CASE ClearSafe
  BY <1>0, <1>18, ZenonT(60) DEF ClearSafe, TypeOK
<1>19. CASE ClearPending
  BY <1>0, <1>19, ZenonT(60) DEF ClearPending, TypeOK
<1>20. CASE ClearReenable
  BY <1>0, <1>20 DEF ClearReenable, TypeOK
<1>21. CASE AbortStart
  BY <1>0, <1>21 DEF AbortStart, TypeOK
<1>22. CASE SlavesInOp
  BY <1>0, <1>22 DEF SlavesInOp, TypeOK
<1>23. CASE SetOperational
  BY <1>0, <1>23 DEF SetOperational, TypeOK
<1>24. CASE Stop
  BY <1>0, <1>24, ZenonT(60) DEF Stop, TypeOK
<1> QED
  BY <1>1, <1>2, <1>3, <1>4, <1>5, <1>6, <1>7, <1>8,
     <1>9, <1>10, <1>11, <1>12, <1>13, <1>14, <1>15, <1>16,
     <1>17, <1>18, <1>19, <1>20, <1>21, <1>22, <1>23, <1>24

LEMMA ClearedTrackers ==
  ASSUME tracker' = [m \in Monitors |-> Cleared]
  PROVE  /\ tracker' \in [Monitors -> AnyTracker]
         /\ \A m \in Monitors : tracker'[m] \in Trackers(AnomalyPolicies[m]) /\ Exact(tracker'[m])
  BY ClearedExact

LEMMA ApiSharedTyped ==
  ASSUME TInv, RequestDwell \/ ClearTrackers \/ ClearDwell
  PROVE  TInv'
<1> USE DEF TInv, TypeOK, TrackersExact, ApiStep, ApiPcs, ApiFrame, flags, shared, job, hist
<1>0. 0 \in 0..Required
  BY DwellType
<1>1. CASE RequestDwell
  BY <1>0, <1>1, DwellType DEF RequestDwell, AfterRequest, Restarted
<1>2. CASE ClearTrackers
  <2>1. dc_warmup' \in 0..WarmupCycles
    BY <1>2, RuntimeAssumption DEF ClearTrackers
  <2> QED BY <1>2, <2>1, ClearedTrackers DEF ClearTrackers
<1>3. CASE ClearDwell
  BY <1>0, <1>3, DwellType DEF ClearDwell, Restarted
<1> QED BY <1>1, <1>2, <1>3

LEMMA LifecycleTyped ==
  ASSUME TInv,
         StartMaster \/ Boot \/ BootFails \/ Join \/ BusChanges
  PROVE  TInv'
<1> USE DEF TInv, TypeOK, TrackersExact, ApiStep, ApiPcs, Phases, ApiFrame, flags, shared, job, hist
<1>1. CASE StartMaster
  BY <1>1, ZenonT(60) DEF StartMaster
<1>3. ASSUME Configured, DwellFresh
      PROVE  /\ tracker' \in [Monitors -> AnyTracker]
             /\ \A m \in Monitors : tracker'[m] \in Trackers(AnomalyPolicies[m]) /\ Exact(tracker'[m])
             /\ dc_warmup' \in 0..WarmupCycles /\ dwell' \in Dwells
  BY <1>3, ClearedTrackers, DwellType, RuntimeAssumption DEF Configured, DwellFresh
<1>4. CASE Boot
  <2>1. 0 \in 0..Required
    BY DwellType
  <2> QED BY <1>3, <1>4, <2>1, FreshType, ZenonT(60) DEF Boot, JobAt, JobPcs
<1>5. CASE BootFails
  BY <1>3, <1>5, ZenonT(60) DEF BootFails
<1>6. CASE Join
  <2>1. job_pc' = "off" /\ local' \in Locals /\ call' \in Calls
    BY <1>6, FreshType DEF Join, JobAt
  <2>2. TrackersExact'
    BY <1>6, <2>1 DEF Join
  <2>3. TypeOK'
    BY <1>6, <2>1, ZenonT(60) DEF Join, JobPcs
  <2> QED BY <2>2, <2>3
<1>7. CASE BusChanges
  BY <1>7 DEF BusChanges
<1> QED BY <1>1, <1>4, <1>5, <1>6, <1>7

LEMMA NextTyped == TInv /\ [Next]_vars => TInv'
<1> SUFFICES ASSUME TInv, [Next]_vars PROVE TInv'
  OBVIOUS
<1>1. CASE JobNext
  BY <1>1, JobLocalStepTyped, JobObserveTyped, JobSharedTyped DEF JobNext
<1>2. CASE ApiNext
  BY <1>2, ApiFlagTyped, ApiSharedTyped, LifecycleTyped DEF ApiNext, ApiCalls, ApiSteps
<1>3. CASE BusChanges
  BY <1>3, LifecycleTyped
<1>4. CASE UNCHANGED vars
  BY <1>4 DEF TInv, TypeOK, TrackersExact, vars, flags, shared, job, hist
<1> QED BY <1>1, <1>2, <1>3, <1>4 DEF Next

(* The supervision state stays well typed and every anomaly count exact,    *)
(* although resets and observations overwrite one another.                  *)
THEOREM TypeInvariant == Spec => []TypeOK
<1>1. TInv => TypeOK
  BY DEF TInv
<1> QED BY <1>1, InitTyped, NextTyped, PTL DEF Spec

-----------------------------------------------------------------------------
(* The latch.  LatchHolds is inductive: only three stores bring a fault and *)
(* a missing safe-output request together, and each accounts for itself.    *)
LEMMA LatchUntouched ==
  ASSUME LatchHolds, UNCHANGED <<comm_fault, safe_output_required, raced>>,
         job_pc = "latchSafe" => job_pc' = "latchSafe"
  PROVE  LatchHolds'
  BY DEF LatchHolds

LEMMA JobKeepsLatch ==
  ASSUME LatchHolds, JobNext
  PROVE  LatchHolds'
<1> USE LatchUntouched DEF JobStep, JobLocal, flags, hist
<1>1. CASE JobWake
  BY <1>1 DEF JobWake
<1>2. CASE JobLoadOperational
  BY <1>2 DEF JobLoadOperational
<1>3. CASE JobLoadForce
  BY <1>3 DEF JobLoadForce
<1>4. CASE JobCheckFreshness
  BY <1>4 DEF JobCheckFreshness
<1>5. CASE JobReceive
  BY <1>5 DEF JobReceive
<1>6. CASE JobDecide
  BY <1>6 DEF JobDecide
<1>7. CASE JobWkcGate
  BY <1>7 DEF JobWkcGate, Gate
<1>8. CASE JobDeadlineGate
  BY <1>8 DEF JobDeadlineGate, Gate
<1>9. CASE JobDcSample
  BY <1>9 DEF JobDcSample
<1>10. CASE JobDcGate
  BY <1>10 DEF JobDcGate
<1>11. CASE JobObserveLoad
  BY <1>11 DEF JobObserveLoad
<1>12. CASE JobDwellLoad
  BY <1>12 DEF JobDwellLoad
<1>13. CASE JobSyncLoad
  BY <1>13 DEF JobSyncLoad
<1>14. CASE JobTakePending
  BY <1>14 DEF JobTakePending
<1>15. CASE JobPendingFault
  BY <1>15 DEF JobPendingFault
<1>16. CASE JobApply
  BY <1>16 DEF JobApply
<1>17. CASE JobDcWarmup
  BY <1>17 DEF JobDcWarmup
<1>18. CASE JobObserveStore
  BY <1>18 DEF JobObserveStore
<1>19. CASE JobLatchComm
  BY <1>19 DEF JobLatchComm, LatchHolds
<1>20. CASE JobLatchSafe
  BY <1>20 DEF JobLatchSafe, LatchHolds
<1>21. CASE JobLatchReenable
  BY <1>21 DEF JobLatchReenable
<1>22. CASE JobLatchPending
  BY <1>22 DEF JobLatchPending
<1>23. CASE JobLatchDwell
  BY <1>23 DEF JobLatchDwell
<1>24. CASE JobHealthy
  BY <1>24 DEF JobHealthy
<1>25. CASE JobDwellStore
  BY <1>25 DEF JobDwellStore
<1>26. CASE JobSyncStore
  BY <1>26 DEF JobSyncStore, JobAt
<1> QED
  BY <1>1, <1>2, <1>3, <1>4, <1>5, <1>6, <1>7, <1>8, <1>9,
     <1>10, <1>11, <1>12, <1>13, <1>14, <1>15, <1>16, <1>17, <1>18,
     <1>19, <1>20, <1>21, <1>22, <1>23, <1>24, <1>25, <1>26 DEF JobNext

LEMMA ApiKeepsLatch ==
  ASSUME LatchHolds, ApiNext \/ BusChanges
  PROVE  LatchHolds'
<1> USE DEF ApiFrame, ApiLocal, flags, hist, job
<1>1. CASE ReleaseStore
  BY <1>1 DEF ReleaseStore, LatchHolds
<1>10. CASE RequestExchange \/ ClearComm \/ ClearSafe
  BY <1>10 DEF RequestExchange, ClearComm, ClearSafe, LatchHolds
<1>2. CASE Boot
  BY <1>2 DEF Boot, LatchHolds
<1>3. CASE BootFails
  <2>1. comm_fault' = comm_fault \/ comm_fault' = FALSE
    BY <1>3 DEF BootFails
  <2> QED BY <1>3, <2>1 DEF BootFails, LatchHolds
<1>4. CASE Join
  BY <1>4 DEF Join, LatchHolds
<1>5. CASE ApiCalls
  BY <1>5, LatchUntouched DEF ApiCalls, RequestSafeOutput, ReleaseSafeOutput, SafetyReset, Cycle,
     StartMaster
<1>6. CASE RequestReenable \/ RequestDwell \/ ReleaseComm \/ ReleaseReenable \/ ResetDisable
  BY <1>6, LatchUntouched DEF RequestReenable, RequestDwell, ReleaseComm, ReleaseReenable,
     ResetDisable, shared
<1>7. CASE ClearPending \/ ClearTrackers \/ ClearDwell \/ ClearReenable
  BY <1>7, LatchUntouched DEF ClearPending, ClearTrackers, ClearDwell, ClearReenable
<1>8. CASE CycleComm \/ CycleSafe \/ EnableComm \/ EnableSafe \/ EnableReenable \/ EnableStore
  BY <1>8, LatchUntouched DEF CycleComm, CycleSafe, EnableComm, EnableSafe, EnableReenable,
     EnableStore
<1>9. CASE AbortStart \/ SlavesInOp \/ SetOperational \/ Stop \/ BusChanges
  BY <1>9, LatchUntouched DEF AbortStart, SlavesInOp, SetOperational, Stop, BusChanges
<1> QED BY <1>1, <1>2, <1>3, <1>4, <1>5, <1>6, <1>7, <1>8, <1>9, <1>10 DEF ApiNext, ApiSteps

LEMMA LatchInductive == LatchHolds /\ [Next]_vars => LatchHolds'
<1>1. LatchHolds /\ UNCHANGED vars => LatchHolds'
  BY LatchUntouched DEF vars, flags, job, hist
<1> QED BY <1>1, JobKeepsLatch, ApiKeepsLatch DEF Next

(* A latched fault keeps the safe-output request, raced releases apart.     *)
THEOREM LatchTheorem == Spec => []LatchHolds
<1>1. Init => LatchHolds
  BY DEF Init, LatchHolds
<1> QED BY <1>1, LatchInductive, PTL DEF Spec

(* The caller moves the Job only when it creates or joins the thread. *)
LEMMA ApiLeavesJob ==
  ASSUME ApiNext \/ BusChanges
  PROVE  job_pc' \in {job_pc, "sleep", "off"}
<1> USE DEF ApiFrame, ApiLocal, job
<1>1. CASE Boot \/ Join
  BY <1>1 DEF Boot, Join, JobAt
<1>2. CASE ApiCalls
  BY <1>2 DEF ApiCalls, RequestSafeOutput, ReleaseSafeOutput, SafetyReset, Cycle, StartMaster
<1>3. CASE RequestExchange \/ RequestReenable \/ RequestDwell \/ ReleaseComm
           \/ ReleaseReenable \/ ReleaseStore \/ ResetDisable
  BY <1>3 DEF RequestExchange, RequestReenable, RequestDwell, ReleaseComm, ReleaseReenable,
     ReleaseStore, ResetDisable
<1>4. CASE ClearComm \/ ClearSafe \/ ClearPending \/ ClearTrackers \/ ClearDwell \/ ClearReenable
  BY <1>4 DEF ClearComm, ClearSafe, ClearPending, ClearTrackers, ClearDwell, ClearReenable
<1>5. CASE CycleComm \/ CycleSafe \/ EnableComm \/ EnableSafe \/ EnableReenable \/ EnableStore
  BY <1>5 DEF CycleComm, CycleSafe, EnableComm, EnableSafe, EnableReenable, EnableStore
<1>6. CASE AbortStart \/ BootFails \/ SlavesInOp \/ SetOperational \/ Stop \/ BusChanges
  BY <1>6 DEF AbortStart, BootFails, SlavesInOp, SetOperational, Stop, BusChanges
<1> QED BY <1>1, <1>2, <1>3, <1>4, <1>5, <1>6 DEF ApiNext, ApiSteps

(* No cycle that starts its output choice under a latched fault drives.     *)
THEOREM LatchedNeverDrivesTheorem == Spec => LatchedNeverDrives
<1>1. TInv /\ LatchHolds /\ [Next]_vars
        => (job_pc = "decide" /\ job_pc' = "apply" /\ local'.drive => ~comm_fault \/ raced)
  <2> SUFFICES ASSUME TInv, LatchHolds, [Next]_vars,
                      job_pc = "decide", job_pc' = "apply", local'.drive, comm_fault
               PROVE  raced
    OBVIOUS
  <2>1. JobNext
    BY ApiLeavesJob DEF Next, vars, job
  <2>2. JobDecide
    BY <2>1 DEF JobNext, JobStep, Gate, JobWake, JobTakePending, JobPendingFault,
       JobLoadOperational, JobLoadForce, JobCheckFreshness, JobReceive, JobApply, JobWkcGate,
       JobDeadlineGate, JobDcSample, JobDcWarmup, JobDcGate, JobObserveLoad, JobObserveStore,
       JobLatchComm, JobLatchSafe, JobLatchReenable, JobLatchPending, JobLatchDwell,
       JobHealthy, JobDwellLoad, JobDwellStore, JobSyncLoad, JobSyncStore
  <2>3. local' = [local EXCEPT !.drive = ~(local.force \/ safe_output_required)]
    BY <2>2 DEF JobDecide
  <2>4. local \in Locals
    BY DEF TInv, TypeOK
  <2>5. ~safe_output_required
    BY <2>3, <2>4 DEF Locals
  <2> QED BY <2>5 DEF LatchHolds
<1> QED BY <1>1, InitTyped, NextTyped, LatchTheorem, PTL DEF Spec, LatchedNeverDrives

-----------------------------------------------------------------------------
(* The dwell.  What it has counted never exceeds the run of healthy         *)
(* verdicts since its last restart, and between the load and the store of a *)
(* healthy observe() it is one behind; unless the caller has restarted it   *)
(* within an observe().                                                     *)
Behind(n) == n + 1 <= streak \/ streak = Required

CountBounded ==
  /\ dwell.armed /\ ~overtaken /\ job_pc # "dwellStore" => dwell.ok <= streak
  /\ job_pc = "dwellStore" /\ local.good /\ ~overtaken => Behind(local.seen)

(* What the Job's other steps do to it. *)
LEMMA CountUntouched ==
  ASSUME CountBounded, UNCHANGED <<dwell, streak, overtaken>> \/ ~dwell'.armed,
         job_pc # "dwellStore", job_pc' # "dwellStore"
  PROVE  CountBounded'
  BY DEF CountBounded

LEMMA JobKeepsCount ==
  ASSUME TInv, CountBounded, JobNext
  PROVE  CountBounded'
<1> USE CountUntouched DEF JobStep, JobLocal, hist, shared
<1>0. /\ dwell.ok \in 0..Required /\ streak \in 0..Required /\ local.seen \in 0..Required
      /\ local \in Locals /\ Required \in Nat \ {0}
      /\ call.ret \in {"receive", "deadlineGate", "dcSample", "healthy"}
  BY DwellType DEF TInv, TypeOK, Dwells, Locals, Calls
<1>100. DwellFault.armed = FALSE /\ DwellInitial.armed = FALSE
  BY DEF DwellFault, DwellInitial
<1>1. CASE JobWake
  BY <1>1 DEF JobWake
<1>2. CASE JobLoadOperational
  BY <1>2 DEF JobLoadOperational
<1>3. CASE JobLoadForce
  BY <1>3 DEF JobLoadForce
<1>4. CASE JobCheckFreshness
  BY <1>4 DEF JobCheckFreshness
<1>5. CASE JobReceive
  BY <1>5 DEF JobReceive
<1>6. CASE JobDecide
  BY <1>6 DEF JobDecide
<1>7. CASE JobWkcGate
  BY <1>7 DEF JobWkcGate, Gate
<1>8. CASE JobDeadlineGate
  BY <1>8 DEF JobDeadlineGate, Gate
<1>9. CASE JobDcSample
  BY <1>9 DEF JobDcSample
<1>10. CASE JobDcGate
  BY <1>10 DEF JobDcGate
<1>11. CASE JobObserveLoad
  BY <1>11 DEF JobObserveLoad
<1>12. CASE JobSyncLoad
  BY <1>12 DEF JobSyncLoad
<1>13. CASE JobTakePending
  BY <1>13 DEF JobTakePending
<1>14. CASE JobPendingFault
  BY <1>14, <1>100 DEF JobPendingFault
<1>15. CASE JobApply
  BY <1>15 DEF JobApply
<1>16. CASE JobDcWarmup
  BY <1>16 DEF JobDcWarmup
<1>17. CASE JobObserveStore
  BY <1>17, <1>0 DEF JobObserveStore
<1>18. CASE JobLatchComm
  BY <1>18 DEF JobLatchComm
<1>19. CASE JobLatchSafe
  BY <1>19 DEF JobLatchSafe
<1>20. CASE JobLatchReenable
  BY <1>20 DEF JobLatchReenable
<1>21. CASE JobLatchPending
  BY <1>21 DEF JobLatchPending
<1>22. CASE JobLatchDwell
  BY <1>22, <1>0, <1>100 DEF JobLatchDwell
<1>23. CASE JobSyncStore
  BY <1>23 DEF JobSyncStore, JobAt
<1>24. CASE JobHealthy
  BY <1>24 DEF JobHealthy
<1>25. CASE JobDwellLoad
  <2>1. CASE dwell.armed
    <3>1. local'.good = local.good /\ local'.seen = dwell.ok /\ job_pc' = "dwellStore"
      BY <1>0, <1>25, <2>1 DEF JobDwellLoad, Locals
    <3>2. overtaken' = overtaken /\ (~overtaken => dwell.ok <= streak)
      BY <1>25, <2>1 DEF JobDwellLoad, CountBounded
    <3>3. local.good => streak' = IF streak = Required THEN streak ELSE streak + 1
      BY <1>25 DEF JobDwellLoad
    <3>4. local.good /\ ~overtaken => dwell.ok + 1 <= streak' \/ streak' = Required
      BY <1>0, <3>2, <3>3
    <3> QED BY <3>1, <3>2, <3>4 DEF CountBounded, Behind
  <2>2. CASE ~dwell.armed
    BY <1>25, <2>2 DEF JobDwellLoad, CountBounded
  <2> QED BY <2>1, <2>2
<1>26. CASE JobDwellStore
  <2>0. streak' = streak /\ job_pc' = "sync"
        /\ (local.good => (overtaken' <=> overtaken))
    BY <1>26 DEF JobDwellStore
  <2>1. dwell'.armed /\ ~overtaken' => dwell'.ok <= streak
    <3>1. CASE ~local.good
      BY <1>0, <1>26, <3>1 DEF JobDwellStore, DwellObserve
    <3>2. CASE local.good /\ local.seen + 1 >= Required
      BY <1>100, <1>26, <3>2 DEF JobDwellStore, DwellObserve
    <3>3. CASE local.good /\ ~(local.seen + 1 >= Required)
      <4>1. dwell'.ok = local.seen + 1
        BY <1>26, <3>3 DEF JobDwellStore, DwellObserve
      <4>2. ~overtaken => local.seen + 1 <= streak \/ streak = Required
        BY <1>26, <3>3 DEF JobDwellStore, CountBounded, Behind
      <4>3. ~overtaken => local.seen + 1 <= streak
        BY <1>0, <3>3, <4>2
      <4> QED BY <2>0, <3>3, <4>1, <4>3
    <3> QED BY <3>1, <3>2, <3>3
  <2> QED BY <2>0, <2>1 DEF CountBounded
<1> QED
  BY <1>1, <1>2, <1>3, <1>4, <1>5, <1>6, <1>7, <1>8, <1>9,
     <1>10, <1>11, <1>12, <1>13, <1>14, <1>15, <1>16, <1>17, <1>18,
     <1>19, <1>20, <1>21, <1>22, <1>23, <1>24, <1>25, <1>26 DEF JobNext

LEMMA ApiKeepsCount ==
  ASSUME TInv, CountBounded, ApiNext \/ BusChanges \/ UNCHANGED vars
  PROVE  CountBounded'
<1>0. streak \in 0..Required /\ Required \in Nat \ {0}
  BY DwellType DEF TInv, TypeOK
<1>1. ASSUME UNCHANGED <<job, dwell, streak, overtaken>> PROVE CountBounded'
  BY <1>1 DEF CountBounded, Behind, job
<1>2. CASE ApiCalls \/ RequestExchange \/ RequestReenable
  BY <1>1, <1>2 DEF ApiCalls, RequestSafeOutput, ReleaseSafeOutput, SafetyReset, Cycle, StartMaster,
     RequestExchange, RequestReenable, ApiLocal, ApiFrame, shared, hist
<1>3. CASE RequestDwell
  BY <1>3 DEF RequestDwell, Restarted, CountBounded, Behind, ApiFrame, job, DwellFault
<1>4. CASE ReleaseComm \/ ReleaseReenable \/ ReleaseStore \/ ResetDisable
  BY <1>1, <1>4 DEF ReleaseComm, ReleaseReenable, ReleaseStore, ResetDisable, ApiLocal, ApiFrame,
     shared, hist
<1>5. CASE ClearComm \/ ClearSafe \/ ClearPending \/ ClearTrackers \/ ClearReenable
  BY <1>1, <1>5 DEF ClearComm, ClearSafe, ClearPending, ClearTrackers, ClearReenable, ApiFrame,
     shared, hist
<1>6. CASE ClearDwell
  <2>1. dwell'.ok = 0 /\ streak' = 0 /\ UNCHANGED job
        /\ (job_pc = "dwellStore" => overtaken')
    BY <1>6 DEF ClearDwell, Restarted, DwellReset, ApiFrame
  <2> QED BY <2>1 DEF CountBounded, job
<1>7. CASE CycleComm \/ CycleSafe \/ EnableComm \/ EnableSafe \/ EnableReenable \/ EnableStore
  BY <1>1, <1>7 DEF CycleComm, CycleSafe, EnableComm, EnableSafe, EnableReenable, EnableStore,
     ApiLocal, ApiFrame, shared, hist
<1>8. CASE AbortStart \/ SlavesInOp \/ SetOperational \/ Stop \/ BusChanges \/ UNCHANGED vars
  BY <1>1, <1>8 DEF AbortStart, SlavesInOp, SetOperational, Stop, BusChanges, vars, ApiFrame,
     shared, hist
<1>9. CASE Boot
  BY <1>9 DEF Boot, JobAt, DwellFresh, DwellInitial, CountBounded, Behind
<1>10. CASE BootFails
  BY <1>10 DEF BootFails, DwellFresh, DwellInitial, CountBounded, Behind, ApiFrame, job
<1>11. CASE Join
  BY <1>11 DEF Join, JobAt, CountBounded, Behind, shared, hist
<1> QED BY <1>2, <1>3, <1>4, <1>5, <1>6, <1>7, <1>8, <1>9, <1>10, <1>11 DEF ApiNext, ApiSteps

(* The only store that grants permission outside a start is the Job's. *)
LEMMA GrantsByJob ==
  ASSUME TInv, ApiNext \/ BusChanges \/ UNCHANGED vars, ~dwell.allow, dwell'.allow
  PROVE  api = "boot"
<1>1. SUFFICES ASSUME api # "boot" PROVE FALSE
  OBVIOUS
<1>2. dwell' # dwell
  OBVIOUS
<1>3. RequestDwell \/ ClearDwell
  <2> USE DEF ApiFrame, ApiLocal, ApiStep, shared
  <2>1. ApiNext
    BY <1>2 DEF BusChanges, vars
  <2>2. CASE ApiCalls
    BY <1>2, <2>2 DEF ApiCalls, RequestSafeOutput, ReleaseSafeOutput, SafetyReset, Cycle, StartMaster
  <2>3. CASE Stop
    BY <1>2, <2>3 DEF Stop
  <2>4. CASE ApiSteps
    <3>1. ~(Boot \/ BootFails \/ AbortStart)
      BY <1>1 DEF Boot, BootFails, AbortStart
    <3>2. ~(RequestExchange \/ RequestReenable \/ ReleaseComm \/ ReleaseReenable \/ ReleaseStore)
      BY <1>2 DEF RequestExchange, RequestReenable, ReleaseComm, ReleaseReenable, ReleaseStore
    <3>3. ~(ResetDisable \/ ClearComm \/ ClearSafe \/ ClearPending \/ ClearTrackers \/ ClearReenable)
      BY <1>2 DEF ResetDisable, ClearComm, ClearSafe, ClearPending, ClearTrackers, ClearReenable
    <3>4. ~(CycleComm \/ CycleSafe \/ EnableComm \/ EnableSafe \/ EnableReenable \/ EnableStore)
      BY <1>2 DEF CycleComm, CycleSafe, EnableComm, EnableSafe, EnableReenable, EnableStore
    <3>5. ~(SlavesInOp \/ SetOperational \/ Join)
      BY <1>2 DEF SlavesInOp, SetOperational, Join
    <3> QED BY <2>4, <3>1, <3>2, <3>3, <3>4, <3>5 DEF ApiSteps
  <2> QED BY <2>1, <2>2, <2>3, <2>4 DEF ApiNext
<1> QED BY <1>3 DEF RequestDwell, ClearDwell, DwellFault, DwellReset

(* Permission is granted by a start or by Required healthy verdicts in a   *)
(* row since the last reset or fault, for every dwell length and every     *)
(* interleaving, but for a reset or fault that landed within an observe(). *)
THEOREM PermissionEarnedTheorem == Spec => PermissionEarned
<1>1. Init => CountBounded
  BY DEF Init, CountBounded, DwellInitial
<1>2. TInv /\ CountBounded /\ [Next]_vars => CountBounded'
  BY JobKeepsCount, ApiKeepsCount DEF Next
<1>3. TInv /\ CountBounded /\ [Next]_vars
        => (~dwell.allow /\ dwell'.allow => api = "boot" \/ streak = Required \/ overtaken)
  <2> SUFFICES ASSUME TInv, CountBounded, JobNext, ~dwell.allow, dwell'.allow, ~overtaken
               PROVE  streak = Required
    BY GrantsByJob DEF Next
  <2>1. dwell' # dwell
    OBVIOUS
  <2>2. JobPendingFault \/ JobLatchDwell \/ JobDwellStore
    <3> USE DEF JobLocal, shared
    <3>1. ~(JobWake \/ JobTakePending \/ JobLoadOperational \/ JobLoadForce \/ JobCheckFreshness)
      BY <2>1 DEF JobWake, JobTakePending, JobLoadOperational, JobLoadForce, JobCheckFreshness
    <3>2. ~(JobReceive \/ JobDecide \/ JobApply \/ JobWkcGate \/ JobDeadlineGate \/ JobDcSample)
      BY <2>1 DEF JobReceive, JobDecide, JobApply, JobWkcGate, JobDeadlineGate, JobDcSample
    <3>3. ~(JobDcWarmup \/ JobDcGate \/ JobObserveLoad \/ JobObserveStore \/ JobLatchComm)
      BY <2>1 DEF JobDcWarmup, JobDcGate, JobObserveLoad, JobObserveStore, JobLatchComm
    <3>4. ~(JobLatchSafe \/ JobLatchReenable \/ JobLatchPending \/ JobHealthy)
      BY <2>1 DEF JobLatchSafe, JobLatchReenable, JobLatchPending, JobHealthy
    <3>5. ~(JobDwellLoad \/ JobSyncLoad \/ JobSyncStore)
      BY <2>1 DEF JobDwellLoad, JobSyncLoad, JobSyncStore
    <3> QED BY <3>1, <3>2, <3>3, <3>4, <3>5 DEF JobNext
  <2>3. JobDwellStore
    BY <2>2 DEF JobPendingFault, JobLatchDwell, DwellFault
  <2>4. local.good /\ local.seen + 1 >= Required
    BY <2>3 DEF JobDwellStore, DwellObserve
  <2>5. Behind(local.seen)
    BY <2>3, <2>4 DEF JobDwellStore, JobStep, CountBounded
  <2>6. streak \in 0..Required /\ Required \in Nat /\ local.seen \in 0..Required
    BY DwellType DEF TInv, TypeOK, Locals
  <2> QED BY <2>4, <2>5, <2>6 DEF Behind
<1> QED BY <1>1, <1>2, <1>3, InitTyped, NextTyped, PTL DEF Spec, PermissionEarned

-----------------------------------------------------------------------------
(* Authorization.  An unauthorized Master found safe-output asserted when   *)
(* it was started, and no release of its own can withdraw it; the Job runs  *)
(* only between Boot and Join.                                              *)
JobAbsent ==
  /\ phase = "stopped" => job_pc = "off"
  /\ phase = "starting" /\ api # "waitOp" => job_pc = "off"
  /\ api = "boot" => phase = "starting"

SafeBeforeBoot ==
  /\ api \in {"requestReenable", "requestDwell", "boot"} => safe_output_required
  /\ api \in {"releaseComm", "releaseReenable", "releaseStore"} => authorized
  /\ job_pc # "off" /\ ~authorized => safe_output_required

AInv == JobAbsent /\ SafeBeforeBoot /\ ObservationNeverDrives

LEMMA JobKeepsAuthorization ==
  ASSUME TInv, AInv, JobNext
  PROVE  AInv'
<1>1. /\ UNCHANGED <<api, phase, authorized>> /\ job_pc # "off"
      /\ safe_output_required => safe_output_required'
  <2> USE DEF JobStep, JobLocal, JobFrame, flags
  <2>1. CASE JobWake
    BY <2>1 DEF JobWake
  <2>2. CASE JobLoadOperational
    BY <2>2 DEF JobLoadOperational
  <2>3. CASE JobLoadForce
    BY <2>3 DEF JobLoadForce
  <2>4. CASE JobCheckFreshness
    BY <2>4 DEF JobCheckFreshness
  <2>5. CASE JobReceive
    BY <2>5 DEF JobReceive
  <2>6. CASE JobDecide
    BY <2>6 DEF JobDecide
  <2>7. CASE JobWkcGate
    BY <2>7 DEF JobWkcGate, Gate
  <2>8. CASE JobDeadlineGate
    BY <2>8 DEF JobDeadlineGate, Gate
  <2>9. CASE JobDcSample
    BY <2>9 DEF JobDcSample
  <2>10. CASE JobDcGate
    BY <2>10 DEF JobDcGate
  <2>11. CASE JobObserveLoad
    BY <2>11 DEF JobObserveLoad
  <2>12. CASE JobDwellLoad
    BY <2>12 DEF JobDwellLoad
  <2>13. CASE JobSyncLoad
    BY <2>13 DEF JobSyncLoad
  <2>14. CASE JobTakePending
    BY <2>14 DEF JobTakePending
  <2>15. CASE JobPendingFault
    BY <2>15 DEF JobPendingFault
  <2>16. CASE JobApply
    BY <2>16 DEF JobApply
  <2>17. CASE JobDcWarmup
    BY <2>17 DEF JobDcWarmup
  <2>18. CASE JobObserveStore
    BY <2>18 DEF JobObserveStore
  <2>19. CASE JobLatchComm
    BY <2>19 DEF JobLatchComm
  <2>20. CASE JobLatchSafe
    BY <2>20 DEF JobLatchSafe
  <2>21. CASE JobLatchReenable
    BY <2>21 DEF JobLatchReenable
  <2>22. CASE JobLatchPending
    BY <2>22 DEF JobLatchPending
  <2>23. CASE JobLatchDwell
    BY <2>23 DEF JobLatchDwell
  <2>24. CASE JobHealthy
    BY <2>24 DEF JobHealthy
  <2>25. CASE JobDwellStore
    BY <2>25 DEF JobDwellStore
  <2>26. CASE JobSyncStore
    BY <2>26 DEF JobSyncStore
  <2> QED
    BY <2>1, <2>2, <2>3, <2>4, <2>5, <2>6, <2>7, <2>8, <2>9,
       <2>10, <2>11, <2>12, <2>13, <2>14, <2>15, <2>16, <2>17, <2>18,
       <2>19, <2>20, <2>21, <2>22, <2>23, <2>24, <2>25, <2>26 DEF JobNext
<1>2. job_pc' = "apply" /\ local'.drive => authorized
  <2> SUFFICES ASSUME job_pc' = "apply", local'.drive PROVE authorized
    OBVIOUS
  <2>1. call.ret # "apply"
    BY DEF TInv, TypeOK, Calls
  <2>2. JobDecide
    BY <2>1 DEF JobNext, JobStep, JobAt, Gate, JobWake, JobTakePending, JobPendingFault,
       JobLoadOperational, JobLoadForce, JobCheckFreshness, JobReceive, JobApply, JobWkcGate,
       JobDeadlineGate, JobDcSample, JobDcWarmup, JobDcGate, JobObserveLoad, JobObserveStore,
       JobLatchComm, JobLatchSafe, JobLatchReenable, JobLatchPending, JobLatchDwell,
       JobHealthy, JobDwellLoad, JobDwellStore, JobSyncLoad, JobSyncStore
  <2>3. local' = [local EXCEPT !.drive = ~(local.force \/ safe_output_required)]
    BY <2>2 DEF JobDecide
  <2>4. ~safe_output_required
    BY <2>3 DEF TInv, TypeOK, Locals
  <2> QED BY <1>1, <2>4 DEF AInv, SafeBeforeBoot
<1> QED BY <1>1, <1>2 DEF AInv, JobAbsent, SafeBeforeBoot, ObservationNeverDrives

LEMMA ApiKeepsAuthorization ==
  ASSUME TInv, AInv, ApiNext \/ BusChanges \/ UNCHANGED vars
  PROVE  AInv'
<1> USE DEF AInv, JobAbsent, SafeBeforeBoot, ObservationNeverDrives,
            ApiStep, ApiLocal, ApiFrame, flags, job
<1>1. CASE RequestSafeOutput
  BY <1>1 DEF RequestSafeOutput, Serving
<1>2. CASE RequestExchange
  BY <1>2 DEF RequestExchange, AfterRequest
<1>3. CASE RequestReenable
  BY <1>3 DEF RequestReenable
<1>4. CASE RequestDwell
  BY <1>4 DEF RequestDwell, AfterRequest
<1>5. CASE ReleaseSafeOutput
  BY <1>5 DEF ReleaseSafeOutput
<1>6. CASE ReleaseComm
  BY <1>6 DEF ReleaseComm
<1>7. CASE ReleaseReenable
  BY <1>7 DEF ReleaseReenable
<1>8. CASE ReleaseStore
  BY <1>8 DEF ReleaseStore
<1>9. CASE SafetyReset
  BY <1>9 DEF SafetyReset
<1>10. CASE ResetDisable
  BY <1>10 DEF ResetDisable
<1>11. CASE Cycle
  BY <1>11 DEF Cycle
<1>12. CASE CycleComm
  BY <1>12 DEF CycleComm
<1>13. CASE CycleSafe
  BY <1>13 DEF CycleSafe
<1>14. CASE EnableComm
  BY <1>14 DEF EnableComm
<1>15. CASE EnableSafe
  BY <1>15 DEF EnableSafe
<1>16. CASE EnableReenable
  BY <1>16 DEF EnableReenable
<1>17. CASE EnableStore
  BY <1>17 DEF EnableStore
<1>18. CASE ClearComm
  BY <1>18 DEF ClearComm
<1>19. CASE ClearSafe
  BY <1>19 DEF ClearSafe
<1>20. CASE ClearPending
  BY <1>20 DEF ClearPending
<1>21. CASE ClearTrackers
  BY <1>21 DEF ClearTrackers
<1>22. CASE ClearDwell
  BY <1>22 DEF ClearDwell
<1>23. CASE ClearReenable
  BY <1>23 DEF ClearReenable
<1>24. CASE StartMaster
  BY <1>24 DEF StartMaster
<1>25. CASE AbortStart
  BY <1>25 DEF AbortStart
<1>26. CASE Boot
  BY <1>26 DEF Boot, JobAt
<1>27. CASE BootFails
  BY <1>27 DEF BootFails
<1>28. CASE SlavesInOp
  BY <1>28 DEF SlavesInOp
<1>29. CASE SetOperational
  BY <1>29 DEF SetOperational
<1>30. CASE Stop
  BY <1>30 DEF Stop
<1>31. CASE Join
  BY <1>31 DEF Join, JobAt
<1>32. CASE BusChanges
  BY <1>32 DEF BusChanges
<1>33. CASE UNCHANGED vars
  BY <1>33 DEF vars
<1> QED
  BY <1>1, <1>2, <1>3, <1>4, <1>5, <1>6, <1>7, <1>8, <1>9,
     <1>10, <1>11, <1>12, <1>13, <1>14, <1>15, <1>16, <1>17, <1>18,
     <1>19, <1>20, <1>21, <1>22, <1>23, <1>24, <1>25, <1>26, <1>27,
     <1>28, <1>29, <1>30, <1>31, <1>32, <1>33 DEF ApiNext, ApiCalls, ApiSteps

(* An observation-only Master never drives, for every history of Masters on *)
(* the same runtime.                                                        *)
THEOREM ObservationTheorem == Spec => []ObservationNeverDrives
<1>1. Init => AInv
  BY DEF Init, AInv, JobAbsent, SafeBeforeBoot, ObservationNeverDrives
<1>2. TInv /\ AInv /\ [Next]_vars => AInv'
  BY JobKeepsAuthorization, ApiKeepsAuthorization DEF Next
<1>3. AInv => ObservationNeverDrives
  BY DEF AInv
<1> QED BY <1>1, <1>2, <1>3, InitTyped, NextTyped, PTL DEF Spec
=============================================================================
