------------------------------- MODULE DcSync -------------------------------
(***************************************************************************)
(* The clocks of the Job thread: the wakeup grid of jobThreadMain, the     *)
(* phase-locked loop of EtherCATSync::process with its reading of the      *)
(* reference clock, the sample the DC monitor makes of it, and the verdict *)
(* on the deadline.                                                        *)
(*                                                                         *)
(* Times are relative.  Of the monotonic clock, the application time and   *)
(* the system time base the code only ever compares the clock with the sum *)
(* of the other two, so the state keeps `lag`, what the clock is past that *)
(* sum, and the base.                                                      *)
(*                                                                         *)
(* External: the reference clock, which can or cannot be read (`readable`) *)
(* and shows any of Offsets, and the time that a step takes.               *)
(***************************************************************************)
EXTENDS Integers, FiniteSetsExt

CONSTANTS
  Cycle,              \* cycle_time_ns_
  Offsets,            \* what app_time_low - reference_time_low can be
  Delays,             \* how late a wakeup is, how long a cycle or its tail takes
  WarmupCycles,       \* kRefClockWarmupCycles
  RequiredSuccesses,  \* kRefClockRequiredSuccesses
  FailEnterBackoff,   \* kRefClockFailEnterBackoff
  BackoffEvery,       \* kRefClockBackoffEveryCycles
  BackoffMax,         \* kRefClockBackoffMaxCycles
  FilterCount,        \* DC_FILTER_CNT
  AdjustLimit,        \* kAdjustLimitNs
  Threshold,          \* dc_sync_threshold_ns
  MaxBase             \* bound: the model follows sys_time_base_ no further

ASSUME ClockAssumption ==
  /\ Cycle \in Nat \ {0} /\ AdjustLimit \in Nat /\ AdjustLimit <= Cycle
  /\ Offsets \subseteq Int /\ Delays \subseteq Nat /\ 0 \in Delays
  /\ Threshold \in Nat /\ MaxBase \in Nat

(* The counter of cycles is used modulo an interval only, and each interval *)
(* divides BackoffMax, as 2500 and 12500 divide 25000.                      *)
ASSUME ReadAssumption ==
  /\ {WarmupCycles, RequiredSuccesses, FailEnterBackoff,
      BackoffEvery, BackoffMax, FilterCount} \subseteq Nat \ {0}
  /\ BackoffMax % (5 * BackoffEvery) = 0

VARIABLES
  job_pc,      \* "plan", "sleep", "process", "tail"
  lag,         \* monotonic clock - (app_time + sys_time_base_)
  base,        \* sys_time_base_
  warmup,      \* warmup_cycles_remaining_
  process_cycle, \* ref_clock_process_cycle_, modulo BackoffMax
  streak,      \* ref_clock_fail_streak_, up to where it is compared
  backoff,     \* ref_clock_backoff_
  successes,   \* consecutive_ref_successes_, up to where it is compared
  last_good,   \* {last_good_dc_diff_ns_}, empty without have_good_dc_diff_
  filter,      \* the loop: dc_started_, prev, the totals, the index, dc_adjust_ns_
  diff,        \* dc_diff_ns_
  sample,      \* the DcStatusSample of the cycle: status_valid and in_sync
  deadline_met, \* whether the cycle ended within its period
  readable,    \* the reference clock: whether it answers
  trusted,     \* history: attempts that succeeded since one failed
  tail         \* history: how long the Job took from its verdict to its next plan

vars == <<job_pc, lag, base, warmup, process_cycle, streak, backoff, successes,
          last_good, filter, diff, sample, deadline_met, readable, trusted, tail>>

readVars == <<warmup, process_cycle, streak, backoff, successes, last_good, trusted>>
loopVars == <<filter, diff, sample, deadline_met>>

-----------------------------------------------------------------------------
(* C++ division and remainder truncate toward zero. *)
Quotient(a, b) == IF a >= 0 THEN a \div b ELSE -((-a) \div b)
Remainder(a, b) == a - b * Quotient(a, b)

Magnitude(a) == IF a < 0 THEN -a ELSE a

Sign(a) == IF a > 0 THEN 1 ELSE IF a < 0 THEN -1 ELSE 0

Within(a, bound) == Max({-bound, Min({a, bound})})

(* The error folded into half a cycle on either side. *)
Normalise(d) ==
  Remainder(Remainder(d + Cycle \div 2, Cycle) + Cycle, Cycle) - Cycle \div 2

NewFilter ==
  [started |-> FALSE, prev |-> 0, diffs |-> 0, deltas |-> 0, idx |-> 0, adjust |-> 0]

Init ==
  /\ job_pc = "plan"
  /\ lag = 0
  /\ base = 0
  /\ warmup = WarmupCycles
  /\ process_cycle = 0
  /\ streak = 0
  /\ backoff = FALSE
  /\ successes = 0
  /\ last_good = {}
  /\ filter = NewFilter
  /\ diff = 0
  /\ sample = [valid |-> FALSE, in_sync |-> FALSE]
  /\ deadline_met = TRUE
  /\ tail = 0
  /\ readable \in BOOLEAN
  /\ trusted = 0

-----------------------------------------------------------------------------
(* The wakeup grid.                                                        *)

ReplannedOnWallClock(behind) == IF behind > Cycle THEN -base ELSE behind

(* The next cycle on the grid; when that is more than a cycle behind the   *)
(* clock, the application time is taken afresh from the clock, less the    *)
(* base, so that the wakeup planned is now.                                *)
Replanned(behind) == IF behind > Cycle THEN 0 ELSE behind

JobPlan ==
  /\ job_pc = "plan"
  /\ lag' = Replanned(lag - Cycle)
  /\ job_pc' = "sleep"
  /\ UNCHANGED <<base, readVars, loopVars, tail, readable>>

(* clock_nanosleep returns at once when the wakeup is past, and some time  *)
(* after it otherwise.                                                     *)
JobSleep ==
  /\ job_pc = "sleep"
  /\ \E late \in Delays : lag' = Max({lag, 0}) + late
  /\ job_pc' = "process"
  /\ UNCHANGED <<base, readVars, loopVars, tail, readable>>

-----------------------------------------------------------------------------
(* Reading the reference clock.                                            *)

Interval(failures) ==
  IF failures >= 4 * FailEnterBackoff THEN BackoffMax
  ELSE IF failures >= 2 * FailEnterBackoff THEN 5 * BackoffEvery
  ELSE BackoffEvery

(* Whether this cycle tries to read the clock.  The warmup is counted down *)
(* first; the cycle counter is advanced before it is tested.               *)
Attempts ==
  /\ warmup <= 1
  /\ backoff => (process_cycle + 1) % Interval(streak) = 0

TickOnAttempt ==
  /\ warmup' = Max({warmup - 1, 0})
  /\ process_cycle' =
       IF Attempts THEN (process_cycle + 1) % BackoffMax ELSE process_cycle

Tick ==
  /\ warmup' = Max({warmup - 1, 0})
  /\ process_cycle' =
       IF warmup <= 1 THEN (process_cycle + 1) % BackoffMax ELSE process_cycle

(* What a cycle without a reading takes for the difference: the last one    *)
(* read, as it was read, and zero during the warmup.                        *)
Held == IF warmup > 1 \/ last_good = {} THEN 0 ELSE CHOOSE d \in last_good : TRUE

ReadSucceeds(d) ==
  /\ Attempts
  /\ readable
  /\ streak' = 0
  /\ backoff' = FALSE
  /\ last_good' = {d}
  /\ successes' = Min({successes + 1, RequiredSuccesses})
  /\ trusted' = Min({trusted + 1, RequiredSuccesses})

ReadFails ==
  /\ Attempts
  /\ ~readable
  /\ successes' = 0
  /\ streak' = Min({streak + 1, 4 * FailEnterBackoff})
  /\ backoff' = (backoff \/ streak + 1 = FailEnterBackoff)
  /\ trusted' = 0
  /\ UNCHANGED last_good

ReadSkipped ==
  /\ ~Attempts
  /\ UNCHANGED <<streak, backoff, successes, last_good, trusted>>

-----------------------------------------------------------------------------
(* The phase-locked loop.                                                  *)

(* The step of the time base once the filter is full.                      *)
Adjusted(f) ==
  LET average == Quotient(f.deltas + FilterCount \div 2, FilterCount)
      wanted  == Within(average + Sign(Quotient(f.diffs, FilterCount)), AdjustLimit)
  IN Quotient(f.adjust + wanted, 2)

(* The filter after it took in the difference d.                           *)
Filtered(d) ==
  LET f == [filter EXCEPT !.prev = d, !.diffs = @ + Normalise(d),
                          !.deltas = @ + d - filter.prev, !.idx = @ + 1]
  IN IF ~filter.started THEN [filter EXCEPT !.prev = d, !.started = TRUE]
     ELSE IF f.idx < FilterCount THEN f
     ELSE [f EXCEPT !.diffs = 0, !.deltas = 0, !.idx = 0, !.adjust = Adjusted(f)]

(* The base moves by the adjustment in every cycle that feeds the filter;  *)
(* the first one starts the loop at zero.                                  *)
BaseAfter(f) == IF filter.started THEN Within(base + f.adjust, MaxBase) ELSE 0

LoopRunsUnfolded(d) ==
  /\ diff' = d
  /\ filter' = Filtered(d)
  /\ base' = BaseAfter(filter')

LoopRuns(d) ==
  /\ diff' = Normalise(d)
  /\ filter' = Filtered(d)
  /\ base' = BaseAfter(filter')

LoopRests(d) ==
  /\ diff' = d
  /\ UNCHANGED <<filter, base>>

(* EtherCATSync::process. *)
Process ==
  /\ Tick
  /\ \/ \E d \in Offsets :
          /\ ReadSucceeds(d)
          /\ IF successes' < RequiredSuccesses THEN LoopRests(d) ELSE LoopRuns(d)
     \/ ReadFails /\ LoopRests(Held)
     \/ ReadSkipped /\ LoopRests(Held)

(* makeDcStatusSample *)
StatusSample(valid, deviation) ==
  [valid |-> valid, in_sync |-> valid /\ Magnitude(deviation) <= Threshold]

DeadlineMetFromWakeup(late, took) == took <= Cycle

(* observeCycleTiming: the cycle that woke up `late` after its schedule and *)
(* then took `took` has met its deadline when it ends within the period.    *)
DeadlineMet(late, took) == late + took <= Cycle

(* runJobCycle, of which only processSync matters here, then the verdict   *)
(* on the deadline and the DC sample.  The lag is against the old base     *)
(* when the deadline is judged, and against the new one in the next plan.  *)
JobProcess ==
  /\ job_pc = "process"
  /\ Process
  /\ \E took \in Delays :
       /\ lag' = lag + took - (base' - base)
       /\ deadline_met' = DeadlineMet(lag, took)
  /\ sample' = StatusSample(filter'.started, diff')
  /\ job_pc' = "tail"
  /\ UNCHANGED <<tail, readable>>

(* The rest of the loop takes time and changes nothing here. *)
JobTail ==
  /\ job_pc = "tail"
  /\ \E took \in Delays : lag' = lag + took /\ tail' = took
  /\ job_pc' = "plan"
  /\ UNCHANGED <<base, readVars, loopVars, readable>>

JobNext == JobPlan \/ JobSleep \/ JobProcess \/ JobTail

ClockChanges ==
  /\ readable' = ~readable
  /\ UNCHANGED <<job_pc, lag, base, readVars, loopVars, tail>>

Next == JobNext \/ ClockChanges

Spec == Init /\ [][Next]_vars

(* The Job is a real-time thread that waits for nobody. *)
FairSpec == Spec /\ WF_vars(JobNext)

-----------------------------------------------------------------------------
(* Properties.                                                             *)

TypeOK ==
  /\ job_pc \in {"plan", "sleep", "process", "tail"}
  /\ lag \in Int
  /\ base \in -MaxBase .. MaxBase
  /\ warmup \in 0 .. WarmupCycles
  /\ process_cycle \in 0 .. BackoffMax - 1
  /\ streak \in 0 .. 4 * FailEnterBackoff
  /\ backoff \in BOOLEAN
  /\ successes \in 0 .. RequiredSuccesses
  /\ last_good \in {{}} \cup {{d} : d \in Offsets}
  /\ filter \in [started : BOOLEAN, prev : Offsets \cup {0}, diffs : Int, deltas : Int,
                 idx : 0 .. FilterCount - 1, adjust : -AdjustLimit .. AdjustLimit]
  /\ diff \in Int
  /\ sample \in [valid : BOOLEAN, in_sync : BOOLEAN]
  /\ deadline_met \in BOOLEAN
  /\ readable \in BOOLEAN
  /\ trusted \in 0 .. RequiredSuccesses
  /\ tail \in Nat

(* Whatever the loop has added to the time base and however late the Job    *)
(* was, the wakeup it plans lies within a cycle of the clock (and one step  *)
(* of adjustment ahead of it): the application time never jumps by the base, *)
(* as the comment at the realignment in jobThreadMain warns, and the Job     *)
(* neither sleeps for long nor spins through missed cycles.                  *)
AppTimeFollowsClock ==
  job_pc = "sleep" => -(Cycle + AdjustLimit) <= lag /\ lag <= Cycle

(* Cycles are dropped from the grid only after a missed deadline, or after   *)
(* a pause between the verdict on a cycle and the plan of the next: the time *)
(* the bus was left alone is seen by the deadline monitor wherever else it   *)
(* was lost.                                                                 *)
OverrunSeen ==
  job_pc = "plan" /\ lag > 2 * Cycle => ~deadline_met \/ tail + AdjustLimit > Cycle

(* What the DC monitor is given for a difference that was read.              *)
Judged(d) == IF trusted = RequiredSuccesses THEN Normalise(d) ELSE d

(* The DC monitor raises no alarm before the loop has locked.  While the     *)
(* reference clock answers, from RequiredSuccesses readings in a row on, an  *)
(* alarm means that the clocks are apart within the cycle: whole cycles in   *)
(* the difference raise none.  Elsewhere (in an outage, between the attempts *)
(* of a back-off, and for the first readings after it) the monitor judges    *)
(* the last difference again as it was read, whole cycles included: an alarm *)
(* can come then from a reading that was in sync, or with the clock          *)
(* unreadable, but never from a difference within the threshold.             *)
AlarmRestsOnReading ==
  sample.valid /\ ~sample.in_sync =>
    /\ filter.started
    /\ \E d \in last_good : Magnitude(Judged(d)) > Threshold

(* Once the reference clock answers for good, the loop ends up locked and    *)
(* reading it in every cycle, however long it was silent before and however  *)
(* far the attempts had been spread.                                         *)
ClockComesBack ==
  <>[]readable =>
    <>[](filter.started /\ ~backoff /\ trusted = RequiredSuccesses)
=============================================================================
