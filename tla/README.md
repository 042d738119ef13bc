# A verification project for robot_ethercat_master_igh

The program is a C++ library that drives servo axes over EtherCAT through the
IgH master. This directory holds TLA+ modules translated from its code, TLC
configurations that check them on small instances, and theorems that TLAPS
proves for every value of the constants. `PROJECT.json` names, for every
definition, the lines it models. Paths below are relative to
`src/src/ethercat_master_igh/`.

## 1. The system

| Component | State | Operations | Who runs it |
|---|---|---|---|
| Runtime supervision, `igh_master_runtime.cpp` | six atomic flags, three anomaly trackers, a healthy dwell, the DC warmup | `start`, `stop`, `latchCommFault`, `clearCommFault`, `requestSafeOutput`, `releaseSafeOutput`, the Job loop | Job thread (SCHED_FIFO) and API caller |
| Anomaly tracker and healthy dwell, `anomaly_tracker.hpp` | ring bitmap, cursor, counts; armed flag, healthy count, permission | `observe`, `reset`; `onFault`, `requestReset`, `observe` | both threads, with no lock |
| Servo job cycle, `ethercat_servo.cpp` | targets, pending commands, enable machine, process image, PDO cache | `runJobCycle`, `sendData`, `applySafeProcessImageOutputs`, `receiveData`, `setEnable`, `setTarget*`, `requestFaultReset` | Job thread; setters by the API caller |
| Master API, `master_api.cpp` | `running_`, `mapped_`, `motion_commands_authorized_` | `init`, `map_joints`, `start`, `cycle`, `shutdown`, the safety calls | API caller |
| DC synchronisation, `ethercat_sync.cpp`, `dc_monitor.hpp` | reference-clock history, filter, back-off | `process`, `getSleepSpec` | Job thread |
| Cycle timing, `cycle_timing.hpp` | none (pure) | next deadline, skipped slots | Job thread |
| Seqlock and PDO cache, `seqlock.hpp`, `pdo_cache_helpers.hpp` | a sequence number, the cached cells | begin/end of a write, read with retry | Job writes, anyone reads |
| Runtime logger, `runtime_logger.cpp` | event ring, command queue, file | push, queue, drain | Job, API caller, drain thread |
| Motor kinematics and profiles, PDO mapping, SDO reads | tables | lookups, unit conversion, bus uploads | start-up |

The Job thread owns the bus: each period it takes the fault the API thread left
for the dwell, checks the freshness of external commands, receives, chooses
between the normal and the safe outputs, sends, feeds the three anomaly
trackers (working counter, deadline, DC offset), and publishes the dwell's
permission. The API caller shares with it the flags, the dwell, the trackers
and the servo's vectors, and holds no lock. Everything difficult in the program
comes from there: two-step checks, a latch that is five writes, a dwell that
both sides rewrite, counters that are tested and then decremented, settings
that survive a fault.

What makes the components correct:

* Supervision: a latched communication fault keeps the drives in safe-output
  whatever the caller does; permission comes back only after a start or a full
  healthy dwell; a lasting link loss stops the drives; a caller without
  authorization never has a driving cycle; a withdrawn permission disappears.
* Tracker: the running count is the number of anomalies in the ring, and the
  whole object is the sliding window its thresholds speak of.
* Enable machine and process image: control words go through the CiA402
  sequence in order, safe-output ends the sequence, a Fault Reset is written
  only in an explicit window.
* Setpoints: a command from before a fault is not applied after it; a timed-out
  command does not return; a caller that falls silent is stopped.
* Seqlock: a read that succeeds is one published snapshot.
* Logger: the events drained are the events pushed, in order, minus drops.
* Timing and DC: the wakeup grid follows the clock, lost time shows as a missed
  deadline, an alarm rests on a difference that was read, and a clock that comes
  back is used.
* Life cycle: a Job only ever runs on an activated master that its own Master
  holds, drives only with authorization, and the bus is given back.

`PROJECT.json` lists the hazards of this code at their lines with the
properties that address them; a hazard without a property says why.

## 2. Modules

| Module | What it is |
|---|---|
| `AnomalyTracker` | the tracker as operators on a record: `Sanitize`, `Observe`, `StopRequired` |
| `AnomalyTrackerLoop` | one tracker under any sequence of `observe` and `reset`, with any raw policy |
| `SlidingWindow` | the abstract specification: the last verdicts as a sequence |
| `IghRuntime` | the supervision state, the Job thread and the API caller, one action per shared access |
| `SafeOutput` | the safe process image and the explicit Fault Reset window, over several axes |
| `EnableMachine` | the CiA402 enable machine of one axis, with the drive as environment |
| `SetpointPath` | one setpoint channel of one axis: pending command, target, override, mode and watchdog |
| `AtomicSnapshot` | the abstract specification of the process-data cache |
| `PdoSnapshot` | the sequence number, its writers and its readers, which implement `AtomicSnapshot` |
| `RuntimeLogger` | ring, command queue, drain, opening and shutting of the log |
| `DcSync` | wakeup grid, reference clock, phase-locked loop, DC sample and deadline verdict |
| `MasterLifecycle` | several Masters of one index: mapping, start with its gates, failures, shutdown, destruction |
| `MC*` | small instances, one for each module that is run |
| `IghRuntime_proofs` (with the tracker's), `SafeOutput_proofs`, `EnableMachine_proofs`, `SetpointPath_proofs`, `PdoSnapshot_proofs`, `RuntimeLogger_proofs`, `DcSync_proofs`, `MasterLifecycle_proofs` | theorems |

`IghRuntime` extends `AnomalyTracker`. The concurrent modules look at the
same threads at different places: each keeps the accesses of its own subject
apart, step by step, and takes the others' as single steps (the module comments
say which). The supervision flags with all their races are in `IghRuntime`; in
the others a latch, a reset or a request is one step. `SetpointPath` also keeps apart
what decides whether a release can come too early: the load and store of
`observe()`, the load and store of `syncMotionReenableFlag`, the checks and the store of
`releaseSafeOutput`. `EnableMachine` keeps the release apart as well and lets a cycle
publish any permission, whatever the dwell says.

### How IghRuntime corresponds to the code

`job_pc` walks through `jobThreadMain` lines 308 to 385. Each action reads or
writes one shared object: `JobTakePending` is the exchange of line 326 and
`JobPendingFault` the `onFault` after it; `JobLoadOperational`, `JobLoadForce`
are lines 330 and 331; `JobCheckFreshness`, `JobReceive`, `JobDecide`, `JobApply`
are `runJobCycle` of the servo; the gates, `JobDc*` and `JobObserve*` feed the
trackers; the five `JobLatch*` are `latchCommFault`, called from the freshness
check or from a tracker and returning to the place in `call.ret`; `JobHealthy`
to `JobSyncStore` are lines 358 to 368. `local` are the thread's local
variables; `call` is the `observe` it is in.

`api` walks through the calls of the Master API in the same way: the three
writes of `requestSafeOutput`, the two loads and the store of
`releaseSafeOutput`, the six writes of `clearCommFault`, the three loads and
the store of `setEnable`. `phase` is how far `Master::start` has come: it asserts
safe-output, starts the runtime (which resets the flags and creates the Job
thread), waits for the slaves, clears, sets the bus operational, and clears
again.

History variables (`hist`) are read by properties only. `raced` marks a release
whose store overwrote a latch. `streak` counts the healthy verdicts that `observe()`
has taken in a row since the last `requestReset` or `onFault`, which set it to zero
as an unhealthy verdict does; the count of a verdict belongs to its load, so that a
reset after the load leaves zero. `overtaken` marks that a reset or a fault of the
caller landed between the load and the store of an `observe()`.

Abstractions:

* One runtime index and one drive axis; a broadcast is that axis.
* The API caller is a single thread, as `command_freshness.hpp:60` implies
  (the lock above the library); the Job is the only other one.
* Loads and stores are sequentially consistent. The plain (non-atomic) objects
  are read and written in separate steps where the code computes between them;
  a single plain object is written at once, so tearing inside one store of a
  tracker or a dwell is not explored, nor a torn tracker `reset`.
* The test and decrement of `dc_warmup_remaining_` are one step.
* A DC clock that is not valid counts as good, as in line 363.
* Failing `mlockall`, affinity or scheduling is one choice of `BootFails`.
* The bus is external: `bus` says what the next samples show. It changes where the
  Job samples it (the receive, the deadline and the DC gate), so every sequence of
  samples is there.

### How SafeOutput corresponds to the code

A Job cycle is either `JobDrive` (normal outputs) or the steps of
`applySafeProcessImageOutputs`: `JobEnterSafe` takes `entering` and captures the
position, `JobLoadCycles` and `JobLoadAxis` are the two loads of the window,
`JobWrite` fills the image, `JobCount` and `JobClearAxis` are the decrement and
the store after it. The caller's two stores of `requestFaultReset` and the
three of `clearCommFault` are actions of their own. The counter is
`CountWidth` values wide and wraps below zero as the 16-bit one does.
`SafeOutput` begins when `Master::start` has returned; the request that `start`
itself makes for drives that come up with an error code is in `MasterLifecycle`.

### How EnableMachine corresponds to the code

`job_pc` walks through `sendDataCommon` from the debounces (lines 2544 to 2576)
over the gate (2599), the wait (2602), the fault-reset phases (2605) and the two
sequences (2646) to the write of the control word (2697); in a safe cycle
through the stores of `applySafeProcessImageOutputs`. `api` walks through the
stores of `setEnable`, the word store of `setOperationMode`, and a safety reset,
which disables first. A condition over several flags loads them in one step;
what is stored is stored one field at a time, and the direction, step and wait
are loaded where the code loads them.

The drive is external: it answers a word as CiA402 prescribes, may take two
transitions at once, leaves a fault on a rising reset bit only, and may fail or
drop out of operation at any exchange; a frame may be lost. Status words are
their CiA402 states, control words their names. The phase in which the code
looks whether the fault has gone (2635 to 2638) reads the same status word as
the start of the cycle, so it always finds the fault: `fault_reset_counter_`
stays zero and the code that counts it down never runs. Nothing sets
`control_word_write_pending_`, so the control word sent is the stored one.

When the dwell gives its permission is not modelled here: a cycle publishes TRUE or
FALSE as it likes (`JobVerdict`), which includes the permission of an earlier
dwell that is stored after a reset. The release checks in one step and stores in another, so
that it may also land behind a latch (finding 1).

History variables: `swept` says how far a safe cycle has come since the last safety reset,
request or `setEnable(true)`: "begun", and "whole" when it has ended before any
release; `skipped` marks that the machine took the
end of the sequence before for the end of the disable sequence (finding 2).

### How SetpointPath corresponds to the code

The module follows one channel of one axis, chosen in `Init`: the position, the
velocity without or with its watchdog (`IGH_CSV_CMD_WATCHDOG`), or the torque.
The channels share nothing but the mode and the supervision flags, so four
behaviours of one channel say what one behaviour of four would. `job_pc` walks
through `checkExternalCommandFreshness` (4044 to 4077), the choice of
outputs (4138) and either the stores of the safe image (4198 to 4202) or the merge
(2414), the hold (2754) and the write of the target (2762), then through the verdict
of `jobThreadMain`: `JobVerdict` is the load of `observe()` and `JobCount` its store (runtime
367), `JobSync` and `JobPublish` the load and the store of `syncMotionReenableFlag` (194 to 197).
`api` walks through the stores of `setOperationMode`, of `setTarget*` and of the watchdog,
through a safety reset, and through the checks and the store of `releaseSafeOutput`. What is
written to the drive is `target` where `job_pc = "write"`. Sharing happens through `pending`, its `valid` flag,
`target`, `override_active`, the mode, and the two plain fields of the watchdog,
written in the order of the source.

A setpoint is the number of the epoch in which it was given; an epoch
begins with a safety reset or a change into the channel's mode. That is all the
properties need to know of it: older or newer than the fault, than the change.
`Held` stands for the position of the axis (actual, idle and latched ones are
not told apart here; `SafeOutput` does that) and for zero velocity or torque.
The caller is authorized and its mode changes also disable and enable the axis;
those sides are in `IghRuntime` and `EnableMachine`.

History variables: `reset_epoch`, `mode_epoch`, `given_epoch` remember when the
last reset, mode change and setpoint were; `timed_out` that the watchdog found the command
stale with no other under way; `overtaken` that the last safety reset landed between a load and a
store of a Job that was giving the permission of the dwell before it, until a safe cycle ends.

### How PdoSnapshot corresponds to the code

`WriteBegin` and `WriteEnd` are the two stores of `SeqLock`, `Store` one plain
store between them; `receiveData` writes every cell in one section,
`initializePositionsFromSDO` one position in each. A reader works through the
sections its call consists of (`plan`): one for `getMotorStates` and for
`getForceSensorSample`, three in a row for `Master::cycle`, which asks for
status, position and velocity separately (`CycleReads`). `ReadBegin` waits for
an even number, `Load` copies one cell, `Retry` or `Accept` is `readRetry`. A value
is the number of the write that stored it.

The plain stores of one section may become visible in any order. `writeEnd` is a
release store and stays behind them. `writeBegin` is a release store as well,
which by the language does not keep LATER stores behind it;
`StoresFollowBegin` = TRUE says that the build keeps them there (x86, and a
compiler that does not move them across). `seqlock.hpp:3` says that a torn read
is retried: with `StoresFollowBegin` = FALSE that is not so, so the promise rests on
the build. The refinement needs no other mapping than the names: `published` is
the history of what the last `writeEnd` left.

### How RuntimeLogger corresponds to the code

One action is one access to a shared object: in `tryPushToRing` the load of
head and tail, the slot, and the store of head; in `tryPopFromRing` the load, the
copy, and the store of tail, then the line in the file; in
`flushPendingToBuffer` the check and the `try_lock` with its swap, after which
the swapped commands are pushed one by one (`todo`). `file_mutex_` is
`file_holder`: the drainer and a `shutdown()` pop under it, never both.
`control` walks through `shutdown` (drain, close, disable) and `initialize`
(which begins with its own `shutdown` when the log is open, `reopen`). The Job
may be inside a push while the log is shut, as `enabled_` is looked at only on entry.

`initialize` stores head and tail and opens the file with no lock.
`RestartsQuietly` = TRUE is the assumption that nobody is inside a push or a
drain then; nothing in the logger sees to it, and with FALSE
`AcceptedOnceInOrder` does not hold. A command that is pending at a shutdown stays
queued and comes out in the next session, which is why the properties speak
of what the ring accepted. Only an application can use the logger: nothing
in the repository calls `setRuntimeLogger` or `drain`.

### How DcSync corresponds to the code

`job_pc` has the four points of the Job's loop that touch time: the plan of the next
wakeup with its realignment (runtime 304 to 321), the sleep, `processSync` with the
verdicts, and the rest. The code compares the monotonic clock only with
`app_time + sys_time_base_`, so the state keeps that difference (`lag`) and the
base. `Process` is `EtherCATSync::process`: `Attempts`, `Tick`, `ReadSucceeds`,
`ReadFails` and `ReadSkipped` are the decision and outcome of a reading,
`Filtered` and `Adjusted` the loop, with C++'s truncating division
(`Quotient`, `Remainder`). The history variable `trusted` counts successful
attempts since one failed and `tail` remembers how long the Job took between its
verdict and its next plan.

What the model shows of the code, beside its properties: after a failed
or skipped reading `lastDcDiffNs()` is the last difference as it was read, not
folded into half a cycle, while the loop counts as active, so that the monitor can
find out of sync what it found in sync when it was read (`AlarmRestsOnReading` says
what remains true of an alarm); a
correction of one nanosecond alone never moves the base, as the smoothing
truncates it to zero; `ref_clock_read_disabled_` is never set.

### How MasterLifecycle corresponds to the code

Each Master is a record of its flags and those of its servo; `requested` and
`bus_active` are what IgH thinks, `job` whose Job the runtime of the index runs,
`flags` that runtime's atomics. `call` is the one call in progress; `start` is a
step for each point at which the Job or the bus may have moved on: the mailbox reads,
the interpolation gate, the activation (refused, half done, or done), the
request for safe-output with the policy, the Job, the wait for OP, the
first safety reset, the error codes with the Fault Reset request and
its sleep of 80 ms (`call.slept` counts the Job's cycles in it), and the
last reset. A failed start, a shutdown and a destructor all pass through `Stop` (the Job
of the index is joined) and `Deactivate`. A map_joints whose configuration does not
validate changes nothing and is no step.

`excuses` is the history that the properties name as their exceptions: a
map_joints after a failed one, which overwrites the handle with null
(`"mapped again"`); an `activate()` that fails after `ecrt_master_activate`
(`"half activated"`); a start after a failed start, on domains that the
deactivation freed (`"started again"`); and a Master whose Job was stopped by the
end of another Master of the same index (`"stopped by another"`). Every one of them is
a path of the code, and without its exception the property is violated.

## 3. Runs

| Run | Properties | Shows |
|---|---|---|
| `tracker` | `CountIsExact`, `FullWindowStops`, `ImplementsSlidingWindow` | the ring bitmap is a sliding window under every raw policy |
| `runtime` | `TypeOK`, `LatchHolds`, `LatchedNeverDrives`, `ObservationNeverDrives`, `PermissionEarned`, `LinkLossStops`, `StalePermissionWithdrawn`, `DwellCompletes` | supervision under every interleaving, with link loss, DC drift and real-time failures; the last three with fair threads |
| `safe_output` | `TypeOK`, `BoundedBetweenCalls`, `WindowCloses`, `SafePositionFresh` | Fault Reset words are bounded and end, wherever a call meets the Job's cycle; the position held belongs to the present safe episode |
| `enable_machine` | `TypeOK`, `NoResume`, `EnableCompletes`, `DisableCompletes`, `ResetKeepsTrying` | no enable outlives safe-output; both sequences complete once the bus is calm |
| `setpoint_path` | `HeldUntilCommanded`, `WatchdogStands`, `TimedOutStaysOut`, `SilenceStops` | what survives a fault, a timeout and a silent caller, wherever a call meets the Job's merge and freshness check |
| `pdo_snapshot` | `ConsistentSnapshot`, `StatusNotNewer`, `ReadsReturn` | a read is one completed write's values; a status is never paired with an older motion; readers return |
| `runtime_logger` | `AcceptedOnceInOrder`, `SlotExclusive`, `DrainedBeforeClose`, `AcceptedIsWritten` | what the ring accepted is drained once and in order, also around a shutdown |
| `dc_sync` | `AppTimeFollowsClock`, `OverrunSeen`, `AlarmRestsOnReading`, `ClockComesBack` | grid, monitors and phase-locked loop under late wakeups, long cycles and a clock that comes and goes |
| `lifecycle` | `JobOnLiveBus`, `DrivesAuthorized`, `MailboxServed`, `BusReturned`, `WindowServed` | two Masters of one index, failing to start at every point, stopped and destroyed in any order |
| `release_behind_latch` | `FaultForcesSafeOutput` violated | finding 1 |
| `disable_overtaken` | `DisableAlwaysCompletes` violated | finding 2 |
| `dwell_overtaken` | `DwellCountsFromReset` violated | finding 3 |

`TypeOK` is an invariant of the runs of the three modules in which it says
something about overflow or the step index (`IghRuntime`, `SafeOutput`,
`EnableMachine`); the other modules define theirs, and the tracker's is
part of `TrackerInvariant`.

Bounds. The tracker's bitmap has `BitmapWidth` = 4 slots instead of 64, so that
the cursor wraps many times; raw policies range over every value from unset to
beyond the bitmap; `MaxTotal` and `MaxConsecutive` are where the counters
saturate (the code's 64 and 32 bit limits), the second above every stop. In the
runtime, a dwell of two cycles is the shortest that can be interrupted half
way, a warmup of one is the shortest that is not already over, the working
counter stops on two anomalies in a row (so that one is tolerated) and the other
monitors on one. The disturbances of the run are a lost link and a drifting clock; a missed
deadline takes the same path as a drift, without the warmup. `safe_output` has one axis (and the value that selects all),
two positions, a window of two cycles and a counter of four values, so that a
wrapped counter is larger than any window.
`enable_machine` has delays and debounces of one or two cycles, a wait counter
of three values. `setpoint_path` has a dwell of two cycles and explores three epochs, so
that a setpoint can be followed by a reset and a mode change in either order.

`pdo_snapshot` has three writes, so that a reader can begin before one, load during the next and end
after the third, over one motor, one force sensor and one reader (readers do not
write, so none can disturb another). `runtime_logger` has a ring of three slots, which holds two events, with
four events in all, so that it is full, wraps and drops, in two sessions.
`dc_sync` has a cycle of 4, offsets of -3 and 2 (one beyond half a cycle, so that
it is in sync as folded and out of sync as read, and one that is out of sync both ways), a filter of two, a loop locked
after two readings, a back-off entered at the first failure with the intervals
2, 10 and 20 (the code's 2500, 12500 and 25000), and delays of nothing or more
than two cycles; `MaxBase` cuts off the drift of the base. `lifecycle` has two
Masters, one supervised and one for observation, each built once; the window of
two cycles fits into a sleep of three, as the twenty cycles fit into 80 ms
for every bus cycle below 4 ms. With longer bus cycles `start` may
close its own window.

Deadlock is checked where the system never stops. It is not checked in
`lifecycle`, where all Masters may be gone for good, nor in `pdo_snapshot`
and `runtime_logger`, where the bounds on writes and events end the run.

Fairness. `WF(JobNext)`: the Job is a SCHED_FIFO thread that never blocks on the
caller. `WF(ApiSteps)`: a call that has begun returns. `WF(Expire)`: time
passes. No call must ever be made, a shutdown need not come, and the bus may
stay as it is for ever. `FairSpec` of the
snapshot asks only that a write that has begun ends and a reader keeps running; that of
the logger that a call that has begun goes on, and that the application keeps draining,
for which `drain()` is there (`runtime_logger.hpp:66`); that of the clock that the Job, a
real-time thread, goes on. The sequences of the enable machine can complete only if frames arrive and the
drive answers them, so `EnableCompletes` and `DisableCompletes` assume that
the bus is calm from some moment on (`Calm`); nothing is assumed of what came
before, so both start from every state that faults, interrupted sequences and
wrapped counters leave behind.

## 4. Findings

1. `releaseSafeOutput` (runtime 185 to 190) tests the fault and the permission and
   then stores false. A whole `latchCommFault` fits in between; the fault is then
   latched and the outputs are not the safe ones. The docs say that on
   `comm_fault` they are. The state lasts until the next latch, request or
   reset: trackers are no longer fed while the fault is latched.
2. `setEnable(false)` stores the direction first and resets the step two stores
   later. A Job that stands at the end of the enable sequence joins the new
   direction with the old step, takes the disable sequence for finished, and
   leaves the drive enabled; later calls find `desired_enable_` already false
   and return.
3. `HealthyDwell` has no lock. A `requestReset` or `onFault` of the caller that lands
   between the load of the count and the stores in the Job's `observe()` is
   overwritten: the Job stores the permission of the dwell before it, and the
   caller may release with no healthy cycle after its reset. `anomaly_tracker.hpp:109`
   and 110 ask for K healthy cycles in a row counted from `requestReset`, and
   `docs/INTEGRATION.md:93` to 95 puts the dwell between the reset and the release.

The strongest true counterparts are the passing properties: `LatchHolds` and
`LatchedNeverDrives` say what the latch does guarantee, `StalePermissionWithdrawn`
that the stale flag does not last, `DwellCompletes` that an armed dwell ends,
`PermissionEarned` that a permission without its healthy cycles needs a reset or fault that
overtakes an `observe()` (finding 3) and has no other way,
`BoundedBetweenCalls` and `WindowCloses` that even a replayed window is bounded,
and `DisableCompletes` that a disable completes unless it is overtaken in that
way. For setpoints, `HeldUntilCommanded` says that a position or velocity from before
a reset is not written at all after it until the caller acts (one exception is
a change into position mode, which sets the override under the Job's hands, the other
an overtaken reset, below),
`TimedOutStaysOut` that a setpoint found stale never returns, and
`SilenceStops` that every setpoint given in a watched mode is watched to its end.

What no property promises, because the code does not give it: that a safe cycle comes between
a safety reset and the next release. Safe cycles are what clears the machine and the
override. There are two ways without one.

* A reset that lands between a load and a store of a Job that is giving permission, in
  `observe()` (finding 3) or in `syncMotionReenableFlag`. The permission of the dwell before it is published
  after the reset, and a release finds it at once, whatever `DwellCycles` is.
* `IGH_HEALTHY_DWELL_CYCLES=1` (the default is 50; the code accepts one). A reset that meets a
  cycle which drives already is permitted by the verdict of that very cycle.

In both, `HeldUntilCommanded` fails: the override still stands and the position from before
the reset is driven. It is stated with the exception `overtaken` for the first and for
`DwellCycles >= 2` because of the second; besides the mode change no other
way remains. `NoResume` says
of the enable machine that a whole safe cycle between the reset and the release is enough, for
every dwell and every permission: no enable from before comes back. Without that cycle, a
store of `enable_fsm_active_` that landed after the last safe cycle had cleared it
starts the disable sequence after the release, whose first word is Keep Operation.

## 5. Proofs

The first part of `IghRuntime_proofs` is about one tracker (`AnomalyTrackerLoop`). It has an
inductive invariant made of the type and "the
count is the number of set bits within the window, and none beyond". It needs
the cursor to stay inside the sanitized window, which `SanitizeType` and
`CursorStep` give, and the cardinality step of `ObserveKeepsCount`: one slot
leaves and one enters. From it follow `TrackerInvariant`, `FullWindowTheorem`
(a full window reaches the stop count because `Sanitize` bounds it by the window) and
`TrackerImplementsWindow`, a step refinement: the sequence of the last verdicts
is read off the ring from the cursor.

The second part proves `TypeInvariant`, with the tracker lemmas for each of the three
monitors, then the safety properties of `runtime` from it. Each is strengthened with where the threads are: for
`LatchTheorem`, that the Job is between two writes of its latch whenever the
fault stands without the request; for `PermissionEarnedTheorem`, that the dwell's
count is no more than the healthy streak and the count the Job holds in `local.seen` one behind
it, unless the caller has overtaken the Job (`CountBounded`); for
`ObservationTheorem`, that no unauthorized Master is inside a release and that safe-output
stands while a Job runs for it. `LatchedNeverDrivesTheorem` follows from the latch
invariant at the second load.

`SafeOutput_proofs` proves the type, `BoundedWindow` and `FreshPosition` for every
set of axes and positions, every window and counter width. The first of the two
hangs on the wrapped counter: a decrement below zero needs a clear between the
test and the decrement, and that clear also removes the axis before the call
returns.

`EnableMachine_proofs` proves the type (the step index stays inside the sequences,
because the caller only lowers it between the Job's test and increment) and
`ResumeNever`, for every dwell. Its invariant follows the way back from a fault. A
`setEnable(true)` that a latch overtook may store late, but the same caller makes the safety reset
after it, so that stores can come only while the fault stands or the reset is under way
(`CallInv`, `Late`). A safe cycle that began after the reset finds none to come, and what it has
cleared stays cleared (`BegunInv`). So after a whole one either the axis is held until another reset,
or the machine is quiet and stays so until the next accepted enable (`WholeInv`).

`SetpointPath_proofs` has one invariant for each property. `WatchKept` says how far
the caller must be when the watchdog may be down: a command of the present epoch is
watched from the store of its setpoint on, unless the Job that disarms is about to raise the
fault or the fault is raised. `ZeroedOut` follows a setpoint that timed out:
the pending value, the merged one and the target are zero once the Job has passed the
store that makes them so, and nobody stores another.
`OverrideCleared` is the way back from a fault again: since a reset that was not overtaken either a
safe cycle has cleared the override and what is written (`Swept`), or outputs are safe and no permission
is given, counted or about to be published, because the whole dwell is still to come, a fault
has ended it, or the cycle that counted it down first is on its way to a safe one (`Unswept`, where the
dwell of two cycles is needed).

`PdoSnapshot_proofs` proves `CacheIsAtomic`, the refinement of `AtomicSnapshot` step by
step: `WriteEnd` publishes, `Accept` reads, all other steps stutter. Its invariant says that the
number is twice the completed writes, plus one inside a write (`NumberTrue`), that outside
a write the cells are the published ones and inside each is that or the new one
(`CellsTrue`), and that an attempt whose number still stands has loaded what the cells hold
(`AttemptsTrue`). `StatusNeverNewer` needs besides that no published status is newer than
the motion beside it, as a write is of all cells or of positions alone (`StatusBehind`), and
that a call which reads a status reads position and velocity with it or later (`StatusFirst`).

`RuntimeLogger_proofs` proves its three safety properties for every ring size, with one
invariant: only the holder of `file_mutex_` pops (`HolderPops`); a push in progress
holds the head of a ring with room and a pop the tail of one with an event, whatever the
other has done since they looked (`ClaimsStand`);
accepted, written, in flight and in the ring are one sequence (`OneOrder`); and what a shutdown must
still write is in front of it (`DueWritten`). The arithmetic of a ring index modulo the
capacity is in lemmas of its own (`NextSlot` to `TailMoves`).

`DcSync_proofs` bounds how far the application time can be from the clock at each point of
the loop (`OnTheGrid`): the plan subtracts a cycle or starts afresh, the sleep catches up, and one
`process` moves the base by no more than the limit, because a mean of two numbers within the limit
is within it (`AdjustmentBound`), the base is zero until the loop starts, and the model's
bound on the base only ever shortens a step, so that the theorems hold for every `MaxBase`. `OverrunSeen` adds that
a met deadline leaves less than a cycle and a step (`MetLeavesLittle`). `AlarmRestsOnReading` is
inductive with the types and `Counting`: the readings the code has counted in a row are those the clock
has answered, so that the loop folds a difference exactly where the property judges it folded, and what is
judged elsewhere is the last difference as it was read.

`MasterLifecycle_proofs` proves all five properties of `lifecycle` for every set of
Masters. `LifeInv` joins the type with: a call belongs to a living Master
(`CallOwned`); flags and handles agree with what IgH thinks, or an excuse says why not
(`HandlesTrue`, `BusServed`); the Job of the index belongs to an activated servo, and to
the caller while its start runs (`JobOwned`); and from the request in `start` to its end the
outputs are the safe ones (`SafeWhileStarting`). `WindowServed` has a counting invariant on top (`Paced`): what is left of the
window is no more than what is left of the sleep.

The assumptions are those named in the modules (policies are sanitized, counts
are naturals, a delay fits its counter) and, where a theorem states them, these:

| Hypothesis | Theorems | Why, and what happens without it |
|---|---|---|
| `DwellCycles >= 2` | `HeldAfterReset` | the default is 50; with 1 the property is violated (section 4) |
| `StoresFollowBegin` | `CacheIsAtomic`, `StatusNeverNewer` | the build keeps the stores of a section behind its begin (x86); without it a torn read is accepted |
| `RestartsQuietly` | the three of the logger | no thread is inside the logger when it is opened, which is up to the application; without it `AcceptedOnceInOrder` is violated |
| `SleepCycles >= ResetCycles` | `ResetWindowServed` | 20 cycles fit into 80 ms for a bus cycle below 4 ms; otherwise `start` closes its own window |

Every invariant and every safety action property of the passing runs is proved. The
properties with fairness stay with TLC, as TLAPS has no rules for it here: `LinkLossStops`,
`StalePermissionWithdrawn`, `DwellCompletes`, `WindowCloses`, `EnableCompletes`,
`DisableCompletes`, `ResetKeepsTrying`, `SilenceStops`, `ReadsReturn`, `AcceptedIsWritten`,
`ClockComesBack`. The three violated properties have counterexamples, and no theorem.

## 6. Not modelled, and known behaviour without a run

PDO mapping and entry tables, SDO uploads, kinematics and motor profile tables,
environment parsing and the force sensor record are data and bus I/O; the
diagnostics record and logging text carry no decision. The timing thread's loop is
never started by `start()`, so `nextCycleDeadline` and `skippedSlotsBetween` never run and
`skipped_slots` stays zero, though `docs/INTEGRATION.md` speaks of a timing
thread. Differences of the clocks are mathematical integers: that `dc_diff + cycle/2`
can overflow 32 bits near the largest difference is not explored, nor that the count of
readings in a row (`ethercat_sync.cpp:136`) reaches the end of an `int` after some fifty days.

Of the setpoints, these ways in are not modelled: `applyCommandContentionFallback` (the application
found its lock taken and asks for zero where a watchdog is armed), which stores a
zero command and target from a thread of the application; the commands that a Job hook gives as
`SetpointSource::JobInternal`, which disarm the watchdog (nothing in the repository gives one); the
`setIdleInput*` setters, which change what an axis without override holds; and the torque watchdog switched
off (`cmd_watchdog_ms=0`), in which no torque is watched.

What the code does, seen while modelling, that no run shows: some of it nothing in the repository
speaks against, some of it a line does, which is then quoted, and in one case (the permission) the
properties name it as their exception:

* Stale permission. `syncMotionReenableFlag` (runtime 194 to 197) loads the dwell's permission and stores it
  into the flag that a release checks; a safety reset in between is followed by a permission
  from before it (section 4). `docs/INTEGRATION.md:93` to 95 puts a dwell in between.

* Lost safety reset. A reset that lands between the Job's exchange of
  `pending_dwell_fault_` and its `onFault` (runtime 326 to 328) is undone: the dwell is
  disarmed, no fault is latched, and permission never comes until another reset.
* Lost axis. `requestFaultReset` stores the axis and then the count; the Job, closing the
  window before, stores "no axis" after its decrement. A request in between
  is accepted and no reset word is written.
* Window replay. A release does not close the Fault Reset window; what is left
  of it is written in the next safe episode, where nobody asked for it. Two lines speak against
  that: `docs/INTEGRATION.md:31` ("no implicit Fault Reset") and `safe_output.hpp:6`, which
  has no Fault Reset on this path but on an explicit request. `BoundedBetweenCalls` bounds
  the words over both episodes.
* Stale torque. Leaving torque mode disarms the watchdog and leaves the torque in
  the target. An axis that comes back into torque mode without a new effort is driven
  with the old torque, and nothing finds it stale. Between the merge and a
  safety reset, a pending torque goes the same way.
* Interpolation gate. The 0x60C2 gate writes the bus period into a drive
  under every motion policy; `docs/INTEGRATION.md` has `ObservationOnly` without drive
  configuration and calls the gate a read-only match.
* Life cycle. The four `excuses` of section 2. Besides, a map_joints on a
  mapped Master clears `mapped_` while its Job runs on; `configure()` gives
  the permission even when the memory cannot be locked; `running_` keeps its value
  when the runtime does not start; `motion_commands_authorized_` outlives
  `shutdown()`, which `DrivesAuthorized` shows to be harmless; `servo_` is never
  reset, so the error text at `master_api.cpp:161` is never given.
* Clock. `isDcPllActive()` stays true while the reference clock cannot be read,
  where `dc_monitor.hpp:5` says that a valid status has a clock that can. The monitor then judges the last
  difference as it was read, every cycle again (`ethercat_sync.cpp:139` and 152): with
  whole cycles in it, it latches a fault on clocks that were in sync. `AlarmRestsOnReading`
  allows exactly that. A pause between the verdict on
  a cycle and the plan of the next drops cycles without a deadline miss.

## 7. Plan

Done: the supervision, its trackers, the safe image, the enable machine, the
setpoint path, the process-data cache, the logger, the clocks and the life cycle of
the Masters, with all their safety proved. What could follow: a refinement that
composes the supervision with one of the modules that take its calls as single steps
(`SafeOutput`, `SetpointPath`), and the parts of section 6 that are not modelled.
