---------------------------- MODULE SetpointPath ----------------------------
(***************************************************************************)
(* How a setpoint travels from Master::cycle to the drive, for one channel *)
(* of one axis: the caller leaves it in pending_commands_, the Job merges  *)
(* it into the target and writes the target out, holding the axis where no *)
(* override is active; a watchdog asks for a refresh of torques (and, when *)
(* configured, of velocities) while the axis is in the channel's mode.     *)
(*                                                                         *)
(* A setpoint is the number of its epoch: an epoch begins with each safety *)
(* reset and each change into the channel's mode.  Held is the position    *)
(* the axis stands at, or a zero velocity or torque.  Every load and store *)
(* of an object both threads use is a step, but for the runs of stores of  *)
(* latchCommFault, clearCommFault and requestSafeOutput, which are one     *)
(* step each (IghRuntime interleaves them).                                *)
(***************************************************************************)
EXTENDS Integers

CONSTANTS
  DwellCycles,   (* healthy cycles before permission, at least 1           *)
  MaxEpoch       (* bound on the epochs explored                           *)

ASSUME SetpointAssumption ==
  DwellCycles \in Nat \ {0} /\ MaxEpoch \in Nat \ {0}

Channels == {"position", "velocity", "watchedVelocity", "torque"}
Held == 0
Setpoints == {Held} \union 1..MaxEpoch
Deadlines == {"zero", "past", "future"}

VARIABLES
  channel,       (* which channel this is; it never changes                *)
  comm_fault, safe_output_required, motion_reenable_allowed,
  dwell, allow_enable,  (* HealthyDwell: cycles to go, 0 when not armed    *)
  pending, valid,       (* pending_commands_: the value and its flag       *)
  target, override_active, in_mode,   (* in_mode: current_modes_ is its own *)
  armed, deadline,      (* CommandFreshnessState                           *)
  job_pc, force, merged,   (* the Job: what it was told, what it is merging *)
  counted, granted,     (* what observe() will store, and what it publishes *)
  api, giving,          (* the caller, and whether its cycle has a setpoint *)
  epoch, reset_epoch, mode_epoch, given_epoch, timed_out, overtaken (* history *)

flags == <<comm_fault, safe_output_required, motion_reenable_allowed, dwell, allow_enable>>
command == <<pending, valid>>
output == <<target, override_active>>
freshness == <<armed, deadline>>
locals == <<force, merged, counted, granted>>
job == <<job_pc, locals>>
caller == <<api, giving>>
hist == <<epoch, reset_epoch, mode_epoch, given_epoch, timed_out, overtaken>>
vars == <<channel, flags, command, output, in_mode, freshness, job, caller, hist>>

JobPcs == {"force", "check", "modeCheck", "armed", "deadline", "zeroPending", "zeroValid",
           "zeroTarget", "disarm", "disarmDeadline", "raise", "choose", "safeTarget",
           "safeOverride", "merge", "load", "store", "clear", "override", "hold", "write",
           "verdict", "latched", "count", "sync", "publish"}
Entering == {"enterTarget", "enterOverride", "enterMode"}
Leaving == {"leaveArmed", "leaveDeadline", "leaveMode"}
Giving == {"storePending", "storeValid", "storeOverride", "arm", "armDeadline"}
ApiPcs ==
  {"idle", "give", "release", "resetArmed", "resetDeadline"}
    \union Entering \union Leaving \union Giving

HasOverride == channel # "torque"
Watched == channel \in {"torque", "watchedVelocity"}

(* reset_epoch, mode_epoch: the epochs that the last safety reset and the  *)
(* last change into the mode began; given_epoch: that of the last setpoint *)
(* given.  timed_out: the watchdog has fired and no command has been under *)
(* way since.  overtaken: the last safety reset landed between a load and  *)
(* a store of a Job that was giving the permission of the dwell before it, *)
(* and no safe cycle has ended since.                                      *)

TypeOK ==
  /\ channel \in Channels
  /\ comm_fault \in BOOLEAN /\ safe_output_required \in BOOLEAN
  /\ motion_reenable_allowed \in BOOLEAN
  /\ dwell \in 0..DwellCycles /\ allow_enable \in BOOLEAN
  /\ pending \in Setpoints /\ valid \in BOOLEAN
  /\ target \in Setpoints /\ override_active \in BOOLEAN /\ in_mode \in BOOLEAN
  /\ armed \in BOOLEAN /\ deadline \in Deadlines
  /\ job_pc \in JobPcs /\ force \in BOOLEAN /\ merged \in Setpoints
  /\ counted \in 0..DwellCycles /\ granted \in BOOLEAN
  /\ api \in ApiPcs /\ giving \in BOOLEAN
  /\ epoch \in 1..MaxEpoch /\ reset_epoch \in 1..epoch /\ mode_epoch \in 1..epoch
  /\ given_epoch \in 0..epoch
  /\ timed_out \in BOOLEAN /\ overtaken \in BOOLEAN

(* Master::start has returned; the configuration says in which mode.       *)
Init ==
  /\ channel \in Channels
  /\ comm_fault = FALSE /\ safe_output_required = TRUE
  /\ motion_reenable_allowed = FALSE /\ dwell = DwellCycles /\ allow_enable = FALSE
  /\ pending = Held /\ valid = FALSE /\ target = Held /\ override_active = FALSE
  /\ in_mode \in BOOLEAN /\ armed = FALSE /\ deadline = "zero"
  /\ job_pc = "force" /\ force = TRUE /\ merged = Held
  /\ counted = 0 /\ granted = FALSE /\ api = "idle" /\ giving = FALSE
  /\ epoch = 1 /\ reset_epoch = 1 /\ mode_epoch = 1
  /\ given_epoch = 0 /\ timed_out = FALSE /\ overtaken = FALSE

-----------------------------------------------------------------------------
(* The Job.                                                                *)
JobStep(from, to) == job_pc = from /\ job_pc' = to

(* jobThreadMain loads the flag for runJobCycle, which loads it again.     *)
JobForce ==
  /\ JobStep("force", "check")
  /\ force' = safe_output_required
  /\ UNCHANGED <<channel, flags, command, output, in_mode, freshness, merged, counted,
                 granted, caller, hist>>

(* checkExternalCommandFreshness: outside safe-output only; the mode, the  *)
(* flag and the deadline are loaded one after the other.                   *)
JobCheck ==
  /\ JobStep("check", IF safe_output_required THEN "choose" ELSE "modeCheck")
  /\ UNCHANGED <<channel, flags, command, output, in_mode, freshness, locals, caller,
                 hist>>

JobModeCheck ==
  /\ JobStep("modeCheck", IF Watched /\ in_mode THEN "armed" ELSE "choose")
  /\ UNCHANGED <<channel, flags, command, output, in_mode, freshness, locals, caller,
                 hist>>

JobArmed ==
  /\ JobStep("armed", IF armed THEN "deadline" ELSE "choose")
  /\ UNCHANGED <<channel, flags, command, output, in_mode, freshness, locals, caller,
                 hist>>

JobDeadline ==
  /\ JobStep("deadline", IF deadline = "future" THEN "choose" ELSE "zeroPending")
  /\ timed_out' = (timed_out \/ (deadline # "future" /\ api \notin Giving /\ ~giving))
  /\ UNCHANGED <<channel, flags, command, output, in_mode, freshness, locals, caller,
                 epoch, reset_epoch, mode_epoch, given_epoch, overtaken>>

JobZeroPendingForgotten ==
  /\ JobStep("zeroPending", "zeroValid")
  /\ UNCHANGED <<channel, flags, command, output, in_mode, freshness, locals, caller,
                 hist>>

JobZeroPending ==
  /\ JobStep("zeroPending", "zeroValid")
  /\ pending' = Held
  /\ UNCHANGED <<channel, flags, valid, output, in_mode, freshness, locals, caller, hist>>

JobZeroValid ==
  /\ JobStep("zeroValid", "zeroTarget")
  /\ valid' = TRUE
  /\ UNCHANGED <<channel, flags, pending, output, in_mode, freshness, locals, caller,
                 hist>>

JobZeroTarget ==
  /\ JobStep("zeroTarget", "disarm")
  /\ target' = Held
  /\ UNCHANGED <<channel, flags, command, override_active, in_mode, freshness, locals,
                 caller, hist>>

JobDisarm ==
  /\ JobStep("disarm", "disarmDeadline")
  /\ armed' = FALSE
  /\ UNCHANGED <<channel, flags, command, output, in_mode, deadline, locals, caller, hist>>

JobDisarmDeadlineForgives ==
  /\ JobStep("disarmDeadline", IF deadline = "future" THEN "choose" ELSE "raise")
  /\ deadline' = "zero"
  /\ UNCHANGED <<channel, flags, command, output, in_mode, armed, locals, caller, hist>>

JobDisarmDeadline ==
  /\ JobStep("disarmDeadline", "raise")
  /\ deadline' = "zero"
  /\ UNCHANGED <<channel, flags, command, output, in_mode, armed, locals, caller, hist>>

Latch ==
  /\ comm_fault' = TRUE /\ safe_output_required' = TRUE /\ motion_reenable_allowed' = FALSE
  /\ dwell' = 0 /\ allow_enable' = FALSE

JobNeverRaises ==
  /\ JobStep("raise", "choose")
  /\ UNCHANGED <<channel, flags, command, output, in_mode, freshness, locals, caller,
                 hist>>

JobRaise ==
  /\ JobStep("raise", "choose")
  /\ Latch
  /\ UNCHANGED <<channel, command, output, in_mode, freshness, locals, caller, hist>>

(* runJobCycle: the choice of outputs.                                     *)
JobChoose ==
  /\ JobStep("choose", IF force \/ safe_output_required THEN "safeTarget" ELSE "merge")
  /\ UNCHANGED <<channel, flags, command, output, in_mode, freshness, locals, caller,
                 hist>>

(* applySafeProcessImageOutputs: the pending command is left alone.        *)
JobSafeTarget ==
  /\ JobStep("safeTarget", "safeOverride")
  /\ target' = Held
  /\ UNCHANGED <<channel, flags, command, override_active, in_mode, freshness, locals,
                 caller, hist>>

JobSafeKeepsOverride ==
  /\ JobStep("safeOverride", "verdict")
  /\ overtaken' = FALSE
  /\ UNCHANGED <<channel, flags, command, output, in_mode, freshness, locals, caller,
                 epoch, reset_epoch, mode_epoch, given_epoch, timed_out>>

JobSafeOverride ==
  /\ JobStep("safeOverride", "verdict")
  /\ override_active' = FALSE
  /\ overtaken' = FALSE
  /\ UNCHANGED <<channel, flags, command, target, in_mode, freshness, locals, caller,
                 epoch, reset_epoch, mode_epoch, given_epoch, timed_out>>

(* Where a cycle goes on once the command is merged: a torque is written   *)
(* as it stands.                                                           *)
Out == IF HasOverride THEN "override" ELSE "write"

(* sendData: the pending command is merged; value and flag are apart.      *)
JobMerge ==
  /\ JobStep("merge", IF valid THEN "load" ELSE Out)
  /\ UNCHANGED <<channel, flags, command, output, in_mode, freshness, locals, caller,
                 hist>>

JobLoad ==
  /\ JobStep("load", "store")
  /\ merged' = pending
  /\ UNCHANGED <<channel, flags, command, output, in_mode, freshness, force, counted,
                 granted, caller, hist>>

JobStore ==
  /\ JobStep("store", "clear")
  /\ target' = merged /\ merged' = Held
  /\ UNCHANGED <<channel, flags, command, override_active, in_mode, freshness, force,
                 counted, granted, caller, hist>>

JobClear ==
  /\ JobStep("clear", Out)
  /\ valid' = FALSE
  /\ UNCHANGED <<channel, flags, pending, output, in_mode, freshness, locals, caller,
                 hist>>

(* sendDataCSP, CSV and CST: in "write" the process image takes the target. *)
JobOverride ==
  /\ JobStep("override", IF override_active THEN "write" ELSE "hold")
  /\ UNCHANGED <<channel, flags, command, output, in_mode, freshness, locals, caller,
                 hist>>

JobHold ==
  /\ JobStep("hold", "write")
  /\ target' = Held
  /\ UNCHANGED <<channel, flags, command, override_active, in_mode, freshness, locals,
                 caller, hist>>

JobWrite ==
  /\ JobStep("write", "verdict")
  /\ UNCHANGED <<channel, flags, command, output, in_mode, freshness, locals, caller,
                 hist>>

(* The rest of jobThreadMain: a latch by one of the monitors, then the     *)
(* verdict; observe() loads its count, if it is armed, and stores it.      *)
JobMonitors ==
  /\ ~comm_fault /\ JobStep("verdict", "latched") /\ Latch
  /\ UNCHANGED <<channel, command, output, in_mode, freshness, locals, caller, hist>>

Healthy == job_pc = "verdict" /\ ~comm_fault

JobVerdict ==
  /\ job_pc \in {"verdict", "latched"} /\ job_pc' = (IF dwell > 0 THEN "count" ELSE "sync")
  /\ counted' \in IF dwell = 0 THEN {0}
                  ELSE {DwellCycles} \union (IF Healthy THEN {dwell - 1} ELSE {})
  /\ UNCHANGED <<channel, flags, command, output, in_mode, freshness, force, merged,
                 granted, caller, hist>>

JobCount ==
  /\ JobStep("count", "sync")
  /\ dwell' = (IF dwell > 0 THEN counted ELSE 0)
  /\ allow_enable' = (allow_enable \/ counted = 0)
  /\ counted' = 0
  /\ UNCHANGED <<channel, comm_fault, safe_output_required, motion_reenable_allowed,
                 command, output, in_mode, freshness, force, merged, granted, caller,
                 hist>>

(* syncMotionReenableFlag: a load and a store, lines 194-197.              *)
JobSync ==
  /\ JobStep("sync", "publish")
  /\ granted' = allow_enable
  /\ UNCHANGED <<channel, flags, command, output, in_mode, freshness, force, merged,
                 counted, caller, hist>>

JobPublish ==
  /\ JobStep("publish", "force")
  /\ motion_reenable_allowed' = granted /\ granted' = FALSE
  /\ UNCHANGED <<channel, comm_fault, safe_output_required, dwell, allow_enable, command,
                 output, in_mode, freshness, force, merged, counted, caller, hist>>

JobNext ==
  \/ JobForce \/ JobCheck \/ JobModeCheck \/ JobArmed \/ JobDeadline
  \/ JobZeroPending \/ JobZeroValid \/ JobZeroTarget \/ JobDisarm \/ JobDisarmDeadline
  \/ JobRaise \/ JobChoose \/ JobSafeTarget \/ JobSafeOverride
  \/ JobMerge \/ JobLoad \/ JobStore \/ JobClear \/ JobOverride \/ JobHold \/ JobWrite
  \/ JobMonitors \/ JobVerdict \/ JobCount \/ JobSync \/ JobPublish

-----------------------------------------------------------------------------
(* The caller.                                                             *)
ApiStep(from, to) == api = from /\ api' = to

(* Master::cycle tests safe-output once, then changes the mode if the      *)
(* command names another, then gives the setpoint if it is finite.         *)
CycleStays(gives) ==
  /\ ~comm_fault /\ ~safe_output_required
  /\ ApiStep("idle", "give") /\ giving' = gives
  /\ UNCHANGED <<channel, flags, command, output, in_mode, freshness, job, hist>>

CycleEnters(gives) ==
  /\ ~comm_fault /\ ~safe_output_required /\ ~in_mode /\ epoch < MaxEpoch
  /\ ApiStep("idle", IF HasOverride THEN "enterTarget" ELSE "enterMode") /\ giving' = gives
  /\ epoch' = epoch + 1 /\ mode_epoch' = epoch'
  /\ UNCHANGED <<channel, flags, command, output, in_mode, freshness, job,
                 reset_epoch, given_epoch, timed_out, overtaken>>

CycleLeaves(gives) ==
  /\ ~comm_fault /\ ~safe_output_required /\ in_mode
  /\ ApiStep("idle", IF Watched THEN "leaveArmed" ELSE "leaveMode") /\ giving' = gives
  /\ UNCHANGED <<channel, flags, command, output, in_mode, freshness, job, hist>>

(* setOperationMode: the target is aligned with the axis before the mode.  *)
EnterTarget ==
  /\ ApiStep("enterTarget", "enterOverride") /\ target' = Held
  /\ UNCHANGED <<channel, flags, command, override_active, in_mode, freshness, job,
                 giving, hist>>

EnterOverride ==
  /\ ApiStep("enterOverride", "enterMode") /\ override_active' = (channel = "position")
  /\ UNCHANGED <<channel, flags, command, target, in_mode, freshness, job, giving, hist>>

LeaveArmed ==
  /\ ApiStep("leaveArmed", "leaveDeadline") /\ armed' = FALSE
  /\ UNCHANGED <<channel, flags, command, output, in_mode, deadline, job, giving, hist>>

LeaveDeadline ==
  /\ ApiStep("leaveDeadline", "leaveMode") /\ deadline' = "zero"
  /\ UNCHANGED <<channel, flags, command, output, in_mode, armed, job, giving, hist>>

SetMode ==
  /\ \/ ApiStep("enterMode", "give") /\ in_mode' = TRUE
     \/ ApiStep("leaveMode", "give") /\ in_mode' = FALSE
  /\ UNCHANGED <<channel, flags, command, output, freshness, job, giving, hist>>

(* setTargetPosition, setTargetVelocity and setTargetTorque; a torque is   *)
(* given in its mode only, and a velocity watched in its mode only.        *)
Gives == giving /\ (channel = "torque" => in_mode)
Arms == Watched /\ in_mode

Give ==
  /\ ApiStep("give", IF Gives THEN "storePending" ELSE "idle")
  /\ giving' = FALSE
  /\ given_epoch' = (IF Gives THEN epoch ELSE given_epoch)
  /\ timed_out' = (timed_out /\ ~Gives)
  /\ UNCHANGED <<channel, flags, command, output, in_mode, freshness, job, epoch,
                 reset_epoch, mode_epoch, overtaken>>

StorePending ==
  /\ ApiStep("storePending", "storeValid") /\ pending' = epoch
  /\ UNCHANGED <<channel, flags, valid, output, in_mode, freshness, job, giving, hist>>

StoreValid ==
  /\ ApiStep("storeValid", IF HasOverride THEN "storeOverride" ELSE "arm") /\ valid' = TRUE
  /\ UNCHANGED <<channel, flags, pending, output, in_mode, freshness, job, giving, hist>>

StoreOverride ==
  /\ ApiStep("storeOverride", IF Arms THEN "arm" ELSE "idle") /\ override_active' = TRUE
  /\ UNCHANGED <<channel, flags, command, target, in_mode, freshness, job, giving, hist>>

(* armExternalCommand: the flag first.                                     *)
Arm ==
  /\ ApiStep("arm", "armDeadline") /\ armed' = TRUE
  /\ UNCHANGED <<channel, flags, command, output, in_mode, deadline, job, giving, hist>>

ArmDeadline ==
  /\ ApiStep("armDeadline", "idle") /\ deadline' = "future"
  /\ UNCHANGED <<channel, flags, command, output, in_mode, armed, job, giving, hist>>

(* clearCommFault: the runtime's part, then disarmAllCommandFreshness.     *)
SafetyReset ==
  /\ epoch < MaxEpoch
  /\ ApiStep("idle", "resetArmed")
  /\ comm_fault' = FALSE /\ safe_output_required' = TRUE /\ motion_reenable_allowed' = FALSE
  /\ dwell' = DwellCycles /\ allow_enable' = FALSE
  /\ epoch' = epoch + 1 /\ reset_epoch' = epoch'
  /\ overtaken' = \/ job_pc = "count" /\ counted = 0
                  \/ job_pc = "publish" /\ granted
  /\ UNCHANGED <<channel, command, output, in_mode, freshness, job, giving,
                 mode_epoch, given_epoch, timed_out>>

ResetArmed ==
  /\ ApiStep("resetArmed", "resetDeadline") /\ armed' = FALSE
  /\ UNCHANGED <<channel, flags, command, output, in_mode, deadline, job, giving, hist>>

ResetDeadline ==
  /\ ApiStep("resetDeadline", "idle") /\ deadline' = "zero"
  /\ UNCHANGED <<channel, flags, command, output, in_mode, armed, job, giving, hist>>

RequestSafeOutput ==
  /\ api = "idle" /\ ~safe_output_required
  /\ safe_output_required' = TRUE /\ motion_reenable_allowed' = FALSE
  /\ dwell' = 0 /\ allow_enable' = FALSE
  /\ UNCHANGED <<channel, comm_fault, command, output, in_mode, freshness, job, caller,
                 hist>>

(* releaseSafeOutput: the checks, then the store, whatever came between.   *)
ReleaseSafeOutput ==
  /\ ~comm_fault /\ motion_reenable_allowed
  /\ ApiStep("idle", "release")
  /\ UNCHANGED <<channel, flags, command, output, in_mode, freshness, job, giving, hist>>

ReleaseStore ==
  /\ ApiStep("release", "idle")
  /\ safe_output_required' = FALSE
  /\ UNCHANGED <<channel, comm_fault, motion_reenable_allowed, dwell, allow_enable,
                 command, output, in_mode, freshness, job, giving, hist>>

ApiSteps ==
  \/ EnterTarget \/ EnterOverride \/ LeaveArmed \/ LeaveDeadline \/ SetMode
  \/ Give \/ StorePending \/ StoreValid \/ StoreOverride \/ Arm \/ ArmDeadline
  \/ ReleaseStore \/ ResetArmed \/ ResetDeadline
ApiCalls ==
  \/ \E gives \in BOOLEAN : CycleStays(gives) \/ CycleEnters(gives) \/ CycleLeaves(gives)
  \/ SafetyReset \/ RequestSafeOutput \/ ReleaseSafeOutput

(* The refresh timeout passes.                                             *)
Expire ==
  /\ deadline = "future" /\ deadline' = "past"
  /\ UNCHANGED <<channel, flags, command, output, in_mode, armed, job, caller, hist>>

Next == JobNext \/ ApiSteps \/ ApiCalls \/ Expire

Spec == Init /\ [][Next]_vars

(* The Job never stops, a call that has begun returns, and time passes.    *)
FairSpec == Spec /\ WF_vars(JobNext) /\ WF_vars(ApiSteps) /\ WF_vars(Expire)

-----------------------------------------------------------------------------
(* No position or velocity outlives the safety reset.  pending_commands_   *)
(* survives the fault and is merged by the first driving cycle, but a safe *)
(* cycle has cleared the override since the reset: the axis is held until  *)
(* the caller gives a setpoint, or changes it into position mode, where    *)
(* the change sets the override, whatever the Job has merged meanwhile.    *)
(* Except where the reset was overtaken: observe() or                      *)
(* syncMotionReenableFlag stores the permission of the dwell before it,    *)
(* the release finds it, and no safe cycle comes between.  (A dwell of one *)
(* cycle can end within the cycle that the reset met, with the same end.)  *)
HeldUntilCommanded ==
  job_pc = "write" /\ ~safe_output_required /\ HasOverride
      /\ given_epoch < reset_epoch /\ ~overtaken
      /\ ~(channel = "position" /\ mode_epoch > reset_epoch)
    => target = Held

(* The watchdog stands over every command it should: no disarming by the   *)
(* Job, a mode change or a reset overtakes the arming of a later command,  *)
(* unless the fault that the Job found is about to be raised, or was       *)
(* raised and a release came behind it.                                    *)
WatchdogStands ==
  Watched /\ api = "idle" /\ in_mode /\ ~safe_output_required /\ ~comm_fault
      /\ given_epoch = epoch
    => armed \/ job_pc \in {"disarmDeadline", "raise"}

(* A setpoint that timed out is not written again, through the reset and   *)
(* the release, even one that overtakes the fault, until another command   *)
(* is given.                                                               *)
TimedOutStaysOut ==
  job_pc = "write" /\ timed_out => target = Held

(* A caller that falls silent does not leave the drive with the setpoint   *)
(* it gave last: the watchdog asks for safe-output.                        *)
SilenceStops ==
  Watched /\ in_mode /\ ~safe_output_required /\ ~comm_fault /\ given_epoch = epoch
    ~> safe_output_required \/ api # "idle"
=============================================================================
