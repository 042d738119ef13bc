------------------------ MODULE SetpointPath_proofs ------------------------
(* Proofs about SetpointPath, for every number of epochs and every dwell.   *)
EXTENDS SetpointPath, TLAPS

(* A command of this epoch is watched over once the call that gave it has   *)
(* returned, or is about to arm: what disarms it raises the fault, or       *)
(* begins another epoch before the axis is in the mode again.               *)
WatchKept ==
  /\ api \in Entering \union {"resetArmed", "resetDeadline"} => given_epoch < epoch
  /\ Watched /\ in_mode /\ given_epoch = epoch
       /\ api \in {"idle", "give", "armDeadline", "release"}
       => armed \/ job_pc \in {"disarmDeadline", "raise"} \/ comm_fault

(* What timed out is nowhere: the Job zeroes the pending value and the      *)
(* target before it goes on, and nobody stores another.                     *)
ZeroedOut ==
  /\ job_pc # "store" => merged = Held
  /\ timed_out =>
       /\ api \notin Giving
       /\ merged = Held
       /\ job_pc # "zeroPending" => pending = Held
       /\ job_pc \notin {"zeroPending", "zeroValid", "zeroTarget"} => target = Held

(* Since the reset the caller gave no setpoint, and did not change into     *)
(* position mode.                                                           *)
Uncommanded ==
  /\ HasOverride /\ given_epoch < reset_epoch
  /\ ~(channel = "position" /\ mode_epoch > reset_epoch)

(* No safe cycle has ended since the reset, and none of the permissions that *)
(* could release the axis is given or under way: the dwell is whole, or was  *)
(* ended by a fault, or a first cycle has counted it down.                   *)
Sweeping == {"sync", "publish", "force", "check", "choose", "safeTarget", "safeOverride"}
Unswept ==
  /\ safe_output_required /\ ~motion_reenable_allowed
  /\ ~allow_enable /\ ~granted /\ api # "release"
  /\ job_pc = "count" => counted # 0
  /\ dwell \in {0, DwellCycles} \/ job_pc \in Sweeping

Swept ==
  /\ ~override_active
  /\ job_pc = "write" => target = Held

(* From the reset on the override is cleared, before it can be released,    *)
(* and stays so until the caller commands the axis.                         *)
OverrideCleared ==
  /\ granted => job_pc = "publish"
  /\ api \in Giving => given_epoch >= reset_epoch
  /\ api \in Entering => mode_epoch > reset_epoch
  /\ Uncommanded /\ ~overtaken => Swept \/ Unswept
-----------------------------------------------------------------------------
(* Types. *)

(* A latch leaves the flags typed. *)
LEMMA LatchTyped ==
  ASSUME Latch
  PROVE  /\ comm_fault' \in BOOLEAN /\ safe_output_required' \in BOOLEAN
         /\ motion_reenable_allowed' \in BOOLEAN
         /\ dwell' \in 0..DwellCycles /\ allow_enable' \in BOOLEAN
<1>1. 0 \in 0..DwellCycles
  BY SetpointAssumption
<1> QED BY <1>1 DEF Latch

(* A step of the Job keeps the types. *)
LEMMA JobTyped ==
  ASSUME TypeOK, JobNext
  PROVE  TypeOK'
<1> USE DEF TypeOK, flags, command, output, freshness, locals, job, caller, hist,
  JobStep, JobPcs, Setpoints, Held, Deadlines
<1>1. CASE JobForce
  BY <1>1 DEF JobForce
<1>2. CASE JobCheck
  BY <1>2 DEF JobCheck
<1>3. CASE JobModeCheck
  BY <1>3 DEF JobModeCheck
<1>4. CASE JobArmed
  BY <1>4 DEF JobArmed
<1>5. CASE JobDeadline
  BY <1>5 DEF JobDeadline
<1>6. CASE JobZeroPending
  BY <1>6 DEF JobZeroPending
<1>7. CASE JobZeroValid
  BY <1>7 DEF JobZeroValid
<1>8. CASE JobZeroTarget
  BY <1>8 DEF JobZeroTarget
<1>9. CASE JobDisarm
  <2>1. armed' \in BOOLEAN
    BY <1>9 DEF JobDisarm
  <2> QED BY <1>9, <2>1 DEF JobDisarm
<1>10. CASE JobDisarmDeadline
  BY <1>10 DEF JobDisarmDeadline
<1>11. CASE JobRaise
  BY <1>11, LatchTyped DEF JobRaise
<1>12. CASE JobChoose
  BY <1>12 DEF JobChoose
<1>13. CASE JobSafeTarget
  BY <1>13 DEF JobSafeTarget
<1>14. CASE JobSafeOverride
  <2>1. override_active' \in BOOLEAN /\ overtaken' \in BOOLEAN
    BY <1>14 DEF JobSafeOverride
  <2> QED BY <1>14, <2>1 DEF JobSafeOverride
<1>15. CASE JobMerge
  BY <1>15 DEF JobMerge, Out
<1>16. CASE JobLoad
  BY <1>16 DEF JobLoad
<1>17. CASE JobStore
  BY <1>17 DEF JobStore
<1>18. CASE JobClear
  <2>1. valid' \in BOOLEAN
    BY <1>18 DEF JobClear
  <2> QED BY <1>18, <2>1 DEF JobClear, Out
<1>19. CASE JobMonitors
  BY <1>19, LatchTyped DEF JobMonitors
<1>20. CASE JobOverride
  BY <1>20 DEF JobOverride
<1>21. CASE JobHold
  BY <1>21 DEF JobHold
<1>22. CASE JobWrite
  BY <1>22 DEF JobWrite
<1>23. CASE JobVerdict
  <2>1. counted' \in 0..DwellCycles
    <3>1. counted' \in {0, DwellCycles} \/ (dwell # 0 /\ counted' = dwell - 1)
      BY <1>23 DEF JobVerdict
    <3> QED BY <3>1, SetpointAssumption
  <2> QED BY <1>23, <2>1 DEF JobVerdict
<1>24. CASE JobCount
  <2>1. dwell' \in 0..DwellCycles /\ counted' \in 0..DwellCycles
    BY <1>24, SetpointAssumption DEF JobCount
  <2>2. allow_enable' \in BOOLEAN
    BY <1>24 DEF JobCount
  <2> QED BY <1>24, <2>1, <2>2 DEF JobCount
<1>25. CASE JobSync
  <2>1. granted' \in BOOLEAN
    BY <1>25 DEF JobSync
  <2> QED BY <1>25, <2>1 DEF JobSync
<1>26. CASE JobPublish
  <2>1. granted' \in BOOLEAN /\ motion_reenable_allowed' \in BOOLEAN
    BY <1>26 DEF JobPublish
  <2> QED BY <1>26, <2>1 DEF JobPublish
<1> QED BY <1>1, <1>2, <1>3, <1>4, <1>5, <1>6, <1>7, <1>8, <1>9, <1>10, <1>11, <1>12,
  <1>13, <1>14, <1>15, <1>16, <1>17, <1>18, <1>19, <1>20, <1>21, <1>22, <1>23,
  <1>24, <1>25, <1>26 DEF JobNext

(* A step of a call keeps the types. *)
LEMMA ApiTyped ==
  ASSUME TypeOK, ApiSteps
  PROVE  TypeOK'
<1> USE DEF TypeOK, flags, command, output, freshness, locals, job, caller, hist,
  ApiStep, ApiPcs, Entering, Leaving, Giving, Setpoints, Held, Deadlines
<1>1. CASE EnterTarget
  BY <1>1 DEF EnterTarget
<1>2. CASE EnterOverride
  BY <1>2 DEF EnterOverride
<1>3. CASE LeaveArmed
  <2>1. armed' \in BOOLEAN
    BY <1>3 DEF LeaveArmed
  <2> QED BY <1>3, <2>1 DEF LeaveArmed
<1>4. CASE LeaveDeadline
  BY <1>4 DEF LeaveDeadline
<1>5. CASE SetMode
  <2>1. /\ in_mode' \in BOOLEAN /\ api' = "give"
    BY <1>5 DEF SetMode
  <2> QED BY <1>5, <2>1 DEF SetMode
<1>6. CASE Give
  <2>1. given_epoch' \in 0..epoch
    <3>1. given_epoch' = given_epoch \/ given_epoch' = epoch
      BY <1>6 DEF Give
    <3> QED BY <3>1
  <2>4. timed_out' \in BOOLEAN /\ giving' \in BOOLEAN
    BY <1>6 DEF Give
  <2>2. api' \in {"storePending", "idle"}
    BY <1>6 DEF Give
  <2>3. UNCHANGED <<channel, flags, command, output, in_mode, freshness, job, epoch,
                    reset_epoch, mode_epoch, overtaken>>
    BY <1>6 DEF Give
  <2> QED BY <2>1, <2>2, <2>3, <2>4
<1>7. CASE StorePending
  BY <1>7 DEF StorePending
<1>8. CASE StoreValid
  BY <1>8 DEF StoreValid
<1>9. CASE StoreOverride
  BY <1>9 DEF StoreOverride, Arms
<1>10. CASE Arm
  BY <1>10 DEF Arm
<1>11. CASE ArmDeadline
  BY <1>11 DEF ArmDeadline
<1>12. CASE ResetArmed
  <2>1. armed' \in BOOLEAN
    BY <1>12 DEF ResetArmed
  <2> QED BY <1>12, <2>1 DEF ResetArmed
<1>13. CASE ResetDeadline
  BY <1>13 DEF ResetDeadline
<1>14. CASE ReleaseStore
  <2>1. safe_output_required' \in BOOLEAN
    BY <1>14 DEF ReleaseStore
  <2> QED BY <1>14, <2>1 DEF ReleaseStore
<1> QED BY <1>1, <1>2, <1>3, <1>4, <1>5, <1>6, <1>7, <1>8, <1>9, <1>10, <1>11, <1>12,
  <1>13, <1>14 DEF ApiSteps

(* The beginning of a call, and time, keep the types. *)
LEMMA CallTyped ==
  ASSUME TypeOK, ApiCalls \/ Expire
  PROVE  TypeOK'
<1> USE DEF TypeOK, flags, command, output, freshness, locals, job, caller, hist,
  ApiStep, ApiPcs,
            Entering, Leaving, Giving, Setpoints, Held, Deadlines
<1>1. ASSUME NEW gives \in BOOLEAN, CycleStays(gives)
      PROVE  TypeOK'
  BY <1>1 DEF CycleStays
<1>2. ASSUME NEW gives \in BOOLEAN, CycleEnters(gives)
      PROVE  TypeOK'
  <2>1. /\ epoch' \in 1..MaxEpoch /\ mode_epoch' \in 1..epoch'
        /\ reset_epoch \in 1..epoch' /\ given_epoch \in 0..epoch'
    BY <1>2, SetpointAssumption DEF CycleEnters
  <2>2. api' \in {"enterTarget", "enterMode"} /\ giving' \in BOOLEAN
    BY <1>2 DEF CycleEnters
  <2>3. UNCHANGED <<channel, flags, command, output, in_mode, freshness, job,
                    reset_epoch, given_epoch, timed_out, overtaken>>
    BY <1>2 DEF CycleEnters
  <2> QED BY <2>1, <2>2, <2>3
<1>3. ASSUME NEW gives \in BOOLEAN, CycleLeaves(gives)
      PROVE  TypeOK'
  BY <1>3 DEF CycleLeaves
<1>4. CASE SafetyReset
  <2>1. /\ epoch' \in 1..MaxEpoch /\ reset_epoch' \in 1..epoch'
        /\ mode_epoch \in 1..epoch' /\ given_epoch \in 0..epoch'
        /\ dwell' \in 0..DwellCycles
    BY <1>4, SetpointAssumption DEF SafetyReset
  <2>2. /\ comm_fault' \in BOOLEAN /\ safe_output_required' \in BOOLEAN
        /\ motion_reenable_allowed' \in BOOLEAN /\ api' = "resetArmed"
        /\ allow_enable' \in BOOLEAN /\ overtaken' \in BOOLEAN
    BY <1>4 DEF SafetyReset
  <2>3. UNCHANGED <<channel, command, output, in_mode, freshness, job, giving,
                    mode_epoch, given_epoch, timed_out>>
    BY <1>4 DEF SafetyReset
  <2> QED BY <2>1, <2>2, <2>3
<1>5. CASE RequestSafeOutput
  <2>1. /\ safe_output_required' \in BOOLEAN /\ motion_reenable_allowed' \in BOOLEAN
        /\ allow_enable' \in BOOLEAN
    BY <1>5 DEF RequestSafeOutput
  <2>2. dwell' \in 0..DwellCycles
    BY <1>5, SetpointAssumption DEF RequestSafeOutput
  <2>3. UNCHANGED <<channel, comm_fault, command, output, in_mode, freshness, job, caller,
                    hist>>
    BY <1>5 DEF RequestSafeOutput
  <2> QED BY <2>1, <2>2, <2>3
<1>7. CASE ReleaseSafeOutput
  BY <1>7 DEF ReleaseSafeOutput
<1>6. CASE Expire
  BY <1>6 DEF Expire
<1> QED BY <1>1, <1>2, <1>3, <1>4, <1>5, <1>6, <1>7 DEF ApiCalls

-----------------------------------------------------------------------------
(* What the Job and the caller leave to each other. *)

(* The Job leaves the mode, the caller and the epochs alone. *)
LEMMA JobLeavesCaller ==
  ASSUME JobNext
  PROVE  UNCHANGED <<channel, in_mode, api, giving, epoch, reset_epoch, mode_epoch,
                     given_epoch>>
  BY DEF JobNext, JobForce, JobCheck, JobModeCheck, JobArmed, JobDeadline, JobZeroPending,
         JobZeroValid, JobZeroTarget, JobDisarm, JobDisarmDeadline, JobRaise, JobChoose,
         JobSafeTarget, JobSafeOverride, JobMerge, JobLoad, JobStore, JobClear, JobOverride,
         JobHold, JobWrite, JobMonitors, JobVerdict, JobCount, JobSync, JobPublish,
         caller, hist

(* Only a latch and the end of a cycle change the flags. *)
Judging ==
  JobRaise \/ JobMonitors \/ JobVerdict \/ JobCount \/ JobSync \/ JobPublish
LEMMA JobLeavesFlags ==
  ASSUME JobNext, ~Judging
  PROVE  UNCHANGED <<comm_fault, safe_output_required, motion_reenable_allowed, dwell,
                     allow_enable, counted, granted>>
  BY DEF JobNext, JobForce, JobCheck, JobModeCheck, JobArmed, JobDeadline, JobZeroPending,
         JobZeroValid, JobZeroTarget, JobDisarm, JobDisarmDeadline, JobRaise, JobChoose,
         JobSafeTarget, JobSafeOverride, JobMerge, JobLoad, JobStore, JobClear, JobOverride,
         JobHold, JobWrite, Judging, flags, locals

(* A step of a call under way leaves the Job and the permission alone; only  *)
(* a release that has passed its checks changes a flag.                      *)
LEMMA StepsLeaveJob ==
  ASSUME ApiSteps
  PROVE  /\ UNCHANGED <<comm_fault, motion_reenable_allowed, dwell, allow_enable, channel,
                        job_pc, merged, counted, granted, epoch, reset_epoch, mode_epoch,
                        overtaken>>
         /\ api # "release" => safe_output_required' = safe_output_required
         /\ api' # "release"
  BY DEF ApiSteps, EnterTarget, EnterOverride, LeaveArmed, LeaveDeadline, SetMode, Give,
         StorePending, StoreValid, StoreOverride, Arm, ArmDeadline, ResetArmed,
         ResetDeadline, ReleaseStore, ApiStep, flags, job, locals, hist

(* The beginning of a call leaves the Job, the command and the output alone. *)
LEMMA CallsLeaveJob ==
  ASSUME ApiCalls \/ Expire
  PROVE  UNCHANGED <<channel, job_pc, merged, counted, granted, pending, target,
                     override_active, in_mode, armed, given_epoch, timed_out>>
  BY DEF ApiCalls, CycleStays, CycleEnters, CycleLeaves, SafetyReset, RequestSafeOutput,
         ReleaseSafeOutput, Expire, command, output, job, locals, freshness, hist

-----------------------------------------------------------------------------
(* The watchdog. *)

(* The Job disarms only on its way to the fault. *)
LEMMA JobKeepsWatch ==
  ASSUME TypeOK, WatchKept, JobNext
  PROVE  WatchKept'
<1>1. UNCHANGED <<channel, in_mode, api, epoch, given_epoch>> /\ Watched' = Watched
  BY JobLeavesCaller DEF Watched
<1>2. comm_fault => comm_fault'
  <2>1. CASE JobRaise \/ JobMonitors
    BY <2>1 DEF JobRaise, JobMonitors, Latch
  <2>2. CASE JobVerdict \/ JobCount \/ JobSync \/ JobPublish
    BY <2>2 DEF JobVerdict, JobCount, JobSync, JobPublish, flags
  <2>3. CASE ~Judging
    BY <2>3, JobLeavesFlags
  <2> QED BY <2>1, <2>2, <2>3 DEF Judging
<1>3. armed \/ job_pc \in {"disarmDeadline", "raise"} \/ comm_fault
        => armed' \/ job_pc' \in {"disarmDeadline", "raise"} \/ comm_fault'
  <2>1. CASE JobDisarm \/ JobDisarmDeadline
    BY <2>1 DEF JobDisarm, JobDisarmDeadline, JobStep
  <2>2. CASE JobRaise
    BY <2>2 DEF JobRaise, Latch
  <2>3. CASE ~(JobDisarm \/ JobDisarmDeadline \/ JobRaise)
    <3>1. armed' = armed /\ job_pc \notin {"disarmDeadline", "raise"}
      BY <2>3
      DEF JobNext, JobForce, JobCheck, JobModeCheck, JobArmed, JobDeadline, JobZeroPending,
          JobZeroValid, JobZeroTarget, JobChoose, JobSafeTarget, JobSafeOverride, JobMerge,
          JobLoad, JobStore, JobClear, JobOverride, JobHold, JobWrite, JobMonitors,
          JobVerdict, JobCount, JobSync, JobPublish, JobStep, freshness
    <3> QED BY <1>2, <3>1
  <2> QED BY <2>1, <2>2, <2>3
<1> QED BY <1>1, <1>3 DEF WatchKept

(* A call that disarms leaves the mode, or follows a new epoch. *)
LEMMA StepsKeepWatch ==
  ASSUME TypeOK, WatchKept, ApiSteps
  PROVE  WatchKept'
<1>1. UNCHANGED <<comm_fault, job_pc, epoch>> /\ Watched' = Watched
  BY StepsLeaveJob DEF Watched
<1> USE DEF ApiStep, WatchKept, Entering
<1>2. CASE EnterTarget \/ EnterOverride
  <2>1. /\ api' \in {"enterOverride", "enterMode"} /\ given_epoch' = given_epoch
        /\ api \in {"enterTarget", "enterOverride"}
    BY <1>2 DEF EnterTarget, EnterOverride, hist
  <2> QED BY <1>1, <2>1
<1>3. CASE LeaveArmed \/ LeaveDeadline
  <2>1. api' \in {"leaveDeadline", "leaveMode"}
    BY <1>3 DEF LeaveArmed, LeaveDeadline
  <2> QED BY <1>1, <2>1
<1>4. CASE SetMode
  <2>1. api' = "give" /\ (~in_mode' \/ api = "enterMode") /\ given_epoch' = given_epoch
    BY <1>4 DEF SetMode, hist
  <2>2. ~in_mode' \/ given_epoch < epoch
    BY <2>1
  <2> QED BY <1>1, <2>1, <2>2 DEF TypeOK
<1>5. CASE Give
  <2>1. api' = "storePending"
    \/ (api = "give" /\ api' = "idle" /\ given_epoch' = given_epoch)
    BY <1>5 DEF Give
  <2>2. UNCHANGED <<in_mode, armed>>
    BY <1>5 DEF Give, freshness
  <2> QED BY <1>1, <2>1, <2>2
<1>6. CASE StorePending \/ StoreValid
  <2>1. api' \in {"storeValid", "storeOverride", "arm"}
    BY <1>6 DEF StorePending, StoreValid
  <2> QED BY <1>1, <2>1
<1>7. CASE StoreOverride
  <2>1. api' = "arm" \/ (api' = "idle" /\ ~(Watched /\ in_mode))
    BY <1>7 DEF StoreOverride, Arms
  <2>2. in_mode' = in_mode
    BY <1>7 DEF StoreOverride
  <2> QED BY <1>1, <2>1, <2>2
<1>8. CASE Arm
  <2>1. api' = "armDeadline" /\ armed'
    BY <1>8 DEF Arm
  <2> QED BY <1>1, <2>1
<1>9. CASE ArmDeadline
  <2>1. api = "armDeadline" /\ api' = "idle" /\ UNCHANGED <<in_mode, armed, given_epoch>>
    BY <1>9 DEF ArmDeadline, hist
  <2> QED BY <1>1, <2>1
<1>10. CASE ResetArmed \/ ResetDeadline
  <2>1. api \in {"resetArmed", "resetDeadline"} /\ api' \in {"resetDeadline", "idle"}
    BY <1>10 DEF ResetArmed, ResetDeadline
  <2>2. given_epoch' = given_epoch /\ given_epoch < epoch
    BY <1>10, <2>1 DEF ResetArmed, ResetDeadline, hist
  <2>3. given_epoch # epoch
    BY <2>2 DEF TypeOK
  <2> QED BY <1>1, <2>1, <2>2, <2>3
<1>11. CASE ReleaseStore
  <2>1. api = "release" /\ api' = "idle" /\ UNCHANGED <<in_mode, armed, given_epoch>>
    BY <1>11 DEF ReleaseStore, hist, freshness
  <2> QED BY <1>1, <2>1
<1> QED BY <1>2, <1>3, <1>4, <1>5, <1>6, <1>7, <1>8, <1>9, <1>10, <1>11 DEF ApiSteps

(* A reset and a change into the mode begin an epoch nobody commanded yet. *)
LEMMA CallsKeepWatch ==
  ASSUME TypeOK, WatchKept, ApiCalls \/ Expire
  PROVE  WatchKept'
<1>1. UNCHANGED <<in_mode, armed, given_epoch, job_pc>> /\ Watched' = Watched
  BY CallsLeaveJob DEF Watched
<1>2. given_epoch < epoch + 1 /\ epoch \in Int /\ given_epoch \in Int
  BY DEF TypeOK
<1> USE DEF ApiStep, WatchKept, Entering
<1>3. CASE SafetyReset
  <2>1. epoch' = epoch + 1 /\ api' = "resetArmed"
    BY <1>3 DEF SafetyReset
  <2>2. given_epoch < epoch'
    BY <1>2, <2>1
  <2> QED BY <1>1, <2>1, <2>2
<1>4. ASSUME NEW gives \in BOOLEAN, CycleEnters(gives)
      PROVE  WatchKept'
  <2>1. epoch' = epoch + 1 /\ api' \in {"enterTarget", "enterMode"}
    BY <1>4 DEF CycleEnters
  <2>2. given_epoch < epoch'
    BY <1>2, <2>1
  <2> QED BY <1>1, <2>1, <2>2
<1>5. ASSUME NEW gives \in BOOLEAN, CycleStays(gives) \/ CycleLeaves(gives)
      PROVE  WatchKept'
  <2>1. /\ api = "idle" /\ api' \in {"give", "leaveArmed", "leaveMode"} /\ epoch' = epoch
        /\ comm_fault' = comm_fault
    BY <1>5 DEF CycleStays, CycleLeaves, flags, hist
  <2> QED BY <1>1, <2>1
<1>6. CASE RequestSafeOutput \/ Expire
  <2>1. UNCHANGED <<api, epoch, comm_fault>>
    BY <1>6 DEF RequestSafeOutput, Expire, flags, caller, hist
  <2> QED BY <1>1, <2>1
<1>7. CASE ReleaseSafeOutput
  <2>1. api = "idle" /\ api' = "release" /\ UNCHANGED <<epoch, comm_fault>>
    BY <1>7 DEF ReleaseSafeOutput, flags, hist
  <2> QED BY <1>1, <2>1
<1> QED BY <1>3, <1>4, <1>5, <1>6, <1>7 DEF ApiCalls

-----------------------------------------------------------------------------
(* The setpoint that timed out. *)

(* The Job merges nothing but the zero it left. *)
LEMMA JobKeepsZero ==
  ASSUME TypeOK, ZeroedOut, JobNext
  PROVE  ZeroedOut'
<1>1. api' = api
  BY JobLeavesCaller
<1>2. /\ job_pc' # "store" => merged' = Held
      /\ merged' = merged \/ (job_pc = "load" /\ job_pc' = "store" /\ merged' = pending)
         \/ merged' = Held
  <2>1. CASE JobLoad
    BY <2>1 DEF JobLoad, JobStep
  <2>2. CASE JobStore
    BY <2>2 DEF JobStore, JobStep
  <2>3. CASE ~JobLoad /\ ~JobStore
    <3>1. merged' = merged /\ job_pc # "store"
      BY <2>3
      DEF JobNext, JobForce, JobCheck, JobModeCheck, JobArmed, JobDeadline, JobZeroPending,
          JobZeroValid, JobZeroTarget, JobDisarm, JobDisarmDeadline, JobRaise, JobChoose,
          JobSafeTarget, JobSafeOverride, JobMerge, JobClear, JobOverride, JobHold,
          JobWrite, JobMonitors, JobVerdict, JobCount, JobSync, JobPublish, JobStep, locals
    <3> QED BY <3>1 DEF ZeroedOut
  <2> QED BY <2>1, <2>2, <2>3
<1>3. CASE JobDeadline
  <2>1. /\ job_pc = "deadline" /\ job_pc' \in {"choose", "zeroPending"}
        /\ UNCHANGED <<pending, target, merged>>
        /\ timed_out' => timed_out \/ (job_pc' = "zeroPending" /\ api \notin Giving)
    BY <1>3 DEF JobDeadline, JobStep, command, output, locals
  <2> QED BY <1>1, <1>2, <2>1 DEF ZeroedOut
<1>4. CASE JobZeroPending \/ JobZeroTarget \/ JobSafeTarget \/ JobHold
  <2>1. /\ job_pc \in {"zeroPending", "zeroTarget", "safeTarget", "hold"}
        /\ job_pc = "zeroPending"
             => job_pc' = "zeroValid" /\ pending' = Held /\ target' = target
        /\ job_pc # "zeroPending" => pending' = pending /\ target' = Held
        /\ timed_out' = timed_out /\ merged' = merged /\ job_pc' # "zeroPending"
    BY <1>4 DEF JobZeroPending, JobZeroTarget, JobSafeTarget, JobHold, JobStep, command,
                output, locals, hist
  <2> QED BY <1>1, <1>2, <2>1 DEF ZeroedOut
<1>5. CASE JobLoad \/ JobStore
  <2>1. /\ job_pc \in {"load", "store"} /\ job_pc' \in {"store", "clear"}
        /\ timed_out' = timed_out /\ pending' = pending
        /\ target' = target \/ target' = merged
    BY <1>5 DEF JobLoad, JobStore, JobStep, command, output, hist
  <2> QED BY <1>1, <1>2, <2>1 DEF ZeroedOut
<1>6. CASE ~(JobDeadline \/ JobZeroPending \/ JobZeroTarget \/ JobSafeTarget \/ JobHold
             \/ JobLoad \/ JobStore)
  <2>1. /\ timed_out' = timed_out /\ UNCHANGED <<pending, target, merged>>
        /\ job_pc \notin {"deadline", "zeroPending", "zeroTarget"}
        /\ job_pc' # "zeroPending"
        /\ job_pc = "zeroValid" => job_pc' = "zeroTarget"
    BY <1>6
    DEF JobNext, JobForce, JobCheck, JobModeCheck, JobArmed, JobZeroValid, JobDisarm,
        JobDisarmDeadline, JobRaise, JobChoose, JobSafeOverride, JobMerge, JobClear, Out,
        JobOverride, JobWrite, JobMonitors, JobVerdict, JobCount, JobSync, JobPublish,
        JobStep, locals, command, output, hist
  <2> QED BY <1>1, <1>2, <2>1 DEF ZeroedOut
<1> QED BY <1>3, <1>4, <1>5, <1>6

(* A caller that stores a setpoint has ended the timeout. *)
LEMMA CallerKeepsZero ==
  ASSUME TypeOK, ZeroedOut, ApiSteps \/ ApiCalls \/ Expire
  PROVE  ZeroedOut'
<1>1. UNCHANGED <<job_pc, merged>>
  BY StepsLeaveJob, CallsLeaveJob
<1>2. CASE ApiCalls \/ Expire
  <2>1. UNCHANGED <<pending, target, timed_out>> /\ (api' = api \/ api' \notin Giving)
    BY <1>2, CallsLeaveJob
       DEF ApiCalls, CycleStays, CycleEnters, CycleLeaves, SafetyReset, RequestSafeOutput,
           ReleaseSafeOutput, Expire, ApiStep, Giving, caller
  <2> QED BY <1>1, <2>1 DEF ZeroedOut
<1>3. CASE ApiSteps
  <2>1. CASE Give
    <3>1. /\ UNCHANGED <<pending, target>> /\ (timed_out' => timed_out)
          /\ timed_out' => api' \notin Giving
      BY <2>1 DEF Give, ApiStep, Giving, command, output
    <3> QED BY <1>1, <3>1 DEF ZeroedOut
  <2>2. CASE api \in Giving
    <3>1. timed_out' = timed_out
      BY <1>3, <2>2
      DEF ApiSteps, EnterTarget, EnterOverride, LeaveArmed, LeaveDeadline, SetMode, Give,
          StorePending, StoreValid, StoreOverride, Arm, ArmDeadline, ResetArmed,
          ResetDeadline, ReleaseStore, hist, Giving, ApiStep
    <3>2. ~timed_out'
      BY <2>2, <3>1 DEF ZeroedOut
    <3> QED BY <1>1, <3>2 DEF ZeroedOut
  <2>3. CASE ~Give /\ api \notin Giving
    <3>1. /\ UNCHANGED <<pending, timed_out>> /\ (target' = target \/ target' = Held)
          /\ api' \notin Giving
      BY <1>3, <2>3
      DEF ApiSteps, EnterTarget, EnterOverride, LeaveArmed, LeaveDeadline, SetMode,
          StorePending, StoreValid, StoreOverride, Arm, ArmDeadline, ResetArmed,
          ResetDeadline, ReleaseStore, hist, Giving, ApiStep, command, output
    <3> QED BY <1>1, <3>1 DEF ZeroedOut
  <2> QED BY <2>1, <2>2, <2>3
<1> QED BY <1>2, <1>3

-----------------------------------------------------------------------------
(* The override. *)

(* Without the override the Job holds the axis before it writes. *)
LEMMA JobKeepsSwept ==
  ASSUME JobNext, HasOverride, Swept
  PROVE  Swept'
<1>1. ~override_active'
  <2>1. CASE JobSafeOverride
    BY <2>1 DEF JobSafeOverride
  <2>2. CASE ~JobSafeOverride
    <3>1. override_active' = override_active
      BY <2>2
      DEF JobNext, JobForce, JobCheck, JobModeCheck, JobArmed, JobDeadline, JobZeroPending,
          JobZeroValid, JobZeroTarget, JobDisarm, JobDisarmDeadline, JobRaise, JobChoose,
          JobSafeTarget, JobMerge, JobLoad, JobStore, JobClear, JobOverride, JobHold,
          JobWrite, JobMonitors, JobVerdict, JobCount, JobSync, JobPublish, output
    <3> QED BY <3>1 DEF Swept
  <2> QED BY <2>1, <2>2
<1>2. job_pc' = "write" => target' = Held
  <2>1. CASE JobOverride
    BY <2>1 DEF JobOverride, JobStep, Swept
  <2>2. CASE JobHold
    BY <2>2 DEF JobHold
  <2>3. CASE ~(JobOverride \/ JobHold)
    BY <2>3
    DEF JobNext, JobForce, JobCheck, JobModeCheck, JobArmed, JobDeadline, JobZeroPending,
        JobZeroValid, JobZeroTarget, JobDisarm, JobDisarmDeadline, JobRaise, JobChoose,
        JobSafeTarget, JobSafeOverride, JobMerge, JobLoad, JobStore, JobClear, Out,
        JobWrite, JobMonitors, JobVerdict, JobCount, JobSync, JobPublish, JobStep
  <2> QED BY <2>1, <2>2, <2>3
<1> QED BY <1>1, <1>2 DEF Swept

(* The first count after the reset does not end a dwell of two cycles, and   *)
(* the next cycle clears the override before it can.                         *)
LEMMA JobSweeps ==
  ASSUME DwellCycles >= 2, TypeOK, JobNext, Unswept, granted => job_pc = "publish"
  PROVE  Swept' \/ Unswept'
<1>1. DwellCycles \in Nat /\ DwellCycles - 1 # 0 /\ DwellCycles # 0
  BY SetpointAssumption
<1>2. api' # "release"
  BY JobLeavesCaller DEF Unswept
<1>3. CASE JobRaise \/ JobMonitors
  BY <1>2, <1>3 DEF JobRaise, JobMonitors, JobStep, Latch, Unswept, locals
<1>4. CASE JobVerdict
  <2>1. job_pc \in {"verdict", "latched"} /\ UNCHANGED <<flags, granted>>
    BY <1>4 DEF JobVerdict
  <2>2. dwell \in {0, DwellCycles}
    BY <2>1 DEF Unswept, Sweeping
  <2>3. job_pc' = "count" => dwell # 0
    <3>1. ~(0 > 0)
      OBVIOUS
    <3> QED BY <1>4, <3>1 DEF JobVerdict
  <2>4. dwell # 0 => counted' \in {DwellCycles, dwell - 1}
    BY <1>4 DEF JobVerdict
  <2>5. job_pc' = "count" => counted' # 0
    BY <1>1, <2>2, <2>3, <2>4
  <2> QED BY <1>2, <2>1, <2>2, <2>5 DEF Unswept, flags
<1>5. CASE JobCount
  <2>1. /\ job_pc = "count" /\ job_pc' = "sync"
        /\ allow_enable' = (allow_enable \/ counted = 0)
        /\ UNCHANGED <<safe_output_required, motion_reenable_allowed, granted>>
    BY <1>5 DEF JobCount, JobStep
  <2>2. ~allow_enable'
    BY <2>1 DEF Unswept
  <2> QED BY <1>2, <2>1, <2>2 DEF Unswept, Sweeping
<1>6. CASE JobSync
  <2>1. job_pc = "sync" /\ job_pc' = "publish" /\ granted' = allow_enable /\ UNCHANGED flags
    BY <1>6 DEF JobSync, JobStep
  <2> QED BY <1>2, <2>1 DEF Unswept, Sweeping, flags
<1>7. CASE JobPublish
  <2>1. /\ job_pc = "publish" /\ job_pc' = "force" /\ motion_reenable_allowed' = granted
        /\ ~granted' /\ UNCHANGED <<safe_output_required, allow_enable, dwell>>
    BY <1>7 DEF JobPublish, JobStep
  <2> QED BY <1>2, <2>1 DEF Unswept, Sweeping
<1>8. CASE ~Judging
  <2>1. UNCHANGED <<comm_fault, safe_output_required, motion_reenable_allowed, dwell,
                    allow_enable, counted, granted>>
    BY <1>8, JobLeavesFlags
  <2>2. job_pc' # "count"
    BY <1>8 DEF JobNext, JobForce, JobCheck, JobModeCheck, JobArmed, JobDeadline,
      JobZeroPending, JobZeroValid, JobZeroTarget, JobDisarm, JobDisarmDeadline, JobChoose,
      JobSafeTarget, JobSafeOverride, JobMerge, JobLoad, JobStore, JobClear, Out,
      JobOverride, JobHold, JobWrite, JobStep, Judging
  <2>3. CASE dwell \in {0, DwellCycles}
    BY <1>2, <2>1, <2>2, <2>3 DEF Unswept
  <2>4. CASE job_pc \in Sweeping
    <3>1. CASE JobSafeOverride
      BY <3>1 DEF JobSafeOverride, JobStep, Swept
    <3>2. CASE ~JobSafeOverride
      <4>1. JobForce \/ JobCheck \/ JobChoose \/ JobSafeTarget
        BY <1>8, <2>4, <3>2
        DEF Sweeping, Judging, JobNext, JobModeCheck, JobArmed, JobDeadline, JobZeroPending,
            JobZeroValid, JobZeroTarget, JobDisarm, JobDisarmDeadline, JobMerge, JobLoad,
            JobStore, JobClear, JobOverride, JobHold, JobWrite, JobStep
      <4>2. job_pc' \in Sweeping
        BY <4>1
        DEF Unswept, Sweeping, JobForce, JobCheck, JobChoose, JobSafeTarget, JobStep
      <4> QED BY <1>2, <2>1, <2>2, <4>2 DEF Unswept
    <3> QED BY <3>1, <3>2
  <2> QED BY <2>3, <2>4 DEF Unswept
<1> QED BY <1>3, <1>4, <1>5, <1>6, <1>7, <1>8 DEF Judging

(* The Job keeps OverrideCleared. *)
LEMMA JobKeepsCleared ==
  ASSUME DwellCycles >= 2, TypeOK, OverrideCleared, JobNext
  PROVE  OverrideCleared'
<1>1. UNCHANGED <<channel, api, reset_epoch, mode_epoch, given_epoch>>
  BY JobLeavesCaller
<1>2. (Uncommanded' <=> Uncommanded) /\ (Uncommanded => HasOverride)
  BY <1>1 DEF Uncommanded, HasOverride
<1>3. granted' => job_pc' = "publish"
  <2>1. CASE JobSync \/ JobPublish
    BY <2>1 DEF JobSync, JobPublish, JobStep
  <2>2. CASE ~(JobSync \/ JobPublish)
    <3>1. granted' = granted /\ job_pc # "publish"
      BY <2>2
      DEF JobNext, JobForce, JobCheck, JobModeCheck, JobArmed, JobDeadline, JobZeroPending,
          JobZeroValid, JobZeroTarget, JobDisarm, JobDisarmDeadline, JobRaise, JobChoose,
          JobSafeTarget, JobSafeOverride, JobMerge, JobLoad, JobStore, JobClear,
          JobOverride, JobHold, JobWrite, JobMonitors, JobVerdict, JobCount, JobStep,
          locals
    <3> QED BY <3>1 DEF OverrideCleared
  <2> QED BY <2>1, <2>2
<1>4. CASE JobSafeOverride
  <2>1. Swept'
    BY <1>4 DEF JobSafeOverride, JobStep, Swept
  <2> QED BY <1>1, <1>3, <2>1 DEF OverrideCleared
<1>5. CASE ~JobSafeOverride
  <2>1. overtaken' = overtaken
    BY <1>5
    DEF JobNext, JobForce, JobCheck, JobModeCheck, JobArmed, JobDeadline, JobZeroPending,
        JobZeroValid, JobZeroTarget, JobDisarm, JobDisarmDeadline, JobRaise, JobChoose,
        JobSafeTarget, JobMerge, JobLoad, JobStore, JobClear, JobOverride, JobHold,
        JobWrite, JobMonitors, JobVerdict, JobCount, JobSync, JobPublish, hist
  <2>2. Uncommanded /\ ~overtaken => Swept' \/ Unswept'
    BY <1>2, JobKeepsSwept, JobSweeps DEF OverrideCleared
  <2> QED BY <1>1, <1>2, <1>3, <2>1, <2>2 DEF OverrideCleared
<1> QED BY <1>4, <1>5

(* A call sets the override only for a setpoint of the caller or a change    *)
(* into position mode.                                                       *)
LEMMA StepsKeepCleared ==
  ASSUME TypeOK, OverrideCleared, ApiSteps
  PROVE  OverrideCleared'
<1>1. /\ UNCHANGED <<comm_fault, motion_reenable_allowed, dwell, allow_enable, channel,
                     job_pc, counted, granted, epoch, reset_epoch, mode_epoch, overtaken>>
      /\ api # "release" => safe_output_required' = safe_output_required
      /\ api' # "release"
  BY StepsLeaveJob
<1>2. HasOverride' = HasOverride /\ (Unswept => Unswept')
  BY <1>1 DEF HasOverride, Unswept
<1>3. /\ epoch >= reset_epoch /\ epoch \in Int
      /\ given_epoch \in Int /\ reset_epoch \in Int
  BY DEF TypeOK
<1>4. CASE Give
  <2>1. \/ given_epoch' = given_epoch /\ api' = "idle"
        \/ given_epoch' = epoch /\ api' = "storePending"
    BY <1>4 DEF Give, ApiStep
  <2>2. UNCHANGED <<target, override_active>>
    BY <1>4 DEF Give, output
  <2>3. CASE given_epoch' = given_epoch /\ api' = "idle"
    <3>1. Uncommanded' <=> Uncommanded
      BY <1>1, <1>2, <2>3 DEF Uncommanded
    <3>2. Swept => Swept'
      BY <1>1, <2>2 DEF Swept
    <3> QED BY <1>1, <1>2, <2>3, <3>1, <3>2 DEF OverrideCleared, Giving, Entering
  <2>4. CASE given_epoch' = epoch /\ api' = "storePending"
    <3>1. given_epoch' >= reset_epoch' /\ ~(given_epoch' < reset_epoch')
      <4>1. reset_epoch' = reset_epoch
        BY <1>1
      <4> QED BY <1>3, <2>4, <4>1
    <3> QED BY <1>1, <2>4, <3>1 DEF OverrideCleared, Uncommanded, Giving, Entering
  <2> QED BY <2>1, <2>3, <2>4
<1>5. CASE ~Give
  <2>1. given_epoch' = given_epoch
    BY <1>5
    DEF ApiSteps, EnterTarget, EnterOverride, LeaveArmed, LeaveDeadline, SetMode,
        StorePending, StoreValid, StoreOverride, Arm, ArmDeadline, ResetArmed,
        ResetDeadline, ReleaseStore, hist
  <2>2. /\ api' \in Giving => api \in Giving
        /\ api' \in Entering => api \in Entering
    BY <1>5
    DEF ApiSteps, EnterTarget, EnterOverride, LeaveArmed, LeaveDeadline, SetMode,
        StorePending, StoreValid, StoreOverride, Arm, ArmDeadline, ResetArmed,
        ResetDeadline, ReleaseStore, ApiStep, Giving, Entering
  <2>3. Uncommanded' <=> Uncommanded
    BY <1>1, <1>2, <2>1 DEF Uncommanded
  <2>4. Uncommanded /\ Swept => Swept'
    <3> SUFFICES ASSUME Uncommanded, Swept PROVE Swept'
      OBVIOUS
    <3>1. api \notin Giving /\ (api \in Entering => channel # "position")
      <4>1. given_epoch < reset_epoch /\ ~(channel = "position" /\ mode_epoch > reset_epoch)
        BY DEF Uncommanded
      <4>2. ~(given_epoch >= reset_epoch)
        BY <1>3, <4>1
      <4> QED BY <4>1, <4>2 DEF OverrideCleared
    <3>2. CASE EnterTarget
      BY <1>1, <3>2 DEF EnterTarget, Swept
    <3>3. CASE EnterOverride
      <4>1. channel # "position" /\ target' = target
        BY <3>1, <3>3 DEF EnterOverride, ApiStep, Entering
      <4>2. ~override_active'
        BY <3>3, <4>1 DEF EnterOverride
      <4> QED BY <1>1, <4>1, <4>2 DEF Swept
    <3>4. CASE ~EnterTarget /\ ~EnterOverride
      <4>1. UNCHANGED <<target, override_active>>
        BY <1>5, <3>1, <3>4
        DEF ApiSteps, LeaveArmed, LeaveDeadline, SetMode, StorePending, StoreValid,
            StoreOverride, Arm, ArmDeadline, ResetArmed, ResetDeadline, ReleaseStore,
            ApiStep, Giving, output
      <4> QED BY <1>1, <4>1 DEF Swept
    <3> QED BY <3>2, <3>3, <3>4
  <2> QED BY <1>1, <1>2, <2>1, <2>2, <2>3, <2>4 DEF OverrideCleared
<1> QED BY <1>4, <1>5

(* A reset that overtakes nobody begins unswept, and the release finds it    *)
(* swept.                                                                    *)
LEMMA CallsKeepCleared ==
  ASSUME TypeOK, OverrideCleared, ApiCalls \/ Expire
  PROVE  OverrideCleared'
<1>1. UNCHANGED <<channel, job_pc, counted, granted, target, override_active, given_epoch>>
  BY CallsLeaveJob
<1>2. HasOverride' = HasOverride /\ (Swept => Swept')
  BY <1>1 DEF HasOverride, Swept
<1>3. epoch + 1 > reset_epoch
  BY DEF TypeOK
<1>4. CASE SafetyReset
  <2>1. ~overtaken' => Unswept'
    <3>1. /\ safe_output_required' /\ ~motion_reenable_allowed' /\ dwell' = DwellCycles
          /\ ~allow_enable' /\ api' = "resetArmed"
      BY <1>4 DEF SafetyReset, ApiStep
    <3>2. ~overtaken' => /\ ~(job_pc = "count" /\ counted = 0)
                         /\ ~(job_pc = "publish" /\ granted)
      BY <1>4 DEF SafetyReset
    <3> QED BY <1>1, <3>1, <3>2 DEF OverrideCleared, Unswept
  <2>2. api' = "resetArmed"
    BY <1>4 DEF SafetyReset, ApiStep
  <2> QED BY <1>1, <2>1, <2>2 DEF OverrideCleared, Giving, Entering
<1>5. ASSUME NEW gives \in BOOLEAN, CycleEnters(gives)
      PROVE  OverrideCleared'
  <2>1. /\ mode_epoch' = epoch + 1 /\ reset_epoch' = reset_epoch
        /\ api' \in {"enterTarget", "enterMode"} /\ overtaken' = overtaken
    BY <1>5 DEF CycleEnters, ApiStep
  <2>2. mode_epoch' > reset_epoch'
    BY <1>3, <2>1
  <2>3. Uncommanded' => Uncommanded
    BY <1>1, <1>2, <2>1, <2>2 DEF Uncommanded
  <2>4. Unswept => Unswept'
    BY <1>1, <1>5, <2>1 DEF CycleEnters, flags, Unswept
  <2> QED BY <1>1, <1>2, <2>1, <2>2, <2>3, <2>4 DEF OverrideCleared, Giving
<1>6. ASSUME NEW gives \in BOOLEAN, CycleStays(gives) \/ CycleLeaves(gives)
      PROVE  OverrideCleared'
  <2>1. /\ UNCHANGED <<reset_epoch, mode_epoch, overtaken>>
        /\ api' \in {"give", "leaveArmed", "leaveMode"}
        /\ UNCHANGED <<comm_fault, safe_output_required, motion_reenable_allowed, dwell,
                       allow_enable>>
    BY <1>6 DEF CycleStays, CycleLeaves, ApiStep, flags, hist
  <2>2. (Uncommanded' <=> Uncommanded) /\ (Unswept => Unswept')
    BY <1>1, <1>2, <2>1 DEF Uncommanded, Unswept
  <2> QED BY <1>1, <1>2, <2>1, <2>2 DEF OverrideCleared, Giving, Entering
<1>7. CASE RequestSafeOutput \/ ReleaseSafeOutput \/ Expire
  <2>1. /\ UNCHANGED <<reset_epoch, mode_epoch, overtaken>>
        /\ api' = api \/ api' = "release"
    BY <1>7 DEF RequestSafeOutput, ReleaseSafeOutput, Expire, ApiStep, caller, hist
  <2>2. Uncommanded' <=> Uncommanded
    BY <1>1, <1>2, <2>1 DEF Uncommanded
  <2>3. Unswept => Unswept'
    <3>1. CASE Expire
      BY <1>1, <3>1 DEF Expire, flags, caller, Unswept
    <3>2. CASE RequestSafeOutput \/ ReleaseSafeOutput
      BY <3>2 DEF RequestSafeOutput, ReleaseSafeOutput, Unswept
    <3> QED BY <1>7, <3>1, <3>2
  <2> QED BY <1>1, <1>2, <2>1, <2>2, <2>3 DEF OverrideCleared, Giving, Entering
<1> QED BY <1>4, <1>5, <1>6, <1>7 DEF ApiCalls

-----------------------------------------------------------------------------
(* What the setpoint path promises. *)

(* Every invariant holds when Master::start has returned. *)
LEMMA FirstState ==
  ASSUME Init
  PROVE  TypeOK /\ WatchKept /\ ZeroedOut /\ OverrideCleared
<1>1. TypeOK
  <2>1. /\ 1 \in 1..MaxEpoch /\ 0 \in 0..1 /\ DwellCycles \in 0..DwellCycles
        /\ epoch \in 1..MaxEpoch /\ reset_epoch \in 1..epoch /\ mode_epoch \in 1..epoch
        /\ given_epoch \in 0..epoch
        /\ dwell \in 0..DwellCycles /\ counted \in 0..DwellCycles
    BY SetpointAssumption DEF Init
  <2> QED BY <2>1 DEF Init, TypeOK, Setpoints, Held, Deadlines, JobPcs, ApiPcs
<1>2. WatchKept
  BY DEF Init, WatchKept, Entering
<1>3. ZeroedOut
  BY DEF Init, ZeroedOut
<1>4. OverrideCleared
  BY DEF Init, OverrideCleared, Swept, Giving, Entering
<1> QED BY <1>1, <1>2, <1>3, <1>4

(* The types are kept. *)
LEMMA StaysTyped ==
  ASSUME TypeOK, [Next]_vars
  PROVE  TypeOK'
<1>1. CASE UNCHANGED vars
  BY <1>1 DEF vars, flags, command, output, freshness, locals, job, caller, hist, TypeOK
<1>2. CASE Next
  BY <1>2, JobTyped, ApiTyped, CallTyped DEF Next
<1> QED BY <1>1, <1>2

(* WatchKept is kept. *)
LEMMA StaysWatched ==
  ASSUME TypeOK, WatchKept, [Next]_vars
  PROVE  WatchKept'
<1>1. CASE UNCHANGED vars
  BY <1>1 DEF vars, flags, freshness, job, caller, hist, WatchKept, Watched
<1>2. CASE Next
  BY <1>2, JobKeepsWatch, StepsKeepWatch, CallsKeepWatch DEF Next
<1> QED BY <1>1, <1>2

(* ZeroedOut is kept. *)
LEMMA StaysZero ==
  ASSUME TypeOK, ZeroedOut, [Next]_vars
  PROVE  ZeroedOut'
<1>1. CASE UNCHANGED vars
  BY <1>1 DEF vars, command, output, locals, job, caller, hist, ZeroedOut
<1>2. CASE Next
  BY <1>2, JobKeepsZero, CallerKeepsZero DEF Next
<1> QED BY <1>1, <1>2

(* OverrideCleared is kept, for a dwell of two cycles or more. *)
LEMMA StaysCleared ==
  ASSUME DwellCycles >= 2, TypeOK, OverrideCleared, [Next]_vars
  PROVE  OverrideCleared'
<1>1. CASE UNCHANGED vars
  BY <1>1 DEF vars, flags, output, locals, job, caller, hist, OverrideCleared, Uncommanded,
              HasOverride, Swept, Unswept
<1>2. CASE Next
  BY <1>2, JobKeepsCleared, StepsKeepCleared, CallsKeepCleared DEF Next
<1> QED BY <1>1, <1>2

(* Every command of the present epoch is watched once its call is back: the  *)
(* two threads disarm and arm the watchdog without a lock, and no disarming  *)
(* is later than the arming of a newer command unless the fault is raised.   *)
THEOREM CommandIsWatched == Spec => []WatchdogStands
<1>1. TypeOK /\ WatchKept => WatchdogStands
  BY DEF WatchKept, WatchdogStands
<1> QED BY <1>1, FirstState, StaysTyped, StaysWatched, PTL DEF Spec

(* A setpoint that timed out is not written again, in whatever order the Job *)
(* zeroes, merges and holds and whatever is released meanwhile, until the    *)
(* caller gives another.                                                     *)
THEOREM TimedOutIsZero == Spec => []TimedOutStaysOut
<1>1. TypeOK /\ ZeroedOut => TimedOutStaysOut
  BY DEF ZeroedOut, TimedOutStaysOut
<1> QED BY <1>1, FirstState, StaysTyped, StaysZero, PTL DEF Spec

(* No position or velocity given before a safety reset is written after it,  *)
(* for every dwell of two cycles or more, until the caller commands the axis *)
(* again: what is pending survives the fault, and its override does not.     *)
(* The exception is a reset that overtook the Job's stores of a permission   *)
(* of the dwell before it, until the first safe cycle has ended.             *)
THEOREM HeldAfterReset ==
  ASSUME DwellCycles >= 2
  PROVE  Spec => []HeldUntilCommanded
<1>1. TypeOK /\ OverrideCleared => HeldUntilCommanded
  BY DEF OverrideCleared, Uncommanded, Swept, Unswept, HeldUntilCommanded
<1> QED BY <1>1, FirstState, StaysTyped, StaysCleared, PTL DEF Spec
=============================================================================
