------------------------ MODULE EnableMachine_proofs ------------------------
(***************************************************************************)
(* Proofs about the enable machine for every step delay, debounce, counter *)
(* width and permission: its fields keep their types although both threads *)
(* rewrite them, and no enable outlives safe-output.                       *)
(***************************************************************************)
EXTENDS EnableMachine, TLAPS

(* The caller only ever lowers the step, so the Job's test still holds     *)
(* when it increments.                                                     *)
StepInv == TypeOK /\ (job_pc = "advance" => enable_fsm_step < 4)

LEMMA Constants ==
  /\ StepDelay \in 0..WaitWidth - 1 /\ 0 \in 0..WaitWidth - 1
  /\ WaitWidth - 1 \in 0..WaitWidth - 1
  /\ 0 \in 0..FaultDebounce - 1 /\ 0 \in 0..LossDebounce - 1
  BY EnableAssumption

LEMMA SequenceWords ==
  \A n \in 0..3 : kCia402EnableSequence[n + 1] \in Words /\ kCia402DisableSequence[n + 1] \in Words
<1> SUFFICES ASSUME NEW n \in 0..3
             PROVE  /\ kCia402EnableSequence[n + 1] \in Words
                    /\ kCia402DisableSequence[n + 1] \in Words
  OBVIOUS
<1>1. n \in {0, 1, 2, 3}
  OBVIOUS
<1> QED BY <1>1 DEF kCia402EnableSequence, kCia402DisableSequence, Words

LEMMA InitStep == Init => StepInv
<1> SUFFICES ASSUME Init PROVE StepInv
  OBVIOUS
<1>1. /\ comm_fault \in BOOLEAN /\ safe_output_required \in BOOLEAN
      /\ motion_reenable_allowed \in BOOLEAN /\ desired_enable \in BOOLEAN
      /\ enable_requested \in BOOLEAN /\ enable_fsm_active \in BOOLEAN
      /\ safe_output_active \in BOOLEAN /\ wc_ok \in BOOLEAN /\ has_fault \in BOOLEAN
      /\ enabled \in BOOLEAN /\ up \in BOOLEAN /\ reset_seen \in BOOLEAN
      /\ skipped \in BOOLEAN
  BY Zenon DEF Init
<1> QED BY <1>1, Constants DEF Init, StepInv, TypeOK, Words, Steps, DriveStates, JobPcs,
       ApiPcs, Sweeps

-----------------------------------------------------------------------------
LEMMA SafeStep ==
  ASSUME StepInv, JobChoose \/ JobSafeEnter \/ JobSafeDesired \/ JobSafeActive \/ JobSafeFinish
  PROVE  StepInv'
<1> USE DEF StepInv, TypeOK, JobStep, JobPcs, flags, machine, monitors, locals, caller, drive, hist
<1>1. CASE JobChoose
  <2>1. /\ wc_ok' \in BOOLEAN /\ has_fault' \in BOOLEAN /\ enabled' \in BOOLEAN
        /\ safe_output_active' \in BOOLEAN
    BY <1>1, Zenon DEF JobChoose
  <2> QED BY <1>1, <2>1 DEF JobChoose, Sweeps
<1>2. CASE JobSafeEnter
  <2>1. safe_output_active' \in BOOLEAN
    BY <1>2, Zenon DEF JobSafeEnter
  <2> QED BY <1>2, <2>1, Constants DEF JobSafeEnter, Steps
<1>3. CASE JobSafeDesired
  <2>1. desired_enable' \in BOOLEAN
    BY <1>3, Zenon DEF JobSafeDesired
  <2> QED BY <1>3, <2>1 DEF JobSafeDesired
<1>4. CASE JobSafeActive
  <2>1. enable_fsm_active' \in BOOLEAN
    BY <1>4, Zenon DEF JobSafeActive
  <2> QED BY <1>4, <2>1 DEF JobSafeActive
<1>5. CASE JobSafeFinish
  <2>1. enable_requested' \in BOOLEAN
    BY <1>5, Zenon DEF JobSafeFinish
  <2> QED BY <1>5, <2>1 DEF JobSafeFinish, Words, Sweeps
<1> QED BY <1>1, <1>2, <1>3, <1>4, <1>5

LEMMA MonitorStep ==
  ASSUME StepInv, JobFaultCheck \/ JobLossCheck \/ JobPhase \/ JobGate \/ JobWait \/ JobCount
  PROVE  StepInv'
<1> USE DEF StepInv, TypeOK, JobStep, JobPcs, flags, machine, monitors, locals, caller, drive, hist
<1>1. CASE JobFaultCheck
  <2>1. fault_persist' \in 0..FaultDebounce - 1
    BY <1>1, Constants, EnableAssumption DEF JobFaultCheck
  <2>2. enable_fsm_active' \in BOOLEAN /\ enable_requested' \in BOOLEAN
    BY <1>1, Zenon DEF JobFaultCheck
  <2> QED BY <1>1, <2>1, <2>2 DEF JobFaultCheck
<1>2. CASE JobLossCheck
  <2>1. enable_loss' \in 0..LossDebounce - 1
    BY <1>2, Constants, EnableAssumption DEF JobLossCheck
  <2>2. /\ enable_fsm_step' \in Steps /\ enable_fsm_wait' \in 0..WaitWidth - 1
        /\ control_word_state' \in Words
    BY <1>2, Constants DEF JobLossCheck, Steps, Words
  <2>3. /\ enable_fsm_active' \in BOOLEAN /\ enable_requested' \in BOOLEAN
        /\ wc_ok' \in BOOLEAN /\ enabled' \in BOOLEAN
    BY <1>2, Zenon DEF JobLossCheck
  <2> QED BY <1>2, <2>1, <2>2, <2>3 DEF JobLossCheck
<1>3. CASE JobPhase
  BY <1>3 DEF JobPhase
<1>4. CASE JobGate
  BY <1>4 DEF JobGate, Runs
<1>5. CASE JobWait
  BY <1>5 DEF JobWait
<1>6. CASE JobCount
  BY <1>6, Constants, EnableAssumption DEF JobCount
<1> QED BY <1>1, <1>2, <1>3, <1>4, <1>5, <1>6

LEMMA SequenceStep ==
  ASSUME StepInv, \/ JobFaultReset \/ JobDirection \/ JobChooseDirection \/ JobSequence
                  \/ JobAdvance \/ JobFinish \/ JobSend
  PROVE  StepInv'
<1> USE DEF StepInv, TypeOK, JobStep, JobPcs, flags, machine, monitors, locals, caller, drive, hist
<1>1. CASE JobFaultReset
  <2>1. fault_reset_phase' \in 0..2 /\ control_word_state' \in Words
    BY <1>1 DEF JobFaultReset, Words
  <2>2. enable_fsm_wait' \in 0..WaitWidth - 1 /\ enable_fsm_step' \in Steps
    BY <1>1, Constants DEF JobFaultReset, Steps
  <2>3. enable_requested' \in BOOLEAN
    BY <1>1, Zenon DEF JobFaultReset
  <2> QED BY <1>1, <2>1, <2>2, <2>3 DEF JobFaultReset
<1>2. CASE JobDirection
  BY <1>2 DEF JobDirection
<1>3. CASE JobChooseDirection
  BY <1>3 DEF JobChooseDirection
<1>4. CASE JobSequence
  <2>1. control_word_state' \in Words
    <3>1. CASE enable_fsm_step = 4
      BY <1>4, <3>1 DEF JobSequence
    <3>2. CASE enable_fsm_step # 4
      <4>1. enable_fsm_step \in 0..3
        BY <3>2 DEF Steps
      <4> QED BY <1>4, <3>2, <4>1, SequenceWords DEF JobSequence
    <3> QED BY <3>1, <3>2
  <2>2. job_pc' \in {"advance", "finish"} /\ (job_pc' = "advance" => enable_fsm_step < 4)
    BY <1>4 DEF JobSequence
  <2>3. skipped' \in BOOLEAN
    BY <1>4, Zenon DEF JobSequence
  <2> QED BY <1>4, <2>1, <2>2, <2>3 DEF JobSequence
<1>5. CASE JobAdvance
  <2>1. up' \in BOOLEAN
    BY <1>5, Zenon DEF JobAdvance
  <2> QED BY <1>5, <2>1, Constants DEF JobAdvance, Steps
<1>6. CASE JobFinish
  <2>1. enable_requested' \in BOOLEAN /\ enable_fsm_active' \in BOOLEAN /\ up' \in BOOLEAN
    BY <1>6, Zenon DEF JobFinish
  <2> QED BY <1>6, <2>1, Constants DEF JobFinish, Steps
<1>7. CASE JobSend
  <2>1. has_fault' \in BOOLEAN
    BY <1>7, Zenon DEF JobSend
  <2> QED BY <1>7, <2>1 DEF JobSend
<1> QED BY <1>1, <1>2, <1>3, <1>4, <1>5, <1>6, <1>7

LEMMA BusStep ==
  ASSUME StepInv, Exchange \/ JobVerdict
  PROVE  StepInv'
<1> USE DEF StepInv, TypeOK, JobStep, JobPcs, flags, machine, monitors, locals, caller, drive, hist
<1>1. CASE Exchange
  <2>1. status' \in DriveStates
    BY <1>1, Zenon DEF Exchange, Answers, DriveStates, Words
  <2>2. reset_seen' \in BOOLEAN
    BY <1>1, Zenon DEF Exchange
  <2> QED BY <1>1, <2>1, <2>2 DEF Exchange, Words
<1>2. CASE JobVerdict
  <2>1. /\ comm_fault' \in BOOLEAN /\ safe_output_required' \in BOOLEAN
        /\ motion_reenable_allowed' \in BOOLEAN
    BY <1>2, Zenon DEF JobVerdict
  <2> QED BY <1>2, <2>1 DEF JobVerdict
<1> QED BY <1>1, <1>2

LEMMA CallerStep ==
  ASSUME StepInv, ApiSteps \/ ApiCalls
  PROVE  StepInv'
<1> USE DEF StepInv, TypeOK, ApiStep, ApiPcs, Return, Forget, Asked, flags, machine, monitors,
        locals, caller, drive, hist
<1>1. CASE Compare
  BY <1>1 DEF Compare
<1>2. CASE StoreDesired
  <2>1. desired_enable' \in BOOLEAN
    BY <1>2, Zenon DEF StoreDesired
  <2> QED BY <1>2, <2>1 DEF StoreDesired
<1>3. CASE StoreActive
  <2>1. enable_fsm_active' \in BOOLEAN
    BY <1>3, Zenon DEF StoreActive
  <2> QED BY <1>3, <2>1 DEF StoreActive
<1>4. CASE StoreStep
  BY <1>4 DEF StoreStep, Steps
<1>5. CASE StoreWait
  BY <1>5, Constants DEF StoreWait
<1>6. CASE Clear
  <2>1. /\ comm_fault' \in BOOLEAN /\ safe_output_required' \in BOOLEAN
        /\ motion_reenable_allowed' \in BOOLEAN /\ safe_output_active' \in BOOLEAN
    BY <1>6, Zenon DEF Clear
  <2> QED BY <1>6, <2>1 DEF Clear, Sweeps
<1>7. CASE StoreWord
  BY <1>7 DEF StoreWord, Words
<1>8. ASSUME NEW enable \in BOOLEAN, SetEnable(enable) PROVE StepInv'
  BY <1>8 DEF SetEnable, Sweeps
<1>9. CASE SafetyReset
  BY <1>9 DEF SafetyReset
<1>10. CASE SetOperationMode
  BY <1>10 DEF SetOperationMode
<1>11. CASE RequestSafeOutput
  <2>1. safe_output_required' \in BOOLEAN /\ motion_reenable_allowed' \in BOOLEAN
    BY <1>11, Zenon DEF RequestSafeOutput
  <2> QED BY <1>11, <2>1 DEF RequestSafeOutput, Sweeps
<1>12. CASE ReleaseSafeOutput
  BY <1>12 DEF ReleaseSafeOutput
<1>13. CASE ReleaseStore
  <2>1. safe_output_required' \in BOOLEAN
    BY <1>13, Zenon DEF ReleaseStore
  <2> QED BY <1>13, <2>1 DEF ReleaseStore, Sweeps
<1> QED BY <1>1, <1>2, <1>3, <1>4, <1>5, <1>6, <1>7, <1>8, <1>9, <1>10, <1>11, <1>12,
        <1>13 DEF ApiSteps, ApiCalls

(* Every field of the machine keeps its type under both threads: the step  *)
(* index stays within kCia402EnableSequence, the wait within its sixteen   *)
(* bits (ethercat_servo.cpp 2544-2697, 2807-2861 and 4149-4197).           *)
THEOREM EnableType == Spec => []TypeOK
<1>1. StepInv /\ [Next]_vars => StepInv'
  <2> SUFFICES ASSUME StepInv, [Next]_vars PROVE StepInv'
    OBVIOUS
  <2>1. CASE JobNext
    BY <2>1, SafeStep, MonitorStep, SequenceStep, BusStep DEF JobNext
  <2>2. CASE ApiSteps \/ ApiCalls
    BY <2>2, CallerStep
  <2>3. CASE UNCHANGED vars
    BY <2>3 DEF vars, StepInv, TypeOK, flags, machine, monitors, locals, caller, drive, hist
  <2> QED BY <2>1, <2>2, <2>3 DEF Next
<1>2. StepInv => TypeOK
  BY DEF StepInv
<1> QED BY <1>1, <1>2, InitStep, PTL DEF Spec

-----------------------------------------------------------------------------
(* Why no enable outlives safe-output.  A fault may overtake a             *)
(* setEnable(true), whose stores then land in safe-output and even after a *)
(* safe cycle.  But the way back needs a safety reset, which the same      *)
(* caller makes after that call, and a release; a whole safe cycle between *)
(* the two finds no store to come and leaves the machine cleared.          *)
Working == {"wait", "count", "branch", "direction", "sequence", "advance", "finish"}
Normal == {"faultCheck", "lossCheck", "phase", "gate", "send"} \union Working
SafePcs == {"safeEnter", "safeDesired", "safeActive", "safeFinish"}

(* What a call carries, and that a disable that has stored its wish keeps  *)
(* it: only the caller raises desired_enable_.  Under safe-output it is    *)
(* busy only with a reset or with a call that a fault has overtaken.       *)
CallInv ==
  /\ api \in {"idle", "storeWord", "release"} => enabling = "false"
  /\ api = "clear" => enabling = "reset"
  /\ api \in {"storeActive", "storeStep", "storeWait", "clear"} /\ enabling # "true"
       => ~desired_enable
  /\ safe_output_required /\ ~comm_fault /\ enabling # "reset" => api \in {"idle", "release"}

(* Stores may still come, but none before the next safety reset.           *)
Late == (comm_fault \/ enabling = "reset") /\ api # "release"

(* None will come.                                                         *)
NotEnabling == enabling # "true" /\ api \in {"idle", "compare", "clear", "storeWord", "release"}
QuietMachine ==
  ~desired_enable /\ ~enable_requested /\ ~enable_fsm_active /\ control_word_state = "shutdown"

(* A safe cycle clears the machine field by field, and where no store is   *)
(* to come the fields stay cleared.                                        *)
BegunInv ==
  swept = "begun" =>
    /\ safe_output_required /\ job_pc \in SafePcs
    /\ ~Late /\ job_pc \in {"safeActive", "safeFinish"} => ~desired_enable
    /\ ~Late /\ job_pc = "safeFinish" => ~enable_fsm_active

(* So after a whole safe cycle the machine is quiet, or the axis is held   *)
(* in safe-output until the next reset.                                    *)
WholeInv ==
  swept = "whole" =>
    /\ sent = "shutdown"
    /\ \/ safe_output_required /\ Late /\ job_pc \notin Normal
       \/ QuietMachine /\ NotEnabling /\ job_pc \notin Working

ResumeInv == TypeOK /\ CallInv /\ BegunInv /\ WholeInv

LEMMA ResumeInit == Init => ResumeInv
<1> SUFFICES ASSUME Init PROVE ResumeInv
  OBVIOUS
<1>1. TypeOK
  BY InitStep DEF StepInv
<1>2. CallInv /\ BegunInv /\ WholeInv
  BY DEF Init, CallInv, BegunInv, WholeInv
<1> QED BY <1>1, <1>2 DEF ResumeInv

LEMMA ResumeJob ==
  ASSUME ResumeInv, TypeOK', JobNext
  PROVE  CallInv' /\ BegunInv' /\ WholeInv'
<1> USE DEF ResumeInv, TypeOK, CallInv, BegunInv, WholeInv, Late, NotEnabling, QuietMachine,
        Normal, Working, SafePcs, JobStep, flags, machine, monitors, locals, caller, drive, hist
<1>1. CASE JobChoose
  BY <1>1 DEF JobChoose
<1>2. CASE JobSafeEnter
  BY <1>2 DEF JobSafeEnter
<1>3. CASE JobSafeDesired
  BY <1>3 DEF JobSafeDesired
<1>4. CASE JobSafeActive
  BY <1>4 DEF JobSafeActive
<1>5. CASE JobSafeFinish
  BY <1>5 DEF JobSafeFinish
<1>6. CASE JobFaultCheck
  BY <1>6 DEF JobFaultCheck
<1>7. CASE JobLossCheck
  BY <1>7 DEF JobLossCheck
<1>8. CASE JobPhase
  BY <1>8 DEF JobPhase
<1>9. CASE JobGate
  BY <1>9 DEF JobGate, Runs
<1>10. CASE JobWait
  BY <1>10 DEF JobWait
<1>11. CASE JobCount
  BY <1>11 DEF JobCount
<1>12. CASE JobFaultReset
  BY <1>12 DEF JobFaultReset
<1>13. CASE JobDirection
  BY <1>13 DEF JobDirection
<1>14. CASE JobChooseDirection
  BY <1>14 DEF JobChooseDirection
<1>15. CASE JobSequence
  BY <1>15 DEF JobSequence
<1>16. CASE JobAdvance
  BY <1>16 DEF JobAdvance
<1>17. CASE JobFinish
  BY <1>17 DEF JobFinish
<1>18. CASE JobSend
  BY <1>18 DEF JobSend
<1>19. CASE Exchange
  BY <1>19 DEF Exchange
<1>20. CASE JobVerdict
  BY <1>20 DEF JobVerdict
<1> QED BY <1>1, <1>2, <1>3, <1>4, <1>5, <1>6, <1>7, <1>8, <1>9, <1>10, <1>11, <1>12,
        <1>13, <1>14, <1>15, <1>16, <1>17, <1>18, <1>19, <1>20 DEF JobNext

LEMMA ResumeCaller ==
  ASSUME ResumeInv, TypeOK', ApiSteps \/ ApiCalls
  PROVE  CallInv' /\ BegunInv' /\ WholeInv'
<1> USE DEF ResumeInv, TypeOK, CallInv, BegunInv, WholeInv, Late, NotEnabling, QuietMachine,
        Normal, Working, SafePcs, ApiStep, Return, Asked, Forget, flags, machine, monitors, locals, caller, drive, hist
<1>1. CASE Compare
  BY <1>1 DEF Compare
<1>2. CASE StoreDesired
  BY <1>2 DEF StoreDesired
<1>3. CASE StoreActive
  BY <1>3 DEF StoreActive
<1>4. CASE StoreStep
  BY <1>4 DEF StoreStep
<1>5. CASE StoreWait
  BY <1>5 DEF StoreWait
<1>6. CASE Clear
  BY <1>6 DEF Clear
<1>7. CASE StoreWord
  BY <1>7 DEF StoreWord
<1>8. ASSUME NEW enable \in BOOLEAN, SetEnable(enable)
      PROVE  CallInv' /\ BegunInv' /\ WholeInv'
  BY <1>8 DEF SetEnable
<1>9. CASE SafetyReset
  BY <1>9 DEF SafetyReset
<1>10. CASE SetOperationMode
  BY <1>10 DEF SetOperationMode
<1>11. CASE RequestSafeOutput
  BY <1>11 DEF RequestSafeOutput
<1>12. CASE ReleaseSafeOutput
  BY <1>12 DEF ReleaseSafeOutput
<1>13. CASE ReleaseStore
  BY <1>13 DEF ReleaseStore
<1> QED BY <1>1, <1>2, <1>3, <1>4, <1>5, <1>6, <1>7, <1>8, <1>9, <1>10, <1>11, <1>12, <1>13
        DEF ApiSteps, ApiCalls

(* No enable outlives safe-output: once a whole safe cycle has come        *)
(* between the last safety reset and the release, the axis is sent         *)
(* Shutdown until setEnable(true) is accepted again, whatever call a fault *)
(* overtook and whenever the dwell gives its permission                    *)
(* (ethercat_servo.cpp 2807-2861, 4149-4197 and 3975-3982).                *)
THEOREM ResumeNever == Spec => []NoResume
<1>1. ResumeInv /\ TypeOK' /\ [Next]_vars => ResumeInv'
  <2> SUFFICES ASSUME ResumeInv, TypeOK', [Next]_vars PROVE ResumeInv'
    OBVIOUS
  <2>1. CASE JobNext
    BY <2>1, ResumeJob DEF ResumeInv
  <2>2. CASE ApiSteps \/ ApiCalls
    BY <2>2, ResumeCaller DEF ResumeInv
  <2>3. CASE UNCHANGED vars
    BY <2>3 DEF vars, ResumeInv, TypeOK, CallInv, BegunInv, WholeInv, Late, NotEnabling,
       QuietMachine, flags, machine, monitors, locals, caller, drive, hist
  <2> QED BY <2>1, <2>2, <2>3 DEF Next
<1>2. ResumeInv => NoResume
  BY DEF ResumeInv, WholeInv, NoResume
<1> QED BY <1>1, <1>2, ResumeInit, EnableType, PTL DEF Spec
=============================================================================
