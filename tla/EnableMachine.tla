--------------------------- MODULE EnableMachine ---------------------------
(***************************************************************************)
(* The CiA402 enable machine of one axis: sendDataCommon steps it on the   *)
(* Job thread, setEnable and setOperationMode rewrite its fields from the  *)
(* API caller, and a safe cycle clears it.  Every load and store of a      *)
(* field that both threads use is a step; a condition over several flags   *)
(* loads them together.                                                    *)
(*                                                                         *)
(* When the dwell gives its permission is the subject of IghRuntime; here  *)
(* a cycle may publish any, so that one stored too late is among them.  A  *)
(* latch, a safety reset and a request write their flags in one step, and  *)
(* a safe cycle always sends Shutdown (the Fault Reset window is the       *)
(* subject of SafeOutput).                                                 *)
(***************************************************************************)
EXTENDS Integers, Sequences

CONSTANTS
  StepDelay,      (* STEP_DELAY_CYCLES, 10 in the code                     *)
  FaultDebounce,  (* FAULT_DEBOUNCE_CYCLES, 5                              *)
  LossDebounce,   (* ENABLE_LOSS_DEBOUNCE_CYCLES, 50                       *)
  WaitWidth       (* values of enable_fsm_wait_, 2^16                      *)

ASSUME EnableAssumption ==
  /\ StepDelay \in Nat \ {0} /\ FaultDebounce \in Nat \ {0} /\ LossDebounce \in Nat \ {0}
  /\ WaitWidth \in Nat /\ StepDelay < WaitWidth

Words == {"shutdown", "switchOn", "enable", "keep", "faultReset"}
kCia402EnableSequence == <<"shutdown", "switchOn", "enable", "keep">>
kCia402DisableSequence == <<"keep", "enable", "switchOn", "shutdown">>
Steps == 0..4
DriveStates == {"disabled", "ready", "on", "enabled", "fault"}

VARIABLES
  comm_fault, safe_output_required, motion_reenable_allowed,
  desired_enable, enable_requested, enable_fsm_active, enable_fsm_step, enable_fsm_wait,
  control_word_state,
  fault_persist, enable_loss, fault_reset_phase, safe_output_active,  (* the Job's *)
  job_pc, wc_ok, has_fault, enabled, up,   (* the Job and its locals       *)
  api, enabling,        (* the caller, and the argument of its setEnable   *)
  sent, reset_seen, status,            (* the process image and the drive        *)
  swept, skipped        (* history, read by properties only                *)

flags == <<comm_fault, safe_output_required, motion_reenable_allowed>>
machine == <<desired_enable, enable_requested, enable_fsm_active, enable_fsm_step,
             enable_fsm_wait, control_word_state>>
monitors == <<fault_persist, enable_loss, fault_reset_phase, safe_output_active>>
locals == <<wc_ok, has_fault, enabled, up>>
caller == <<api, enabling>>
drive == <<sent, reset_seen, status>>
hist == <<swept, skipped>>
vars == <<flags, machine, monitors, job_pc, locals, caller, drive, hist>>

JobPcs == {"choose", "safeEnter", "safeDesired", "safeActive", "safeFinish",
           "faultCheck", "lossCheck", "phase", "gate", "wait", "count", "branch", "direction",
           "sequence", "advance", "finish", "send", "exchange", "verdict"}
ApiPcs == {"idle", "compare", "storeDesired", "storeActive", "storeStep", "storeWait",
           "clear", "storeWord", "release"}
Sweeps == {"none", "begun", "whole"}

(* skipped: the machine took the end of the sequence before for the end of *)
(* the disable sequence, whose caller had not yet reset the step.          *)
(* swept: whether a safe cycle has begun, and ended before any release,    *)
(* since the last safety reset, request and setEnable(true).               *)

TypeOK ==
  /\ comm_fault \in BOOLEAN /\ safe_output_required \in BOOLEAN
  /\ motion_reenable_allowed \in BOOLEAN
  /\ desired_enable \in BOOLEAN /\ enable_requested \in BOOLEAN
  /\ enable_fsm_active \in BOOLEAN /\ enable_fsm_step \in Steps
  /\ enable_fsm_wait \in 0..WaitWidth - 1 /\ control_word_state \in Words
  /\ fault_persist \in 0..FaultDebounce - 1 /\ enable_loss \in 0..LossDebounce - 1
  /\ fault_reset_phase \in 0..2 /\ safe_output_active \in BOOLEAN
  /\ job_pc \in JobPcs
  /\ wc_ok \in BOOLEAN /\ has_fault \in BOOLEAN /\ enabled \in BOOLEAN /\ up \in BOOLEAN
  /\ api \in ApiPcs /\ enabling \in {"true", "false", "reset"}
  /\ sent \in Words /\ reset_seen \in BOOLEAN /\ status \in DriveStates
  /\ swept \in Sweeps /\ skipped \in BOOLEAN

(* Master::start has returned, after its last safety reset.                *)
Init ==
  /\ comm_fault = FALSE /\ safe_output_required = TRUE /\ motion_reenable_allowed = FALSE
  /\ desired_enable = FALSE /\ enable_requested = FALSE /\ enable_fsm_active = FALSE
  /\ enable_fsm_step = 0 /\ enable_fsm_wait = 0 /\ control_word_state = "shutdown"
  /\ fault_persist = 0 /\ enable_loss = 0 /\ fault_reset_phase = 0
  /\ safe_output_active = FALSE
  /\ job_pc = "choose" /\ wc_ok = FALSE /\ has_fault = FALSE /\ enabled = FALSE /\ up = FALSE
  /\ api = "idle" /\ enabling = "false"
  /\ sent = "shutdown" /\ reset_seen = FALSE /\ status \in {"disabled", "ready", "fault"}
  /\ swept = "none" /\ skipped = FALSE

-----------------------------------------------------------------------------
(* The Job: one cycle. Its locals are cleared where the code is done with  *)
(* them.                                                                   *)
JobStep(from, to) == job_pc = from /\ job_pc' = to

(* receiveData and the choice of outputs; the status word and the working  *)
(* counter are those of this cycle.                                        *)
JobChoose ==
  /\ JobStep("choose", IF safe_output_required THEN "safeEnter" ELSE "faultCheck")
  /\ IF safe_output_required THEN UNCHANGED <<wc_ok, has_fault, enabled>>
     ELSE /\ wc_ok' \in BOOLEAN
          /\ has_fault' = (status = "fault") /\ enabled' = (status = "enabled")
  /\ safe_output_active' = (safe_output_active /\ safe_output_required)
  /\ swept' = IF safe_output_required /\ swept = "none" THEN "begun" ELSE swept
  /\ UNCHANGED <<flags, machine, fault_persist, enable_loss, fault_reset_phase, up, caller,
                 drive, skipped>>

(* applySafeProcessImageOutputs: fields one by one.                        *)
JobSafeEnter ==
  /\ JobStep("safeEnter", "safeDesired")
  /\ safe_output_active' = TRUE
  /\ IF safe_output_active
     THEN UNCHANGED <<fault_reset_phase, enable_fsm_step, enable_fsm_wait>>
     ELSE fault_reset_phase' = 0 /\ enable_fsm_step' = 0 /\ enable_fsm_wait' = 0
  /\ UNCHANGED <<flags, desired_enable, enable_requested, enable_fsm_active,
                 control_word_state, fault_persist, enable_loss, locals, caller, drive,
                 hist>>

JobSafeDesired ==
  /\ JobStep("safeDesired", "safeActive")
  /\ desired_enable' = FALSE
  /\ UNCHANGED <<flags, enable_requested, enable_fsm_active, enable_fsm_step,
                 enable_fsm_wait, control_word_state, monitors, locals, caller, drive,
                 hist>>

JobSafeKeepsActive ==
  /\ JobStep("safeActive", "safeFinish")
  /\ UNCHANGED <<flags, desired_enable, enable_requested, enable_fsm_active,
                 enable_fsm_step, enable_fsm_wait, control_word_state, monitors, locals,
                 caller, drive, hist>>

JobSafeActive ==
  /\ JobStep("safeActive", "safeFinish")
  /\ enable_fsm_active' = FALSE
  /\ UNCHANGED <<flags, desired_enable, enable_requested, enable_fsm_step, enable_fsm_wait,
                 control_word_state, monitors, locals, caller, drive, hist>>

JobSafeFinish ==
  /\ JobStep("safeFinish", "exchange")
  /\ enable_requested' = FALSE /\ control_word_state' = "shutdown" /\ sent' = "shutdown"
  /\ swept' = IF swept = "begun" THEN "whole" ELSE swept
  /\ UNCHANGED <<flags, desired_enable, enable_fsm_active, enable_fsm_step, enable_fsm_wait,
                 monitors, locals, caller, reset_seen, status, skipped>>

(* sendDataCommon, lines 2544-2556: a fault in operation is debounced.     *)
JobFaultCheck ==
  /\ JobStep("faultCheck", "lossCheck")
  /\ LET counts == /\ wc_ok /\ has_fault /\ desired_enable /\ enable_requested
                   /\ ~enable_fsm_active /\ fault_reset_phase = 0
         confirmed == counts /\ fault_persist + 1 >= FaultDebounce
     IN  /\ fault_persist' = IF confirmed \/ ~has_fault THEN 0
                             ELSE IF counts THEN fault_persist + 1 ELSE fault_persist
         /\ enable_fsm_active' = (enable_fsm_active \/ confirmed)
         /\ enable_requested' = (enable_requested /\ ~confirmed)
  /\ UNCHANGED <<flags, desired_enable, enable_fsm_step, enable_fsm_wait,
                 control_word_state, enable_loss, fault_reset_phase, safe_output_active,
                 locals, caller, drive, hist>>

JobLossNeverConfirmed ==
  /\ JobStep("lossCheck", "phase")
  /\ LET counts == /\ wc_ok /\ ~has_fault /\ desired_enable /\ enable_requested
                   /\ ~enable_fsm_active
         confirmed == counts /\ ~enabled /\ enable_loss + 1 > LossDebounce
     IN  /\ enable_loss' = IF confirmed \/ enabled \/ has_fault THEN 0
                           ELSE IF counts THEN 0 ELSE enable_loss
         /\ IF confirmed
            THEN /\ enable_fsm_active' = TRUE /\ enable_requested' = FALSE
                 /\ enable_fsm_step' = 0 /\ enable_fsm_wait' = 0
                 /\ control_word_state' = "shutdown"
            ELSE UNCHANGED <<enable_fsm_active, enable_requested, enable_fsm_step,
                             enable_fsm_wait, control_word_state>>
  /\ wc_ok' = FALSE /\ enabled' = FALSE
  /\ UNCHANGED <<flags, desired_enable, fault_persist, fault_reset_phase,
                 safe_output_active, has_fault, up, caller, drive, hist>>

(* Lines 2558-2576: so is a drive that leaves operation without a fault.   *)
JobLossCheck ==
  /\ JobStep("lossCheck", "phase")
  /\ LET counts == /\ wc_ok /\ ~has_fault /\ desired_enable /\ enable_requested
                   /\ ~enable_fsm_active
         confirmed == counts /\ ~enabled /\ enable_loss + 1 >= LossDebounce
     IN  /\ enable_loss' = IF confirmed \/ enabled \/ has_fault THEN 0
                           ELSE IF counts THEN enable_loss + 1 ELSE enable_loss
         /\ IF confirmed
            THEN /\ enable_fsm_active' = TRUE /\ enable_requested' = FALSE
                 /\ enable_fsm_step' = 0 /\ enable_fsm_wait' = 0
                 /\ control_word_state' = "shutdown"
            ELSE UNCHANGED <<enable_fsm_active, enable_requested, enable_fsm_step,
                             enable_fsm_wait, control_word_state>>
  /\ wc_ok' = FALSE /\ enabled' = FALSE
  /\ UNCHANGED <<flags, desired_enable, fault_persist, fault_reset_phase,
                 safe_output_active, has_fault, up, caller, drive, hist>>

(* Lines 2593-2596.                                                        *)
JobPhase ==
  /\ JobStep("phase", "gate")
  /\ fault_reset_phase' = IF ~has_fault \/ ~desired_enable THEN 0 ELSE fault_reset_phase
  /\ UNCHANGED <<flags, machine, fault_persist, enable_loss, safe_output_active, locals,
                 caller, drive, hist>>

RunsOnChange == desired_enable # enable_requested

(* Lines 2599-2600: whether the machine runs in this cycle.                *)
Runs == desired_enable # enable_requested \/ enable_fsm_active

JobGate ==
  /\ JobStep("gate", IF Runs THEN "wait" ELSE "send")
  /\ enable_fsm_active' = Runs
  /\ UNCHANGED <<flags, desired_enable, enable_requested, enable_fsm_step, enable_fsm_wait,
                 control_word_state, monitors, locals, caller, drive, hist>>

(* Lines 2602-2603: a test and then a fetch_sub.                           *)
JobWait ==
  /\ JobStep("wait", IF enable_fsm_wait > 0 THEN "count" ELSE "branch")
  /\ UNCHANGED <<flags, machine, monitors, locals, caller, drive, hist>>

JobCountUnderflows ==
  /\ JobStep("count", "send")
  /\ enable_fsm_wait' = enable_fsm_wait - 1
  /\ UNCHANGED <<flags, desired_enable, enable_requested, enable_fsm_active,
                 enable_fsm_step, control_word_state, monitors, locals, caller, drive,
                 hist>>

JobCount ==
  /\ JobStep("count", "send")
  /\ enable_fsm_wait' = IF enable_fsm_wait = 0 THEN WaitWidth - 1 ELSE enable_fsm_wait - 1
  /\ UNCHANGED <<flags, desired_enable, enable_requested, enable_fsm_active,
                 enable_fsm_step, control_word_state, monitors, locals, caller, drive,
                 hist>>

JobResetNeverLowered ==
  /\ JobStep("branch", "send")
  /\ has_fault /\ desired_enable
  /\ control_word_state' = "faultReset"
  /\ fault_reset_phase' = (fault_reset_phase + 1) % 3
  /\ enable_fsm_wait' = IF fault_reset_phase = 2 THEN 0 ELSE StepDelay
  /\ IF fault_reset_phase = 0
     THEN enable_fsm_step' = 0 /\ enable_requested' = FALSE
     ELSE UNCHANGED <<enable_fsm_step, enable_requested>>
  /\ UNCHANGED <<flags, desired_enable, enable_fsm_active, fault_persist, enable_loss,
                 safe_output_active, locals, caller, drive, hist>>

(* Lines 2605-2644: the reset word is raised, held, lowered and tried      *)
(* again.  The status word does not change within a cycle, so the phase    *)
(* ends here with the fault still shown; fault_reset_counter_ stays zero.  *)
JobFaultReset ==
  /\ JobStep("branch", "send")
  /\ has_fault /\ desired_enable
  /\ control_word_state' = IF fault_reset_phase = 2 THEN "shutdown" ELSE "faultReset"
  /\ fault_reset_phase' = (fault_reset_phase + 1) % 3
  /\ enable_fsm_wait' = IF fault_reset_phase = 2 THEN 0 ELSE StepDelay
  /\ IF fault_reset_phase = 0
     THEN enable_fsm_step' = 0 /\ enable_requested' = FALSE
     ELSE UNCHANGED <<enable_fsm_step, enable_requested>>
  /\ UNCHANGED <<flags, desired_enable, enable_fsm_active, fault_persist, enable_loss,
                 safe_output_active, locals, caller, drive, hist>>

(* Line 2646: desired_enable_ is loaded again.                             *)
JobDirection ==
  /\ job_pc = "branch" /\ ~(has_fault /\ desired_enable)
  /\ job_pc' = "direction"
  /\ UNCHANGED <<flags, machine, monitors, locals, caller, drive, hist>>

JobChooseDirection ==
  /\ JobStep("direction", "sequence")
  /\ up' = desired_enable
  /\ UNCHANGED <<flags, machine, monitors, wc_ok, has_fault, enabled, caller, drive, hist>>

(* Lines 2648-2649 and 2661-2662.                                          *)
JobSequence ==
  /\ JobStep("sequence", IF enable_fsm_step < 4 THEN "advance" ELSE "finish")
  /\ control_word_state' =
       IF enable_fsm_step = 4 THEN control_word_state
       ELSE (IF up THEN kCia402EnableSequence ELSE kCia402DisableSequence)[enable_fsm_step + 1]
  /\ skipped' = (enable_fsm_step = 4 /\
                   (skipped \/ (~up /\ api \in {"storeActive", "storeStep"})))
  /\ UNCHANGED <<flags, desired_enable, enable_requested, enable_fsm_active,
                 enable_fsm_step, enable_fsm_wait, monitors, locals, caller, drive,
                 swept>>

(* Lines 2650-2651: the increment reads the step again.                    *)
JobAdvance ==
  /\ JobStep("advance", "send")
  /\ enable_fsm_step' = enable_fsm_step + 1 /\ enable_fsm_wait' = StepDelay
  /\ up' = FALSE
  /\ UNCHANGED <<flags, desired_enable, enable_requested, enable_fsm_active,
                 control_word_state, monitors, wc_ok, has_fault, enabled, caller, drive,
                 hist>>

(* Lines 2653-2657 and 2666-2670.                                          *)
JobFinish ==
  /\ JobStep("finish", "send")
  /\ enable_requested' = up /\ enable_fsm_active' = FALSE
  /\ enable_fsm_step' = 0 /\ enable_fsm_wait' = 0
  /\ up' = FALSE
  /\ UNCHANGED <<flags, desired_enable, control_word_state, monitors, wc_ok, has_fault,
                 enabled, caller, drive, hist>>

(* Lines 2677-2697; no code sets control_word_write_pending_.              *)
JobSend ==
  /\ JobStep("send", "exchange")
  /\ sent' = control_word_state
  /\ has_fault' = FALSE
  /\ UNCHANGED <<flags, machine, monitors, wc_ok, enabled, up, caller, reset_seen, status,
                 hist>>

(* The drive answers a word: CiA402, a drive may take two transitions at   *)
(* once, and leaves a fault on a rising reset bit only.                    *)
Answers(w) ==
  CASE status = "fault" -> {IF w = "faultReset" /\ ~reset_seen THEN "disabled" ELSE "fault"}
    [] status # "fault" /\ w = "faultReset" -> {"disabled", "ready"}
    [] status # "fault" /\ w = "shutdown" -> {"ready"}
    [] status = "disabled" /\ w \in {"switchOn", "enable", "keep"} -> {"disabled"}
    [] status \in {"ready", "on", "enabled"} /\ w = "switchOn" -> {"on"}
    [] status = "ready" /\ w \in {"enable", "keep"} -> {"on", "enabled"}
    [] status \in {"on", "enabled"} /\ w \in {"enable", "keep"} -> {"enabled"}

(* A frame may be lost, and a drive may fail at any moment.  The next      *)
(* cycle writes the word again, and a drive out of fault forgets the bit.  *)
Exchange ==
  /\ JobStep("exchange", "verdict")
  /\ \/ /\ status' \in Answers(sent) \union {"fault", "disabled"}
        /\ reset_seen' = (sent = "faultReset" /\ status' = "fault")
     \/ UNCHANGED <<reset_seen, status>>
  /\ sent' = "shutdown"
  /\ UNCHANGED <<flags, machine, monitors, locals, caller, hist>>

(* The rest of jobThreadMain: a monitor finds a fault and latches it, or   *)
(* syncMotionReenableFlag publishes what the dwell says, lines 337-368.    *)
JobVerdict ==
  /\ JobStep("verdict", "choose")
  /\ \/ /\ comm_fault' = TRUE /\ safe_output_required' = TRUE
        /\ motion_reenable_allowed' = FALSE
     \/ motion_reenable_allowed' \in BOOLEAN /\ UNCHANGED <<comm_fault,
                                                            safe_output_required>>
  /\ UNCHANGED <<machine, monitors, locals, caller, drive, hist>>

JobNext ==
  \/ JobChoose \/ JobSafeEnter \/ JobSafeDesired \/ JobSafeActive \/ JobSafeFinish
  \/ JobFaultCheck \/ JobLossCheck \/ JobPhase \/ JobGate \/ JobWait \/ JobCount
  \/ JobFaultReset \/ JobDirection \/ JobChooseDirection \/ JobSequence \/ JobAdvance
  \/ JobFinish \/ JobSend \/ Exchange \/ JobVerdict

-----------------------------------------------------------------------------
(* The API caller.                                                         *)
ApiStep(from, to) == api = from /\ api' = to
Return == IF enabling = "reset" THEN "clear" ELSE "idle"
Asked == enabling = "true"
Forget == enabling' = IF api' = "idle" THEN "false" ELSE enabling

(* Master::cycle asks only outside safe-output; setEnable checks again.    *)
SetEnable(enable) ==
  /\ ~comm_fault /\ ~safe_output_required /\ (enable => motion_reenable_allowed)
  /\ ApiStep("idle", "compare") /\ enabling' = IF enable THEN "true" ELSE "false"
  /\ swept' = IF enable THEN "none" ELSE swept
  /\ UNCHANGED <<flags, machine, monitors, job_pc, locals, drive, skipped>>

(* Master::request_safety_reset disables first.                            *)
SafetyReset ==
  /\ ApiStep("idle", "compare") /\ enabling' = "reset"
  /\ UNCHANGED <<flags, machine, monitors, job_pc, locals, drive, hist>>

(* Line 2852: the call changes nothing when nothing changes.               *)
Compare ==
  /\ ApiStep("compare", IF desired_enable = Asked THEN Return ELSE "storeDesired") /\ Forget
  /\ UNCHANGED <<flags, machine, monitors, job_pc, locals, drive, hist>>

StoreDesired ==
  /\ ApiStep("storeDesired", "storeActive") /\ Forget
  /\ desired_enable' = Asked
  /\ UNCHANGED <<flags, enable_requested, enable_fsm_active, enable_fsm_step,
                 enable_fsm_wait, control_word_state, monitors, job_pc, locals, drive,
                 hist>>

StoreActive ==
  /\ ApiStep("storeActive", "storeStep") /\ Forget
  /\ enable_fsm_active' = TRUE
  /\ UNCHANGED <<flags, desired_enable, enable_requested, enable_fsm_step, enable_fsm_wait,
                 control_word_state, monitors, job_pc, locals, drive, hist>>

StoreStep ==
  /\ ApiStep("storeStep", "storeWait") /\ Forget
  /\ enable_fsm_step' = 0
  /\ UNCHANGED <<flags, desired_enable, enable_requested, enable_fsm_active,
                 enable_fsm_wait, control_word_state, monitors, job_pc, locals, drive,
                 hist>>

StoreWait ==
  /\ ApiStep("storeWait", Return) /\ Forget
  /\ enable_fsm_wait' = 0
  /\ UNCHANGED <<flags, desired_enable, enable_requested, enable_fsm_active,
                 enable_fsm_step, control_word_state, monitors, job_pc, locals, drive,
                 hist>>

(* clearCommFault.                                                         *)
Clear ==
  /\ ApiStep("clear", "idle") /\ Forget
  /\ comm_fault' = FALSE /\ safe_output_required' = TRUE /\ motion_reenable_allowed' = FALSE
  /\ safe_output_active' = FALSE
  /\ swept' = "none"
  /\ UNCHANGED <<machine, fault_persist, enable_loss, fault_reset_phase, job_pc, locals,
                 drive, skipped>>

(* setOperationMode, lines 2979-2982: a change of mode outside operation.  *)
SetOperationMode ==
  /\ ~comm_fault /\ ~safe_output_required /\ ~enable_requested
  /\ ApiStep("idle", "storeWord") /\ Forget
  /\ UNCHANGED <<flags, machine, monitors, job_pc, locals, drive, hist>>

StoreWord ==
  /\ ApiStep("storeWord", "idle") /\ Forget
  /\ control_word_state' = "shutdown"
  /\ UNCHANGED <<flags, desired_enable, enable_requested, enable_fsm_active,
                 enable_fsm_step, enable_fsm_wait, monitors, job_pc, locals, drive, hist>>

RequestSafeOutput ==
  /\ api = "idle" /\ ~safe_output_required
  /\ safe_output_required' = TRUE /\ motion_reenable_allowed' = FALSE /\ swept' = "none"
  /\ UNCHANGED <<comm_fault, machine, monitors, job_pc, locals, caller, drive, skipped>>

(* releaseSafeOutput, lines 183-192: a check and then a store.             *)
ReleaseSafeOutput ==
  /\ ~comm_fault /\ motion_reenable_allowed
  /\ ApiStep("idle", "release") /\ Forget
  /\ UNCHANGED <<flags, machine, monitors, job_pc, locals, drive, hist>>

ReleaseStore ==
  /\ ApiStep("release", "idle") /\ Forget
  /\ safe_output_required' = FALSE
  /\ swept' = IF swept = "whole" THEN "whole" ELSE "none"
  /\ UNCHANGED <<comm_fault, motion_reenable_allowed, machine, monitors, job_pc, locals,
                 drive, skipped>>

ApiSteps == \/ Compare \/ StoreDesired \/ StoreActive \/ StoreStep \/ StoreWait
            \/ Clear \/ StoreWord \/ ReleaseStore
ApiCalls == \/ \E enable \in BOOLEAN : SetEnable(enable)
            \/ SafetyReset \/ SetOperationMode \/ RequestSafeOutput \/ ReleaseSafeOutput

Next == JobNext \/ ApiSteps \/ ApiCalls

Spec == Init /\ [][Next]_vars

(* The Job never stops, and a call that has begun returns.                 *)
FairSpec == Spec /\ WF_vars(JobNext) /\ WF_vars(ApiSteps)

-----------------------------------------------------------------------------
(* No enable outlives safe-output: after a safe cycle the axis is sent     *)
(* Shutdown and nothing else until the caller enables again, whatever      *)
(* setEnable had been overtaken by the fault.  It takes one whole safe     *)
(* cycle between a safety reset and the release, for that cycle is the     *)
(* first to find no store to come.  The dwell sees to it, unless it is one *)
(* cycle long or the reset overtakes observe() or syncMotionReenableFlag:  *)
(* then a release may find the stores of that very reset's disable.        *)
NoResume == swept = "whole" => sent = "shutdown"

(* On a calm bus every frame arrives and the drive answers it.             *)
CalmStep ==
  /\ job_pc = "choose" /\ job_pc' = "faultCheck" => wc_ok'
  /\ job_pc = "exchange" /\ job_pc' = "verdict" =>
       status' \in Answers(sent) /\ reset_seen' = (sent = "faultReset" /\ status' = "fault")
Calm == <>[][CalmStep]_vars

(* A caller that wants the axis enabled on a calm bus gets it enabled,     *)
(* from every state the machine and the drive may be in, faults, mode      *)
(* changes and interrupted sequences included.                             *)
EnableCompletes ==
  Calm /\ <>[](desired_enable /\ ~safe_output_required /\ api = "idle")
    => <>[](status = "enabled")

(* And one that wants it disabled gets it disabled, unless the call was    *)
(* overtaken just before it reset the step.                                *)
DisableCompletes ==
  Calm /\ <>[](~desired_enable /\ api = "idle" /\ ~skipped) => <>[](status # "enabled")

(* A fault that stays is answered by the reset bit again and again: it     *)
(* rises for as long as the fault lasts.                                   *)
ResetKeepsTrying ==
  (/\ <>[](status = "fault" /\ desired_enable /\ ~safe_output_required /\ api = "idle")
   /\ []<>(job_pc = "faultCheck" /\ wc_ok))
    => \A w \in {"faultReset", "shutdown"} : []<>(job_pc = "exchange" /\ sent = w)

(* Stated by the repository, not true of the code.                         *)

(* ethercat_servo_igh.hpp:237: setEnable(false) disables.                  *)
DisableAlwaysCompletes ==
  Calm /\ <>[](~desired_enable /\ api = "idle") => <>[](status # "enabled")
=============================================================================
