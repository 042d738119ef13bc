----------------------------- MODULE SafeOutput -----------------------------
(***************************************************************************)
(* The safe process image (applySafeProcessImageOutputs) and the explicit  *)
(* Fault Reset window that the API caller may open in it.  The axis and    *)
(* the cycle count of the window are two atomics; the Job loads both,      *)
(* writes the control words, and then counts down.                         *)
(*                                                                         *)
(* The supervision flags are here one step each; their own races are the   *)
(* subject of IghRuntime.                                                  *)
(***************************************************************************)
EXTENDS Integers

CONSTANTS
  Axes,          (* motion axes                                            *)
  Positions,     (* what an encoder may show                               *)
  ResetCycles,   (* length of the window, 20 in the code                   *)
  CountWidth     (* values of explicit_fault_reset_cycles_, 2^16 in the code *)

ASSUME SafeOutputAssumption ==
  /\ ResetCycles \in Nat \ {0}
  /\ CountWidth \in Nat /\ ResetCycles < CountWidth
  /\ Axes \intersect {"all", "none"} = {}

Selections == Axes \union {"all", "none"}     (* 0x00FF, 0xFFFF *)
DriveStates == {"disabled", "enabled", "fault"}

VARIABLES
  comm_fault, safe_output_required, motion_reenable_allowed,
  safe_output_active,   (* a plain bool that both threads write            *)
  safe_latched_position, actual,   (* of one axis                          *)
  reset_axis, reset_cycles,        (* explicit_fault_reset_axis_, _cycles_ *)
  status,               (* what the status words show, per axis            *)
  job_pc, entering, cycles, axis,  (* the Job and its locals               *)
  api, requested,       (* the caller, and the axis it asks for            *)
  written, fresh        (* history, read by properties only     *)

flags == <<comm_fault, safe_output_required, motion_reenable_allowed>>
window == <<reset_axis, reset_cycles>>
image == <<safe_output_active, safe_latched_position>>
job == <<job_pc, entering, cycles, axis>>
caller == <<api, requested>>
hist == <<written, fresh>>
vars == <<flags, image, window, actual, status, job, caller, hist>>

JobPcs == {"choose", "loadCycles", "loadAxis", "write", "count", "clearAxis", "verdict"}
ApiPcs == {"idle", "storeAxis", "storeCycles", "clearActive", "clearCycles", "clearAxis"}

(* written: cycles with a reset word since the last call returned.         *)
(* fresh: a position has been captured since the last driving cycle.       *)

TypeOK ==
  /\ comm_fault \in BOOLEAN /\ safe_output_required \in BOOLEAN
  /\ motion_reenable_allowed \in BOOLEAN
  /\ safe_output_active \in BOOLEAN
  /\ safe_latched_position \in Positions /\ actual \in Positions
  /\ reset_axis \in Selections /\ reset_cycles \in 0..CountWidth - 1
  /\ status \in [Axes -> DriveStates]
  /\ job_pc \in JobPcs /\ entering \in BOOLEAN
  /\ cycles \in 0..CountWidth - 1 /\ axis \in Selections
  /\ api \in ApiPcs /\ requested \in Selections
  /\ written \in 0..ResetCycles + 1
  /\ fresh \in BOOLEAN

(* Master::start has returned: safe-output stands and the Job runs. *)
Init ==
  /\ comm_fault = FALSE /\ safe_output_required = TRUE /\ motion_reenable_allowed = FALSE
  /\ safe_output_active = FALSE
  /\ actual \in Positions /\ safe_latched_position \in Positions
  /\ reset_axis = "none" /\ reset_cycles = 0
  /\ status \in [Axes -> {"disabled", "fault"}]
  /\ job_pc = "choose" /\ entering = FALSE /\ cycles = 0 /\ axis = "none"
  /\ api = "idle" /\ requested = "none"
  /\ written = 0 /\ fresh = FALSE

Covers(selection, a) == selection \in {"all", a}
Selected(selection) == {a \in Axes : Covers(selection, a)}

-----------------------------------------------------------------------------
(* The Job's cycle.                                                        *)
JobStep(from, to) == job_pc = from /\ job_pc' = to

JobDriveKeepsActive ==
  /\ ~safe_output_required
  /\ JobStep("choose", "verdict")
  /\ fresh' = FALSE
  /\ UNCHANGED <<flags, image, window, actual, status, entering, cycles, axis, caller, written>>

(* runJobCycle, lines 4138-4145: a cycle that drives leaves safe-output.   *)
JobDrive ==
  /\ ~safe_output_required
  /\ JobStep("choose", "verdict")
  /\ safe_output_active' = FALSE
  /\ fresh' = FALSE
  /\ UNCHANGED <<flags, safe_latched_position, window, actual, status, entering, cycles,
                 axis, caller, written>>

JobEnterSafe ==
  /\ safe_output_required
  /\ JobStep("choose", "loadCycles")
  /\ entering' = ~safe_output_active
  /\ safe_output_active' = TRUE
  /\ UNCHANGED <<flags, safe_latched_position, window, actual, status, cycles, axis, caller,
                 hist>>

JobLoadCycles ==
  /\ JobStep("loadCycles", "loadAxis")
  /\ cycles' = reset_cycles
  /\ UNCHANGED <<flags, image, window, actual, status, entering, axis, caller, hist>>

JobLoadAxis ==
  /\ JobStep("loadAxis", "write")
  /\ axis' = reset_axis
  /\ UNCHANGED <<flags, image, window, actual, status, entering, cycles, caller, hist>>

(* The words of this cycle: Fault Reset for the selected axes while the    *)
(* window is open (selectSafeControlWord), Shutdown for all others.        *)
Resets == IF job_pc = "write" /\ cycles > 0 THEN Selected(axis) ELSE {}

JobWriteNeverCounts ==
  /\ JobStep("write", "verdict")
  /\ safe_latched_position' = IF entering THEN actual ELSE safe_latched_position
  /\ written' = IF Resets # {} /\ written <= ResetCycles THEN written + 1 ELSE written
  /\ fresh' = (fresh \/ entering)
  /\ UNCHANGED <<flags, safe_output_active, window, actual, status, entering, cycles, axis,
                 caller>>

JobWrite ==
  /\ JobStep("write", IF cycles > 0 THEN "count" ELSE "verdict")
  /\ safe_latched_position' = IF entering THEN actual ELSE safe_latched_position
  /\ written' = IF Resets # {} /\ written <= ResetCycles THEN written + 1 ELSE written
  /\ fresh' = (fresh \/ entering)
  /\ UNCHANGED <<flags, safe_output_active, window, actual, status, entering, cycles, axis,
                 caller>>

(* fetch_sub on the counter as it is now, not as it was loaded: sixteen     *)
(* bits that may pass zero.                                                *)
JobCountUnderflows ==
  /\ JobStep("count", IF reset_cycles = 1 THEN "clearAxis" ELSE "verdict")
  /\ reset_cycles' = reset_cycles - 1
  /\ UNCHANGED <<flags, image, reset_axis, actual, status, entering, cycles, axis, caller, hist>>

JobCount ==
  LET remaining == IF reset_cycles = 0 THEN CountWidth - 1 ELSE reset_cycles - 1
  IN  /\ JobStep("count", IF remaining = 0 THEN "clearAxis" ELSE "verdict")
      /\ reset_cycles' = remaining
      /\ UNCHANGED <<flags, image, reset_axis, actual, status, entering, cycles, axis, caller,
                     hist>>

JobClearAxis ==
  /\ JobStep("clearAxis", "verdict")
  /\ reset_axis' = "none"
  /\ UNCHANGED <<flags, image, reset_cycles, actual, status, entering, cycles, axis, caller,
                 hist>>

(* The rest of jobThreadMain: a latch, a dwell that ends, or neither.      *)
JobVerdict ==
  /\ JobStep("verdict", "choose")
  /\ \/ UNCHANGED flags
     \/ ~comm_fault /\ motion_reenable_allowed' = TRUE
        /\ UNCHANGED <<comm_fault, safe_output_required>>
     \/ comm_fault' = TRUE /\ safe_output_required' = TRUE /\ motion_reenable_allowed' = FALSE
  /\ UNCHANGED <<image, window, actual, status, entering, cycles, axis, caller, hist>>

JobNext == \/ JobDrive \/ JobEnterSafe \/ JobLoadCycles \/ JobLoadAxis
           \/ JobWrite \/ JobCount \/ JobClearAxis \/ JobVerdict

-----------------------------------------------------------------------------
(* The API caller.                                                         *)
ApiStep(from, to) == api = from /\ api' = to

(* requestFaultReset: its gates, then the axis, then the count. A fault is  *)
(* the status bit or a cached error code.                                  *)
RequestFaultReset(s) ==
  /\ safe_output_required /\ ~comm_fault
  /\ \A a \in Selected(s) : status[a] # "enabled"
  /\ \E a \in Selected(s) : status[a] = "fault"
  /\ ApiStep("idle", "storeAxis") /\ requested' = s
  /\ UNCHANGED <<flags, image, window, actual, status, job, hist>>

StoreAxis ==
  /\ ApiStep("storeAxis", "storeCycles")
  /\ reset_axis' = requested
  /\ UNCHANGED <<flags, image, reset_cycles, actual, status, job, requested, hist>>

StoreCycles ==
  /\ ApiStep("storeCycles", "idle") /\ requested' = "none"
  /\ reset_cycles' = ResetCycles
  /\ written' = 0
  /\ UNCHANGED <<flags, image, reset_axis, actual, status, job, fresh>>

(* EtherCATServo::clearCommFault, lines 3975-3982. *)
SafetyReset ==
  /\ ApiStep("idle", "clearActive")
  /\ comm_fault' = FALSE /\ safe_output_required' = TRUE /\ motion_reenable_allowed' = FALSE
  /\ UNCHANGED <<image, window, actual, status, job, requested, hist>>

ClearActive ==
  /\ ApiStep("clearActive", "clearCycles")
  /\ safe_output_active' = FALSE
  /\ UNCHANGED <<flags, safe_latched_position, window, actual, status, job, requested, hist>>

ClearCycles ==
  /\ ApiStep("clearCycles", "clearAxis")
  /\ reset_cycles' = 0
  /\ UNCHANGED <<flags, image, reset_axis, actual, status, job, requested, hist>>

ClearKeepsAxis ==
  /\ ApiStep("clearAxis", "idle")
  /\ written' = 0
  /\ UNCHANGED <<flags, image, window, actual, status, job, requested, fresh>>

ClearAxis ==
  /\ ApiStep("clearAxis", "idle")
  /\ reset_axis' = "none"
  /\ written' = 0
  /\ UNCHANGED <<flags, image, reset_cycles, actual, status, job, requested, fresh>>

RequestSafeOutput ==
  /\ api = "idle" /\ ~safe_output_required
  /\ safe_output_required' = TRUE /\ motion_reenable_allowed' = FALSE
  /\ UNCHANGED <<comm_fault, image, window, actual, status, job, caller, hist>>

ReleaseSafeOutput ==
  /\ api = "idle" /\ ~comm_fault /\ motion_reenable_allowed /\ safe_output_required
  /\ safe_output_required' = FALSE
  /\ UNCHANGED <<comm_fault, motion_reenable_allowed, image, window, actual, status, job, caller,
                 hist>>

ApiSteps == StoreAxis \/ StoreCycles \/ ClearActive \/ ClearCycles \/ ClearAxis
ApiCalls == \/ \E s \in Selections \ {"none"} : RequestFaultReset(s)
            \/ SafetyReset \/ RequestSafeOutput \/ ReleaseSafeOutput

-----------------------------------------------------------------------------
(* The drives: an axis moves; it is enabled only while the Job drives it.  *)
Moves ==
  /\ actual' \in Positions \ {actual}
  /\ UNCHANGED <<flags, image, window, status, job, caller, hist>>

StatusChanges ==
  /\ \E a \in Axes, s \in DriveStates :
        /\ s = "enabled" => ~safe_output_active
        /\ s # status[a]
        /\ status' = [status EXCEPT ![a] = s]
  /\ UNCHANGED <<flags, image, window, actual, job, caller, hist>>

Next == JobNext \/ ApiSteps \/ ApiCalls \/ Moves \/ StatusChanges

Spec == Init /\ [][Next]_vars

(* The Job never stops, and a call that has begun returns. *)
FairSpec == Spec /\ WF_vars(JobNext) /\ WF_vars(ApiSteps)

-----------------------------------------------------------------------------
(* Between calls the window is never longer than asked: whatever a request *)
(* or a clear found of an earlier window, and even when the count-down ran *)
(* past zero, the Fault Reset word is written in at most ResetCycles       *)
(* cycles until the next call.                                             *)
BoundedBetweenCalls == api = "idle" => written <= ResetCycles

(* A caller that leaves the bus in safe-output sees the reset words end,   *)
(* also from a counter that wrapped.                                       *)
WindowCloses ==
  <>[](safe_output_required /\ api = "idle") => <>[](Resets = {})

(* The position written in safe-output was the actual one at some moment   *)
(* since the bus was last driven, never one of an earlier episode,         *)
(* although clearCommFault rewrites safe_output_active_ under the Job.     *)
SafePositionFresh == [][job_pc = "write" /\ job_pc' # "write" => fresh']_vars
=============================================================================
