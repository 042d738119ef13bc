----------------------------- MODULE IghRuntime -----------------------------
(***************************************************************************)
(* The supervision state of one EtherCAT master: IghMasterRuntime          *)
(* (igh_master_runtime.cpp) with the Job thread that writes it every bus   *)
(* cycle and the Master API caller that requests, clears and releases      *)
(* safe-output.  The two threads share atomics, a HealthyDwell and three   *)
(* AnomalyTrackers, with no lock: one action here is one access to one     *)
(* shared object, in the program order of the code.                        *)
(*                                                                         *)
(* The API caller is one thread: the adapter above the library serialises  *)
(* Master calls (command_freshness.hpp:60 speaks of its lock).             *)
(***************************************************************************)
EXTENDS AnomalyTracker

CONSTANTS
  AnomalyPolicies,   (* the sanitized policy of each monitor               *)
  DwellCycles,       (* IGH_HEALTHY_DWELL_CYCLES, raw                      *)
  WarmupCycles,      (* IGH_DC_MONITOR_WARMUP                              *)
  RequireRealtime,   (* IGH_REQUIRE_REALTIME                               *)
  Disturbances       (* what may go wrong on the bus                       *)

Monitors == {"wkc", "deadline", "dc"}
BusStates == {"good"} \union Disturbances

ASSUME RuntimeAssumption ==
  /\ AnomalyPolicies \in [Monitors -> Policies]
  /\ DwellCycles \in Nat
  /\ WarmupCycles \in Nat
  /\ RequireRealtime \in BOOLEAN
  /\ Disturbances \subseteq {"rx", "deadline", "dcDrift"}

VARIABLES
  comm_fault, safe_output_required, motion_reenable_allowed,
  pending_dwell_fault, operational, job_running,
  dwell,             (* healthy_dwell_                                     *)
  tracker,           (* wkc_tracker_, deadline_tracker_, dc_tracker_       *)
  dc_warmup,         (* dc_warmup_remaining_                               *)
  desired_enable,    (* desired_enable_ of one drive axis                  *)
  job_pc,            (* where the Job thread is                            *)
  local,             (* its local variables in this cycle                  *)
  call,              (* the observe() it is in: argument and return place  *)
  api,               (* where the API caller is                            *)
  phase,             (* how far Master::start has come                     *)
  authorized,        (* motion_commands_authorized_                        *)
  bus,               (* environment: what the next samples will show       *)
  raced, streak, overtaken   (* history, read by properties only           *)

flags == <<comm_fault, safe_output_required, motion_reenable_allowed,
           pending_dwell_fault, operational, job_running>>
shared == <<dwell, tracker, dc_warmup, desired_enable>>
job == <<job_pc, local, call>>
hist == <<raced, streak, overtaken>>
vars == <<flags, shared, job, api, phase, authorized, bus, hist>>

-----------------------------------------------------------------------------
(* HealthyDwell (anomaly_tracker.hpp:112-179), a plain unsynchronised object. *)
Required == AtLeast(1, DwellCycles)
Dwells == [armed : BOOLEAN, ok : 0..Required, allow : BOOLEAN]

DwellInitial == [armed |-> FALSE, ok |-> 0, allow |-> TRUE]
DwellFault   == [armed |-> FALSE, ok |-> 0, allow |-> FALSE]
DwellReset   == [armed |-> TRUE,  ok |-> 0, allow |-> FALSE]

(* observe(healthy) while armed: d is the object when the results are      *)
(* stored, seen the consecutive_ok_ loaded before.                         *)
DwellObserveKeepsCount(d, seen, healthy) ==
  IF ~healthy THEN [armed |-> d.armed, ok |-> d.ok, allow |-> FALSE]
  ELSE IF seen + 1 >= Required THEN DwellInitial
  ELSE [armed |-> d.armed, ok |-> seen + 1, allow |-> d.allow]

DwellObserveStaysArmed(d, seen, healthy) ==
  IF ~healthy THEN [armed |-> d.armed, ok |-> 0, allow |-> FALSE]
  ELSE IF seen + 1 >= Required THEN [armed |-> d.armed, ok |-> 0, allow |-> TRUE]
  ELSE [armed |-> d.armed, ok |-> seen + 1, allow |-> d.allow]

DwellObserve(d, seen, healthy) ==
  IF ~healthy THEN [armed |-> d.armed, ok |-> 0, allow |-> FALSE]
  ELSE IF seen + 1 >= Required THEN DwellInitial
  ELSE [armed |-> d.armed, ok |-> seen + 1, allow |-> d.allow]

-----------------------------------------------------------------------------
JobPcs == {"off", "sleep", "pending", "pendingFault", "operational", "force",
           "fresh", "receive", "decide", "apply", "wkcGate", "deadlineGate", "dcSample",
           "dcWarmup", "dcGate", "observe", "observed", "latchComm", "latchSafe",
           "latchReenable", "latchPending", "latchDwell", "healthy", "dwell",
           "dwellStore", "sync", "syncStore", "exited"}

Locals == [armed : BOOLEAN,                   (* line 330                  *)
           force : BOOLEAN,                   (* force_safe_output         *)
           drive : BOOLEAN,                   (* sendData, not safe-output *)
           good : BOOLEAN,                    (* rx_ok, deadline_met, dc_ok so far *)
           seen : 0..Required,                (* consecutive_ok_ as loaded *)
           allow : BOOLEAN]                   (* allowEnable() as loaded   *)

AnyTracker == UNION {Trackers(AnomalyPolicies[m]) : m \in Monitors}

(* monitor and held also say which tracker observe() loaded; ret is where  *)
(* observe() or latchCommFault() returns to.                               *)
Calls == [monitor : Monitors, anomaly : BOOLEAN, held : AnyTracker,
          ret : {"receive", "deadlineGate", "dcSample", "healthy"}]

NewCycle == [armed |-> FALSE, force |-> FALSE, drive |-> FALSE, good |-> TRUE, seen |-> 0,
             allow |-> FALSE]
CallOf(m, anomalous, next) ==
  [monitor |-> m, anomaly |-> anomalous, held |-> Cleared, ret |-> next]
NoCall == CallOf("wkc", FALSE, "receive")

JobAt(pc) == job_pc' = pc /\ local' = NewCycle /\ call' = NoCall

ApiPcs == {"idle", "requestExchange", "requestReenable", "requestDwell", "boot",
           "waitOp", "clearComm", "clearSafe", "clearPending", "clearTrackers",
           "clearDwell", "clearReenable", "setOperational", "releaseComm",
           "releaseReenable", "releaseStore", "cycleComm", "cycleSafe", "enableComm",
           "enableSafe", "enableReenable", "enableStore", "resetDisable", "join"}
Phases == {"stopped", "starting", "settling", "arming", "running", "stopping"}

(* raced: the last release store overwrote a latch its checks had not seen. *)
(* streak: healthy verdicts that observe() took in a row, up to Required,  *)
(* since the last requestReset or onFault.  overtaken: the caller's reset  *)
(* or fault landed within the observe() that counts on.                    *)

TypeOK ==
  /\ comm_fault \in BOOLEAN /\ safe_output_required \in BOOLEAN
  /\ motion_reenable_allowed \in BOOLEAN /\ pending_dwell_fault \in BOOLEAN
  /\ operational \in BOOLEAN /\ job_running \in BOOLEAN
  /\ dwell \in Dwells
  /\ tracker \in [Monitors -> AnyTracker]
  /\ \A m \in Monitors : tracker[m] \in Trackers(AnomalyPolicies[m])
  /\ dc_warmup \in 0..WarmupCycles
  /\ desired_enable \in BOOLEAN
  /\ job_pc \in JobPcs /\ local \in Locals /\ call \in Calls
  /\ api \in ApiPcs
  /\ phase \in Phases
  /\ authorized \in BOOLEAN
  /\ bus \in BusStates
  /\ raced \in BOOLEAN /\ streak \in 0..Required /\ overtaken \in BOOLEAN

Init ==
  /\ comm_fault = FALSE /\ safe_output_required = FALSE
  /\ motion_reenable_allowed = TRUE /\ pending_dwell_fault = FALSE
  /\ operational = FALSE /\ job_running = FALSE
  /\ dwell = DwellInitial
  /\ tracker = [m \in Monitors |-> Cleared]
  /\ dc_warmup = 0
  /\ desired_enable = FALSE
  /\ job_pc = "off" /\ local = NewCycle /\ call = NoCall
  /\ api = "idle"
  /\ phase = "stopped"
  /\ authorized = FALSE
  /\ bus = "good"
  /\ raced = FALSE /\ streak = 0 /\ overtaken = FALSE

-----------------------------------------------------------------------------
(* The Job thread (jobThreadMain, lines 308-385).                          *)

JobStep(from, to) == job_pc = from /\ job_pc' = to
JobFrame == UNCHANGED <<api, phase, authorized, bus>>
Restarted == streak' = 0 /\ overtaken' = (job_pc = "dwellStore")
JobLocal == UNCHANGED <<flags, shared, hist>> /\ JobFrame

(* while (job_running_) ... sleep until the scheduled wakeup.              *)
JobWake ==
  /\ JobStep("sleep", IF job_running THEN "pending" ELSE "exited")
  /\ UNCHANGED <<local, call>> /\ JobLocal

(* Lines 326-328: a latch the API thread could not finish reaches dwell.   *)
JobTakePending ==
  /\ JobStep("pending", IF pending_dwell_fault THEN "pendingFault" ELSE "operational")
  /\ pending_dwell_fault' = FALSE
  /\ UNCHANGED <<comm_fault, safe_output_required, motion_reenable_allowed, operational,
                 job_running, shared, local, call, hist>>
  /\ JobFrame

JobPendingFault ==
  /\ JobStep("pendingFault", "operational")
  /\ dwell' = DwellFault /\ Restarted
  /\ UNCHANGED <<flags, tracker, dc_warmup, desired_enable, local, call, raced>>
  /\ JobFrame

JobLoadOperational ==
  /\ JobStep("operational", "force")
  /\ local' = [local EXCEPT !.armed = operational]
  /\ UNCHANGED call /\ JobLocal

(* The argument of runJobCycle, line 331. *)
JobLoadForce ==
  /\ JobStep("force", "fresh")
  /\ local' = [local EXCEPT !.force = safe_output_required]
  /\ UNCHANGED call /\ JobLocal

(* checkExternalCommandFreshness: a stale external command raises the      *)
(* communication fault before this cycle's outputs are chosen.             *)
JobCheckFreshness ==
  /\ \/ JobStep("fresh", "receive") /\ UNCHANGED call
     \/ /\ ~safe_output_required
        /\ JobStep("fresh", "latchComm")
        /\ call' = NoCall
  /\ UNCHANGED local /\ JobLocal

(* receiveData and rx_ok, lines 4121-4134. *)
JobReceive ==
  /\ JobStep("receive", "decide")
  /\ local' = [local EXCEPT !.good = (bus # "rx")]
  /\ UNCHANGED call /\ JobLocal

(* The second look at safe_output_required, lines 4138-4139. *)
JobDecideOnce ==
  /\ JobStep("decide", "apply")
  /\ local' = [local EXCEPT !.drive = ~local.force]
  /\ UNCHANGED call /\ JobLocal

JobDecide ==
  /\ JobStep("decide", "apply")
  /\ local' = [local EXCEPT !.drive = ~(local.force \/ safe_output_required)]
  /\ UNCHANGED call /\ JobLocal

(* sendData, or applySafeProcessImageOutputs, which drops the enable.      *)
JobApply ==
  /\ JobStep("apply", "wkcGate")
  /\ desired_enable' = (desired_enable /\ local.drive)
  /\ UNCHANGED <<flags, dwell, tracker, dc_warmup, local, call, hist>>
  /\ JobFrame

(* Feed monitor m, or pass on to the next stage. *)
Gate(from, open, m, anomalous, next) ==
  \/ open /\ JobStep(from, "observe") /\ call' = CallOf(m, anomalous, next)
  \/ ~open /\ JobStep(from, next) /\ UNCHANGED call

JobWkcGateInverted ==
  /\ Gate("wkcGate", local.armed /\ ~comm_fault, "wkc", local.good, "deadlineGate")
  /\ UNCHANGED local /\ JobLocal

JobWkcGate ==
  /\ Gate("wkcGate", local.armed /\ ~comm_fault, "wkc", ~local.good, "deadlineGate")
  /\ UNCHANGED local /\ JobLocal

JobDeadlineGate ==
  LET met == bus # "deadline"
  IN  /\ Gate("deadlineGate", local.armed /\ ~comm_fault /\ RequireRealtime, "deadline",
              ~met, "dcSample")
      /\ local' = [local EXCEPT !.good = (local.good /\ met)]
      /\ JobLocal

(* sampleDcMonitor: the monitor is fed once operational, after its warmup, *)
(* unless the fault is latched.  A DC that is not valid yet counts as good. *)
JobDcSample ==
  /\ JobStep("dcSample", IF operational THEN "dcWarmup" ELSE "healthy")
  /\ local' = [local EXCEPT !.good = (local.good /\ bus # "dcDrift")]
  /\ call' = CallOf("dc", bus = "dcDrift", "healthy")
  /\ JobLocal

JobDcWarmupUnderflows ==
  /\ JobStep("dcWarmup", IF dc_warmup > 0 THEN "healthy" ELSE "dcGate")
  /\ dc_warmup' = dc_warmup - 1
  /\ UNCHANGED <<flags, dwell, tracker, desired_enable, local, call, hist>>
  /\ JobFrame

JobDcWarmup ==
  /\ JobStep("dcWarmup", IF dc_warmup > 0 THEN "healthy" ELSE "dcGate")
  /\ dc_warmup' = IF dc_warmup > 0 THEN dc_warmup - 1 ELSE 0
  /\ UNCHANGED <<flags, dwell, tracker, desired_enable, local, call, hist>>
  /\ JobFrame

JobDcGate ==
  /\ JobStep("dcGate", IF comm_fault THEN "healthy" ELSE "observe")
  /\ UNCHANGED <<local, call>> /\ JobLocal

(* observe() reads the tracker, then writes it back; a reset in between is *)
(* overwritten.  A required stop latches the fault.                        *)
JobObserveLoad ==
  /\ JobStep("observe", "observed")
  /\ call' = [call EXCEPT !.held = tracker[call.monitor]]
  /\ UNCHANGED local /\ JobLocal

JobObserveStore ==
  LET policy == AnomalyPolicies[call.monitor]
      after  == Observe(policy, call.held, call.anomaly)
  IN  /\ JobStep("observed", IF StopRequired(policy, after) THEN "latchComm" ELSE call.ret)
      /\ tracker' = [tracker EXCEPT ![call.monitor] = after]
      /\ call' = CallOf("wkc", FALSE, call.ret)
      /\ UNCHANGED <<flags, dwell, dc_warmup, desired_enable, local, hist>>
      /\ JobFrame

(* latchCommFault, lines 145-149. *)
JobLatchComm ==
  /\ JobStep("latchComm", "latchSafe")
  /\ comm_fault' = TRUE
  /\ UNCHANGED <<safe_output_required, motion_reenable_allowed, pending_dwell_fault,
                 operational, job_running, shared, local, call, raced, streak, overtaken>>
  /\ JobFrame

JobLatchForgetsSafe ==
  /\ JobStep("latchSafe", "latchReenable")
  /\ UNCHANGED <<local, call>> /\ JobLocal

JobLatchSafe ==
  /\ JobStep("latchSafe", "latchReenable")
  /\ safe_output_required' = TRUE
  /\ raced' = FALSE
  /\ UNCHANGED <<comm_fault, motion_reenable_allowed, pending_dwell_fault, operational,
                 job_running, shared, local, call, streak, overtaken>>
  /\ JobFrame

JobLatchReenable ==
  /\ JobStep("latchReenable", "latchPending")
  /\ motion_reenable_allowed' = FALSE
  /\ UNCHANGED <<comm_fault, safe_output_required, pending_dwell_fault,
                 operational, job_running, shared, local, call, hist>>
  /\ JobFrame

JobLatchPending ==
  /\ JobStep("latchPending", "latchDwell")
  /\ pending_dwell_fault' = TRUE
  /\ UNCHANGED <<comm_fault, safe_output_required, motion_reenable_allowed,
                 operational, job_running, shared, local, call, hist>>
  /\ JobFrame

JobLatchDwell ==
  /\ JobStep("latchDwell", call.ret)
  /\ dwell' = DwellFault /\ Restarted
  /\ UNCHANGED <<flags, tracker, dc_warmup, desired_enable, local, call, raced>>
  /\ JobFrame

(* The verdict on this cycle, lines 362-366. *)
JobHealthy ==
  /\ JobStep("healthy", "dwell")
  /\ local' = [local EXCEPT !.good = (local.good /\ ~comm_fault)]
  /\ call' = NoCall
  /\ JobLocal

(* healthy_dwell_.observe(healthy), line 367. *)
JobDwellLoad ==
  /\ \/ dwell.armed /\ JobStep("dwell", "dwellStore")
        /\ local' = [local EXCEPT !.seen = dwell.ok]
     \/ ~dwell.armed /\ JobStep("dwell", "sync") /\ UNCHANGED local
  /\ streak' = IF ~local.good THEN 0 ELSE IF streak = Required THEN streak ELSE streak + 1
  /\ UNCHANGED <<flags, shared, call, raced, overtaken>>
  /\ JobFrame

JobDwellStore ==
  /\ JobStep("dwellStore", "sync")
  /\ dwell' = DwellObserve(dwell, local.seen, local.good)
  /\ overtaken' = (overtaken /\ local.good)
  /\ UNCHANGED <<flags, tracker, dc_warmup, desired_enable, local, call, raced, streak>>
  /\ JobFrame

(* syncMotionReenableFlag: a load and a store, lines 194-197. *)
JobSyncLoad ==
  /\ JobStep("sync", "syncStore")
  /\ local' = [local EXCEPT !.allow = dwell.allow]
  /\ UNCHANGED call /\ JobLocal

JobSyncOnlyRaises ==
  /\ job_pc = "syncStore" /\ JobAt("sleep")
  /\ motion_reenable_allowed' = (motion_reenable_allowed \/ local.allow)
  /\ UNCHANGED <<comm_fault, safe_output_required, pending_dwell_fault, operational,
                 job_running, shared, hist>>
  /\ JobFrame

JobSyncStore ==
  /\ job_pc = "syncStore" /\ JobAt("sleep")
  /\ motion_reenable_allowed' = local.allow
  /\ UNCHANGED <<comm_fault, safe_output_required, pending_dwell_fault, operational,
                 job_running, shared, hist>>
  /\ JobFrame

JobNext ==
  \/ JobWake \/ JobTakePending \/ JobPendingFault \/ JobLoadOperational \/ JobLoadForce
  \/ JobCheckFreshness \/ JobReceive \/ JobDecide \/ JobApply
  \/ JobWkcGate \/ JobDeadlineGate \/ JobDcSample \/ JobDcWarmup \/ JobDcGate
  \/ JobObserveLoad \/ JobObserveStore
  \/ JobLatchComm \/ JobLatchSafe \/ JobLatchReenable \/ JobLatchPending \/ JobLatchDwell
  \/ JobHealthy \/ JobDwellLoad \/ JobDwellStore \/ JobSyncLoad \/ JobSyncStore

-----------------------------------------------------------------------------
(* The Master API caller.                                                  *)

ApiStep(from, to) == api = from /\ api' = to
ApiFrame == UNCHANGED <<job, authorized, bus>>
ApiLocal == UNCHANGED <<flags, shared, phase, hist>> /\ ApiFrame
Serving == phase \in {"running", "stopped"}

(* Master::request_safe_output, or line 195 of Master::start: only the     *)
(* rising edge touches the dwell (runtime lines 172-181).                  *)
AfterRequest == IF phase = "starting" THEN "boot" ELSE "idle"

RequestSafeOutput == Serving /\ ApiStep("idle", "requestExchange") /\ ApiLocal

RequestExchange ==
  /\ ApiStep("requestExchange", IF safe_output_required THEN AfterRequest ELSE "requestReenable")
  /\ safe_output_required' = TRUE
  /\ raced' = FALSE
  /\ UNCHANGED <<comm_fault, motion_reenable_allowed, pending_dwell_fault, operational,
                 job_running, shared, phase, streak, overtaken>>
  /\ ApiFrame

RequestReenable ==
  /\ ApiStep("requestReenable", "requestDwell")
  /\ motion_reenable_allowed' = FALSE
  /\ UNCHANGED <<comm_fault, safe_output_required, pending_dwell_fault, operational,
                 job_running, shared, phase, hist>>
  /\ ApiFrame

RequestDwell ==
  /\ ApiStep("requestDwell", AfterRequest)
  /\ dwell' = DwellFault /\ Restarted
  /\ UNCHANGED <<flags, tracker, dc_warmup, desired_enable, phase, raced>>
  /\ ApiFrame

(* Master::release_safe_output -> runtime lines 183-192: two checks, then  *)
(* an unconditional store.                                                 *)
ReleaseUnauthorized ==
  Serving /\ ApiStep("idle", "releaseComm") /\ ApiLocal

ReleaseSafeOutput == Serving /\ authorized /\ ApiStep("idle", "releaseComm") /\ ApiLocal

ReleaseComm ==
  ApiStep("releaseComm", IF comm_fault THEN "idle" ELSE "releaseReenable") /\ ApiLocal

ReleaseReenable ==
  /\ ApiStep("releaseReenable", IF motion_reenable_allowed THEN "releaseStore" ELSE "idle")
  /\ ApiLocal

ReleaseStore ==
  /\ ApiStep("releaseStore", "idle")
  /\ safe_output_required' = FALSE
  /\ raced' = comm_fault
  /\ UNCHANGED <<comm_fault, motion_reenable_allowed, pending_dwell_fault, operational,
                 job_running, shared, phase, streak, overtaken>>
  /\ ApiFrame

(* Master::request_safety_reset: setEnable(false), then clearCommFault.    *)
SafetyReset ==
  Serving /\ ApiStep("idle", IF phase = "running" THEN "resetDisable" ELSE "clearComm") /\ ApiLocal

ResetDisable ==
  /\ ApiStep("resetDisable", "clearComm")
  /\ desired_enable' = FALSE
  /\ UNCHANGED <<flags, dwell, tracker, dc_warmup, phase, hist>>
  /\ ApiFrame

ClearComm ==
  /\ ApiStep("clearComm", "clearSafe")
  /\ comm_fault' = FALSE
  /\ UNCHANGED <<safe_output_required, motion_reenable_allowed, pending_dwell_fault,
                 operational, job_running, shared, phase, hist>>
  /\ ApiFrame

ClearSafe ==
  /\ ApiStep("clearSafe", "clearPending")
  /\ safe_output_required' = TRUE
  /\ raced' = FALSE
  /\ UNCHANGED <<comm_fault, motion_reenable_allowed, pending_dwell_fault, operational,
                 job_running, shared, phase, streak, overtaken>>
  /\ ApiFrame

ClearPending ==
  /\ ApiStep("clearPending", "clearTrackers")
  /\ pending_dwell_fault' = FALSE
  /\ UNCHANGED <<comm_fault, safe_output_required, motion_reenable_allowed, operational,
                 job_running, shared, phase, hist>>
  /\ ApiFrame

ClearTrackers ==
  /\ ApiStep("clearTrackers", "clearDwell")
  /\ tracker' = [m \in Monitors |-> Cleared]
  /\ dc_warmup' = WarmupCycles
  /\ UNCHANGED <<flags, dwell, desired_enable, phase, hist>>
  /\ ApiFrame

ClearDwell ==
  /\ ApiStep("clearDwell", "clearReenable")
  /\ dwell' = DwellReset /\ Restarted
  /\ UNCHANGED <<flags, tracker, dc_warmup, desired_enable, phase, raced>>
  /\ ApiFrame

(* The last store of clearCommFault; Master::start clears twice.           *)
ClearReenable ==
  /\ ApiStep("clearReenable", IF phase = "settling" THEN "setOperational" ELSE "idle")
  /\ motion_reenable_allowed' = FALSE
  /\ phase' = IF phase = "arming" THEN "running" ELSE phase
  /\ UNCHANGED <<comm_fault, safe_output_required, pending_dwell_fault, operational,
                 job_running, shared, raced, streak, overtaken>>
  /\ ApiFrame

(* One axis of Master::cycle: commands pass only when authorized and not   *)
(* in safe-output; setEnable(true) looks at the three flags again.         *)
Cycle == phase = "running" /\ ApiStep("idle", "cycleComm") /\ ApiLocal

CycleComm == ApiStep("cycleComm", IF comm_fault THEN "idle" ELSE "cycleSafe") /\ ApiLocal

CycleSafe ==
  /\ \/ ApiStep("cycleSafe", IF authorized /\ ~safe_output_required THEN "enableComm" ELSE "idle")
        /\ UNCHANGED desired_enable
     \/ authorized /\ ~safe_output_required /\ ApiStep("cycleSafe", "idle") /\ desired_enable' = FALSE
  /\ UNCHANGED <<flags, dwell, tracker, dc_warmup, phase, hist>>
  /\ ApiFrame

EnableComm == ApiStep("enableComm", IF comm_fault THEN "idle" ELSE "enableSafe") /\ ApiLocal
EnableSafe ==
  ApiStep("enableSafe", IF safe_output_required THEN "idle" ELSE "enableReenable") /\ ApiLocal
EnableReenable ==
  /\ ApiStep("enableReenable", IF motion_reenable_allowed THEN "enableStore" ELSE "idle")
  /\ ApiLocal
EnableStore ==
  /\ ApiStep("enableStore", "idle")
  /\ desired_enable' = TRUE
  /\ UNCHANGED <<flags, dwell, tracker, dc_warmup, phase, hist>>
  /\ ApiFrame

-----------------------------------------------------------------------------
(* Master::start and Master::shutdown, lines 170-334 and 445-453.  Up to   *)
(* the evidence gate a start touches one shared word, safe-output.         *)
StartMaster ==
  /\ phase = "stopped" /\ ApiStep("idle", "requestExchange")
  /\ phase' = "starting"
  /\ authorized' \in BOOLEAN
  /\ desired_enable' = FALSE
  /\ UNCHANGED <<flags, dwell, tracker, dc_warmup, job, bus, hist>>

(* SupervisedMotion without startup evidence. *)
AbortStart ==
  /\ ApiStep("boot", "idle") /\ ~authorized
  /\ phase' = "stopped"
  /\ UNCHANGED <<flags, shared, hist>> /\ ApiFrame

Configured == tracker' = [m \in Monitors |-> Cleared] /\ dc_warmup' = WarmupCycles
DwellFresh == dwell' = DwellInitial

(* IghMasterRuntime::start: with safe-output asserted the permission goes, *)
(* but healthy_dwell_ keeps the initial one.                               *)
Boot ==
  /\ ApiStep("boot", "waitOp")
  /\ Configured /\ DwellFresh
  /\ operational' = FALSE /\ comm_fault' = FALSE /\ job_running' = TRUE
  /\ motion_reenable_allowed' = ~safe_output_required
  /\ JobAt("sleep")
  /\ streak' = 0 /\ overtaken' = FALSE
  /\ UNCHANGED <<safe_output_required, pending_dwell_fault, desired_enable, phase,
                 authorized, bus, raced>>

(* configure or mlockall fails, or the Job thread finds no realtime        *)
(* scheduling and ends: only then has start cleared the fault.             *)
BootFails ==
  /\ RequireRealtime
  /\ ApiStep("boot", "idle")
  /\ Configured /\ DwellFresh
  /\ \/ motion_reenable_allowed' = TRUE /\ UNCHANGED <<operational, comm_fault>>
     \/ /\ motion_reenable_allowed' = ~safe_output_required
        /\ operational' = FALSE /\ comm_fault' = FALSE
  /\ phase' = "stopped"
  /\ UNCHANGED <<safe_output_required, pending_dwell_fault, job_running, desired_enable,
                 raced, streak, overtaken>>
  /\ ApiFrame

(* All slaves reached OP and the DC offset settled, or the wait gave up. *)
SlavesInOp ==
  /\ ApiStep("waitOp", "clearComm")
  /\ phase' = "settling"
  /\ UNCHANGED <<flags, shared, hist>> /\ ApiFrame

SetOperational ==
  /\ ApiStep("setOperational", "clearComm")
  /\ operational' = TRUE
  /\ phase' = "arming"
  /\ UNCHANGED <<comm_fault, safe_output_required, motion_reenable_allowed,
                 pending_dwell_fault, job_running, shared, hist>>
  /\ ApiFrame

(* runtime.stop: shutdown, no slave in OP, or the startup fault reset failed. *)
Stop ==
  /\ \/ phase = "running" /\ ApiStep("idle", "join")
     \/ ApiStep("waitOp", "join")
     \/ ApiStep("setOperational", "join")
  /\ job_running' = FALSE
  /\ phase' = "stopping"
  /\ UNCHANGED <<comm_fault, safe_output_required, motion_reenable_allowed,
                 pending_dwell_fault, operational, shared, hist>>
  /\ ApiFrame

Join ==
  /\ ApiStep("join", "idle")
  /\ job_pc = "exited" /\ JobAt("off")
  /\ operational' = FALSE
  /\ phase' = "stopped"
  /\ UNCHANGED <<comm_fault, safe_output_required, motion_reenable_allowed,
                 pending_dwell_fault, job_running, shared, authorized, bus, hist>>

-----------------------------------------------------------------------------
(* The bus changes where the Job is about to sample it: nobody else looks. *)
BusChanges ==
  /\ job_pc \in {"receive", "deadlineGate", "dcSample"}
  /\ bus' \in BusStates \ {bus}
  /\ UNCHANGED <<flags, shared, job, api, phase, authorized, hist>>

(* What the caller may begin, and what a call in progress goes on to do. *)
ApiCalls == RequestSafeOutput \/ ReleaseSafeOutput \/ SafetyReset \/ Cycle \/ StartMaster
ApiSteps ==
  \/ RequestExchange \/ RequestReenable \/ RequestDwell
  \/ ReleaseComm \/ ReleaseReenable \/ ReleaseStore
  \/ ResetDisable \/ ClearComm \/ ClearSafe \/ ClearPending \/ ClearTrackers \/ ClearDwell
  \/ ClearReenable
  \/ CycleComm \/ CycleSafe \/ EnableComm \/ EnableSafe \/ EnableReenable \/ EnableStore
  \/ AbortStart \/ Boot \/ BootFails \/ SlavesInOp \/ SetOperational \/ Join
ApiNext == ApiCalls \/ ApiSteps \/ Stop

Next == JobNext \/ ApiNext \/ BusChanges

Spec == Init /\ [][Next]_vars

(* The Job thread is SCHED_FIFO at the highest priority and never blocks   *)
(* on the caller; a call that has begun returns.  No call need ever be     *)
(* made, and the bus need never change.                                    *)
Fairness == WF_vars(JobNext) /\ WF_vars(ApiSteps)
FairSpec == Spec /\ Fairness

-----------------------------------------------------------------------------
(* While the fault is latched the safe-output request stands (or is the    *)
(* Job's very next store), whatever the caller clears, requests or stores, *)
(* except after a release whose store came behind the latch (raced).  *)
LatchHolds ==
  comm_fault => safe_output_required \/ raced \/ job_pc = "latchSafe"

(* A cycle that finds the fault latched when it chooses its outputs does   *)
(* not drive: the second load at line 4139 covers a latch that came after  *)
(* the argument of runJobCycle was read, even one of this very cycle.      *)
LatchedNeverDrives ==
  [][job_pc = "decide" /\ job_pc' = "apply" /\ local'.drive => ~comm_fault \/ raced]_vars

(* A Master that is not authorized (ObservationOnly, or no evidence) never *)
(* has a cycle that drives, although safe-output is a process-wide flag    *)
(* that earlier Masters of the index released.                             *)
ObservationNeverDrives ==
  job_pc = "apply" /\ local.drive => authorized

(* Permission to enable is only ever granted by a start or after Required  *)
(* healthy cycles in a row since the last reset or fault, wherever the     *)
(* other thread's resets, requests and latches interleave with the         *)
(* unsynchronised HealthyDwell; except where one of them landed within     *)
(* observe(), between the load of its count and the store (overtaken).     *)
PermissionEarned ==
  [][~dwell.allow /\ dwell'.allow => api = "boot" \/ streak = Required \/ overtaken]_vars

(* A link that stays lost ends in a latched fault or safe-output for good, *)
(* even if the caller resets and clears the trackers again and again.      *)
LinkLossStops ==
  <>[](bus = "rx" /\ operational /\ job_running)
    => <>[](comm_fault \/ safe_output_required)

(* A permission that the dwell has withdrawn disappears from the flag the  *)
(* caller reads, although a stale store may bring it back for a cycle.     *)
StalePermissionWithdrawn ==
  (motion_reenable_allowed /\ ~dwell.allow /\ job_running)
    ~> (~motion_reenable_allowed \/ dwell.allow \/ ~job_running)

(* On a healthy bus, with no fault latched and no caller interfering, a    *)
(* dwell that was armed ends.                                              *)
DwellCompletes ==
  <>[](bus = "good" /\ ~comm_fault /\ api = "idle" /\ job_running) => <>[]~dwell.armed

(* Stated by the repository, not true of the code.                         *)

(* anomaly_tracker.hpp:109, INTEGRATION.md:93: Required healthy cycles in  *)
(* a row, counted from the reset, come before the permission.              *)
DwellCountsFromReset ==
  [][~dwell.allow /\ dwell'.allow => api = "boot" \/ streak = Required]_vars

(* INTEGRATION.md:27: on comm_fault the outputs are the safe ones.         *)
FaultForcesSafeOutput ==
  comm_fault => safe_output_required \/ job_pc = "latchSafe"
=============================================================================
