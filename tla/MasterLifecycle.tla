--------------------------- MODULE MasterLifecycle ---------------------------
(***************************************************************************)
(* The life of Master objects: construction, init, map_joints, start with  *)
(* its start-up gates and its Fault Reset, the safety calls, shutdown and  *)
(* destruction.  The Masters are of one runtime index: they share one      *)
(* IghMasterRuntime (a static of forIndex) with its one Job, and the one   *)
(* master of the IgH kernel module, which only one of them can hold.       *)
(*                                                                         *)
(* One caller thread makes the calls; the Job runs beside it, and a long   *)
(* call (start, shutdown) is a step for every point at which the Job or    *)
(* the bus may have moved on.  The races inside the safety calls are in    *)
(* IghRuntime and SafeOutput; here each is one step.                       *)
(*                                                                         *)
(* External: the IgH library (request, activate, deactivate, release) and  *)
(* the drive, which may show an error code and another interpolation       *)
(* period than the bus.                                                    *)
(***************************************************************************)
EXTENDS Naturals

CONSTANTS
  Masters,       \* the Master objects of one index, constructed at most once
  Supervised,    \* those constructed with SupervisedMotion
  ResetCycles,   \* the Fault Reset window that start() opens (20)
  SleepCycles,   \* Job cycles in the 80 ms for which start() sleeps then
  NoOne          \* not a Master

ASSUME LifecycleAssumption ==
  /\ Supervised \subseteq Masters
  /\ NoOne \notin Masters
  /\ ResetCycles \in Nat \ {0} /\ SleepCycles \in Nat

VARIABLES
  master,     \* of each Master: life, mapped_, running_, authorized, and its servo
  call,       \* the call in progress: whose, where, and what it has found
  requested,  \* IgH: who holds the master
  bus_active, \* IgH: whether the master is activated
  job,        \* runtime: whose Job is running
  flags,      \* runtime: safe_output_required_, comm_fault_, operational_, permission
  drive,      \* the drive: error code shown, and whether its period is the bus's
  excuses     \* history, of each Master: what has gone wrong around it

vars == <<master, call, requested, bus_active, job, flags, drive, excuses>>

-----------------------------------------------------------------------------
Idle == [by |-> NoOne, at |-> "idle", why |-> "none", gate |-> FALSE, slept |-> 0]

(* `handle` is master_ # nullptr; `objects` are the domain and the slave     *)
(* configurations, which IgH frees when it deactivates the master; `window`  *)
(* is explicit_fault_reset_cycles_.                                          *)
NewMaster ==
  [life |-> "none", mapped |-> FALSE, running |-> FALSE, evidence |-> FALSE,
   authorized |-> FALSE, initialized |-> FALSE, activated |-> FALSE,
   handle |-> FALSE, objects |-> "none", window |-> 0]

Init ==
  /\ master = [m \in Masters |-> NewMaster]
  /\ call = Idle
  /\ requested = NoOne
  /\ bus_active = FALSE
  /\ job = NoOne
  /\ flags = [safe |-> TRUE, fault |-> FALSE, operational |-> FALSE, permitted |-> FALSE]
  /\ drive \in [error : BOOLEAN, period_ok : BOOLEAN]
  /\ excuses = [m \in Masters |-> {}]

(* The caller is free and the object exists. *)
Calls(m) == call.at = "idle" /\ master[m].life = "alive"

At(m, point) == call.by = m /\ call.at = point

Goto(point) == call' = [call EXCEPT !.at = point]

Close(reason) == call' = [call EXCEPT !.at = "stop", !.why = reason]

Return == call' = Idle

(* requestSafeOutput, which withdraws the permission only where it raises   *)
(* safe-output, and clearCommFault, which asserts safe-output always.       *)
SafeRequested == [flags EXCEPT !.safe = TRUE, !.permitted = flags.permitted /\ flags.safe]
SafetyCleared == [flags EXCEPT !.fault = FALSE, !.safe = TRUE, !.permitted = FALSE]

external == <<requested, bus_active, drive>>

-----------------------------------------------------------------------------
(* Construction and mapping.                                               *)

Construct(m) ==
  /\ call.at = "idle"
  /\ master[m].life = "none"
  /\ master' = [master EXCEPT ![m].life = "alive"]
  /\ UNCHANGED <<call, external, job, flags, excuses>>

(* A configuration that does not validate leaves everything as it is; so    *)
(* that call is no step.  A servo that is initialized refuses.              *)
MapAgain(m) ==
  /\ Calls(m)
  /\ master[m].initialized
  /\ master' = [master EXCEPT ![m].mapped = FALSE]
  /\ UNCHANGED <<call, external, job, flags, excuses>>

(* The master is held, by another Master or by this one since an attempt   *)
(* that failed after its request; the pointer is overwritten with null.    *)
MapRefused(m) ==
  /\ Calls(m)
  /\ ~master[m].initialized
  /\ requested # NoOne
  /\ master' = [master EXCEPT ![m].mapped = FALSE, ![m].handle = FALSE]
  /\ excuses' = [excuses EXCEPT ![m] = @ \cup (IF requested = m THEN {"mapped again"} ELSE {})]
  /\ UNCHANGED <<call, external, job, flags>>

(* The request succeeds, and the configuration of domain, slaves and PDOs   *)
(* does or does not.                                                        *)
MapJoints(m) ==
  /\ Calls(m)
  /\ ~master[m].initialized
  /\ requested = NoOne
  /\ requested' = m
  /\ \E configured \in BOOLEAN :
       master' = [master EXCEPT ![m].handle = TRUE, ![m].objects = "valid",
                                ![m].initialized = configured, ![m].mapped = configured]
  /\ UNCHANGED <<call, bus_active, drive, job, flags, excuses>>

-----------------------------------------------------------------------------
(* Starting.                                                               *)

Start(m) ==
  /\ Calls(m)
  /\ master[m].mapped
  /\ call' = [Idle EXCEPT !.by = m, !.at = "load"]
  /\ UNCHANGED <<master, external, job, flags, excuses>>

(* Kinematics and positions are read over the mailbox.  An activated servo  *)
(* goes on with the evidence it has.                                        *)
StartLoad(m) ==
  /\ At(m, "load")
  /\ Goto(IF master[m].activated THEN "arm" ELSE "gate")
  /\ UNCHANGED <<master, external, job, flags, excuses>>

(* verifyInterpolationPeriodGate: a drive with another period is given the  *)
(* bus's, whatever the motion policy, and read back.                        *)
StartGate(m) ==
  /\ At(m, "gate")
  /\ \E written \in BOOLEAN :
       /\ drive' = [drive EXCEPT !.period_ok = @ \/ written]
       /\ \E read \in BOOLEAN :
            call' = [call EXCEPT !.at = "activate", !.gate = read /\ drive'.period_ok]
  /\ UNCHANGED <<master, requested, bus_active, job, flags, excuses>>

StartRefused(m) ==
  /\ At(m, "activate")
  /\ master' = [master EXCEPT ![m].running = FALSE]
  /\ Return
  /\ UNCHANGED <<external, job, flags, excuses>>

(* The master is activated but shows no process data: activated_ stays     *)
(* false.                                                                  *)
StartHalfActivated(m) ==
  /\ At(m, "activate")
  /\ bus_active' = TRUE
  /\ master' = [master EXCEPT ![m].running = FALSE]
  /\ excuses' = [excuses EXCEPT ![m] = @ \cup {"half activated"}]
  /\ Return
  /\ UNCHANGED <<requested, drive, job, flags>>

StartActivated(m) ==
  /\ At(m, "activate")
  /\ bus_active' = TRUE
  /\ \E pdo_ok \in BOOLEAN :
       master' = [master EXCEPT ![m].activated = TRUE, ![m].evidence = call.gate /\ pdo_ok]
  /\ excuses' = [excuses EXCEPT ![m] =
                   @ \cup (IF master[m].objects = "freed" THEN {"started again"} ELSE {})]
  /\ Goto("arm")
  /\ UNCHANGED <<requested, drive, job, flags>>

StartArmSilent(m) ==
  /\ At(m, "arm")
  /\ master' = [master EXCEPT ![m].authorized = m \in Supervised /\ master[m].evidence]
  /\ flags' = flags
  /\ IF m \in Supervised /\ ~master[m].evidence THEN Close("failed") ELSE Goto("boot")
  /\ UNCHANGED <<external, job, excuses>>

StartArm(m) ==
  /\ At(m, "arm")
  /\ master' = [master EXCEPT ![m].authorized = m \in Supervised /\ master[m].evidence]
  /\ flags' = SafeRequested
  /\ IF m \in Supervised /\ ~master[m].evidence THEN Close("failed") ELSE Goto("boot")
  /\ UNCHANGED <<external, job, excuses>>

(* IghMasterRuntime::start: content with any Job that is running, and else  *)
(* a fresh runtime, whose thread may fail to become real-time.  When the    *)
(* memory cannot be locked, configure has given the permission already.     *)
StartJob(m) ==
  /\ At(m, "boot")
  /\ \/ /\ job # NoOne
        /\ Goto("wait")
        /\ UNCHANGED <<job, flags>>
     \/ /\ job = NoOne
        /\ flags' = [flags EXCEPT !.operational = FALSE, !.fault = FALSE,
                                  !.permitted = ~flags.safe]
        /\ \/ job' = m /\ Goto("wait")
           \/ UNCHANGED job /\ Close("no job")
     \/ /\ job = NoOne
        /\ flags' = [flags EXCEPT !.permitted = TRUE]
        /\ Close("no job")
        /\ UNCHANGED job
  /\ UNCHANGED <<master, external, excuses>>

(* All slaves reach OP, or the wait of 60 s ends without. *)
StartWait(m) ==
  /\ At(m, "wait")
  /\ \/ Goto("clear")
     \/ Close("failed")
  /\ UNCHANGED <<master, external, job, flags, excuses>>

StartClear(m) ==
  /\ At(m, "clear")
  /\ flags' = SafetyCleared
  /\ master' = [master EXCEPT ![m].window = 0]
  /\ Goto("errors")
  /\ UNCHANGED <<external, job, excuses>>

(* requestFaultReset for all axes, under the gate that safe-output stands   *)
(* and no fault does; the slaves may have left OP again.                    *)
StartErrors(m) ==
  /\ At(m, "errors")
  /\ \/ /\ ~drive.error
        /\ Goto("operational")
        /\ UNCHANGED master
     \/ /\ drive.error /\ flags.safe /\ ~flags.fault
        /\ master' = [master EXCEPT ![m].window = ResetCycles]
        /\ Goto("sleep")
     \/ /\ drive.error
        /\ Close("failed")
        /\ UNCHANGED master
  /\ UNCHANGED <<external, job, flags, excuses>>

StartSleepHalf(m) ==
  /\ At(m, "sleep")
  /\ call.slept >= SleepCycles \div 2
  /\ Goto("recheck")
  /\ UNCHANGED <<master, external, job, flags, excuses>>

StartSleep(m) ==
  /\ At(m, "sleep")
  /\ call.slept >= SleepCycles
  /\ Goto("recheck")
  /\ UNCHANGED <<master, external, job, flags, excuses>>

StartRecheck(m) ==
  /\ At(m, "recheck")
  /\ IF drive.error THEN Close("failed") ELSE Goto("operational")
  /\ UNCHANGED <<master, external, job, flags, excuses>>

StartOperational(m) ==
  /\ At(m, "operational")
  /\ flags' = [SafetyCleared EXCEPT !.operational = TRUE]
  /\ master' = [master EXCEPT ![m].window = 0, ![m].running = TRUE]
  /\ Return
  /\ UNCHANGED <<external, job, excuses>>

-----------------------------------------------------------------------------
(* Stopping.  A failed start, a shutdown and a destructor all go through    *)
(* EtherCATServo::deactivate: the Job is joined first, and then the master  *)
(* is deactivated, which frees the objects of the configuration.            *)

Shutdown(m) ==
  /\ Calls(m)
  /\ call' = [Idle EXCEPT !.by = m, !.at = "stop", !.why = "shutdown"]
  /\ UNCHANGED <<master, external, job, flags, excuses>>

Destroy(m) ==
  /\ Calls(m)
  /\ call' = [Idle EXCEPT !.by = m, !.at = "stop", !.why = "destroyed"]
  /\ UNCHANGED <<master, external, job, flags, excuses>>

(* IghMasterRuntime::stop ends the Job of the index, whoever started it. *)
StopOwn(m) ==
  /\ At(m, "stop")
  /\ job' = IF job = m /\ master[m].running THEN NoOne ELSE job
  /\ flags' = [flags EXCEPT !.operational = FALSE]
  /\ Goto("off")
  /\ UNCHANGED <<master, external, excuses>>

Stop(m) ==
  /\ At(m, "stop")
  /\ job' = NoOne
  /\ flags' = [flags EXCEPT !.operational = FALSE]
  /\ Goto("off")
  /\ excuses' = [o \in Masters |->
                   excuses[o] \cup (IF o = job /\ o # m THEN {"stopped by another"} ELSE {})]
  /\ UNCHANGED <<master, external>>

Deactivates(m) == master[m].handle /\ master[m].activated

ReleasesNever(m) == FALSE

(* The destructor gives the master back, and IgH deactivates it with that. *)
Releases(m) == call.why = "destroyed" /\ master[m].handle

(* What is left of a Master when the call that closes it returns.  When the *)
(* Job did not start, running_ stays as it was.                             *)
Closed(m) ==
  LET off == [master[m] EXCEPT !.activated = FALSE,
                               !.objects = IF Deactivates(m) THEN "freed" ELSE @]
  IN CASE call.why = "failed"    -> [off EXCEPT !.running = FALSE]
       [] call.why = "no job"    -> off
       [] call.why = "shutdown"  -> [off EXCEPT !.running = FALSE, !.mapped = FALSE]
       [] call.why = "destroyed" -> [NewMaster EXCEPT !.life = "destroyed"]

DeactivateFlagOnly(m) ==
  /\ At(m, "off")
  /\ master' = [master EXCEPT ![m] = Closed(m)]
  /\ bus_active' = (bus_active /\ ~Releases(m))
  /\ requested' = IF Releases(m) THEN NoOne ELSE requested
  /\ Return
  /\ UNCHANGED <<drive, job, flags, excuses>>

Deactivate(m) ==
  /\ At(m, "off")
  /\ master' = [master EXCEPT ![m] = Closed(m)]
  /\ bus_active' = (bus_active /\ ~Deactivates(m) /\ ~Releases(m))
  /\ requested' = IF Releases(m) THEN NoOne ELSE requested
  /\ Return
  /\ UNCHANGED <<drive, job, flags, excuses>>

-----------------------------------------------------------------------------
(* The safety calls, and the Job.                                          *)

SafetyReset(m) ==
  /\ Calls(m)
  /\ flags' = SafetyCleared
  /\ master' = [master EXCEPT ![m].window = 0]
  /\ UNCHANGED <<call, external, job, excuses>>

RequestSafeOutput(m) ==
  /\ Calls(m)
  /\ flags' = SafeRequested
  /\ UNCHANGED <<master, call, external, job, excuses>>

ReleaseSafeOutput(m) ==
  /\ Calls(m)
  /\ master[m].authorized
  /\ ~flags.fault /\ flags.permitted
  /\ flags' = [flags EXCEPT !.safe = FALSE]
  /\ UNCHANGED <<master, call, external, job, excuses>>

RequestFaultReset(m) ==
  /\ Calls(m)
  /\ master[m].running /\ master[m].activated
  /\ job # NoOne /\ flags.safe /\ ~flags.fault
  /\ master' = [master EXCEPT ![m].window = ResetCycles]
  /\ UNCHANGED <<call, external, job, flags, excuses>>

(* One cycle of the Job: in safe-output it counts the window down and may   *)
(* clear the drive's error; it may latch a fault once operational, and may  *)
(* complete the dwell.                                                      *)
JobCycle ==
  /\ job # NoOne
  /\ LET resets == flags.safe /\ master[job].window > 0
     IN /\ master' = IF resets THEN [master EXCEPT ![job].window = @ - 1] ELSE master
        /\ \/ UNCHANGED drive
           \/ resets /\ drive' = [drive EXCEPT !.error = FALSE]
  /\ \/ UNCHANGED flags
     \/ ~flags.fault /\ flags' = [flags EXCEPT !.permitted = TRUE]
     \/ /\ flags.operational
        /\ flags' = [flags EXCEPT !.safe = TRUE, !.fault = TRUE, !.permitted = FALSE]
  /\ call' = IF call.at = "sleep" /\ call.slept < SleepCycles
             THEN [call EXCEPT !.slept = @ + 1] ELSE call
  /\ UNCHANGED <<requested, bus_active, job, excuses>>

DriveFails ==
  /\ ~drive.error
  /\ drive' = [drive EXCEPT !.error = TRUE]
  /\ UNCHANGED <<master, call, requested, bus_active, job, flags, excuses>>

-----------------------------------------------------------------------------
StartSteps(m) ==
  \/ StartLoad(m) \/ StartGate(m)
  \/ StartRefused(m) \/ StartHalfActivated(m) \/ StartActivated(m)
  \/ StartArm(m) \/ StartJob(m) \/ StartWait(m) \/ StartClear(m) \/ StartErrors(m)
  \/ StartSleep(m) \/ StartRecheck(m) \/ StartOperational(m)

Life(m) ==
  \/ Construct(m) \/ MapAgain(m) \/ MapRefused(m) \/ MapJoints(m)
  \/ Start(m) \/ StartSteps(m)
  \/ Shutdown(m) \/ Destroy(m) \/ Stop(m) \/ Deactivate(m)

SafetyCalls(m) ==
  SafetyReset(m) \/ RequestSafeOutput(m) \/ ReleaseSafeOutput(m) \/ RequestFaultReset(m)

Next ==
  \/ \E m \in Masters : Life(m) \/ SafetyCalls(m)
  \/ JobCycle
  \/ DriveFails

Spec == Init /\ [][Next]_vars

-----------------------------------------------------------------------------
(* Properties.                                                             *)

Points ==
  {"idle", "load", "gate", "activate", "arm", "boot", "wait", "clear", "errors",
   "sleep", "recheck", "operational", "stop", "off"}

Reasons == {"none", "failed", "no job", "shutdown", "destroyed"}

Excuses == {"mapped again", "half activated", "started again", "stopped by another"}

MasterStates ==
  [life : {"none", "alive", "destroyed"}, mapped : BOOLEAN, running : BOOLEAN,
   evidence : BOOLEAN, authorized : BOOLEAN, initialized : BOOLEAN,
   activated : BOOLEAN, handle : BOOLEAN, objects : {"none", "valid", "freed"},
   window : 0 .. ResetCycles]

CallStates ==
  [by : Masters \cup {NoOne}, at : Points, why : Reasons, gate : BOOLEAN,
   slept : 0 .. SleepCycles]

FlagStates ==
  [safe : BOOLEAN, fault : BOOLEAN, operational : BOOLEAN, permitted : BOOLEAN]

TypeOK ==
  /\ master \in [Masters -> MasterStates]
  /\ call \in CallStates
  /\ requested \in Masters \cup {NoOne}
  /\ bus_active \in BOOLEAN
  /\ job \in Masters \cup {NoOne}
  /\ flags \in FlagStates
  /\ drive \in [error : BOOLEAN, period_ok : BOOLEAN]
  /\ excuses \in [Masters -> SUBSET Excuses]

(* While a Job runs, its Master exists and holds the IgH master, activated,  *)
(* through every failed start, shutdown and destruction of any Master; and   *)
(* the domains it works on are those of the present configuration, unless    *)
(* the Master was started again after a start that failed had freed them.    *)
JobOnLiveBus ==
  job # NoOne =>
    /\ master[job].life = "alive" /\ master[job].activated
    /\ requested = job /\ bus_active
    /\ master[job].objects = "valid" \/ "started again" \in excuses[job]

(* The outputs are those of motion only for a Master that is authorized for  *)
(* it, although the flags outlive the Master that released them and a Master *)
(* that was shut down can still release.                                     *)
DrivesAuthorized ==
  job # NoOne /\ ~flags.safe => master[job].authorized

(* No transfer over the mailbox on an active master without its Job: the     *)
(* comment in Master::start says that it would hang.  Two ways lead there    *)
(* all the same: an activation that failed half way, and another Master of   *)
(* the index whose end stops this one's Job.                                 *)
MailboxServed ==
  \A m \in Masters :
    call.by = m /\ call.at \in {"load", "gate", "errors", "recheck"}
      /\ master[m].handle /\ bus_active
    => job = m \/ excuses[m] \cap {"half activated", "stopped by another"} # {}

(* A Master that is gone has given the IgH master back, unless a second      *)
(* map_joints after a failed one had overwritten its handle.                 *)
BusReturned ==
  \A m \in Masters :
    requested = m /\ master[m].life = "destroyed" => "mapped again" \in excuses[m]

(* When start() looks again at the error codes, the Fault Reset words it     *)
(* asked for have all been written: the window is not cut short by its own   *)
(* safety reset.                                                             *)
WindowServed ==
  \A m \in Masters :
    At(m, "recheck") => master[m].window = 0
=============================================================================
