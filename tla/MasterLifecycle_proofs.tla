------------------------ MODULE MasterLifecycle_proofs ------------------------
(* Proofs about MasterLifecycle, for every set of Masters, every choice of   *)
(* the supervised ones, and every window and sleep.                          *)
EXTENDS MasterLifecycle, TLAPS

(* The points of start() that an activated servo has reached; from `wait` on *)
(* the Job runs.                                                             *)
Running == {"wait", "clear", "errors", "sleep", "recheck", "operational"}
Activated == Running \cup {"arm", "boot"}
BeforeSleep == {"load", "gate", "activate", "arm", "boot", "wait", "clear", "errors"}
Closing == {"stop", "off"}

(* Only an existing Master is in a call, and only a mapped one in start().   *)
CallOwned ==
  /\ call.by = NoOne <=> call.at = "idle"
  /\ \A m \in Masters : call.by = m => master[m].life = "alive"
  /\ \A m \in Masters : call.by = m /\ call.at \in BeforeSleep => master[m].mapped
  /\ \A m \in Masters : call.by = m /\ call.at \in Activated => master[m].activated
  /\ \A m \in Masters : call.by = m /\ call.at \in Closing => call.why # "none"

(* What each servo believes agrees with IgH: a handle is the one request,    *)
(* and each later stage of a servo stands on the earlier ones.               *)
HandlesTrue ==
  \A m \in Masters :
    /\ master[m].life # "alive" =>
         ~master[m].handle /\ ~master[m].initialized /\ ~master[m].mapped
    /\ master[m].handle => requested = m /\ master[m].objects # "none"
    /\ master[m].mapped => master[m].initialized
    /\ master[m].initialized => master[m].handle
    /\ master[m].activated => master[m].initialized /\ bus_active
    /\ master[m].authorized => master[m].initialized
    /\ requested = m => master[m].handle \/ "mapped again" \in excuses[m]

(* An activated servo works on the objects of its configuration and has its  *)
(* Job, outside the calls that bring the two about or end them; and IgH is   *)
(* active for no other, except after an activation that failed half way.     *)
BusServed ==
  /\ bus_active => requested # NoOne
  /\ \A m \in Masters :
       /\ master[m].activated =>
            master[m].objects = "valid" \/ "started again" \in excuses[m]
       /\ master[m].activated =>
            \/ job = m
            \/ "stopped by another" \in excuses[m]
            \/ call.by = m /\ call.at \in {"arm", "boot"} \cup Closing
       /\ master[m].handle /\ bus_active /\ ~master[m].activated =>
            "half activated" \in excuses[m]

(* The Job belongs to an activated servo, and to the caller once start() has *)
(* created it; it has been joined before the servo is deactivated.           *)
JobOwned ==
  /\ job # NoOne => master[job].activated
  /\ call.at \in Running => job = call.by
  /\ call.at = "off" => job = NoOne

(* Safe-output is left only by a Master with authorization, never during a   *)
(* start().                                                                  *)
SafeWhileStarting ==
  /\ call.at \in {"boot"} \cup Running => flags.safe
  /\ job # NoOne /\ ~flags.safe => master[job].authorized

LifeInv ==
  /\ TypeOK
  /\ CallOwned
  /\ HandlesTrue
  /\ BusServed
  /\ JobOwned
  /\ SafeWhileStarting

(* The pace of start()'s sleep against the Fault Reset window: a Job cycle    *)
(* takes one from the window, and of the sleep no more than one.             *)
Paced ==
  /\ call.at \in BeforeSleep \cup {"idle"} => call.slept = 0
  /\ \A m \in Masters :
       /\ At(m, "sleep") => \/ master[m].window = 0
                            \/ master[m].window + call.slept <= ResetCycles
       /\ At(m, "recheck") => master[m].window = 0

(* The steps that leave alone what the servos believe and what IgH holds;    *)
(* some of them make a call move, set the flags, the window or `running`.    *)
QuietSteps(m) ==
  \/ Start(m) \/ StartLoad(m) \/ StartGate(m) \/ StartRefused(m)
  \/ StartArm(m) \/ StartJob(m) \/ StartWait(m) \/ StartClear(m) \/ StartErrors(m)
  \/ StartSleep(m) \/ StartRecheck(m) \/ StartOperational(m)
  \/ Shutdown(m) \/ Destroy(m) \/ Stop(m) \/ SafetyCalls(m)

(* What a step leaves alone: the stages of every servo; the authorization of *)
(* every Master; every Master but one.                                       *)
ServosKept ==
  \A o \in Masters :
    /\ master'[o].life = master[o].life /\ master'[o].mapped = master[o].mapped
    /\ master'[o].initialized = master[o].initialized
    /\ master'[o].activated = master[o].activated
    /\ master'[o].handle = master[o].handle /\ master'[o].objects = master[o].objects

AuthorityKept ==
  \A o \in Masters : master'[o].authorized = master[o].authorized

OthersKept(m) ==
  \A o \in Masters \ {m} : master'[o] = master[o]

(* A step outside the two calls that bring the Job about and end it finds it *)
(* and leaves it as it is.                                                   *)
OutsideSteps(m) ==
  \/ Construct(m) \/ MapAgain(m) \/ MapRefused(m) \/ MapJoints(m)
  \/ Start(m) \/ StartLoad(m) \/ StartGate(m)
  \/ StartRefused(m) \/ StartHalfActivated(m) \/ StartActivated(m)
  \/ Shutdown(m) \/ Destroy(m) \/ SafetyCalls(m)

(* The steps of start() while the Job runs. *)
RunningSteps(m) ==
  \/ StartWait(m) \/ StartClear(m) \/ StartErrors(m)
  \/ StartSleep(m) \/ StartRecheck(m) \/ StartOperational(m)

-----------------------------------------------------------------------------
(* Types. *)

(* Where the objects and the calls start, and the points they name.         *)
LEMMA ValuesTyped ==
  /\ NewMaster \in MasterStates /\ Idle \in CallStates
  /\ {"load", "gate", "activate", "stop", "off"} \cup Activated \subseteq Points
  /\ {"failed", "no job", "shutdown", "destroyed"} \subseteq Reasons
<1>1. NewMaster \in MasterStates
  BY LifecycleAssumption DEF NewMaster, MasterStates
<1>2. Idle \in CallStates
  BY LifecycleAssumption DEF Idle, CallStates, Points, Reasons
<1>3. {"load", "gate", "activate", "stop", "off"} \cup Activated \subseteq Points
  BY DEF Points, Activated, Running
<1>4. {"failed", "no job", "shutdown", "destroyed"} \subseteq Reasons
  BY DEF Reasons
<1> QED BY <1>1, <1>2, <1>3, <1>4

(* A Master's record keeps its type when one field of it is set. *)
LEMMA FieldsTyped ==
  ASSUME NEW r \in MasterStates, NEW b \in BOOLEAN
  PROVE  /\ [r EXCEPT !.mapped = b] \in MasterStates
         /\ [r EXCEPT !.running = b] \in MasterStates
         /\ [r EXCEPT !.evidence = b] \in MasterStates
         /\ [r EXCEPT !.authorized = b] \in MasterStates
         /\ [r EXCEPT !.initialized = b] \in MasterStates
         /\ [r EXCEPT !.activated = b] \in MasterStates
         /\ [r EXCEPT !.handle = b] \in MasterStates
  BY DEF MasterStates

(* The same for the fields that are not Boolean.                            *)
LEMMA OtherFieldsTyped ==
  ASSUME NEW r \in MasterStates
  PROVE  /\ \A o \in {"none", "valid", "freed"} : [r EXCEPT !.objects = o] \in MasterStates
         /\ \A l \in {"none", "alive", "destroyed"} : [r EXCEPT !.life = l] \in MasterStates
         /\ \A n \in 0 .. ResetCycles : [r EXCEPT !.window = n] \in MasterStates
         /\ [r EXCEPT !.window = 0] \in MasterStates
         /\ [r EXCEPT !.window = ResetCycles] \in MasterStates
<1>1. 0 \in 0 .. ResetCycles /\ ResetCycles \in 0 .. ResetCycles
  BY LifecycleAssumption
<1> QED BY <1>1 DEF MasterStates

(* One Master's record is replaced by another.                              *)
LEMMA Stored ==
  ASSUME master \in [Masters -> MasterStates], NEW m \in Masters, NEW r \in MasterStates,
         master' = [master EXCEPT ![m] = r]
  PROVE  master' \in [Masters -> MasterStates]
  OBVIOUS

(* What Deactivate leaves of a Master is a Master's record again.           *)
LEMMA ClosedTyped ==
  ASSUME NEW m \in Masters, master[m] \in MasterStates, call.why \in Reasons \ {"none"}
  PROVE  Closed(m) \in MasterStates
<1> DEFINE freed == IF Deactivates(m) THEN "freed" ELSE master[m].objects
           down == [master[m] EXCEPT !.activated = FALSE]
           off == [down EXCEPT !.objects = freed]
           stopped == [off EXCEPT !.running = FALSE]
<1>1. freed \in {"none", "valid", "freed"}
  BY DEF MasterStates
<1>2. down \in MasterStates
  BY FieldsTyped
<1>3. off \in MasterStates
  BY <1>1, <1>2, OtherFieldsTyped
<1>4. stopped \in MasterStates
  BY <1>3, FieldsTyped
<1>5. [stopped EXCEPT !.mapped = FALSE] \in MasterStates
  BY <1>4, FieldsTyped
<1>6. [NewMaster EXCEPT !.life = "destroyed"] \in MasterStates
  BY ValuesTyped, OtherFieldsTyped
<1>7. down.objects = master[m].objects
  BY DEF MasterStates
<1>8. off = [master[m] EXCEPT !.activated = FALSE,
                              !.objects = IF Deactivates(m) THEN "freed" ELSE @]
  BY <1>7
<1>9. CASE call.why = "failed"
  BY <1>9, <1>8, <1>4 DEF Closed
<1>10. CASE call.why = "no job"
  BY <1>10, <1>8, <1>3 DEF Closed
<1>11. CASE call.why = "shutdown"
  BY <1>11, <1>8, <1>5 DEF Closed
<1>12. CASE call.why = "destroyed"
  BY <1>12, <1>6 DEF Closed
<1> QED BY <1>9, <1>10, <1>11, <1>12 DEF Reasons

(* Every step keeps the type of the Masters. *)
LEMMA MastersTyped ==
  ASSUME master \in [Masters -> MasterStates], call \in CallStates,
    job \in Masters \cup {NoOne},
         CallOwned, [Next]_vars
  PROVE  master' \in [Masters -> MasterStates]
<1>1. CASE UNCHANGED vars
  BY <1>1 DEF vars
<1>2. ASSUME NEW m \in Masters,
             Start(m) \/ StartLoad(m) \/ StartGate(m) \/ StartJob(m) \/ StartWait(m)
               \/ StartSleep(m)
               \/ StartRecheck(m) \/ Shutdown(m) \/ Destroy(m) \/ Stop(m)
                 \/ RequestSafeOutput(m) \/ ReleaseSafeOutput(m)
      PROVE  master' \in [Masters -> MasterStates]
  BY <1>2 DEF Start, StartLoad, StartGate, StartJob, StartWait, StartSleep, StartRecheck,
    Shutdown, Destroy, Stop, RequestSafeOutput, ReleaseSafeOutput
<1>3. ASSUME NEW m \in Masters, Construct(m) PROVE master' \in [Masters -> MasterStates]
  <2>1. master[m] \in MasterStates
    OBVIOUS
  <2>2. [master[m] EXCEPT !.life = "alive"] \in MasterStates
    BY <2>1, FieldsTyped, OtherFieldsTyped
  <2>3. master' = [master EXCEPT ![m] = [master[m] EXCEPT !.life = "alive"]]
    BY <1>3 DEF Construct
  <2> QED BY <2>2, <2>3, Stored
<1>4. ASSUME NEW m \in Masters, MapAgain(m) PROVE master' \in [Masters -> MasterStates]
  <2>1. master[m] \in MasterStates
    OBVIOUS
  <2>2. [master[m] EXCEPT !.mapped = FALSE] \in MasterStates
    BY <2>1, FieldsTyped
  <2>3. master' = [master EXCEPT ![m] = [master[m] EXCEPT !.mapped = FALSE]]
    BY <1>4 DEF MapAgain
  <2> QED BY <2>2, <2>3, Stored
<1>5. ASSUME NEW m \in Masters, MapRefused(m) PROVE master' \in [Masters -> MasterStates]
  <2>1. master[m] \in MasterStates
    OBVIOUS
  <2>2. [master[m] EXCEPT !.mapped = FALSE] \in MasterStates
    BY <2>1, FieldsTyped
  <2>3. [master[m] EXCEPT !.mapped = FALSE, !.handle = FALSE] \in MasterStates
    BY <2>2, FieldsTyped
  <2>4. master' = [master EXCEPT ![m] = [master[m] EXCEPT !.mapped = FALSE,
                                                          !.handle = FALSE]]
    BY <1>5 DEF MapRefused
  <2> QED BY <2>3, <2>4, Stored
<1>6. ASSUME NEW m \in Masters, MapJoints(m) PROVE master' \in [Masters -> MasterStates]
  <2> PICK configured \in BOOLEAN :
        master' = [master EXCEPT ![m].handle = TRUE, ![m].objects = "valid",
                                 ![m].initialized = configured, ![m].mapped = configured]
    BY <1>6 DEF MapJoints
  <2>1. master[m] \in MasterStates
    OBVIOUS
  <2>2. [master[m] EXCEPT !.handle = TRUE] \in MasterStates
    BY <2>1, FieldsTyped
  <2>3. [master[m] EXCEPT !.handle = TRUE, !.objects = "valid"] \in MasterStates
    BY <2>2, FieldsTyped, OtherFieldsTyped
  <2>4. [master[m] EXCEPT !.handle = TRUE, !.objects = "valid",
                          !.initialized = configured] \in MasterStates
    BY <2>3, FieldsTyped
  <2>5. [master[m] EXCEPT !.handle = TRUE, !.objects = "valid",
                          !.initialized = configured,
                          !.mapped = configured] \in MasterStates
    BY <2>4, FieldsTyped
  <2>6. master' = [master EXCEPT ![m] = [master[m] EXCEPT !.handle = TRUE,
                                                          !.objects = "valid",
                                                          !.initialized = configured,
                                                          !.mapped = configured]]
    BY <1>6 DEF MapJoints
  <2> QED BY <2>5, <2>6, Stored
<1>7. ASSUME NEW m \in Masters, StartRefused(m) PROVE master' \in [Masters -> MasterStates]
  <2>1. master[m] \in MasterStates
    OBVIOUS
  <2>2. [master[m] EXCEPT !.running = FALSE] \in MasterStates
    BY <2>1, FieldsTyped
  <2>3. master' = [master EXCEPT ![m] = [master[m] EXCEPT !.running = FALSE]]
    BY <1>7 DEF StartRefused
  <2> QED BY <2>2, <2>3, Stored
<1>8. ASSUME NEW m \in Masters,
             StartHalfActivated(m)
      PROVE  master' \in [Masters -> MasterStates]
  <2>1. master[m] \in MasterStates
    OBVIOUS
  <2>2. [master[m] EXCEPT !.running = FALSE] \in MasterStates
    BY <2>1, FieldsTyped
  <2>3. master' = [master EXCEPT ![m] = [master[m] EXCEPT !.running = FALSE]]
    BY <1>8 DEF StartHalfActivated
  <2> QED BY <2>2, <2>3, Stored
<1>9. ASSUME NEW m \in Masters,
             StartActivated(m)
      PROVE  master' \in [Masters -> MasterStates]
  <2>0. call.gate \in BOOLEAN
    BY DEF CallStates
  <2> PICK pdo_ok \in BOOLEAN :
        master' = [master EXCEPT ![m].activated = TRUE, ![m].evidence = call.gate /\ pdo_ok]
    BY <1>9 DEF StartActivated
  <2>1. master[m] \in MasterStates
    OBVIOUS
  <2>2. [master[m] EXCEPT !.activated = TRUE] \in MasterStates
    BY <2>1, FieldsTyped
  <2>3. [master[m] EXCEPT !.activated = TRUE,
                          !.evidence = (call.gate /\ pdo_ok)] \in MasterStates
    BY <2>2, FieldsTyped, <2>0
  <2>4. master' = [master EXCEPT ![m] = [master[m] EXCEPT !.activated = TRUE,
                                                          !.evidence = (call.gate /\ pdo_ok)]]
    BY <1>9 DEF StartActivated
  <2> QED BY <2>3, <2>4, Stored
<1>10. ASSUME NEW m \in Masters, StartArm(m) PROVE master' \in [Masters -> MasterStates]
  <2>0. (m \in Supervised /\ master[m].evidence) \in BOOLEAN
    BY DEF MasterStates
  <2>1. master[m] \in MasterStates
    OBVIOUS
  <2>2. [master[m] EXCEPT !.authorized = (m \in Supervised /\ master[m].evidence)] \in MasterStates
    BY <2>1, FieldsTyped, <2>0
  <2>3. master' = [master EXCEPT ![m] = [master[m] EXCEPT !.authorized = (m \in Supervised /\ master[m].evidence)]]
    BY <1>10 DEF StartArm
  <2> QED BY <2>2, <2>3, Stored
<1>11. ASSUME NEW m \in Masters, StartClear(m) PROVE master' \in [Masters -> MasterStates]
  <2>1. master[m] \in MasterStates
    OBVIOUS
  <2>2. [master[m] EXCEPT !.window = 0] \in MasterStates
    BY <2>1, FieldsTyped, OtherFieldsTyped
  <2>3. master' = [master EXCEPT ![m] = [master[m] EXCEPT !.window = 0]]
    BY <1>11 DEF StartClear
  <2> QED BY <2>2, <2>3, Stored
<1>12. ASSUME NEW m \in Masters, StartErrors(m) PROVE master' \in [Masters -> MasterStates]
  <2>1. master[m] \in MasterStates
    OBVIOUS
  <2>2. [master[m] EXCEPT !.window = ResetCycles] \in MasterStates
    BY <2>1, OtherFieldsTyped
  <2>3. master' \in {master,
    [master EXCEPT ![m] = [master[m] EXCEPT !.window = ResetCycles]]}
    BY <1>12 DEF StartErrors
  <2> QED BY <2>2, <2>3, Stored
<1>13. ASSUME NEW m \in Masters,
             StartOperational(m)
      PROVE  master' \in [Masters -> MasterStates]
  <2>1. master[m] \in MasterStates
    OBVIOUS
  <2>2. [master[m] EXCEPT !.window = 0] \in MasterStates
    BY <2>1, FieldsTyped, OtherFieldsTyped
  <2>3. [master[m] EXCEPT !.window = 0, !.running = TRUE] \in MasterStates
    BY <2>2, FieldsTyped
  <2>4. master' = [master EXCEPT ![m] = [master[m] EXCEPT !.window = 0, !.running = TRUE]]
    BY <1>13 DEF StartOperational
  <2> QED BY <2>3, <2>4, Stored
<1>14. ASSUME NEW m \in Masters, Deactivate(m) PROVE master' \in [Masters -> MasterStates]
  <2>1. Closed(m) \in MasterStates
    BY <1>14, ClosedTyped DEF Deactivate, At, CallOwned, Closing, CallStates
  <2> QED BY <1>14, <2>1, Stored DEF Deactivate
<1>15. ASSUME NEW m \in Masters, SafetyReset(m) PROVE master' \in [Masters -> MasterStates]
  <2>1. master[m] \in MasterStates
    OBVIOUS
  <2>2. [master[m] EXCEPT !.window = 0] \in MasterStates
    BY <2>1, FieldsTyped, OtherFieldsTyped
  <2>3. master' = [master EXCEPT ![m] = [master[m] EXCEPT !.window = 0]]
    BY <1>15 DEF SafetyReset
  <2> QED BY <2>2, <2>3, Stored
<1>16. ASSUME NEW m \in Masters,
             RequestFaultReset(m)
      PROVE  master' \in [Masters -> MasterStates]
  <2>1. master[m] \in MasterStates
    OBVIOUS
  <2>2. [master[m] EXCEPT !.window = ResetCycles] \in MasterStates
    BY <2>1, FieldsTyped, OtherFieldsTyped
  <2>3. master' = [master EXCEPT ![m] = [master[m] EXCEPT !.window = ResetCycles]]
    BY <1>16 DEF RequestFaultReset
  <2> QED BY <2>2, <2>3, Stored
<1>17. CASE JobCycle
  <2>1. job \in Masters
    BY <1>17 DEF JobCycle
  <2>2. CASE flags.safe /\ master[job].window > 0
    <3>1. master[job] \in MasterStates
      BY <2>1
    <3>2. master[job].window - 1 \in 0 .. ResetCycles
      BY <2>2, <3>1, LifecycleAssumption DEF MasterStates
    <3>3. [master[job] EXCEPT !.window = master[job].window - 1] \in MasterStates
      BY <3>1, <3>2, OtherFieldsTyped
    <3>4. master' = [master EXCEPT ![job] = [master[job] EXCEPT !.window = master[job].window - 1]]
      BY <1>17, <2>2 DEF JobCycle
    <3> QED BY <2>1, <3>3, <3>4, Stored
  <2>3. CASE ~(flags.safe /\ master[job].window > 0)
    BY <1>17, <2>3 DEF JobCycle
  <2> QED BY <2>2, <2>3
<1>18. CASE DriveFails
  BY <1>18 DEF DriveFails
<1> QED
  BY <1>1, <1>2, <1>3, <1>4, <1>5, <1>6, <1>7, <1>8, <1>9, <1>10, <1>11, <1>12, <1>13,
    <1>14, <1>15, <1>16, <1>17, <1>18
  DEF Next, Life, StartSteps, SafetyCalls

(* A call that moves or is closed stays a call.                             *)
LEMMA Moves ==
  ASSUME call \in CallStates
  PROVE  /\ \A p \in Points : Goto(p) => call' \in CallStates
         /\ \A w \in Reasons : Close(w) => call' \in CallStates
<1> USE ValuesTyped DEF CallStates
<1>1. ASSUME NEW p \in Points, Goto(p) PROVE call' \in CallStates
  BY <1>1 DEF Goto
<1>2. ASSUME NEW w \in Reasons, Close(w) PROVE call' \in CallStates
  BY <1>2 DEF Close
<1> QED BY <1>1, <1>2

(* Every step keeps the type of the call.                                   *)
LEMMA CallTyped ==
  ASSUME call \in CallStates, [Next]_vars
  PROVE  call' \in CallStates
<1>1. ASSUME NEW m \in Masters,
             Construct(m) \/ MapAgain(m) \/ MapRefused(m) \/ MapJoints(m)
               \/ SafetyReset(m) \/ RequestSafeOutput(m) \/ ReleaseSafeOutput(m)
                 \/ RequestFaultReset(m)
      PROVE  call' \in CallStates
  BY <1>1 DEF Construct, MapAgain, MapRefused, MapJoints, SafetyReset, RequestSafeOutput,
    ReleaseSafeOutput, RequestFaultReset
<1>2. ASSUME NEW m \in Masters,
             StartLoad(m) \/ StartActivated(m) \/ StartArm(m) \/ StartJob(m) \/ StartWait(m)
               \/ StartClear(m) \/ StartErrors(m) \/ StartSleep(m) \/ StartRecheck(m)
                 \/ Stop(m)
      PROVE  call' \in CallStates
  BY <1>2, Moves, ValuesTyped DEF StartLoad, StartActivated, StartArm, StartJob,
    StartWait, StartClear, StartErrors, StartSleep, StartRecheck, Stop, Activated, Running
<1>3. ASSUME NEW m \in Masters,
             StartRefused(m) \/ StartHalfActivated(m) \/ StartOperational(m)
               \/ Deactivate(m)
      PROVE  call' \in CallStates
  BY <1>3, ValuesTyped DEF StartRefused, StartHalfActivated, StartOperational,
    Deactivate, Return
<1>4. ASSUME NEW m \in Masters, Start(m) PROVE call' \in CallStates
  <2>1. [Idle EXCEPT !.by = m, !.at = "load"] \in CallStates
    BY ValuesTyped DEF CallStates
  <2> QED BY <1>4, <2>1 DEF Start
<1>5. ASSUME NEW m \in Masters, Shutdown(m) \/ Destroy(m) PROVE call' \in CallStates
  <2>1. ASSUME NEW why \in Reasons
        PROVE  [Idle EXCEPT !.by = m, !.at = "stop", !.why = why] \in CallStates
    BY ValuesTyped DEF CallStates
  <2> QED BY <1>5, <2>1, ValuesTyped DEF Shutdown, Destroy
<1>6. ASSUME NEW m \in Masters, StartGate(m) PROVE call' \in CallStates
  <2>1. PICK gate \in BOOLEAN : call' = [call EXCEPT !.at = "activate", !.gate = gate]
    <3>1. PICK written \in BOOLEAN, read \in BOOLEAN :
            call' = [call EXCEPT !.at = "activate", !.gate = read /\ drive'.period_ok]
      BY <1>6 DEF StartGate
    <3>2. (read /\ drive'.period_ok) \in BOOLEAN
      OBVIOUS
    <3> QED BY <3>1, <3>2
  <2>2. [call EXCEPT !.at = "activate", !.gate = gate] \in CallStates
    BY ValuesTyped DEF CallStates
  <2> QED BY <2>1, <2>2
<1>7. CASE JobCycle
  <2>1. ASSUME call.slept < SleepCycles PROVE [call EXCEPT !.slept = call.slept + 1] \in CallStates
    <3>1. call.slept + 1 \in 0 .. SleepCycles
      BY <2>1, LifecycleAssumption DEF CallStates
    <3>2. ASSUME NEW n \in 0 .. SleepCycles PROVE [call EXCEPT !.slept = n] \in CallStates
      BY DEF CallStates
    <3> QED BY <3>1, <3>2
  <2>2. \/ call' = call
        \/ call.slept < SleepCycles /\ call' = [call EXCEPT !.slept = call.slept + 1]
    BY <1>7 DEF JobCycle
  <2> QED BY <2>1, <2>2
<1>8. CASE DriveFails
  BY <1>8 DEF DriveFails
<1>9. CASE UNCHANGED vars
  BY <1>9 DEF vars
<1> QED
  BY <1>1, <1>2, <1>3, <1>4, <1>5, <1>6, <1>7, <1>8, <1>9
  DEF Next, Life, StartSteps, SafetyCalls

(* Every step keeps the type of the flags.                                  *)
LEMMA FlagsTyped ==
  ASSUME flags \in FlagStates, [Next]_vars
  PROVE  flags' \in FlagStates
<1> USE DEF FlagStates, SafetyCleared, SafeRequested
<1>1. ASSUME NEW m \in Masters,
             Construct(m) \/ MapAgain(m) \/ MapRefused(m) \/ MapJoints(m)
             \/ Start(m) \/ StartLoad(m) \/ StartGate(m) \/ StartRefused(m)
             \/ StartHalfActivated(m) \/ StartActivated(m) \/ StartWait(m) \/ StartErrors(m)
             \/ StartSleep(m) \/ StartRecheck(m) \/ Shutdown(m) \/ Destroy(m)
             \/ Deactivate(m) \/ RequestFaultReset(m)
      PROVE  flags' \in FlagStates
  BY <1>1 DEF Construct, MapAgain, MapRefused, MapJoints, Start, StartLoad, StartGate,
    StartRefused, StartHalfActivated, StartActivated, StartWait, StartErrors, StartSleep,
      StartRecheck, Shutdown, Destroy, Deactivate, RequestFaultReset
<1>2. ASSUME NEW m \in Masters, StartArm(m) PROVE flags' \in FlagStates
  BY <1>2 DEF StartArm
<1>3. ASSUME NEW m \in Masters, StartJob(m) PROVE flags' \in FlagStates
  BY <1>3 DEF StartJob
<1>4. ASSUME NEW m \in Masters, StartClear(m) PROVE flags' \in FlagStates
  BY <1>4 DEF StartClear
<1>5. ASSUME NEW m \in Masters, StartOperational(m) PROVE flags' \in FlagStates
  BY <1>5 DEF StartOperational
<1>6. ASSUME NEW m \in Masters, Stop(m) PROVE flags' \in FlagStates
  BY <1>6 DEF Stop
<1>7. ASSUME NEW m \in Masters, SafetyReset(m) PROVE flags' \in FlagStates
  BY <1>7 DEF SafetyReset
<1>8. ASSUME NEW m \in Masters, RequestSafeOutput(m) PROVE flags' \in FlagStates
  BY <1>8 DEF RequestSafeOutput
<1>9. ASSUME NEW m \in Masters, ReleaseSafeOutput(m) PROVE flags' \in FlagStates
  BY <1>9 DEF ReleaseSafeOutput
<1>10. CASE JobCycle
  BY <1>10 DEF JobCycle
<1>11. CASE DriveFails \/ UNCHANGED vars
  BY <1>11 DEF DriveFails, vars
<1> QED
  BY <1>1, <1>2, <1>3, <1>4, <1>5, <1>6, <1>7, <1>8, <1>9, <1>10, <1>11
  DEF Next, Life, StartSteps, SafetyCalls

(* Every step keeps the types of the other variables.                       *)
LEMMA RestTyped ==
  ASSUME TypeOK, [Next]_vars
  PROVE  /\ requested' \in Masters \cup {NoOne} /\ bus_active' \in BOOLEAN
         /\ job' \in Masters \cup {NoOne}
         /\ drive' \in [error : BOOLEAN, period_ok : BOOLEAN]
         /\ excuses' \in [Masters -> SUBSET Excuses]
<1> DEFINE Rest == /\ requested \in Masters \cup {NoOne} /\ bus_active \in BOOLEAN
                   /\ job \in Masters \cup {NoOne}
                   /\ drive \in [error : BOOLEAN, period_ok : BOOLEAN]
                   /\ excuses \in [Masters -> SUBSET Excuses]
<1> SUFFICES Rest'
  OBVIOUS
<1> USE DEF TypeOK, external
<1>1. ASSUME NEW m \in Masters,
             Construct(m) \/ MapAgain(m) \/ Start(m) \/ StartLoad(m)
             \/ StartRefused(m) \/ StartArm(m) \/ StartWait(m) \/ StartClear(m)
             \/ StartErrors(m) \/ StartSleep(m) \/ StartRecheck(m) \/ StartOperational(m)
             \/ Shutdown(m) \/ Destroy(m) \/ SafetyReset(m) \/ RequestSafeOutput(m)
             \/ ReleaseSafeOutput(m) \/ RequestFaultReset(m)
      PROVE  Rest'
  BY <1>1 DEF Construct, MapAgain, Start, StartLoad, StartRefused, StartArm, StartWait,
    StartClear, StartErrors, StartSleep, StartRecheck, StartOperational, Shutdown,
      Destroy, SafetyReset, RequestSafeOutput, ReleaseSafeOutput, RequestFaultReset
<1>2. ASSUME NEW m \in Masters, MapRefused(m) PROVE Rest'
  BY <1>2 DEF MapRefused, Excuses
<1>3. ASSUME NEW m \in Masters, MapJoints(m) PROVE Rest'
  BY <1>3 DEF MapJoints
<1>4. ASSUME NEW m \in Masters, StartGate(m) PROVE Rest'
  BY <1>4 DEF StartGate
<1>5. ASSUME NEW m \in Masters, StartHalfActivated(m) PROVE Rest'
  BY <1>5 DEF StartHalfActivated, Excuses
<1>6. ASSUME NEW m \in Masters, StartActivated(m) PROVE Rest'
  BY <1>6 DEF StartActivated, Excuses
<1>7. ASSUME NEW m \in Masters, StartJob(m) PROVE Rest'
  BY <1>7 DEF StartJob
<1>8. ASSUME NEW m \in Masters, Stop(m) PROVE Rest'
  BY <1>8 DEF Stop, Excuses
<1>9. ASSUME NEW m \in Masters, Deactivate(m) PROVE Rest'
  BY <1>9 DEF Deactivate
<1>10. CASE JobCycle
  BY <1>10 DEF JobCycle
<1>11. CASE DriveFails \/ UNCHANGED vars
  BY <1>11 DEF DriveFails, vars
<1> QED
  BY <1>1, <1>2, <1>3, <1>4, <1>5, <1>6, <1>7, <1>8, <1>9, <1>10, <1>11
  DEF Next, Life, StartSteps, SafetyCalls

(* Every step keeps the types.                                              *)
LEMMA NextTyped ==
  ASSUME TypeOK, CallOwned, [Next]_vars
  PROVE  TypeOK'
<1>1. master' \in [Masters -> MasterStates]
  BY MastersTyped DEF TypeOK
<1>2. call' \in CallStates
  BY CallTyped DEF TypeOK
<1>3. flags' \in FlagStates
  BY FlagsTyped DEF TypeOK
<1> QED BY <1>1, <1>2, <1>3, RestTyped DEF TypeOK

-----------------------------------------------------------------------------
(* What the kinds of steps leave alone, and where a call goes. *)

(* A quiet step leaves the stages of every servo alone.                     *)
LEMMA QuietKeeps ==
  ASSUME master \in [Masters -> MasterStates], NEW m \in Masters, QuietSteps(m)
  PROVE  ServosKept /\ UNCHANGED <<requested, bus_active>>
<1> USE DEF MasterStates, ServosKept, external
<1> DEFINE Kept == ServosKept /\ UNCHANGED <<requested, bus_active>>
<1>1. CASE \/ Start(m) \/ StartLoad(m) \/ StartGate(m) \/ StartJob(m) \/ StartWait(m)
           \/ StartSleep(m) \/ StartRecheck(m) \/ Shutdown(m) \/ Destroy(m) \/ Stop(m)
           \/ RequestSafeOutput(m) \/ ReleaseSafeOutput(m)
  BY <1>1 DEF Start, StartLoad, StartGate, StartJob, StartWait, StartSleep, StartRecheck,
    Shutdown, Destroy, Stop, RequestSafeOutput, ReleaseSafeOutput
<1>2. CASE StartRefused(m)
  BY <1>2 DEF StartRefused
<1>3. CASE StartArm(m)
  BY <1>3 DEF StartArm
<1>4. CASE StartClear(m)
  BY <1>4 DEF StartClear
<1>5. CASE StartErrors(m)
  BY <1>5 DEF StartErrors
<1>6. CASE StartOperational(m)
  BY <1>6 DEF StartOperational
<1>7. CASE SafetyReset(m)
  BY <1>7 DEF SafetyReset
<1>8. CASE RequestFaultReset(m)
  BY <1>8 DEF RequestFaultReset
<1> HIDE DEF ServosKept
<1> QED
  BY <1>1, <1>2, <1>3, <1>4, <1>5, <1>6, <1>7, <1>8 DEF QuietSteps, SafetyCalls

(* So does a cycle of the Job.                                              *)
LEMMA JobCycleKeeps ==
  ASSUME master \in [Masters -> MasterStates], JobCycle
  PROVE  ServosKept /\ AuthorityKept /\ UNCHANGED <<requested, bus_active, job, excuses>>
<1>1. UNCHANGED <<requested, bus_active, job, excuses>>
  BY DEF JobCycle
<1> QED BY <1>1 DEF JobCycle, MasterStates, ServosKept, AuthorityKept

(* Only arming gives or takes an authorization, in a step that is quiet.     *)
LEMMA QuietAuthority ==
  ASSUME master \in [Masters -> MasterStates], NEW m \in Masters, QuietSteps(m),
    ~StartArm(m)
  PROVE  AuthorityKept
<1> USE DEF MasterStates, AuthorityKept
<1>1. CASE \/ Start(m) \/ StartLoad(m) \/ StartGate(m) \/ StartJob(m) \/ StartWait(m)
           \/ StartSleep(m) \/ StartRecheck(m) \/ Shutdown(m) \/ Destroy(m) \/ Stop(m)
           \/ RequestSafeOutput(m) \/ ReleaseSafeOutput(m)
  BY <1>1 DEF Start, StartLoad, StartGate, StartJob, StartWait, StartSleep, StartRecheck,
    Shutdown, Destroy, Stop, RequestSafeOutput, ReleaseSafeOutput
<1>2. CASE StartRefused(m)
  BY <1>2 DEF StartRefused
<1>4. CASE StartClear(m)
  BY <1>4 DEF StartClear
<1>5. CASE StartErrors(m)
  BY <1>5 DEF StartErrors
<1>6. CASE StartOperational(m)
  BY <1>6 DEF StartOperational
<1>7. CASE SafetyReset(m)
  BY <1>7 DEF SafetyReset
<1>8. CASE RequestFaultReset(m)
  BY <1>8 DEF RequestFaultReset
<1> HIDE DEF AuthorityKept
<1> QED
  BY <1>1, <1>2, <1>4, <1>5, <1>6, <1>7, <1>8 DEF QuietSteps, SafetyCalls

(* Where a call goes. *)
LEMMA CallMoves ==
  ASSUME call \in CallStates
  PROVE  /\ Idle.by = NoOne /\ Idle.at = "idle" /\ Idle.why = "none" /\ Idle.slept = 0
         /\ \A p : Goto(p) => /\ call'.by = call.by /\ call'.at = p
                              /\ call'.why = call.why /\ call'.slept = call.slept
         /\ \A w : Close(w) => /\ call'.by = call.by /\ call'.at = "stop"
                               /\ call'.why = w /\ call'.slept = call.slept
<1>1. Idle.by = NoOne /\ Idle.at = "idle" /\ Idle.why = "none" /\ Idle.slept = 0
  BY DEF Idle
<1>2. ASSUME NEW p, Goto(p)
      PROVE  /\ call'.by = call.by /\ call'.at = p
             /\ call'.why = call.why /\ call'.slept = call.slept
  BY <1>2 DEF Goto, CallStates
<1>3. ASSUME NEW w, Close(w)
      PROVE  /\ call'.by = call.by /\ call'.at = "stop"
             /\ call'.why = w /\ call'.slept = call.slept
  BY <1>3 DEF Close, CallStates
<1> QED BY <1>1, <1>2, <1>3

(* CallOwned is kept.                                                       *)
LEMMA CallStays ==
  ASSUME LifeInv, [Next]_vars
  PROVE  CallOwned'
<1> USE LifecycleAssumption, CallMoves DEF LifeInv, TypeOK
<1>1. ASSUME NEW m \in Masters,
             \/ Construct(m) \/ MapAgain(m) \/ MapRefused(m) \/ MapJoints(m)
             \/ SafetyCalls(m)
      PROVE  CallOwned'
  <2>1. call' = call /\ call.at = "idle"
    BY <1>1 DEF Construct, MapAgain, MapRefused, MapJoints, SafetyCalls, SafetyReset,
      RequestSafeOutput, ReleaseSafeOutput, RequestFaultReset, Calls
  <2>2. call'.by = NoOne /\ call'.at = "idle"
    BY <2>1 DEF CallOwned
  <2> QED BY <2>2 DEF CallOwned, BeforeSleep, Activated, Running, Closing
<1>2. ASSUME NEW m \in Masters,
             StartRefused(m) \/ StartHalfActivated(m) \/ StartOperational(m)
               \/ Deactivate(m)
      PROVE  CallOwned'
  <2>1. call'.by = NoOne /\ call'.at = "idle"
    BY <1>2 DEF StartRefused, StartHalfActivated, StartOperational, Deactivate, Return
  <2> QED BY <2>1 DEF CallOwned, BeforeSleep, Activated, Running, Closing
<1>3. ASSUME NEW m \in Masters, Start(m) \/ Shutdown(m) \/ Destroy(m)
      PROVE  CallOwned'
  <2>1. /\ master' = master /\ master[m].life = "alive"
        /\ call'.by = m /\ call'.at \in {"load", "stop"}
        /\ call'.at = "load" => master[m].mapped
        /\ call'.at = "stop" => call'.why # "none"
    BY <1>3 DEF Start, Shutdown, Destroy, Calls, Idle
  <2> QED BY <2>1 DEF CallOwned, BeforeSleep, Activated, Running, Closing
<1>4. ASSUME NEW m \in Masters,
             \/ StartLoad(m) \/ StartGate(m) \/ StartArm(m) \/ StartJob(m) \/ StartWait(m)
             \/ StartClear(m) \/ StartErrors(m) \/ StartSleep(m) \/ StartRecheck(m)
               \/ Stop(m)
      PROVE  CallOwned'
  <2>1. ServosKept
    BY <1>4, QuietKeeps DEF QuietSteps
  <2>2. /\ call.by = m /\ call'.by = m /\ call'.at # "idle"
        /\ call'.at \in BeforeSleep => call.at \in BeforeSleep
        /\ call'.at \in Activated => call.at \in Activated \/ master[m].activated
        /\ call'.at \in Closing => call'.why # "none"
    <3>1. CASE StartGate(m)
      BY <3>1 DEF StartGate, At, CallStates, BeforeSleep, Activated, Running, Closing
    <3>2. CASE StartLoad(m)
      BY <3>2 DEF StartLoad, At, BeforeSleep, Activated, Running, Closing
    <3>3. CASE StartArm(m)
      BY <3>3 DEF StartArm, At, BeforeSleep, Activated, Running, Closing
    <3>4. CASE StartJob(m)
      <4>1. call.by = m /\ call.at = "boot" /\ call'.by = m
        BY <3>4 DEF StartJob, At
      <4>2. Goto("wait") \/ Close("no job")
        BY <3>4 DEF StartJob
      <4>3. call'.at = "wait" \/ (call'.at = "stop" /\ call'.why = "no job")
        BY <4>2
      <4> QED BY <4>1, <4>3 DEF BeforeSleep, Activated, Running, Closing
    <3>5. CASE StartWait(m)
      BY <3>5 DEF StartWait, At, BeforeSleep, Activated, Running, Closing
    <3>6. CASE StartClear(m) \/ StartErrors(m) \/ StartSleep(m) \/ StartRecheck(m)
      BY <3>6 DEF StartClear, StartErrors, StartSleep, StartRecheck, At, BeforeSleep,
        Activated,
        Running, Closing
    <3>7. CASE Stop(m)
      <4>1. call.by = m /\ call.at = "stop" /\ call'.by = m /\ call'.at = "off"
            /\ call'.why = call.why
        BY <3>7 DEF Stop, At
      <4> QED BY <4>1 DEF CallOwned, BeforeSleep, Activated, Running, Closing
    <3> QED BY <1>4, <3>1, <3>2, <3>3, <3>4, <3>5, <3>6, <3>7
  <2> QED BY <2>1, <2>2 DEF CallOwned, ServosKept
<1>5. ASSUME NEW m \in Masters, StartActivated(m)
      PROVE  CallOwned'
  <2>1. /\ call.by = m /\ call.at = "activate" /\ call'.by = m /\ call'.at = "arm"
    BY <1>5 DEF StartActivated, At
  <2>2. PICK pdo_ok \in BOOLEAN :
          master' = [master EXCEPT ![m].activated = TRUE,
                                   ![m].evidence = call.gate /\ pdo_ok]
    BY <1>5 DEF StartActivated
  <2>3. /\ master'[m].life = master[m].life /\ master'[m].mapped = master[m].mapped
        /\ master'[m].activated
    BY <2>2 DEF MasterStates
  <2> QED BY <2>1, <2>3 DEF CallOwned, BeforeSleep, Activated, Running, Closing
<1>6. CASE JobCycle
  <2>1. ServosKept
    BY <1>6, JobCycleKeeps
  <2>2. call'.by = call.by /\ call'.at = call.at /\ call'.why = call.why
    BY <1>6 DEF JobCycle, CallStates
  <2> QED BY <2>1, <2>2 DEF CallOwned, ServosKept
<1>7. CASE DriveFails \/ UNCHANGED vars
  BY <1>7 DEF DriveFails, vars, CallOwned
<1> QED
  BY <1>1, <1>2, <1>3, <1>4, <1>5, <1>6, <1>7 DEF Next, Life, StartSteps

(* What has gone wrong is never forgotten. *)
LEMMA ExcusesStand ==
  ASSUME TypeOK, [Next]_vars
  PROVE  \A o \in Masters : excuses[o] \subseteq excuses'[o]
<1> DEFINE Stand == \A o \in Masters : excuses[o] \subseteq excuses'[o]
<1>1. ASSUME NEW m \in Masters, QuietSteps(m), ~Stop(m) PROVE excuses' = excuses
  BY <1>1 DEF QuietSteps, SafetyCalls, Start, StartLoad, StartGate, StartRefused, StartArm,
    StartJob, StartWait, StartClear, StartErrors, StartSleep, StartRecheck,
      StartOperational,
    Shutdown, Destroy, SafetyReset, RequestSafeOutput, ReleaseSafeOutput, RequestFaultReset
<1>2. ASSUME NEW m \in Masters, Construct(m) \/ MapAgain(m) \/ MapJoints(m) \/ Deactivate(m)
      PROVE  excuses' = excuses
  BY <1>2 DEF Construct, MapAgain, MapJoints, Deactivate
<1>3. ASSUME NEW m \in Masters,
             MapRefused(m) \/ StartHalfActivated(m) \/ StartActivated(m) \/ Stop(m)
      PROVE  Stand
  <2>1. CASE MapRefused(m)
    BY <2>1 DEF TypeOK, MapRefused
  <2>2. CASE StartHalfActivated(m)
    BY <2>2 DEF TypeOK, StartHalfActivated
  <2>3. CASE StartActivated(m)
    BY <2>3 DEF TypeOK, StartActivated
  <2>4. CASE Stop(m)
    BY <2>4 DEF TypeOK, Stop
  <2> QED BY <1>3, <2>1, <2>2, <2>3, <2>4
<1>4. CASE JobCycle \/ DriveFails \/ UNCHANGED vars
  BY <1>4 DEF JobCycle, DriveFails, vars
<1> QED
  BY <1>1, <1>2, <1>3, <1>4 DEF Next, Life, StartSteps, QuietSteps

(* What a Master is left with when a call closes it. *)
LEMMA ClosedFields ==
  ASSUME NEW m \in Masters, master[m] \in MasterStates, call.why \in Reasons \ {"none"}
  PROVE  /\ ~Closed(m).activated
         /\ call.why = "destroyed" =>
              /\ Closed(m).life = "destroyed" /\ ~Closed(m).handle
              /\ ~Closed(m).initialized /\ ~Closed(m).mapped /\ ~Closed(m).authorized
         /\ call.why # "destroyed" =>
              /\ Closed(m).life = master[m].life /\ Closed(m).handle = master[m].handle
              /\ Closed(m).initialized = master[m].initialized
              /\ Closed(m).mapped => master[m].mapped
              /\ Closed(m).authorized = master[m].authorized
              /\ master[m].objects # "none" => Closed(m).objects # "none"
<1>1. CASE call.why = "destroyed"
  BY <1>1 DEF Closed, NewMaster
<1>2. CASE call.why = "failed"
  BY <1>2 DEF Closed, MasterStates
<1>3. CASE call.why = "no job"
  BY <1>3 DEF Closed, MasterStates
<1>4. CASE call.why = "shutdown"
  BY <1>4 DEF Closed, MasterStates
<1> QED BY <1>1, <1>2, <1>3, <1>4 DEF Reasons

(* HandlesTrue is kept.                                                     *)
LEMMA HandlesStay ==
  ASSUME LifeInv, [Next]_vars
  PROVE  HandlesTrue'
<1> USE DEF LifeInv, TypeOK
<1>1. ASSUME NEW m \in Masters, QuietSteps(m), ~StartArm(m)
      PROVE  HandlesTrue'
  <2>1. ServosKept /\ AuthorityKept /\ UNCHANGED <<requested, bus_active>>
    BY <1>1, QuietKeeps, QuietAuthority
  <2> QED BY <2>1, ExcusesStand DEF HandlesTrue, ServosKept, AuthorityKept
<1>2. ASSUME NEW m \in Masters, StartArm(m)
      PROVE  HandlesTrue'
  <2>1. ServosKept /\ UNCHANGED <<requested, bus_active>>
    BY <1>2, QuietKeeps DEF QuietSteps
  <2>2. \A o \in Masters \ {m} : master'[o].authorized = master[o].authorized
    BY <1>2 DEF StartArm
  <2>3. master[m].initialized
    BY <1>2 DEF StartArm, At, CallOwned, HandlesTrue, Activated
  <2> QED BY <2>1, <2>2, <2>3, ExcusesStand DEF HandlesTrue, ServosKept
<1>3. ASSUME NEW m \in Masters, Construct(m)
      PROVE  HandlesTrue'
  <2>1. OthersKept(m) /\ UNCHANGED <<requested, bus_active, excuses>>
    BY <1>3 DEF Construct, OthersKept, external
  <2>2. /\ ~master[m].handle /\ ~master[m].initialized /\ ~master[m].mapped
        /\ master'[m] = [master[m] EXCEPT !.life = "alive"]
    BY <1>3 DEF Construct, HandlesTrue
  <2>3. master'[m].mapped = master[m].mapped /\ master'[m].initialized = master[m].initialized
        /\ master'[m].activated = master[m].activated /\ master'[m].handle = master[m].handle
        /\ master'[m].authorized = master[m].authorized
    BY <2>2 DEF MasterStates
  <2> QED BY <2>1, <2>2, <2>3 DEF HandlesTrue, OthersKept
<1>4. ASSUME NEW m \in Masters, MapAgain(m)
      PROVE  HandlesTrue'
  <2>1. OthersKept(m) /\ UNCHANGED <<requested, bus_active, excuses>>
    BY <1>4 DEF MapAgain, OthersKept, external
  <2>2. master'[m] = [master[m] EXCEPT !.mapped = FALSE]
    BY <1>4 DEF MapAgain
  <2>3. /\ master'[m].life = master[m].life /\ master'[m].mapped = FALSE
        /\ master'[m].initialized = master[m].initialized
        /\ master'[m].activated = master[m].activated /\ master'[m].handle = master[m].handle
        /\ master'[m].authorized = master[m].authorized
        /\ master'[m].objects = master[m].objects
    BY <2>2 DEF MasterStates
  <2> QED BY <2>1, <2>3 DEF HandlesTrue, OthersKept
<1>5. ASSUME NEW m \in Masters, MapRefused(m)
      PROVE  HandlesTrue'
  <2>1. OthersKept(m) /\ UNCHANGED <<requested, bus_active>>
    BY <1>5 DEF MapRefused, OthersKept, external
  <2>2. /\ master'[m] = [master[m] EXCEPT !.mapped = FALSE, !.handle = FALSE]
        /\ ~master[m].initialized /\ master[m].life = "alive"
    BY <1>5 DEF MapRefused, Calls
  <2>3. /\ master'[m].life = master[m].life /\ master'[m].mapped = FALSE
        /\ master'[m].handle = FALSE
        /\ master'[m].initialized = master[m].initialized
        /\ master'[m].activated = master[m].activated
        /\ master'[m].authorized = master[m].authorized
    BY <2>2 DEF MasterStates
  <2>4. requested = m => "mapped again" \in excuses'[m]
    BY <1>5 DEF MapRefused
  <2> QED BY <2>1, <2>2, <2>3, <2>4, ExcusesStand DEF HandlesTrue, OthersKept
<1>6. ASSUME NEW m \in Masters, MapJoints(m)
      PROVE  HandlesTrue'
  <2>1. OthersKept(m) /\ UNCHANGED <<bus_active, excuses>>
    BY <1>6 DEF MapJoints, OthersKept
  <2>2. requested = NoOne /\ requested' = m /\ ~master[m].initialized /\ master[m].life = "alive"
    BY <1>6 DEF MapJoints, Calls
  <2>3. PICK configured \in BOOLEAN :
          master' = [master EXCEPT ![m].handle = TRUE, ![m].objects = "valid",
                                   ![m].initialized = configured, ![m].mapped = configured]
    BY <1>6 DEF MapJoints
  <2>4. /\ master'[m].life = master[m].life /\ master'[m].mapped = configured
        /\ master'[m].handle /\ master'[m].objects = "valid"
        /\ master'[m].initialized = configured
        /\ master'[m].activated = master[m].activated
        /\ master'[m].authorized = master[m].authorized
    BY <2>3 DEF MasterStates
  <2> QED BY <2>1, <2>2, <2>4, LifecycleAssumption DEF HandlesTrue, OthersKept
<1>7. ASSUME NEW m \in Masters, StartHalfActivated(m)
      PROVE  HandlesTrue'
  <2>1. OthersKept(m) /\ UNCHANGED requested /\ bus_active'
    BY <1>7 DEF StartHalfActivated, OthersKept
  <2>2. master'[m] = [master[m] EXCEPT !.running = FALSE]
    BY <1>7 DEF StartHalfActivated
  <2>3. /\ master'[m].life = master[m].life /\ master'[m].mapped = master[m].mapped
        /\ master'[m].initialized = master[m].initialized
        /\ master'[m].activated = master[m].activated /\ master'[m].handle = master[m].handle
        /\ master'[m].authorized = master[m].authorized
        /\ master'[m].objects = master[m].objects
    BY <2>2 DEF MasterStates
  <2> QED BY <2>1, <2>3, ExcusesStand DEF HandlesTrue, OthersKept
<1>8. ASSUME NEW m \in Masters, StartActivated(m)
      PROVE  HandlesTrue'
  <2>1. OthersKept(m) /\ UNCHANGED requested /\ bus_active'
    BY <1>8 DEF StartActivated, OthersKept
  <2>2. master[m].life = "alive" /\ master[m].initialized
    BY <1>8 DEF StartActivated, At, CallOwned, HandlesTrue, BeforeSleep
  <2>3. PICK pdo_ok \in BOOLEAN :
          master' = [master EXCEPT ![m].activated = TRUE,
                                   ![m].evidence = call.gate /\ pdo_ok]
    BY <1>8 DEF StartActivated
  <2>4. /\ master'[m].life = master[m].life /\ master'[m].mapped = master[m].mapped
        /\ master'[m].initialized = master[m].initialized
        /\ master'[m].activated /\ master'[m].handle = master[m].handle
        /\ master'[m].authorized = master[m].authorized
        /\ master'[m].objects = master[m].objects
    BY <2>3 DEF MasterStates
  <2> QED BY <2>1, <2>2, <2>4, ExcusesStand DEF HandlesTrue, OthersKept
<1>9. ASSUME NEW m \in Masters, Deactivate(m)
      PROVE  HandlesTrue'
  <2>1. /\ OthersKept(m) /\ UNCHANGED excuses
        /\ requested' = IF Releases(m) THEN NoOne ELSE requested
        /\ bus_active' = (bus_active /\ ~Deactivates(m) /\ ~Releases(m))
    BY <1>9 DEF Deactivate, OthersKept
  <2>2. master[m].life = "alive" /\ call.why # "none"
    BY <1>9 DEF Deactivate, At, CallOwned, Closing
  <2>3. master'[m] = Closed(m) /\ call.why \in Reasons \ {"none"}
    BY <1>9, <2>2 DEF Deactivate, CallStates
  <2>4. ~master'[m].activated
    BY <2>3, ClosedFields
  <2>5. CASE call.why = "destroyed"
    <3>1. /\ master'[m].life = "destroyed" /\ ~master'[m].handle /\ ~master'[m].initialized
          /\ ~master'[m].mapped /\ ~master'[m].authorized
      BY <2>3, <2>5, ClosedFields
    <3> QED BY <2>1, <2>2, <2>4, <2>5, <3>1, LifecycleAssumption
      DEF HandlesTrue, OthersKept, Releases, Deactivates
  <2>6. CASE call.why # "destroyed"
    <3>1. /\ master'[m].life = master[m].life /\ master'[m].handle = master[m].handle
          /\ master'[m].initialized = master[m].initialized
          /\ master'[m].mapped => master[m].mapped
          /\ master'[m].authorized = master[m].authorized
          /\ master[m].objects # "none" => master'[m].objects # "none"
      BY <2>3, <2>6, ClosedFields
    <3> QED BY <2>1, <2>2, <2>4, <2>6, <3>1, LifecycleAssumption
      DEF HandlesTrue, OthersKept, Releases, Deactivates
  <2> QED BY <2>5, <2>6
<1>10. CASE JobCycle
  BY <1>10, JobCycleKeeps DEF HandlesTrue, ServosKept, AuthorityKept
<1>11. CASE DriveFails \/ UNCHANGED vars
  BY <1>11 DEF DriveFails, vars, HandlesTrue
<1> QED
  BY <1>1, <1>2, <1>3, <1>4, <1>5, <1>6, <1>7, <1>8, <1>9, <1>10, <1>11
  DEF Next, Life, StartSteps, QuietSteps

(* Where the call is during an outside step.                                *)
LEMMA OutsideKeeps ==
  ASSUME LifeInv, NEW m \in Masters, OutsideSteps(m)
  PROVE  /\ UNCHANGED job
         /\ call.at \in {"idle", "load", "gate", "activate"}
         /\ call'.at \in {"idle", "load", "gate", "activate", "arm", "stop"}
         /\ call.by = NoOne \/ (call.by = m /\ call.at # "idle")
<1> USE CallMoves DEF LifeInv, TypeOK
<1>1. CASE Construct(m) \/ MapAgain(m) \/ MapRefused(m) \/ MapJoints(m) \/ SafetyCalls(m)
  BY <1>1 DEF Construct, MapAgain, MapRefused, MapJoints, SafetyCalls, SafetyReset,
    RequestSafeOutput, ReleaseSafeOutput, RequestFaultReset, Calls, CallOwned
<1>2. CASE Start(m) \/ Shutdown(m) \/ Destroy(m)
  BY <1>2 DEF Start, Shutdown, Destroy, Calls, Idle, CallOwned
<1>3. CASE StartLoad(m) \/ StartRefused(m) \/ StartHalfActivated(m) \/ StartActivated(m)
  BY <1>3 DEF StartLoad, StartRefused, StartHalfActivated, StartActivated, At, Return
<1>4. CASE StartGate(m)
  BY <1>4 DEF StartGate, At, CallStates
<1> QED BY <1>1, <1>2, <1>3, <1>4 DEF OutsideSteps

(* An outside step gives no authorization and ends no activation.           *)
LEMMA OutsideServos ==
  ASSUME master \in [Masters -> MasterStates], NEW m \in Masters, OutsideSteps(m),
         call.at # "arm"
  PROVE  \A o \in Masters : /\ master'[o].authorized = master[o].authorized
                            /\ master[o].activated => master'[o].activated
<1> USE DEF MasterStates
<1>1. CASE Construct(m)
  BY <1>1 DEF Construct
<1>2. CASE MapAgain(m)
  BY <1>2 DEF MapAgain
<1>3. CASE MapRefused(m)
  BY <1>3 DEF MapRefused
<1>4. CASE MapJoints(m)
  BY <1>4 DEF MapJoints
<1>5. CASE StartHalfActivated(m)
  BY <1>5 DEF StartHalfActivated
<1>6. CASE StartActivated(m)
  <2>1. PICK pdo_ok \in BOOLEAN :
          master' = [master EXCEPT ![m].activated = TRUE,
                                   ![m].evidence = call.gate /\ pdo_ok]
    BY <1>6 DEF StartActivated
  <2> QED BY <2>1
<1>7. CASE QuietSteps(m)
  <2>1. ~StartArm(m)
    BY DEF StartArm, At
  <2> QED BY <1>7, <2>1, QuietKeeps, QuietAuthority DEF ServosKept, AuthorityKept
<1> QED
  BY <1>1, <1>2, <1>3, <1>4, <1>5, <1>6, <1>7 DEF OutsideSteps, QuietSteps

(* Past boot, start() only moves on.                                        *)
LEMMA RunningKeeps ==
  ASSUME LifeInv, NEW m \in Masters, RunningSteps(m)
  PROVE  /\ UNCHANGED <<job, excuses>> /\ ServosKept /\ AuthorityKept
         /\ UNCHANGED <<requested, bus_active>>
         /\ call.by = m /\ call.at \in Running
         /\ call'.at \in Running \cup {"idle", "stop"}
         /\ call'.at \in Running => call'.by = m
<1>1. ServosKept /\ AuthorityKept /\ UNCHANGED <<requested, bus_active>>
  BY QuietKeeps, QuietAuthority DEF RunningSteps, QuietSteps, LifeInv, TypeOK, StartArm,
    StartWait, StartClear,
    StartErrors, StartSleep, StartRecheck, StartOperational, At
<1>2. UNCHANGED <<job, excuses>>
  BY DEF RunningSteps, StartWait, StartClear, StartErrors, StartSleep, StartRecheck,
    StartOperational
<1>3. /\ call.by = m /\ call.at \in Running
      /\ call'.at \in Running \cup {"idle", "stop"}
      /\ call'.at \in Running => call'.by = m
  <2> USE CallMoves DEF LifeInv, TypeOK, Running, At
  <2>1. CASE StartWait(m) \/ StartClear(m)
    BY <2>1 DEF StartWait, StartClear
  <2>2. CASE StartErrors(m)
    BY <2>2 DEF StartErrors
  <2>3. CASE StartSleep(m) \/ StartRecheck(m)
    BY <2>3 DEF StartSleep, StartRecheck
  <2>4. CASE StartOperational(m)
    BY <2>4 DEF StartOperational, Return
  <2> QED BY <2>1, <2>2, <2>3, <2>4 DEF RunningSteps
<1> QED BY <1>1, <1>2, <1>3

(* JobOwned is kept.                                                        *)
LEMMA JobStays ==
  ASSUME LifeInv, [Next]_vars
  PROVE  JobOwned'
<1> USE CallMoves DEF LifeInv, TypeOK
<1>1. ASSUME NEW m \in Masters, OutsideSteps(m)
      PROVE  JobOwned'
  <2>1. \A o \in Masters : master[o].activated => master'[o].activated
    BY <1>1, OutsideKeeps, OutsideServos
  <2>2. call'.at \notin Running \cup {"off"} /\ job' = job
    BY <1>1, OutsideKeeps DEF Running
  <2> QED BY <2>1, <2>2 DEF JobOwned
<1>2. ASSUME NEW m \in Masters, StartArm(m)
      PROVE  JobOwned'
  <2>1. ServosKept /\ UNCHANGED job
    BY <1>2, QuietKeeps DEF QuietSteps, StartArm
  <2>2. call'.at \notin Running \cup {"off"}
    BY <1>2 DEF StartArm, Running
  <2> QED BY <2>1, <2>2 DEF JobOwned, ServosKept
<1>3. ASSUME NEW m \in Masters, StartJob(m)
      PROVE  JobOwned'
  <2>1. ServosKept
    BY <1>3, QuietKeeps DEF QuietSteps
  <2>2. call.by = m /\ call.at = "boot" /\ call'.by = m /\ master[m].activated
    <3>1. call.by = m /\ call.at = "boot" /\ call'.by = m
      BY <1>3 DEF StartJob, At
    <3> QED BY <3>1 DEF CallOwned, Activated
  <2>3. \/ job # NoOne /\ job' = job
        \/ job' = m
        \/ call'.at = "stop" /\ job' = job
    BY <1>3 DEF StartJob
  <2>4. job # NoOne => job = m
    BY <2>2 DEF JobOwned, HandlesTrue
  <2>5. call'.at \in {"wait", "stop"}
    BY <1>3 DEF StartJob
  <2> QED BY <2>1, <2>2, <2>3, <2>4, <2>5, LifecycleAssumption
    DEF JobOwned, ServosKept, Running
<1>4. ASSUME NEW m \in Masters, RunningSteps(m)
      PROVE  JobOwned'
  BY <1>4, RunningKeeps DEF JobOwned, ServosKept, Running
<1>5. ASSUME NEW m \in Masters, Stop(m)
      PROVE  JobOwned'
  <2>1. job' = NoOne /\ call'.at = "off"
    BY <1>5 DEF Stop
  <2> QED BY <2>1 DEF JobOwned, Running
<1>6. ASSUME NEW m \in Masters, Deactivate(m)
      PROVE  JobOwned'
  <2>1. job = NoOne /\ job' = job /\ call'.at = "idle"
    BY <1>6 DEF Deactivate, At, Return, JobOwned
  <2> QED BY <2>1 DEF JobOwned, Running
<1>7. CASE JobCycle
  <2>1. call'.at = call.at /\ call'.by = call.by
    BY <1>7 DEF JobCycle, CallStates
  <2> QED BY <1>7, <2>1, JobCycleKeeps DEF JobOwned, ServosKept
<1>8. CASE DriveFails \/ UNCHANGED vars
  BY <1>8 DEF DriveFails, vars, JobOwned
<1> QED
  BY <1>1, <1>2, <1>3, <1>4, <1>5, <1>6, <1>7, <1>8
  DEF Next, Life, StartSteps, OutsideSteps, RunningSteps

(* SafeWhileStarting is kept.                                               *)
LEMMA SafeStays ==
  ASSUME LifeInv, [Next]_vars
  PROVE  SafeWhileStarting'
<1> USE CallMoves DEF LifeInv, TypeOK
<1>1. ASSUME NEW m \in Masters, OutsideSteps(m)
      PROVE  SafeWhileStarting'
  <2>1. \A o \in Masters : master'[o].authorized = master[o].authorized
    BY <1>1, OutsideKeeps, OutsideServos
  <2>2. call'.at \notin Running \cup {"boot"} /\ job' = job
    BY <1>1, OutsideKeeps DEF Running
  <2>3. CASE ReleaseSafeOutput(m)
    <3>1. master[m].authorized
      BY <2>3 DEF ReleaseSafeOutput
    <3>2. job # NoOne => job = m
      BY <3>1 DEF JobOwned, HandlesTrue
    <3> QED BY <2>1, <2>2, <3>1, <3>2 DEF SafeWhileStarting
  <2>4. CASE ~ReleaseSafeOutput(m)
    <3>1. flags'.safe = flags.safe \/ flags'.safe
      BY <1>1, <2>4 DEF OutsideSteps, SafetyCalls, Construct, MapAgain, MapRefused,
        MapJoints,
        Start, StartLoad, StartGate, StartRefused, StartHalfActivated, StartActivated,
          Shutdown,
        Destroy, SafetyReset, RequestSafeOutput, RequestFaultReset, SafetyCleared,
          SafeRequested,
        FlagStates
    <3> QED BY <2>1, <2>2, <3>1 DEF SafeWhileStarting
  <2> QED BY <2>3, <2>4
<1>2. ASSUME NEW m \in Masters, StartArm(m)
      PROVE  SafeWhileStarting'
  BY <1>2 DEF StartArm, SafeRequested, FlagStates, SafeWhileStarting
<1>3. ASSUME NEW m \in Masters, StartJob(m)
      PROVE  SafeWhileStarting'
  <2>1. call.at = "boot" /\ flags.safe
    BY <1>3 DEF StartJob, At, SafeWhileStarting
  <2>2. flags'.safe = flags.safe
    BY <1>3 DEF StartJob, FlagStates
  <2> QED BY <2>1, <2>2 DEF SafeWhileStarting
<1>4. ASSUME NEW m \in Masters, RunningSteps(m)
      PROVE  SafeWhileStarting'
  <2>1. flags.safe
    BY <1>4, RunningKeeps DEF SafeWhileStarting
  <2>2. flags'.safe
    BY <1>4, <2>1 DEF RunningSteps, StartWait, StartClear, StartErrors, StartSleep,
      StartRecheck,
      StartOperational, SafetyCleared, SafeRequested, FlagStates
  <2> QED BY <2>2 DEF SafeWhileStarting
<1>5. ASSUME NEW m \in Masters, Stop(m)
      PROVE  SafeWhileStarting'
  <2>1. job' = NoOne /\ call'.at = "off"
    BY <1>5 DEF Stop
  <2> QED BY <2>1 DEF SafeWhileStarting, Running
<1>6. ASSUME NEW m \in Masters, Deactivate(m)
      PROVE  SafeWhileStarting'
  <2>1. job = NoOne /\ job' = job /\ call'.at = "idle"
    BY <1>6 DEF Deactivate, At, Return, JobOwned
  <2> QED BY <2>1 DEF SafeWhileStarting, Running
<1>7. CASE JobCycle
  <2>1. call'.at = call.at
    BY <1>7 DEF JobCycle, CallStates
  <2>2. flags'.safe = flags.safe \/ flags'.safe
    BY <1>7 DEF JobCycle, FlagStates
  <2> QED BY <1>7, <2>1, <2>2, JobCycleKeeps DEF SafeWhileStarting, AuthorityKept
<1>8. CASE DriveFails \/ UNCHANGED vars
  BY <1>8 DEF DriveFails, vars, SafeWhileStarting
<1> QED
  BY <1>1, <1>2, <1>3, <1>4, <1>5, <1>6, <1>7, <1>8
  DEF Next, Life, StartSteps, OutsideSteps, RunningSteps

(* BusServed is kept.                                                       *)
LEMMA BusStays ==
  ASSUME LifeInv, [Next]_vars
  PROVE  BusServed'
<1> USE CallMoves DEF LifeInv, TypeOK
<1>1. ASSUME NEW m \in Masters, OutsideSteps(m)
      PROVE  BusServed'
  <2>1. /\ UNCHANGED job
        /\ \A o \in Masters : master[o].activated => job = o
          \/ "stopped by another" \in excuses[o]
    BY <1>1, OutsideKeeps DEF BusServed, Closing
  <2>2. CASE QuietSteps(m)
    BY <2>1, <2>2, QuietKeeps, ExcusesStand DEF BusServed, ServosKept
  <2>3. CASE Construct(m)
    <3>1. OthersKept(m) /\ UNCHANGED <<requested, bus_active, excuses>>
      BY <2>3 DEF Construct, OthersKept, external
    <3>2. master'[m] = [master[m] EXCEPT !.life = "alive"]
      BY <2>3 DEF Construct
    <3>3. /\ master'[m].activated = master[m].activated /\ master'[m].handle = master[m].handle
          /\ master'[m].objects = master[m].objects
      BY <3>2 DEF MasterStates
    <3> QED BY <2>1, <3>1, <3>3 DEF BusServed, OthersKept
  <2>4. CASE MapAgain(m)
    <3>1. OthersKept(m) /\ UNCHANGED <<requested, bus_active, excuses>>
      BY <2>4 DEF MapAgain, OthersKept, external
    <3>2. master'[m] = [master[m] EXCEPT !.mapped = FALSE]
      BY <2>4 DEF MapAgain
    <3>3. /\ master'[m].activated = master[m].activated /\ master'[m].handle = master[m].handle
          /\ master'[m].objects = master[m].objects
      BY <3>2 DEF MasterStates
    <3> QED BY <2>1, <3>1, <3>3 DEF BusServed, OthersKept
  <2>5. CASE MapRefused(m)
    <3>1. OthersKept(m) /\ UNCHANGED <<requested, bus_active>>
      BY <2>5 DEF MapRefused, OthersKept, external
    <3>2. master'[m] = [master[m] EXCEPT !.mapped = FALSE, !.handle = FALSE]
      BY <2>5 DEF MapRefused
    <3>3. /\ master'[m].activated = master[m].activated /\ ~master'[m].handle
          /\ master'[m].objects = master[m].objects
      BY <3>2 DEF MasterStates
    <3> QED BY <2>1, <3>1, <3>3, ExcusesStand DEF BusServed, OthersKept
  <2>6. CASE MapJoints(m)
    <3>1. OthersKept(m) /\ UNCHANGED <<bus_active, excuses>> /\ requested = NoOne
          /\ ~master[m].initialized
      BY <2>6 DEF MapJoints, OthersKept
    <3>2. ~bus_active /\ ~master[m].activated
      BY <3>1 DEF BusServed, HandlesTrue
    <3>3. master'[m].activated = master[m].activated
      BY <2>6 DEF MapJoints, MasterStates
    <3> QED BY <2>1, <3>1, <3>2, <3>3 DEF BusServed, OthersKept
  <2>7. CASE StartHalfActivated(m)
    <3>1. /\ OthersKept(m) /\ UNCHANGED requested /\ bus_active'
          /\ "half activated" \in excuses'[m]
      BY <2>7 DEF StartHalfActivated, OthersKept
    <3>2. requested = m
      BY <2>7 DEF StartHalfActivated, At, CallOwned, HandlesTrue, BeforeSleep
    <3>3. master'[m] = [master[m] EXCEPT !.running = FALSE]
      BY <2>7 DEF StartHalfActivated
    <3>4. /\ master'[m].activated = master[m].activated /\ master'[m].handle = master[m].handle
          /\ master'[m].objects = master[m].objects
      BY <3>3 DEF MasterStates
    <3> QED BY <2>1, <3>1, <3>2, <3>4, ExcusesStand, LifecycleAssumption
      DEF BusServed, OthersKept, HandlesTrue
  <2>8. CASE StartActivated(m)
    <3>a. /\ OthersKept(m) /\ UNCHANGED requested /\ bus_active'
          /\ master[m].objects = "freed" => "started again" \in excuses'[m]
      BY <2>8 DEF StartActivated, OthersKept
    <3>b. call'.by = m /\ call'.at = "arm"
      BY <2>8 DEF StartActivated, At, Goto, CallStates
    <3>1. /\ OthersKept(m) /\ UNCHANGED requested /\ bus_active'
          /\ master[m].objects = "freed" => "started again" \in excuses'[m]
          /\ call'.by = m /\ call'.at = "arm"
      BY <3>a, <3>b
    <3>2. requested = m /\ master[m].objects # "none"
      BY <2>8 DEF StartActivated, At, CallOwned, HandlesTrue, BeforeSleep
    <3>3. PICK pdo_ok \in BOOLEAN :
            master' = [master EXCEPT ![m].activated = TRUE,
                                     ![m].evidence = call.gate /\ pdo_ok]
      BY <2>8 DEF StartActivated
    <3>4. /\ master'[m].activated /\ master'[m].objects = master[m].objects
          /\ master[m].objects \in {"none", "valid", "freed"}
      BY <3>3 DEF MasterStates
    <3> QED BY <2>1, <3>1, <3>2, <3>4, ExcusesStand, LifecycleAssumption
      DEF BusServed, OthersKept, HandlesTrue
  <2> QED BY <1>1, <2>2, <2>3, <2>4, <2>5, <2>6, <2>7, <2>8 DEF OutsideSteps, QuietSteps
<1>2. ASSUME NEW m \in Masters, StartArm(m)
      PROVE  BusServed'
  <2>1. ServosKept /\ UNCHANGED <<requested, bus_active>>
    BY <1>2, QuietKeeps DEF QuietSteps
  <2>2. UNCHANGED <<job, excuses>> /\ call.by = m
    BY <1>2 DEF StartArm, At
  <2>3. call'.by = m /\ call'.at \in {"boot", "stop"}
    BY <1>2 DEF StartArm, At
  <2> QED BY <2>1, <2>2, <2>3 DEF BusServed, ServosKept, Closing
<1>3. ASSUME NEW m \in Masters, StartJob(m)
      PROVE  BusServed'
  <2>1. ServosKept /\ UNCHANGED <<requested, bus_active>> /\ UNCHANGED excuses
    BY <1>3, QuietKeeps DEF QuietSteps, StartJob
  <2>2. call.by = m /\ call.at = "boot" /\ call'.by = m
    BY <1>3 DEF StartJob, At
  <2>3. \/ job # NoOne /\ job' = job
        \/ job' = m
        \/ call'.at = "stop" /\ job' = job
    BY <1>3 DEF StartJob
  <2>4. \A o \in Masters : master[o].activated => o = m
    BY <2>2 DEF CallOwned, HandlesTrue, Activated
  <2>5. job # NoOne => job = m
    BY <2>4 DEF JobOwned
  <2> QED BY <2>1, <2>2, <2>3, <2>4, <2>5 DEF BusServed, ServosKept, Closing
<1>4. ASSUME NEW m \in Masters, RunningSteps(m)
      PROVE  BusServed'
  <2>1. call.at \notin {"arm", "boot", "stop", "off"}
    BY <1>4, RunningKeeps DEF Running
  <2> QED BY <1>4, <2>1, RunningKeeps DEF BusServed, ServosKept, Closing
<1>5. ASSUME NEW m \in Masters, Stop(m)
      PROVE  BusServed'
  <2>1. ServosKept /\ UNCHANGED <<requested, bus_active>>
    BY <1>5, QuietKeeps DEF QuietSteps
  <2>2. call.by = m /\ call'.by = m /\ call'.at = "off"
    BY <1>5 DEF Stop, At
  <2>3. \A o \in Masters : o = job /\ o # m => "stopped by another" \in excuses'[o]
    BY <1>5 DEF Stop
  <2> QED BY <2>1, <2>2, <2>3, ExcusesStand DEF BusServed, ServosKept, Closing
<1>6. ASSUME NEW m \in Masters, Deactivate(m)
      PROVE  BusServed'
  <2>1. /\ OthersKept(m) /\ UNCHANGED <<excuses, job>>
        /\ requested' = IF Releases(m) THEN NoOne ELSE requested
        /\ bus_active' = (bus_active /\ ~Deactivates(m) /\ ~Releases(m))
    BY <1>6 DEF Deactivate, OthersKept
  <2>2. call.by = m /\ call.at = "off" /\ call.why # "none"
    BY <1>6 DEF Deactivate, At, CallOwned, Closing
  <2>3. master'[m] = Closed(m) /\ call.why \in Reasons \ {"none"}
    BY <1>6, <2>2 DEF Deactivate, CallStates
  <2>4. ~master'[m].activated /\ (master'[m].handle => master[m].handle)
    <3>1. CASE call.why = "destroyed"
      BY <2>3, <3>1, ClosedFields
    <3>2. CASE call.why # "destroyed"
      BY <2>3, <3>2, ClosedFields
    <3> QED BY <3>1, <3>2
  <2>5. \A o \in Masters \ {m} : master[o].handle => ~master[m].handle
    BY DEF HandlesTrue
  <2> QED BY <2>1, <2>2, <2>4, <2>5
    DEF BusServed, OthersKept, Deactivates, Releases, HandlesTrue, Closing
<1>7. CASE JobCycle
  <2>1. call'.at = call.at /\ call'.by = call.by
    BY <1>7 DEF JobCycle, CallStates
  <2>2. ServosKept /\ UNCHANGED <<requested, bus_active, job, excuses>>
    BY <1>7, JobCycleKeeps
  <2> QED BY <2>1, <2>2 DEF BusServed, ServosKept
<1>8. CASE DriveFails \/ UNCHANGED vars
  <2>1. UNCHANGED <<master, call, requested, bus_active, job, excuses>>
    BY <1>8 DEF DriveFails, vars
  <2> QED BY <2>1 DEF BusServed
<1> QED
  BY <1>1, <1>2, <1>3, <1>4, <1>5, <1>6, <1>7, <1>8
  DEF Next, Life, StartSteps, OutsideSteps, RunningSteps

(* The invariant is inductive.                                              *)
LEMMA LifeInvInductive ==
  ASSUME LifeInv, [Next]_vars
  PROVE  LifeInv'
  BY NextTyped, CallStays, HandlesStay, BusStays, JobStays, SafeStays DEF LifeInv

(* The invariant holds.                                                     *)
LEMMA LifeInvHolds ==
  Spec => []LifeInv
<1>1. Init => LifeInv
  <2> SUFFICES ASSUME Init
               PROVE  LifeInv
    OBVIOUS
  <2>1. \A m \in Masters : master[m] = NewMaster
    BY DEF Init
  <2>2. TypeOK
    <3>1. flags \in FlagStates /\ excuses \in [Masters -> SUBSET Excuses]
      BY DEF Init, FlagStates
    <3> QED BY <3>1, ValuesTyped DEF TypeOK, Init
  <2>3. CallOwned
    <3>1. call.by = NoOne /\ call.at = "idle"
      BY DEF Init, Idle
    <3> QED BY <3>1, LifecycleAssumption
      DEF CallOwned, BeforeSleep, Activated, Running, Closing
  <2>4. HandlesTrue
    BY <2>1, LifecycleAssumption DEF Init, HandlesTrue, NewMaster
  <2>5. BusServed /\ JobOwned /\ SafeWhileStarting
    BY <2>1 DEF Init, BusServed, JobOwned, SafeWhileStarting, NewMaster, Idle, Running
  <2> QED BY <2>2, <2>3, <2>4, <2>5 DEF LifeInv
<1> QED BY <1>1, LifeInvInductive, PTL DEF Spec

(* The type invariant. *)
THEOREM LifecycleTyped ==
  Spec => []TypeOK
<1>1. LifeInv => TypeOK
  BY DEF LifeInv
<1> QED BY <1>1, LifeInvHolds, PTL

(* While a Job runs, its Master is alive, activated and holds the active IgH *)
(* master, whatever the other Masters of the index do (EtherCATServo::       *)
(* deactivate joins the Job before it lets the master go).                   *)
THEOREM JobRunsOnLiveBus ==
  Spec => []JobOnLiveBus
<1>1. LifeInv => JobOnLiveBus
  <2> SUFFICES ASSUME LifeInv, job # NoOne
               PROVE  /\ master[job].life = "alive" /\ master[job].activated
                      /\ requested = job /\ bus_active
                      /\ master[job].objects = "valid" \/ "started again" \in excuses[job]
    BY DEF JobOnLiveBus
  <2>1. job \in Masters /\ master[job].activated
    BY DEF LifeInv, TypeOK, JobOwned
  <2> QED BY <2>1 DEF LifeInv, HandlesTrue, BusServed
<1> QED BY <1>1, LifeInvHolds, PTL

(* Motion outputs need the authorization of the Master whose Job writes them,*)
(* although the flags are the index's and outlive the Master that set them.  *)
THEOREM MotionAuthorized ==
  Spec => []DrivesAuthorized
<1>1. LifeInv => DrivesAuthorized
  BY DEF LifeInv, SafeWhileStarting, DrivesAuthorized
<1> QED BY <1>1, LifeInvHolds, PTL

(* start() makes its mailbox transfers before the bus is active or while its *)
(* own Job serves it, but for the two ways that MailboxServed names.         *)
THEOREM MailboxHasItsJob ==
  Spec => []MailboxServed
<1>1. LifeInv => MailboxServed
  <2> SUFFICES ASSUME LifeInv, NEW m \in Masters, call.by = m,
                      call.at \in {"load", "gate", "errors", "recheck"},
                      master[m].handle, bus_active
               PROVE  job = m \/ excuses[m] \cap {"half activated",
                 "stopped by another"} # {}
    BY DEF MailboxServed
  <2>1. CASE call.at \in {"load", "gate"}
    BY <2>1 DEF LifeInv, BusServed, Closing
  <2>2. CASE call.at \in {"errors", "recheck"}
    BY <2>2 DEF LifeInv, JobOwned, Running
  <2> QED BY <2>1, <2>2
<1> QED BY <1>1, LifeInvHolds, PTL

(* A destroyed Master has released what it requested, but for the handle     *)
(* that a second map_joints overwrote.                                       *)
THEOREM BusGivenBack ==
  Spec => []BusReturned
<1>1. LifeInv => BusReturned
  BY DEF LifeInv, HandlesTrue, BusReturned
<1> QED BY <1>1, LifeInvHolds, PTL

-----------------------------------------------------------------------------
(* Paced is kept, if the sleep is no shorter than the window.               *)
LEMMA PacedStays ==
  ASSUME SleepCycles >= ResetCycles, LifeInv, Paced, [Next]_vars
  PROVE  Paced'
<1> USE CallMoves DEF LifeInv, TypeOK
<1>1. ASSUME call'.at \notin {"sleep", "recheck"}, call'.slept = call.slept,
             call'.at \in BeforeSleep \cup {"idle"} => call.at \in BeforeSleep \cup {"idle"}
      PROVE  Paced'
  BY <1>1 DEF Paced, At
<1>2. ASSUME call' = Idle
      PROVE  Paced'
  BY <1>2 DEF Paced, At
<1>3. ASSUME NEW m \in Masters, OutsideSteps(m)
      PROVE  Paced'
  <2>1. call'.slept = 0
    <3>1. call.slept = 0
      BY <1>3, OutsideKeeps DEF Paced, BeforeSleep
    <3>2. CASE Start(m) \/ Shutdown(m) \/ Destroy(m)
      BY <3>2 DEF Start, Shutdown, Destroy, Idle
    <3>3. CASE Construct(m) \/ MapAgain(m) \/ MapRefused(m) \/ MapJoints(m)
      \/ SafetyCalls(m)
      BY <3>1, <3>3 DEF Construct, MapAgain, MapRefused, MapJoints, SafetyCalls,
        SafetyReset,
        RequestSafeOutput, ReleaseSafeOutput, RequestFaultReset
    <3>4. CASE StartLoad(m) \/ StartRefused(m) \/ StartHalfActivated(m) \/ StartActivated(m)
      BY <3>1, <3>4 DEF StartLoad, StartRefused, StartHalfActivated, StartActivated, Return
    <3>5. CASE StartGate(m)
      BY <3>1, <3>5 DEF StartGate, CallStates
    <3> QED BY <1>3, <3>2, <3>3, <3>4, <3>5 DEF OutsideSteps
  <2>2. call'.at \notin {"sleep", "recheck"}
    BY <1>3, OutsideKeeps
  <2> QED BY <2>1, <2>2 DEF Paced, At
<1>4. ASSUME NEW m \in Masters, StartArm(m) \/ StartJob(m) \/ StartWait(m)
      PROVE  Paced'
  <2>1. call.at \in BeforeSleep
    BY <1>4 DEF StartArm, StartJob, StartWait, At, BeforeSleep
  <2>2. Goto("boot") \/ Goto("wait") \/ Goto("clear") \/ Close("failed") \/ Close("no job")
    BY <1>4 DEF StartArm, StartJob, StartWait
  <2>3. call'.at \notin {"sleep", "recheck"} /\ call'.slept = call.slept
    <3>1. CASE Goto("boot") \/ Goto("wait")
      BY <3>1
    <3>2. CASE Goto("clear")
      BY <3>2
    <3>3. CASE Close("failed") \/ Close("no job")
      BY <3>3
    <3> QED BY <2>2, <3>1, <3>2, <3>3
  <2> QED BY <1>1, <2>1, <2>3
<1>5. ASSUME NEW m \in Masters, StartClear(m)
      PROVE  Paced'
  BY <1>1, <1>5 DEF StartClear, At, BeforeSleep
<1>6. ASSUME NEW m \in Masters, StartErrors(m)
      PROVE  Paced'
  <2>1. call.by = m /\ call.at = "errors"
    BY <1>6 DEF StartErrors, At
  <2>2. CASE Goto("operational") \/ Close("failed")
    BY <1>1, <2>1, <2>2 DEF BeforeSleep
  <2>3. CASE Goto("sleep") /\ master' = [master EXCEPT ![m].window = ResetCycles]
    <3>1. call'.by = m /\ call'.at = "sleep" /\ call'.slept = 0
      BY <2>1, <2>3 DEF Paced, BeforeSleep
    <3>2. master'[m].window = ResetCycles
      BY <2>3 DEF MasterStates
    <3> QED BY <3>1, <3>2, LifecycleAssumption DEF Paced, At, BeforeSleep
  <2> QED BY <1>6, <2>2, <2>3 DEF StartErrors
<1>7. ASSUME NEW m \in Masters, StartSleep(m)
      PROVE  Paced'
  <2>1. /\ call.by = m /\ call.at = "sleep" /\ call.slept >= SleepCycles
        /\ master' = master /\ call'.by = m /\ call'.at = "recheck"
    BY <1>7 DEF StartSleep, At
  <2>2. master[m].window \in Nat /\ call.slept \in Nat
    BY LifecycleAssumption DEF MasterStates, CallStates
  <2>3. master[m].window = 0
    BY <2>1, <2>2, LifecycleAssumption DEF Paced, At
  <2> QED BY <2>1, <2>3 DEF Paced, At, BeforeSleep
<1>8. ASSUME NEW m \in Masters, StartRecheck(m)
      PROVE  Paced'
  <2>1. Goto("operational") \/ Close("failed")
    BY <1>8 DEF StartRecheck
  <2> QED BY <1>1, <2>1 DEF BeforeSleep
<1>9. ASSUME NEW m \in Masters, StartOperational(m) \/ Deactivate(m)
      PROVE  Paced'
  BY <1>2, <1>9 DEF StartOperational, Deactivate, Return
<1>10. ASSUME NEW m \in Masters, Stop(m)
       PROVE  Paced'
  <2>1. call'.at = "off"
    BY <1>10 DEF Stop
  <2> QED BY <2>1 DEF Paced, At, BeforeSleep
<1>11. CASE JobCycle
  <2>1. call'.at = call.at /\ call'.by = call.by
    BY <1>11 DEF JobCycle, CallStates
  <2>2. CASE call.at \in {"sleep", "recheck"}
    <3>1. job = call.by /\ job \in Masters /\ flags.safe
      BY <1>11, <2>2 DEF JobOwned, SafeWhileStarting, Running, JobCycle
    <3> DEFINE w == master[job].window
    <3>2. w \in Nat /\ call.slept \in Nat
      BY <3>1, LifecycleAssumption DEF MasterStates, CallStates
    <3>3. master'[job].window = IF w > 0 THEN w - 1 ELSE w
      BY <1>11, <3>1 DEF JobCycle, MasterStates
    <3>4. call'.slept = call.slept \/ call'.slept = call.slept + 1
      BY <1>11 DEF JobCycle, CallStates
    <3>5. w = 0 \/ (call.at = "sleep" /\ w + call.slept <= ResetCycles)
      BY <2>2, <3>1 DEF Paced, At
    <3>6. \/ master'[job].window = 0
          \/ call.at = "sleep" /\ master'[job].window + call'.slept <= ResetCycles
      BY <3>2, <3>3, <3>4, <3>5, LifecycleAssumption
    <3>7. call.at = "recheck" => master'[job].window = 0
      BY <3>6
    <3> HIDE DEF w
    <3> QED BY <2>1, <2>2, <3>1, <3>6, <3>7 DEF Paced, At, BeforeSleep
  <2>3. CASE call.at \notin {"sleep", "recheck"}
    <3>1. call' = call
      BY <1>11, <2>3 DEF JobCycle
    <3> QED BY <1>1, <2>3, <3>1
  <2> QED BY <2>2, <2>3
<1>12. CASE DriveFails \/ UNCHANGED vars
  <2>1. UNCHANGED <<master, call>>
    BY <1>12 DEF DriveFails, vars
  <2> QED BY <2>1 DEF Paced, At
<1> QED
  BY <1>3, <1>4, <1>5, <1>6, <1>7, <1>8, <1>9, <1>10, <1>11, <1>12
  DEF Next, Life, StartSteps, OutsideSteps

(* When start() looks at the error codes again its Fault Reset window has    *)
(* run out, provided that its sleep lasts as many cycles as the window has:  *)
(* 80 ms for 20 cycles, so for a cycle time below 4 ms.                      *)
THEOREM ResetWindowServed ==
  ASSUME SleepCycles >= ResetCycles
  PROVE  Spec => []WindowServed
<1>1. Init => Paced
  BY LifecycleAssumption DEF Init, Paced, Idle, At
<1>2. LifeInv /\ Paced /\ [Next]_vars => Paced'
  BY PacedStays
<1>3. Paced => WindowServed
  BY DEF Paced, WindowServed
<1> QED BY <1>1, <1>2, <1>3, LifeInvHolds, PTL DEF Spec
===============================================================================
