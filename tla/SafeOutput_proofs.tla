-------------------------- MODULE SafeOutput_proofs --------------------------
(***************************************************************************)
(* The Fault Reset window is bounded between calls, for every number of    *)
(* axes, length of the window and width of the counter.                    *)
(***************************************************************************)
EXTENDS SafeOutput, TLAPS

(* A call is between its two stores, or has stopped the count but not yet  *)
(* cleared the axis: only then may a wrapped counter meet a chosen axis.   *)
HalfDone == api \in {"storeCycles", "clearAxis"}

InFlight == job_pc = "write" /\ cycles > 0 /\ axis # "none"

(* The Job counts after every cycle it opened with a positive count.       *)
CountIsDue == job_pc = "count" => cycles > 0

(* Such a cycle finds a positive count when it gets to subtracting.        *)
NoWrap ==
  ~HalfDone /\ reset_axis # "none" /\ job_pc \in {"loadAxis", "write", "count"} /\ cycles > 0
    => reset_cycles >= 1

(* While an axis is chosen, the words written and those still to come make *)
(* one window; afterwards at most the word of a cycle under way.           *)
Budget ==
  ~HalfDone =>
    /\ reset_axis # "none" =>
         written + reset_cycles <= ResetCycles + (IF job_pc = "count" THEN 1 ELSE 0)
    /\ reset_axis = "none" => written + (IF InFlight THEN 1 ELSE 0) <= ResetCycles

WindowInv == TypeOK /\ CountIsDue /\ NoWrap /\ Budget

LEMMA Constants ==
  /\ ResetCycles \in Nat /\ ResetCycles >= 1 /\ CountWidth \in Nat
  /\ ResetCycles \in 0..CountWidth - 1 /\ 0 \in 0..CountWidth - 1
  /\ "none" \in Selections
<1>1. "none" \in Selections
  BY DEF Selections
<1>2. /\ ResetCycles \in Nat /\ ResetCycles >= 1 /\ CountWidth \in Nat
      /\ ResetCycles < CountWidth
  BY SafeOutputAssumption
<1>3. \A n, w \in Nat : n < w => n \in 0..w - 1 /\ 0 \in 0..w - 1
  OBVIOUS
<1> QED BY <1>1, <1>2, <1>3

-----------------------------------------------------------------------------
LEMMA InitType == Init => TypeOK
<1> SUFFICES ASSUME Init PROVE TypeOK
  OBVIOUS
<1>1. reset_axis \in Selections /\ axis \in Selections /\ requested \in Selections
  BY Constants DEF Init
<1>2. /\ reset_cycles \in 0..CountWidth - 1 /\ cycles \in 0..CountWidth - 1
      /\ written \in 0..ResetCycles + 1
  BY Constants DEF Init
<1>3. status \in [Axes -> DriveStates]
  BY DEF Init, DriveStates
<1> QED BY <1>1, <1>2, <1>3 DEF Init, TypeOK, JobPcs, ApiPcs

LEMMA JobType ==
  ASSUME TypeOK, JobNext
  PROVE  TypeOK'
<1> USE DEF TypeOK, JobStep, JobPcs, flags, image, window, caller, hist
<1>1. CASE JobDrive
  BY <1>1 DEF JobDrive
<1>2. CASE JobEnterSafe
  BY <1>2 DEF JobEnterSafe
<1>3. CASE JobLoadCycles
  BY <1>3 DEF JobLoadCycles
<1>4. CASE JobLoadAxis
  BY <1>4 DEF JobLoadAxis
<1>5. CASE JobWrite
  <2>1. written' \in 0..ResetCycles + 1
    BY <1>5, Constants DEF JobWrite
  <2>2. safe_latched_position' \in Positions
    BY <1>5 DEF JobWrite
  <2>3. fresh' \in BOOLEAN /\ job_pc' \in JobPcs
    BY <1>5, Zenon DEF JobWrite
  <2> QED BY <1>5, <2>1, <2>2, <2>3 DEF JobWrite
<1>6. CASE JobCount
  <2>1. reset_cycles' \in 0..CountWidth - 1
    BY <1>6, Constants DEF JobCount
  <2>2. job_pc' \in JobPcs
    BY <1>6 DEF JobCount
  <2> QED BY <1>6, <2>1, <2>2 DEF JobCount
<1>7. CASE JobClearAxis
  BY <1>7, Constants DEF JobClearAxis
<1>8. CASE JobVerdict
  BY <1>8 DEF JobVerdict
<1> QED BY <1>1, <1>2, <1>3, <1>4, <1>5, <1>6, <1>7, <1>8 DEF JobNext

LEMMA ApiType ==
  ASSUME TypeOK, ApiSteps \/ ApiCalls
  PROVE  TypeOK'
<1> USE DEF TypeOK, ApiStep, ApiPcs, flags, image, window, job, caller, hist
<1>1. CASE StoreAxis
  BY <1>1 DEF StoreAxis, Selected
<1>2. CASE StoreCycles
  BY <1>2, Constants DEF StoreCycles
<1>3. CASE ClearActive
  BY <1>3 DEF ClearActive
<1>4. CASE ClearCycles
  BY <1>4, Constants DEF ClearCycles
<1>5. CASE ClearAxis
  <2>1. written' \in 0..ResetCycles + 1
    BY <1>5, Constants DEF ClearAxis
  <2>2. reset_axis' \in Selections
    BY <1>5, Constants DEF ClearAxis
  <2>3. UNCHANGED <<flags, image, reset_cycles, actual, status, job, requested, fresh>>
    BY <1>5 DEF ClearAxis
  <2>4. api' = "idle"
    BY <1>5 DEF ClearAxis
  <2> QED BY <2>1, <2>2, <2>3, <2>4
<1>6. ASSUME NEW s \in Selections, RequestFaultReset(s) PROVE TypeOK'
  BY <1>6 DEF RequestFaultReset
<1>7. CASE SafetyReset
  BY <1>7 DEF SafetyReset
<1>8. CASE RequestSafeOutput
  BY <1>8 DEF RequestSafeOutput
<1>9. CASE ReleaseSafeOutput
  BY <1>9 DEF ReleaseSafeOutput
<1> QED BY <1>1, <1>2, <1>3, <1>4, <1>5, <1>6, <1>7, <1>8, <1>9 DEF ApiSteps, ApiCalls

LEMMA DriveType ==
  ASSUME TypeOK, Moves \/ StatusChanges \/ UNCHANGED vars
  PROVE  TypeOK'
<1> USE DEF TypeOK, flags, image, window, job, caller, hist
<1>1. CASE Moves
  BY <1>1 DEF Moves
<1>2. CASE StatusChanges
  BY <1>2 DEF StatusChanges
<1>3. CASE UNCHANGED vars
  BY <1>3 DEF vars
<1> QED BY <1>1, <1>2, <1>3

-----------------------------------------------------------------------------
LEMMA InitWindow == Init => WindowInv
<1> SUFFICES ASSUME Init PROVE WindowInv
  OBVIOUS
<1> QED BY InitType, Constants
        DEF Init, WindowInv, CountIsDue, NoWrap, Budget, HalfDone, InFlight

LEMMA JobKeepsWindow ==
  ASSUME WindowInv, JobNext
  PROVE  WindowInv'
<1>0. /\ TypeOK' /\ TypeOK /\ CountIsDue /\ NoWrap /\ Budget
      /\ cycles \in Nat /\ reset_cycles \in Nat /\ written \in Nat
  BY JobType, Constants DEF WindowInv, TypeOK
<1> USE DEF JobStep, CountIsDue, NoWrap, Budget, HalfDone, InFlight, window, caller, hist
<1>1. CASE JobDrive
  BY <1>0, <1>1, Constants DEF JobDrive, WindowInv
<1>2. CASE JobEnterSafe
  BY <1>0, <1>2, Constants DEF JobEnterSafe, WindowInv
<1>3. CASE JobLoadCycles
  BY <1>0, <1>3, Constants DEF JobLoadCycles, WindowInv
<1>4. CASE JobLoadAxis
  BY <1>0, <1>4, Constants DEF JobLoadAxis, WindowInv
<1>5. CASE JobWrite
  <2>1. Resets # {} => cycles > 0 /\ job_pc = "write"
    BY DEF Resets
  <2>2. Resets # {} => axis # "none"
    BY SafeOutputAssumption DEF Resets, Selected, Covers
  <2>3. written' = written \/ (Resets # {} /\ written' = written + 1)
    BY <1>5 DEF JobWrite
  <2>4. job_pc = "write" /\ job_pc' = (IF cycles > 0 THEN "count" ELSE "verdict")
        /\ UNCHANGED <<window, cycles, axis, caller>>
    BY <1>5 DEF JobWrite
  <2> QED BY <1>0, <2>1, <2>2, <2>3, <2>4, Constants DEF WindowInv
<1>6. CASE JobCount
  <2>1. /\ job_pc = "count" /\ job_pc' \in {"clearAxis", "verdict"}
        /\ reset_cycles' = IF reset_cycles = 0 THEN CountWidth - 1 ELSE reset_cycles - 1
        /\ UNCHANGED <<reset_axis, cycles, axis, api, written>>
    BY <1>6 DEF JobCount
  <2> QED BY <1>0, <2>1, Constants DEF WindowInv
<1>7. CASE JobClearAxis
  BY <1>0, <1>7, Constants DEF JobClearAxis, WindowInv
<1>8. CASE JobVerdict
  BY <1>0, <1>8, Constants DEF JobVerdict, WindowInv
<1> QED BY <1>1, <1>2, <1>3, <1>4, <1>5, <1>6, <1>7, <1>8 DEF JobNext

LEMMA ApiKeepsWindow ==
  ASSUME WindowInv, ApiSteps \/ ApiCalls
  PROVE  WindowInv'
<1>0. /\ TypeOK' /\ TypeOK /\ CountIsDue /\ NoWrap /\ Budget
      /\ cycles \in Nat /\ reset_cycles \in Nat /\ written \in Nat
  BY ApiType, Constants DEF WindowInv, TypeOK
<1> USE DEF ApiStep, CountIsDue, NoWrap, Budget, HalfDone, InFlight, window, job, hist
<1>1. CASE StoreAxis
  BY <1>0, <1>1, Constants DEF StoreAxis, WindowInv
<1>2. CASE StoreCycles
  BY <1>0, <1>2, Constants DEF StoreCycles, WindowInv
<1>3. CASE ClearActive
  BY <1>0, <1>3, Constants DEF ClearActive, WindowInv
<1>4. CASE ClearCycles
  BY <1>0, <1>4, Constants DEF ClearCycles, WindowInv
<1>5. CASE ClearAxis
  BY <1>0, <1>5, Constants DEF ClearAxis, WindowInv
<1>6. ASSUME NEW s \in Selections, RequestFaultReset(s) PROVE WindowInv'
  BY <1>0, <1>6, Constants DEF RequestFaultReset, WindowInv
<1>7. CASE SafetyReset
  BY <1>0, <1>7, Constants DEF SafetyReset, WindowInv
<1>8. CASE RequestSafeOutput
  BY <1>0, <1>8, Constants DEF RequestSafeOutput, caller, WindowInv
<1>9. CASE ReleaseSafeOutput
  BY <1>0, <1>9, Constants DEF ReleaseSafeOutput, caller, WindowInv
<1> QED BY <1>1, <1>2, <1>3, <1>4, <1>5, <1>6, <1>7, <1>8, <1>9 DEF ApiSteps, ApiCalls

LEMMA DriveKeepsWindow ==
  ASSUME WindowInv, Moves \/ StatusChanges \/ UNCHANGED vars
  PROVE  WindowInv'
<1>1. UNCHANGED <<window, job, caller, hist>>
  BY DEF Moves, StatusChanges, vars
<1>2. TypeOK'
  BY DriveType DEF WindowInv
<1> QED BY <1>1, <1>2
        DEF WindowInv, CountIsDue, NoWrap, Budget, HalfDone, InFlight, window, job, caller, hist

(* Every shared object and local of the safe process image keeps its type; *)
(* the counter may wrap but stays in its sixteen bits.                     *)
THEOREM SafeOutputType == Spec => []TypeOK
<1>1. TypeOK /\ [Next]_vars => TypeOK'
  BY JobType, ApiType, DriveType DEF Next
<1> QED BY <1>1, InitType, PTL DEF Spec

(* Whatever earlier windows, requests and clears left behind, and although *)
(* the count-down may pass zero: between two calls the Fault Reset word is *)
(* written in at most ResetCycles cycles (ethercat_servo.cpp 2905-2912,    *)
(* 3975-3982 and 4158-4234).                                               *)
THEOREM BoundedWindow == Spec => []BoundedBetweenCalls
<1>1. WindowInv /\ [Next]_vars => WindowInv'
  BY JobKeepsWindow, ApiKeepsWindow, DriveKeepsWindow DEF Next
<1>2. WindowInv => BoundedBetweenCalls
  <2> SUFFICES ASSUME WindowInv, api = "idle" PROVE written <= ResetCycles
    BY DEF BoundedBetweenCalls
  <2>1. written \in Nat /\ reset_cycles \in Nat /\ cycles \in Nat
    BY Constants DEF WindowInv, TypeOK
  <2>2. job_pc = "count" /\ reset_axis # "none" => reset_cycles >= 1
    BY DEF WindowInv, CountIsDue, NoWrap, HalfDone
  <2> QED BY <2>1, <2>2, Constants DEF WindowInv, Budget, HalfDone, InFlight
<1> QED BY <1>1, <1>2, InitWindow, PTL DEF Spec

(* A cycle that is not an entry finds a position captured since the last   *)
(* driving cycle.                                                          *)
CaptureInv ==
  /\ job_pc \notin {"loadCycles", "loadAxis", "write"} /\ safe_output_active => fresh
  /\ job_pc \in {"loadCycles", "loadAxis", "write"} => entering \/ fresh

LEMMA CaptureStep ==
  ASSUME CaptureInv, [Next]_vars
  PROVE  CaptureInv'
<1> USE DEF CaptureInv, JobStep, image, job, hist
<1>1. CASE JobNext
  <2>1. CASE JobDrive
    BY <2>1 DEF JobDrive
  <2>2. CASE JobEnterSafe
    BY <2>2 DEF JobEnterSafe
  <2>3. CASE JobLoadCycles
    BY <2>3 DEF JobLoadCycles
  <2>4. CASE JobLoadAxis
    BY <2>4 DEF JobLoadAxis
  <2>5. CASE JobWrite
    BY <2>5 DEF JobWrite
  <2>6. CASE JobCount
    BY <2>6 DEF JobCount
  <2>7. CASE JobClearAxis
    BY <2>7 DEF JobClearAxis
  <2>8. CASE JobVerdict
    BY <2>8 DEF JobVerdict
  <2> QED BY <1>1, <2>1, <2>2, <2>3, <2>4, <2>5, <2>6, <2>7, <2>8 DEF JobNext
<1>2. CASE ApiSteps
  BY <1>2 DEF ApiSteps, StoreAxis, StoreCycles, ClearActive, ClearCycles, ClearAxis
<1>3. CASE ApiCalls
  BY <1>3 DEF ApiCalls, RequestFaultReset, SafetyReset, RequestSafeOutput, ReleaseSafeOutput
<1>4. CASE Moves \/ StatusChanges \/ UNCHANGED vars
  BY <1>4 DEF Moves, StatusChanges, vars
<1> QED BY <1>1, <1>2, <1>3, <1>4 DEF Next

(* No safe cycle writes a position captured before the last driving cycle  *)
(* (ethercat_servo.cpp 3978, 4143 and 4155-4172).                          *)
THEOREM FreshPosition == Spec => SafePositionFresh
<1>1. Init => CaptureInv
  BY DEF Init, CaptureInv
<1>2. CaptureInv /\ [Next]_vars => [job_pc = "write" /\ job_pc' # "write" => fresh']_vars
  <2> SUFFICES ASSUME CaptureInv, Next, job_pc = "write", job_pc' # "write"
               PROVE  fresh'
    OBVIOUS
  <2>1. JobNext
    BY DEF Next, ApiSteps, StoreAxis, StoreCycles, ClearActive, ClearCycles, ClearAxis, ApiCalls,
           RequestFaultReset, SafetyReset, RequestSafeOutput, ReleaseSafeOutput, Moves,
           StatusChanges, job
  <2>2. JobWrite
    BY <2>1 DEF JobNext, JobStep, JobDrive, JobEnterSafe, JobLoadCycles, JobLoadAxis, JobCount,
                JobClearAxis, JobVerdict
  <2> QED BY <2>2 DEF CaptureInv, JobWrite
<1> QED BY <1>1, <1>2, CaptureStep, PTL DEF Spec, SafePositionFresh
=============================================================================
