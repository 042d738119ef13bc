--------------------------- MODULE PdoSnapshot_proofs ---------------------------
(* Proofs about PdoSnapshot, for every set of motors, sensors and readers    *)
(* and any number of writes, under the one hypothesis that a build keeps the *)
(* stores of a write behind writeBegin (StoresFollowBegin).                  *)
EXTENDS PdoSnapshot, SequenceTheorems, TLAPS

(* The number is odd exactly while a write stores, and counts the writes.    *)
NumberTrue ==
  /\ writer = "idle" => seq = 2 * writes
  /\ writer = "prepared" => seq = 2 * writes - 2
  /\ writer = "storing" => seq = 2 * writes - 1

(* Outside a section the cells are as the last write published them; inside, *)
(* a cell is still that or already this write's, which is newer than all.    *)
CellsTrue ==
  /\ writer # "storing" => cells = published
  /\ \A c \in Cells :
       /\ cells[c] \in {published[c], writes}
       /\ published[c] <= writes
       /\ writer # "idle" => published[c] < writes

(* An attempt whose number still stands has loaded what the cells hold.      *)
AttemptsTrue ==
  \A r \in Readers : start[r] # NotBegun =>
    /\ plan[r] # <<>>
    /\ start[r] <= seq /\ \E n \in 0..MaxWrites : start[r] = 2 * n
    /\ start[r] = seq => \A c \in Head(plan[r]) \ unread[r] : loaded[r][c] = cells[c]

SnapshotInv == TypeOK /\ NumberTrue /\ CellsTrue /\ AttemptsTrue

Positions == Motors \X {"position"}

Status(i) == <<i, "status">>

(* A write is of all cells, or of positions only; so no status gets ahead.   *)
StatusBehind ==
  /\ \A i \in Motors, f \in {"position",
    "velocity"} : published[Status(i)] <= published[<<i, f>>]
  /\ writer # "idle" =>
       \/ \A c \in Cells \ unwritten : cells[c] = writes
       \/ /\ unwritten \subseteq Positions
          /\ \A c \in Cells \ Positions : cells[c] = published[c]

(* A call that reads a status reads position and velocity with it or later;  *)
(* what it has copied may lack the motion of its status only until then.     *)
StatusFirst ==
  \A r \in Readers :
    /\ \A c \in Cells : copied[r][c] <= published[c]
    /\ \A i \in Motors, f \in {"position", "velocity"} :
         /\ \A k \in DOMAIN plan[r] : Status(i) \in plan[r][k] =>
              \E l \in DOMAIN plan[r] : l >= k /\ <<i, f>> \in plan[r][l]
         /\ \/ copied[r][Status(i)] <= copied[r][<<i, f>>]
            \/ \E l \in DOMAIN plan[r] : <<i, f>> \in plan[r][l]

OrderInv == SnapshotInv /\ StatusBehind /\ StatusFirst

-----------------------------------------------------------------------------
(* The cells that are named one by one. *)
LEMMA CellsNamed ==
  /\ \A i \in Motors, f \in MotorFields : <<i, f>> \in Cells
  /\ \A i \in Motors : {<<i, "position">>} \in SUBSET Cells /\ {<<i,
    "position">>} \subseteq Positions
  /\ \A i \in Motors : Status(i) \in Cells \ Positions
  /\ \A i \in Sensors : SensorSample(i) \in SUBSET Cells
  /\ MotorStates \in SUBSET Cells
  BY DEF Cells, MotorFields, SensorSample, MotorStates, Positions, Status

(* The sections of the three calls are sequences of sets of cells.           *)
LEMMA PlansTyped ==
  /\ <<>> \in Seq(SUBSET Cells)
  /\ \A i \in Motors : CycleReads(i) \in Seq(SUBSET Cells)
  /\ <<MotorStates>> \in Seq(SUBSET Cells)
  /\ \A i \in Sensors : <<SensorSample(i)>> \in Seq(SUBSET Cells)
<1>1. \A i \in Motors, f \in MotorFields : {<<i, f>>} \in SUBSET Cells
  BY CellsNamed
<1>2. ASSUME NEW i \in Motors
      PROVE  CycleReads(i) \in Seq(SUBSET Cells)
  <2>1. /\ {<<i, "status">>} \in SUBSET Cells /\ {<<i, "position">>} \in SUBSET Cells
        /\ {<<i, "velocity">>} \in SUBSET Cells
    BY <1>1 DEF MotorFields
  <2> QED BY <2>1 DEF CycleReads
<1>3. \A S \in SUBSET Cells : <<S>> \in Seq(SUBSET Cells)
  OBVIOUS
<1> QED BY <1>2, <1>3, CellsNamed

(* A writer's step keeps the types; the number stays below its bound.       *)
LEMMA WriterTyped ==
  ASSUME TypeOK, NumberTrue, Write \/ Finish
  PROVE  TypeOK'
<1> USE SnapshotAssumption, CellsNamed DEF TypeOK, Counts, reading
<1>1. CASE Activate
  BY <1>1 DEF Activate
<1>2. ASSUME NEW written \in SUBSET Cells, Prepare(written)
      PROVE  TypeOK'
  BY <1>2 DEF Prepare
<1>3. CASE Receive \/ InitializePosition
  BY <1>2, <1>3 DEF Receive, InitializePosition
<1>4. CASE Deactivate
  BY <1>4 DEF Deactivate
<1>5. CASE WriteBegin
  BY <1>5 DEF WriteBegin, NumberTrue
<1>6. CASE Store
  BY <1>6 DEF Store
<1>7. CASE WriteEnd
  BY <1>7 DEF WriteEnd, NumberTrue
<1> QED BY <1>1, <1>3, <1>4, <1>5, <1>6, <1>7 DEF Write, Finish

(* A reader's step keeps the types.                                         *)
LEMMA ReaderTyped ==
  ASSUME TypeOK, AttemptsTrue, NEW r \in Readers,
         CycleCall(r) \/ StatesCall(r) \/ SampleCall(r) \/ ReadStep(r)
  PROVE  TypeOK'
<1> USE DEF TypeOK, Counts, writing, NotBegun
<1>1. ASSUME NEW sections \in Seq(SUBSET Cells), Call(r, sections)
      PROVE  TypeOK'
  BY <1>1 DEF Call
<1>2. CASE CycleCall(r) \/ StatesCall(r) \/ SampleCall(r)
  BY <1>1, <1>2, PlansTyped DEF CycleCall, StatesCall, SampleCall
<1>3. CASE ReadBegin(r)
  <2>1. Head(plan[r]) \in SUBSET Cells
    BY <1>3, HeadTailProperties DEF ReadBegin
  <2> QED BY <1>3, <2>1 DEF ReadBegin
<1>4. CASE Load(r)
  BY <1>4 DEF Load
<1>5. CASE Retry(r)
  <2>1. start' \in [Readers -> -1..(2 * MaxWrites)]
    BY <1>5, SnapshotAssumption DEF Retry
  <2> QED BY <1>5, <2>1 DEF Retry
<1>6. CASE Accept(r)
  <2>1. Tail(plan[r]) \in Seq(SUBSET Cells)
    BY <1>6, HeadTailProperties DEF Accept, Loaded, AttemptsTrue
  <2>2. [c \in Cells |-> IF c \in Head(plan[r]) THEN loaded[r][c] ELSE copied[r][c]] \in Counts
    OBVIOUS
  <2>3. Untouched \in Counts
    BY SnapshotAssumption DEF Untouched
  <2>4. plan' \in [Readers -> Seq(SUBSET Cells)]
    BY <1>6, <2>1 DEF Accept
  <2>5. copied' \in [Readers -> Counts]
    <3>1. copied' = [copied EXCEPT ![r] =
                       [c \in Cells |-> IF c \in Head(plan[r]) THEN loaded[r][c] ELSE copied[r][c]]]
      BY <1>6 DEF Accept
    <3> HIDE DEF Counts
    <3> QED BY <2>2, <3>1
  <2>6. start' \in [Readers -> -1..(2 * MaxWrites)]
    BY <1>6, SnapshotAssumption DEF Accept
  <2>7. loaded' \in [Readers -> Counts]
    <3> HIDE DEF Counts
    <3> QED BY <1>6, <2>3 DEF Accept
  <2> QED BY <1>6, <2>4, <2>5, <2>6, <2>7 DEF Accept
<1> QED BY <1>2, <1>3, <1>4, <1>5, <1>6 DEF ReadStep

(* NumberTrue is kept.                                                      *)
LEMMA NumberStays ==
  ASSUME StoresFollowBegin, seq \in Int, writes \in Int, NumberTrue, [Next]_vars
  PROVE  NumberTrue'
<1> USE DEF NumberTrue
<1>1. CASE Activate \/ Deactivate
  BY <1>1 DEF Activate, Deactivate
<1>2. CASE Receive \/ InitializePosition
  BY <1>2 DEF Receive, InitializePosition, Prepare
<1>3. CASE WriteBegin
  BY <1>3 DEF WriteBegin
<1>4. CASE Store
  BY <1>4 DEF Store
<1>5. CASE WriteEnd
  BY <1>5 DEF WriteEnd
<1>6. CASE UNCHANGED writing
  BY <1>6 DEF writing
<1> QED
  BY <1>1, <1>2, <1>3, <1>4, <1>5, <1>6 DEF Next, vars, Write, Finish, CycleCall,
    StatesCall,
    SampleCall, Call, ReadStep, ReadBegin, Load, Retry, Accept

(* CellsTrue is kept.                                                       *)
LEMMA CellsStay ==
  ASSUME StoresFollowBegin, TypeOK, NumberTrue, CellsTrue, [Next]_vars
  PROVE  CellsTrue'
<1> USE DEF TypeOK, CellsTrue, Counts
<1>1. CASE Write
  BY <1>1 DEF Write, Activate, Deactivate, Receive, InitializePosition, Prepare
<1>2. CASE WriteBegin
  BY <1>2 DEF WriteBegin
<1>3. CASE Store
  BY <1>3 DEF Store
<1>4. CASE WriteEnd
  <2>1. cells' = cells /\ published' = cells /\ writes' = writes /\ writer' = "idle"
    BY <1>4 DEF WriteEnd
  <2>2. writes \in Int
    BY SnapshotAssumption
  <2>3. \A c \in Cells : cells[c] <= writes
    <3> HIDE DEF TypeOK
    <3> QED BY <2>2
  <2> QED BY <2>1, <2>3
<1>5. CASE UNCHANGED writing
  BY <1>5 DEF writing
<1> QED
  BY <1>1, <1>2, <1>3, <1>4, <1>5 DEF Next, vars, Finish, CycleCall, StatesCall,
    SampleCall, Call,
    ReadStep, ReadBegin, Load, Retry, Accept

(* A writer's step leaves the readers alone, and what it stores is behind    *)
(* the number of every attempt that could still be accepted.                 *)
LEMMA AttemptsStay ==
  ASSUME StoresFollowBegin, TypeOK, NumberTrue, CellsTrue, AttemptsTrue, [Next]_vars
  PROVE  AttemptsTrue'
<1>1. seq \in Int /\ writes \in Int /\ start \in [Readers -> Int]
  BY SnapshotAssumption DEF TypeOK
<1>2. CASE Activate \/ Deactivate \/ Receive \/ InitializePosition
  BY <1>2 DEF Activate, Deactivate, Receive, InitializePosition, Prepare, AttemptsTrue,
    reading
<1>3. CASE WriteBegin \/ WriteEnd
  <2>1. seq' = seq + 1 /\ UNCHANGED reading
    BY <1>3 DEF WriteBegin, WriteEnd
  <2>2. \A r \in Readers : start[r] # NotBegun => start[r] # seq'
    BY <1>1, <2>1 DEF AttemptsTrue
  <2> QED BY <1>1, <2>1, <2>2 DEF AttemptsTrue, reading
<1>4. CASE Store
  <2>1. seq = 2 * writes - 1 /\ UNCHANGED <<seq, reading>>
    BY <1>4 DEF Store, NumberTrue
  <2>2. \A n \in 0..MaxWrites : 2 * n # seq
    BY <1>1, <2>1, SnapshotAssumption
  <2> QED BY <2>1, <2>2 DEF AttemptsTrue, reading
<1>5. ASSUME NEW r \in Readers, NEW sections \in Seq(SUBSET Cells), Call(r, sections)
      PROVE  AttemptsTrue'
  BY <1>5 DEF Call, AttemptsTrue, writing, TypeOK
<1>6. ASSUME NEW r \in Readers, CycleCall(r) \/ StatesCall(r) \/ SampleCall(r)
      PROVE  AttemptsTrue'
  BY <1>5, <1>6, PlansTyped DEF CycleCall, StatesCall, SampleCall
<1>7. ASSUME NEW r \in Readers, ReadBegin(r)
      PROVE  AttemptsTrue'
  <2>1. \E n \in 0..MaxWrites : seq = 2 * n
    <3>1. seq % 2 = 0 /\ seq >= 0
      BY <1>7, SnapshotAssumption DEF ReadBegin, TypeOK
    <3>2. writer # "storing"
      BY <1>1, <3>1 DEF NumberTrue
    <3>3. (writer = "idle" /\ seq = 2 * writes) \/ seq = 2 * (writes - 1)
      BY <1>1, <3>2 DEF NumberTrue, TypeOK
    <3>4. writes \in 0..MaxWrites /\ (seq = 2 * (writes - 1) => writes - 1 \in 0..MaxWrites)
      BY <1>1, <3>1, SnapshotAssumption DEF TypeOK
    <3> QED BY <3>3, <3>4
  <2> QED BY <1>1, <1>7, <2>1 DEF ReadBegin, AttemptsTrue, TypeOK, writing
<1>8. ASSUME NEW r \in Readers, Load(r)
      PROVE  AttemptsTrue'
  BY <1>8 DEF Load, AttemptsTrue, TypeOK, writing, Counts
<1>9. ASSUME NEW r \in Readers, Retry(r)
      PROVE  AttemptsTrue'
  BY <1>9 DEF Retry, AttemptsTrue, TypeOK, writing
<1>10. ASSUME NEW r \in Readers, Accept(r)
       PROVE  AttemptsTrue'
  BY <1>10 DEF Accept, AttemptsTrue, TypeOK, writing
<1>11. CASE UNCHANGED vars
  BY <1>11 DEF vars, writing, reading, AttemptsTrue
<1> QED
  BY <1>2, <1>3, <1>4, <1>6, <1>7, <1>8, <1>9, <1>10, <1>11 DEF Next, Write, Finish,
    ReadStep

(* The invariant is inductive.                                              *)
LEMMA SnapshotInvInductive ==
  ASSUME StoresFollowBegin, SnapshotInv, [Next]_vars
  PROVE  SnapshotInv'
<1>1. TypeOK'
  <2>1. CASE UNCHANGED vars
    BY <2>1 DEF SnapshotInv, TypeOK, vars, writing, reading
  <2> QED BY <2>1, WriterTyped, ReaderTyped DEF Next, SnapshotInv
<1>2. seq \in Int /\ writes \in Int
  BY SnapshotAssumption DEF SnapshotInv, TypeOK
<1> QED BY <1>1, <1>2, NumberStays, CellsStay, AttemptsStay DEF SnapshotInv

(* The invariant holds.                                                     *)
LEMMA SnapshotInvHolds ==
  ASSUME StoresFollowBegin
  PROVE  Spec => []SnapshotInv
<1>1. Init => SnapshotInv
  <2> SUFFICES ASSUME Init
               PROVE  SnapshotInv
    OBVIOUS
  <2>1. Untouched \in Counts
    BY SnapshotAssumption DEF Untouched, Counts
  <2>2. TypeOK
    <3>1. /\ seq \in 0..(2 * MaxWrites) /\ writes \in 0..MaxWrites
          /\ start \in [Readers -> -1..(2 * MaxWrites)]
      BY SnapshotAssumption DEF Init, NotBegun
    <3>2. plan \in [Readers -> Seq(SUBSET Cells)]
      BY PlansTyped DEF Init
    <3> QED BY <2>1, <3>1, <3>2 DEF Init, TypeOK
  <2>3. NumberTrue /\ CellsTrue /\ AttemptsTrue
    BY DEF Init, NumberTrue, CellsTrue, AttemptsTrue, Untouched
  <2> QED BY <2>2, <2>3 DEF SnapshotInv
<1> QED BY <1>1, SnapshotInvInductive, PTL DEF Spec

(* An accepted attempt copies what the last write published.                 *)
LEMMA AcceptsPublished ==
  ASSUME SnapshotInv, NEW r \in Readers, Accept(r)
  PROVE  /\ Head(plan[r]) \in SUBSET Cells
         /\ copied' = [copied EXCEPT ![r] =
                         [c \in Cells |-> IF c \in Head(plan[r]) THEN published[c] ELSE @[c]]]
         /\ UNCHANGED published
<1> USE DEF SnapshotInv
<1>1. seq \in Int /\ writes \in Int
  BY SnapshotAssumption DEF TypeOK
<1>2. /\ start[r] # NotBegun /\ unread[r] = {} /\ start[r] = seq
      /\ UNCHANGED published
      /\ copied' = [copied EXCEPT ![r] =
                      [c \in Cells |-> IF c \in Head(plan[r]) THEN loaded[r][c] ELSE @[c]]]
  BY DEF Accept, Loaded, writing
<1>3. Head(plan[r]) \in SUBSET Cells
  BY <1>2, HeadTailProperties DEF AttemptsTrue, TypeOK
<1>4. writer # "storing"
  <2>1. PICK n \in 0..MaxWrites : seq = 2 * n
    BY <1>2 DEF AttemptsTrue
  <2> QED BY <1>1, <2>1, SnapshotAssumption DEF NumberTrue
<1>5. \A c \in Head(plan[r]) : loaded[r][c] = published[c]
  BY <1>2, <1>4 DEF AttemptsTrue, CellsTrue
<1>6. [c \in Cells |-> IF c \in Head(plan[r]) THEN loaded[r][c] ELSE copied[r][c]]
        = [c \in Cells |-> IF c \in Head(plan[r]) THEN published[c] ELSE copied[r][c]]
  BY <1>5
<1> QED BY <1>2, <1>3, <1>6

(* Every step is one of AtomicSnapshot's, or changes nothing that it shows.  *)
LEMMA StepRefines ==
  ASSUME StoresFollowBegin, SnapshotInv, [Next]_vars
  PROVE  [Promise!Next]_<<published, copied>>
<1> USE DEF SnapshotInv
<1>1. CASE WriteEnd
  <2> DEFINE written == {c \in Cells : cells[c] = writes}
  <2>1. writes \in 1..MaxWrites /\ \A c \in Cells : published[c] < writes
    BY <1>1, SnapshotAssumption DEF WriteEnd, TypeOK, NumberTrue, CellsTrue
  <2>2. published' = [c \in Cells |-> IF c \in written THEN writes ELSE published[c]]
    BY <1>1 DEF WriteEnd, CellsTrue, TypeOK, Counts
  <2>3. UNCHANGED copied
    BY <1>1 DEF WriteEnd, reading
  <2> QED BY <2>1, <2>2, <2>3 DEF Promise!Next, Promise!Publish
<1>2. ASSUME NEW r \in Readers, Accept(r)
      PROVE  Promise!Next
  BY <1>2, AcceptsPublished DEF Promise!Next, Promise!Read
<1>3. CASE Activate \/ Deactivate \/ Receive \/ InitializePosition \/ WriteBegin \/ Store
  BY <1>3 DEF Activate, Deactivate, Receive, InitializePosition, Prepare, WriteBegin,
    Store, reading
<1>4. ASSUME NEW r \in Readers,
             \/ CycleCall(r) \/ StatesCall(r) \/ SampleCall(r)
             \/ ReadBegin(r) \/ Load(r) \/ Retry(r)
      PROVE  UNCHANGED <<published, copied>>
  BY <1>4 DEF CycleCall, StatesCall, SampleCall, Call, ReadBegin, Load, Retry, writing
<1>5. CASE UNCHANGED vars
  BY <1>5 DEF vars, writing, reading
<1> QED BY <1>1, <1>2, <1>3, <1>4, <1>5 DEF Next, Write, Finish, ReadStep

(* The cache implements AtomicSnapshot: a multi-cell read copies what one    *)
(* completed write left, the newest when it returns.                         *)
THEOREM CacheIsAtomic ==
  ASSUME StoresFollowBegin
  PROVE  Spec => ConsistentSnapshot
<1>1. Init => Promise!Init
  BY DEF Init, Promise!Init, Untouched
<1> QED
  BY <1>1, StepRefines, SnapshotInvHolds, PTL DEF Spec, ConsistentSnapshot, Promise!Spec

-----------------------------------------------------------------------------
(* The order of status and motion. *)

(* An empty plan asks for nothing.                                          *)
LEMMA NoSections ==
  DOMAIN <<>> = {}
  OBVIOUS

(* What is published never goes back. *)
LEMMA PublishedGrows ==
  ASSUME SnapshotInv, [Next]_vars
  PROVE  \A c \in Cells : published[c] <= published'[c]
<1>1. writes \in Int /\ published \in [Cells -> Int]
  BY SnapshotAssumption DEF SnapshotInv, TypeOK, Counts
<1>2. CASE WriteEnd
  BY <1>1, <1>2 DEF WriteEnd, SnapshotInv, CellsTrue
<1>3. CASE published' = published
  BY <1>1, <1>3
<1> QED
  BY <1>2, <1>3 DEF Next, vars, Write, Finish, Activate, Deactivate, Receive,
    InitializePosition,
    Prepare, WriteBegin, Store, writing, CycleCall, StatesCall, SampleCall, Call, ReadStep,
    ReadBegin, Load, Retry, Accept

(* StatusBehind is kept.                                                    *)
LEMMA StatusStaysBehind ==
  ASSUME StoresFollowBegin, SnapshotInv, StatusBehind, [Next]_vars
  PROVE  StatusBehind'
<1> USE DEF SnapshotInv
<1>1. /\ writes \in Int /\ published \in [Cells -> Int] /\ cells \in [Cells -> Int]
      /\ unwritten \in SUBSET Cells
  BY SnapshotAssumption DEF TypeOK, Counts
<1>2. CASE Activate \/ Deactivate \/ WriteBegin
  BY <1>2 DEF Activate, Deactivate, WriteBegin, StatusBehind
<1>3. CASE Receive
  BY <1>3 DEF Receive, Prepare, StatusBehind
<1>4. CASE InitializePosition
  <2>1. PICK i \in Motors : Prepare({<<i, "position">>})
    BY <1>4 DEF InitializePosition
  <2>2. unwritten' \subseteq Positions /\ cells' = cells /\ published' = published
    BY <2>1, CellsNamed DEF Prepare
  <2>3. cells = published
    BY <2>1 DEF Prepare, CellsTrue
  <2> QED BY <2>2, <2>3 DEF StatusBehind
<1>5. CASE Store
  <2>1. writer = "storing" /\ UNCHANGED <<writer, writes, published>>
    BY <1>5 DEF Store
  <2>2. PICK d \in unwritten :
          cells' = [cells EXCEPT ![d] = writes] /\ unwritten' = unwritten \ {d}
    BY <1>5 DEF Store
  <2>3. CASE \A c \in Cells \ unwritten : cells[c] = writes
    BY <1>1, <2>1, <2>2, <2>3 DEF StatusBehind
  <2>4. CASE /\ unwritten \subseteq Positions
             /\ \A c \in Cells \ Positions : cells[c] = published[c]
    BY <1>1, <2>1, <2>2, <2>4 DEF StatusBehind
  <2> QED BY <2>1, <2>3, <2>4 DEF StatusBehind
<1>6. CASE WriteEnd
  <2>1. writer = "storing" /\ unwritten = {} /\ published' = cells /\ writer' = "idle"
    BY <1>6 DEF WriteEnd
  <2>2. ASSUME NEW i \in Motors, NEW f \in {"position", "velocity"}
        PROVE  cells[Status(i)] <= cells[<<i, f>>]
    <3>1. Status(i) \in Cells \ Positions /\ <<i, f>> \in Cells
      BY CellsNamed DEF MotorFields
    <3>2. CASE \A c \in Cells \ unwritten : cells[c] = writes
      BY <1>1, <2>1, <3>1, <3>2
    <3>3. CASE \A c \in Cells \ Positions : cells[c] = published[c]
      <4>1. cells[Status(i)] = published[Status(i)]
        BY <3>1, <3>3
      <4>2. published[Status(i)] <= published[<<i, f>>]
        BY DEF StatusBehind
      <4>3. published[<<i, f>>] <= cells[<<i, f>>]
        BY <1>1, <3>1 DEF CellsTrue
      <4> QED BY <1>1, <3>1, <4>1, <4>2, <4>3
    <3> QED BY <2>1, <3>2, <3>3 DEF StatusBehind
  <2> QED BY <2>1, <2>2 DEF StatusBehind
<1>7. CASE UNCHANGED writing
  BY <1>7 DEF writing, StatusBehind
<1> QED
  BY <1>2, <1>3, <1>4, <1>5, <1>6, <1>7 DEF Next, vars, Write, Finish, CycleCall,
    StatesCall,
    SampleCall, Call, ReadStep, ReadBegin, Load, Retry, Accept

(* In each of the three calls the motion of a motor is read with its status  *)
(* or after it.                                                              *)
LEMMA CallsInOrder ==
  ASSUME NEW r \in Readers, CycleCall(r) \/ StatesCall(r) \/ SampleCall(r)
  PROVE  \E sections \in Seq(SUBSET Cells) :
           /\ Call(r, sections)
           /\ \A i \in Motors, f \in {"position", "velocity"}, k \in DOMAIN sections :
                Status(i) \in sections[k] =>
                  \E l \in DOMAIN sections : l >= k /\ <<i, f>> \in sections[l]
<1> DEFINE Ordered(sections) ==
             \A i \in Motors, f \in {"position", "velocity"}, k \in DOMAIN sections :
               Status(i) \in sections[k] =>
                 \E l \in DOMAIN sections : l >= k /\ <<i, f>> \in sections[l]
<1>1. ASSUME NEW i \in Motors
      PROVE  Ordered(CycleReads(i))
  <2>1. /\ DOMAIN CycleReads(i) = 1..3
        /\ CycleReads(i)[1] = {<<i, "status">>} /\ CycleReads(i)[2] = {<<i, "position">>}
        /\ CycleReads(i)[3] = {<<i, "velocity">>}
    BY DEF CycleReads
  <2> QED BY <2>1 DEF Status
<1>2. Ordered(<<MotorStates>>)
  BY DEF MotorStates, MotorFields, Status
<1>3. ASSUME NEW i \in Sensors
      PROVE  Ordered(<<SensorSample(i)>>)
  BY SnapshotAssumption DEF SensorSample, SensorFields, Status
<1> HIDE DEF Ordered
<1>4. \E sections \in Seq(SUBSET Cells) : Call(r, sections) /\ Ordered(sections)
  BY <1>1, <1>2, <1>3, PlansTyped DEF CycleCall, StatesCall, SampleCall
<1> QED BY <1>4 DEF Ordered

(* StatusFirst is kept.                                                     *)
LEMMA StatusStaysFirst ==
  ASSUME StoresFollowBegin, OrderInv, [Next]_vars
  PROVE  StatusFirst'
<1> USE DEF OrderInv
<1>1. /\ published \in [Cells -> Int] /\ copied \in [Readers -> [Cells -> Int]]
      /\ plan \in [Readers -> Seq(SUBSET Cells)]
  BY SnapshotAssumption DEF SnapshotInv, TypeOK, Counts
<1>2. published' \in [Cells -> Int] /\ \A c \in Cells : published[c] <= published'[c]
  BY SnapshotInvInductive, PublishedGrows, SnapshotAssumption DEF SnapshotInv, TypeOK,
    Counts
<1>3. CASE UNCHANGED <<plan, copied>>
  <2>1. \A r \in Readers, c \in Cells : copied[r][c] <= published'[c]
    BY <1>1, <1>2 DEF StatusFirst
  <2> QED BY <1>3, <2>1 DEF StatusFirst
<1>4. ASSUME NEW r \in Readers, CycleCall(r) \/ StatesCall(r) \/ SampleCall(r)
      PROVE  StatusFirst'
  <2>1. PICK sections \in Seq(SUBSET Cells) :
          /\ Call(r, sections)
          /\ \A i \in Motors, f \in {"position", "velocity"}, k \in DOMAIN sections :
               Status(i) \in sections[k] =>
                 \E l \in DOMAIN sections : l >= k /\ <<i, f>> \in sections[l]
    BY <1>4, CallsInOrder
  <2>2. plan[r] = <<>> /\ plan' = [plan EXCEPT ![r] = sections] /\ copied' = copied
    BY <2>1 DEF Call
  <2>3. \A i \in Motors, f \in {"position", "velocity"} :
          copied[r][Status(i)] <= copied[r][<<i, f>>]
    BY <2>2, NoSections DEF StatusFirst
  <2>4. \A o \in Readers, c \in Cells : copied[o][c] <= published'[c]
    BY <1>1, <1>2 DEF StatusFirst
  <2>5. plan'[r] = sections /\ \A o \in Readers \ {r} : plan'[o] = plan[o]
    BY <1>1, <2>2
  <2> QED BY <2>1, <2>2, <2>3, <2>4, <2>5 DEF StatusFirst
<1>5. ASSUME NEW r \in Readers, Accept(r)
      PROVE  StatusFirst'
  <2>1. /\ plan[r] \in Seq(SUBSET Cells) /\ plan[r] # <<>>
        /\ plan' = [plan EXCEPT ![r] = Tail(plan[r])]
    BY <1>1, <1>5 DEF Accept, Loaded, SnapshotInv, AttemptsTrue
  <2> DEFINE first == Head(plan[r])
             rest == Tail(plan[r])
             new == [c \in Cells |-> IF c \in first THEN published[c] ELSE copied[r][c]]
  <2>2. first \in SUBSET Cells /\ copied' = [copied EXCEPT ![r] = new] /\ published' = published
    BY <1>5, AcceptsPublished
  <2>3. /\ DOMAIN plan[r] = 1..Len(plan[r]) /\ DOMAIN rest = 1..(Len(plan[r]) - 1)
        /\ Len(plan[r]) \in Nat \ {0} /\ plan[r][1] = first
        /\ \A k \in DOMAIN rest : rest[k] = plan[r][k + 1]
    BY <2>1, HeadTailProperties, EmptySeq, LenProperties
  <2>4. \A c \in Cells : new[c] <= published[c]
    BY <1>1 DEF StatusFirst
  <2>5. ASSUME NEW i \in Motors, NEW f \in {"position", "velocity"}
        PROVE  \A k \in DOMAIN rest : Status(i) \in rest[k] =>
                 \E l \in DOMAIN rest : l >= k /\ <<i, f>> \in rest[l]
    <3> SUFFICES ASSUME NEW k \in DOMAIN rest, Status(i) \in rest[k]
                 PROVE  \E l \in DOMAIN rest : l >= k /\ <<i, f>> \in rest[l]
      OBVIOUS
    <3> HIDE DEF rest
    <3>1. k + 1 \in DOMAIN plan[r] /\ Status(i) \in plan[r][k + 1]
      BY <2>3
    <3>2. PICK l \in DOMAIN plan[r] : l >= k + 1 /\ <<i, f>> \in plan[r][l]
      BY <3>1 DEF StatusFirst
    <3>3. l - 1 \in DOMAIN rest /\ l - 1 >= k /\ rest[l - 1] = plan[r][l]
      BY <2>3, <3>2
    <3> QED BY <3>2, <3>3
  <2>6. ASSUME NEW i \in Motors, NEW f \in {"position", "velocity"}
        PROVE  \/ new[Status(i)] <= new[<<i, f>>]
               \/ \E l \in DOMAIN rest : <<i, f>> \in rest[l]
    <3> HIDE DEF rest, first
    <3>1. Status(i) \in Cells /\ <<i, f>> \in Cells
      BY CellsNamed DEF MotorFields
    <3>2. ASSUME NEW l \in DOMAIN plan[r], <<i, f>> \in plan[r][l]
          PROVE  <<i, f>> \in first \/ \E k \in DOMAIN rest : <<i, f>> \in rest[k]
      <4>1. CASE l = 1
        BY <2>3, <3>2, <4>1
      <4>2. CASE l # 1
        <5>1. l - 1 \in DOMAIN rest /\ rest[l - 1] = plan[r][l]
          BY <2>3, <4>2
        <5> QED BY <3>2, <5>1
      <4> QED BY <4>1, <4>2
    <3>3. CASE <<i, f>> \in first
      <4>1. published[Status(i)] <= published[<<i, f>>]
        BY DEF StatusBehind
      <4> QED BY <1>1, <2>4, <3>1, <3>3, <4>1
    <3>4. CASE <<i, f>> \notin first /\ Status(i) \in first
      <4>1. 1 \in DOMAIN plan[r] /\ Status(i) \in plan[r][1]
        BY <2>3, <3>4
      <4>2. \E l \in DOMAIN plan[r] : <<i, f>> \in plan[r][l]
        BY <4>1 DEF StatusFirst
      <4> QED BY <3>2, <3>4, <4>2
    <3>5. CASE <<i, f>> \notin first /\ Status(i) \notin first
      BY <3>1, <3>2, <3>5 DEF StatusFirst
    <3> QED BY <3>3, <3>4, <3>5
  <2> HIDE DEF first, rest, new
  <2>7. plan'[r] = rest /\ copied'[r] = new
    BY <1>1, <2>1, <2>2 DEF rest
  <2>8. \A o \in Readers \ {r} : plan'[o] = plan[o] /\ copied'[o] = copied[o]
    BY <1>1, <2>1, <2>2
  <2>9. /\ \A c \in Cells : copied'[r][c] <= published'[c]
        /\ \A i \in Motors, f \in {"position", "velocity"} :
             /\ \A k \in DOMAIN plan'[r] : Status(i) \in plan'[r][k] =>
                  \E l \in DOMAIN plan'[r] : l >= k /\ <<i, f>> \in plan'[r][l]
             /\ \/ copied'[r][Status(i)] <= copied'[r][<<i, f>>]
                \/ \E l \in DOMAIN plan'[r] : <<i, f>> \in plan'[r][l]
    BY <2>2, <2>4, <2>5, <2>6, <2>7
  <2> QED BY <2>2, <2>8, <2>9 DEF StatusFirst, Status
<1> QED
  BY <1>3, <1>4, <1>5 DEF Next, vars, Write, Finish, Activate, Deactivate, Receive,
    InitializePosition, Prepare, WriteBegin, Store, WriteEnd, writing, reading, ReadStep,
      ReadBegin,
    Load, Retry

(* The status that a call has put together with a position and a velocity is *)
(* of the same bus cycle as they are or of an earlier one, whenever the      *)
(* sections of Master::cycle fall between the writes of the Job.             *)
THEOREM StatusNeverNewer ==
  ASSUME StoresFollowBegin
  PROVE  Spec => []StatusNotNewer
<1>1. Init => StatusBehind /\ StatusFirst
  <2> SUFFICES ASSUME Init
               PROVE  StatusBehind /\ StatusFirst
    OBVIOUS
  <2>1. /\ writer = "idle" /\ \A c \in Cells : published[c] = 0
        /\ \A r \in Readers : plan[r] = <<>> /\ \A c \in Cells : copied[r][c] = 0
    BY DEF Init, Untouched
  <2>2. \A i \in Motors, f \in {"position", "velocity"} :
          Status(i) \in Cells /\ <<i, f>> \in Cells
    BY CellsNamed DEF MotorFields
  <2> QED BY <2>1, <2>2, NoSections DEF StatusBehind, StatusFirst
<1>2. SnapshotInv /\ StatusBehind /\ StatusFirst /\ [Next]_vars => StatusBehind' /\ StatusFirst'
  BY StatusStaysBehind, StatusStaysFirst DEF OrderInv
<1>3. StatusFirst => StatusNotNewer
  <2> SUFFICES ASSUME StatusFirst, NEW r \in Readers, NEW i \in Motors,
                      NEW f \in {"position", "velocity"}, plan[r] = <<>>
               PROVE  copied[r][<<i, "status">>] <= copied[r][<<i, f>>]
    BY DEF StatusNotNewer
  <2> QED BY NoSections DEF StatusFirst, Status
<1> QED BY <1>1, <1>2, <1>3, SnapshotInvHolds, PTL DEF Spec
===============================================================================
