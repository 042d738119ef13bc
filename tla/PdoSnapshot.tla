---------------------------- MODULE PdoSnapshot -----------------------------
(***************************************************************************)
(* The cache of process data (SeqLock, pdo_cache_helpers.hpp, receiveData  *)
(* and the getters of EtherCATServo).  One writer at a time stores plain   *)
(* variables between writeBegin and writeEnd: initializePositionsFromSDO   *)
(* before the master is activated, the Job in every cycle after.  Readers  *)
(* of other threads copy cells and start again when the sequence number    *)
(* moved.                                                                  *)
(*                                                                         *)
(* A value is represented by the number of the write that stored it.  The  *)
(* stores of one write may become visible in any order: they are plain and *)
(* the compiler may move them inside the section.  writeEnd is a release   *)
(* store and stays behind them.  writeBegin is one too, which keeps        *)
(* nothing that FOLLOWS it behind it: StoresFollowBegin says whether the   *)
(* build does (x86 stores in program order, and no compiler reordering).   *)
(***************************************************************************)
EXTENDS Integers, Sequences

CONSTANTS
  Motors,              (* slaves of the motor branch                       *)
  Sensors,             (* SRI force sensors                                *)
  Readers,             (* threads other than the writer                    *)
  StoresFollowBegin,
  MaxWrites            (* bound on the writes                              *)

MotorFields == {"status", "position", "velocity"}
SensorFields == {"number", "force"}
Cells == (Motors \X MotorFields) \union (Sensors \X SensorFields)

ASSUME SnapshotAssumption ==
  /\ Motors \intersect Sensors = {}
  /\ Motors # {}
  /\ StoresFollowBegin \in BOOLEAN
  /\ MaxWrites \in Nat

VARIABLES
  seq,          (* seq_                                                    *)
  cells,        (* last_status_words_[], last_actual_positions_[], ...     *)
  activated,    (* activated_                                              *)
  writer,       (* where the writing thread is                             *)
  writes,       (* the number of the write begun last                      *)
  unwritten,    (* the cells it has still to store                         *)
  plan,         (* per reader, the sections it has yet to read             *)
  start,        (* per reader, readBegin's result                          *)
  unread,       (* the cells it has still to load in this attempt          *)
  loaded,       (* what this attempt loaded                                *)
  copied,       (* what completed reads returned                           *)
  published     (* history: the cells at the last writeEnd                 *)

writing == <<seq, cells, activated, writer, writes, unwritten, published>>
reading == <<plan, start, unread, loaded, copied>>
vars == <<writing, reading>>

Counts == [Cells -> 0..MaxWrites]
Untouched == [c \in Cells |-> 0]
NotBegun == -1

(* What the calls read, section by section.  Master::cycle asks for the    *)
(* motor states first, of which it keeps the status, and then for each     *)
(* position and velocity anew.                                             *)
MotorStates == Motors \X MotorFields
CycleReadsStatusLast(i) == <<{<<i, "position">>}, {<<i, "velocity">>}, {<<i, "status">>}>>

CycleReads(i) == <<{<<i, "status">>}, {<<i, "position">>}, {<<i, "velocity">>}>>
SensorSample(i) == {i} \X SensorFields

TypeOK ==
  /\ seq \in 0..(2 * MaxWrites)
  /\ cells \in Counts /\ published \in Counts
  /\ activated \in BOOLEAN
  /\ writer \in {"idle", "prepared", "storing"}
  /\ writes \in 0..MaxWrites
  /\ unwritten \in SUBSET Cells
  /\ plan \in [Readers -> Seq(SUBSET Cells)]
  /\ start \in [Readers -> -1..(2 * MaxWrites)]
  /\ unread \in [Readers -> SUBSET Cells]
  /\ loaded \in [Readers -> Counts]
  /\ copied \in [Readers -> Counts]

Init ==
  /\ seq = 0
  /\ cells = Untouched /\ published = Untouched
  /\ activated = FALSE
  /\ writer = "idle" /\ writes = 0 /\ unwritten = {}
  /\ plan = [r \in Readers |-> <<>>]
  /\ start = [r \in Readers |-> NotBegun]
  /\ unread = [r \in Readers |-> {}]
  /\ loaded = [r \in Readers |-> Untouched]
  /\ copied = [r \in Readers |-> Untouched]

-----------------------------------------------------------------------------
(* The writer.                                                             *)

Prepare(written) ==
  /\ writer = "idle" /\ writes < MaxWrites
  /\ writer' = "prepared"
  /\ writes' = writes + 1
  /\ unwritten' = written
  /\ UNCHANGED <<seq, cells, activated, published, reading>>

(* initializePositionsFromSDO: one section for each position it has read.  *)
InitializePosition ==
  /\ ~activated
  /\ \E i \in Motors : Prepare({<<i, "position">>})

Activate ==
  /\ ~activated /\ writer = "idle"
  /\ activated' = TRUE
  /\ UNCHANGED <<seq, cells, writer, writes, unwritten, published, reading>>

(* receiveData: a section for all slaves. *)
Receive == activated /\ Prepare(Cells)

WriteBegin ==
  /\ writer = "prepared"
  /\ writer' = "storing"
  /\ seq' = seq + 1
  /\ UNCHANGED <<cells, activated, writes, unwritten, published, reading>>

Store ==
  /\ writer = "storing" \/ (writer = "prepared" /\ ~StoresFollowBegin)
  /\ \E c \in unwritten :
       /\ cells' = [cells EXCEPT ![c] = writes]
       /\ unwritten' = unwritten \ {c}
  /\ UNCHANGED <<seq, activated, writer, writes, published, reading>>

WriteEndStaysOdd ==
  /\ writer = "storing" /\ unwritten = {}
  /\ writer' = "idle"
  /\ published' = cells
  /\ UNCHANGED <<seq, cells, activated, writes, unwritten, reading>>

WriteEnd ==
  /\ writer = "storing" /\ unwritten = {}
  /\ writer' = "idle"
  /\ seq' = seq + 1
  /\ published' = cells
  /\ UNCHANGED <<cells, activated, writes, unwritten, reading>>

(* The Job has joined before the master is deactivated. *)
Deactivate ==
  /\ activated /\ writer = "idle"
  /\ activated' = FALSE
  /\ UNCHANGED <<seq, cells, writer, writes, unwritten, published, reading>>

-----------------------------------------------------------------------------
(* The readers.                                                            *)

Call(r, sections) ==
  /\ plan[r] = <<>>
  /\ plan' = [plan EXCEPT ![r] = sections]
  /\ UNCHANGED <<writing, start, unread, loaded, copied>>

(* getMotorStates copies nothing unless activated; the rest does. *)
CycleCall(r) == \E i \in Motors : activated /\ Call(r, CycleReads(i))
StatesCall(r) == activated /\ Call(r, <<MotorStates>>)
SampleCall(r) == \E i \in Sensors : Call(r, <<SensorSample(i)>>)

(* readBegin spins while the number is odd. *)
ReadBegin(r) ==
  /\ plan[r] # <<>> /\ start[r] = NotBegun
  /\ seq % 2 = 0
  /\ start' = [start EXCEPT ![r] = seq]
  /\ unread' = [unread EXCEPT ![r] = Head(plan[r])]
  /\ UNCHANGED <<writing, plan, loaded, copied>>

Load(r) ==
  /\ start[r] # NotBegun
  /\ \E c \in unread[r] :
       /\ loaded' = [loaded EXCEPT ![r][c] = cells[c]]
       /\ unread' = [unread EXCEPT ![r] = @ \ {c}]
  /\ UNCHANGED <<writing, plan, start, copied>>

Loaded(r) == start[r] # NotBegun /\ unread[r] = {}

Retry(r) ==
  /\ Loaded(r) /\ seq # start[r]
  /\ start' = [start EXCEPT ![r] = NotBegun]
  /\ UNCHANGED <<writing, plan, unread, loaded, copied>>

AcceptUnlessWriting(r) ==
  /\ Loaded(r) /\ seq % 2 = 0
  /\ copied' = [copied EXCEPT ![r] =
                  [c \in Cells |-> IF c \in Head(plan[r]) THEN loaded[r][c] ELSE @[c]]]
  /\ start' = [start EXCEPT ![r] = NotBegun]
  /\ plan' = [plan EXCEPT ![r] = Tail(@)]
  /\ loaded' = [loaded EXCEPT ![r] = Untouched]
  /\ UNCHANGED <<writing, unread>>

Accept(r) ==
  /\ Loaded(r) /\ seq = start[r]
  /\ copied' = [copied EXCEPT ![r] =
                  [c \in Cells |-> IF c \in Head(plan[r]) THEN loaded[r][c] ELSE @[c]]]
  /\ start' = [start EXCEPT ![r] = NotBegun]
  /\ plan' = [plan EXCEPT ![r] = Tail(@)]
  /\ loaded' = [loaded EXCEPT ![r] = Untouched]
  /\ UNCHANGED <<writing, unread>>

-----------------------------------------------------------------------------
Write == Activate \/ Receive \/ InitializePosition \/ Deactivate
Finish == WriteBegin \/ Store \/ WriteEnd
ReadStep(r) == ReadBegin(r) \/ Load(r) \/ Retry(r) \/ Accept(r)

Next ==
  \/ Write \/ Finish
  \/ \E r \in Readers : CycleCall(r) \/ StatesCall(r) \/ SampleCall(r) \/ ReadStep(r)

Spec == Init /\ [][Next]_vars

(* A write that has begun ends and a reader keeps running; nobody must     *)
(* write or call.                                                          *)
FairSpec == Spec /\ WF_vars(Finish) /\ \A r \in Readers : WF_vars(ReadStep(r))

-----------------------------------------------------------------------------
Promise == INSTANCE AtomicSnapshot

(* A multi-cell read (getMotorStates, getForceSensorSample) copies what    *)
(* one completed write left, the newest at the moment it returns, however  *)
(* the Job's stores fall between its loads.                                *)
ConsistentSnapshot == Promise!Spec

(* The AxisState that Master::cycle puts together from several sections    *)
(* pairs a status with a position and a velocity of the same or a LATER    *)
(* bus cycle, never with an older motion.                                  *)
StatusNotNewer ==
  \A r \in Readers, i \in Motors, f \in {"position", "velocity"} :
    plan[r] = <<>> => copied[r][<<i, "status">>] <= copied[r][<<i, f>>]

(* A reader is never left spinning on an odd number: once the writes pause *)
(* the call returns, and a stopped Job leaves the cache readable.          *)
ReadsReturn == \A r \in Readers : plan[r] # <<>> ~> plan[r] = <<>>
=============================================================================
