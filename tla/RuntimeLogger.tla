--------------------------- MODULE RuntimeLogger ----------------------------
(***************************************************************************)
(* RuntimeLogger (runtime_logger.cpp): the Job thread pushes events into a *)
(* ring without a lock, callers queue commands under a mutex that the Job  *)
(* only tries, one thread drains the ring to the file, and another opens   *)
(* and shuts the log.  One action is one access to a shared object.        *)
(*                                                                         *)
(* initialize() stores head and tail, and opens the file, with no lock and *)
(* whoever is inside a push or a drain: RestartsQuietly says whether the   *)
(* application keeps the other threads out of them meanwhile.              *)
(***************************************************************************)
EXTENDS Naturals, Sequences

CONSTANTS
  RingCapacity,      (* kRingCapacity                                      *)
  RestartsQuietly,
  MaxEvents,         (* bound on the events of each source                 *)
  MaxSessions        (* bound on the calls of initialize()                 *)

Sources == {"job", "command"}
Events == Sources \X (1..MaxEvents)
NoEvent == <<"none", 0>>
Slots == 0..(RingCapacity - 1)

ASSUME LoggerAssumption ==
  /\ RingCapacity \in Nat \ {0, 1}
  /\ RestartsQuietly \in BOOLEAN
  /\ MaxEvents \in Nat /\ MaxSessions \in Nat

VARIABLES
  enabled, file_open,
  ring, ring_head, ring_tail,
  pending,           (* pending_commands_                                  *)
  pending_locked,    (* pending_mutex_ held by queueCommand                *)
  file_holder,       (* who holds file_mutex_                              *)
  file,              (* the events in the file of this session             *)
  job, todo, slot,   (* the Job: where, events to push, the slot claimed   *)
  commander,         (* the caller of queueCommand                         *)
  drainer,           (* the thread that calls drain()                      *)
  pop, taken, popped,   (* the pop of whoever holds file_mutex_            *)
  control,           (* the thread that opens and shuts the log            *)
  made,              (* per source, events made so far                     *)
  sessions, reopen,  (* calls of initialize(); it is inside its own shutdown() *)
  accepted, due      (* history: what entered the ring in this session;    *)
                     (* how much of it when shutdown() was called          *)

producer == <<job, todo, slot>>
consumer == <<drainer, pop, taken, popped, file_holder>>
queue == <<pending, pending_locked, commander>>
session == <<enabled, file_open, control, sessions, reopen, due>>
vars == <<ring, ring_head, ring_tail, file, accepted, made, producer, consumer, queue, session>>

Next1(k) == (k + 1) % RingCapacity

TypeOK ==
  /\ enabled \in BOOLEAN /\ file_open \in BOOLEAN
  /\ ring \in [Slots -> Events \union {NoEvent}]
  /\ ring_head \in Slots /\ ring_tail \in Slots
  /\ slot \in Slots /\ taken \in Slots
  /\ pending \in Seq(Events) /\ todo \in Seq(Events) /\ file \in Seq(Events)
  /\ pending_locked \in BOOLEAN
  /\ file_holder \in {"none", "drainer", "control"}
  /\ job \in {"idle", "flush", "load", "slot", "head"}
  /\ commander \in {"idle", "lock", "held"}
  /\ drainer \in {"idle", "lock", "pop"}
  /\ pop \in {"off", "load", "copy", "advance", "write"}
  /\ popped \in Events \union {NoEvent}
  /\ control \in {"idle", "lock", "pop", "close", "disable",
                  "open", "resetHead", "resetTail", "enable"}
  /\ made \in [Sources -> 0..MaxEvents]
  /\ sessions \in 0..MaxSessions /\ reopen \in BOOLEAN
  /\ accepted \in Seq(Events) /\ due \in Nat

Init ==
  /\ enabled = FALSE /\ file_open = FALSE
  /\ ring = [k \in Slots |-> NoEvent] /\ ring_head = 0 /\ ring_tail = 0
  /\ pending = <<>> /\ pending_locked = FALSE
  /\ file_holder = "none" /\ file = <<>>
  /\ job = "idle" /\ todo = <<>> /\ slot = 0
  /\ commander = "idle" /\ drainer = "idle"
  /\ pop = "off" /\ taken = 0 /\ popped = NoEvent
  /\ control = "idle" /\ sessions = 0 /\ reopen = FALSE
  /\ made = [s \in Sources |-> 0]
  /\ accepted = <<>> /\ due = 0

Made(s) == <<s, made[s] + 1>>
Counted(s) == made' = [made EXCEPT ![s] = @ + 1]

-----------------------------------------------------------------------------
(* The Job thread.                                                         *)

JobFrame == UNCHANGED <<ring_tail, file, consumer, session>>

(* pushRtEvent *)
PushRtEvent ==
  /\ job = "idle" /\ enabled
  /\ made["job"] < MaxEvents /\ Counted("job")
  /\ todo' = <<Made("job")>>
  /\ job' = "load"
  /\ UNCHANGED <<ring, ring_head, accepted, slot, queue>> /\ JobFrame

(* flushPendingToBuffer: the check, then try_lock and the swap. *)
FlushCheck ==
  /\ job = "idle" /\ enabled
  /\ job' = "flush"
  /\ UNCHANGED <<ring, ring_head, accepted, made, todo, slot, queue>> /\ JobFrame

FlushSwap ==
  /\ job = "flush"
  /\ \/ /\ pending_locked
        /\ job' = "idle"
        /\ UNCHANGED <<todo, pending>>
     \/ /\ ~pending_locked
        /\ todo' = pending /\ pending' = <<>>
        /\ job' = IF pending = <<>> THEN "idle" ELSE "load"
  /\ UNCHANGED <<ring, ring_head, accepted, made, slot, pending_locked, commander>>
  /\ JobFrame

AfterPush == IF Len(todo) = 1 THEN "idle" ELSE "load"

(* tryPushToRing: a full ring drops the event. *)
PushLoadUsesLastSlot ==
  /\ job = "load"
  /\ slot' = ring_head /\ job' = "slot"
  /\ UNCHANGED <<todo, ring, ring_head, accepted, made, queue>> /\ JobFrame

PushLoad ==
  /\ job = "load"
  /\ \/ /\ Next1(ring_head) = ring_tail
        /\ todo' = Tail(todo) /\ job' = AfterPush
        /\ UNCHANGED slot
     \/ /\ Next1(ring_head) # ring_tail
        /\ slot' = ring_head /\ job' = "slot"
        /\ UNCHANGED todo
  /\ UNCHANGED <<ring, ring_head, accepted, made, queue>> /\ JobFrame

PushSlot ==
  /\ job = "slot"
  /\ ring' = [ring EXCEPT ![slot] = Head(todo)]
  /\ job' = "head"
  /\ UNCHANGED <<ring_head, accepted, made, todo, slot, queue>> /\ JobFrame

PushHead ==
  /\ job = "head"
  /\ ring_head' = Next1(slot)
  /\ accepted' = Append(accepted, Head(todo))
  /\ todo' = Tail(todo) /\ job' = AfterPush
  /\ UNCHANGED <<ring, made, slot, queue>> /\ JobFrame

JobNext == PushRtEvent \/ FlushCheck \/ FlushSwap \/ PushLoad \/ PushSlot \/ PushHead
JobGoesOn == FlushSwap \/ PushLoad \/ PushSlot \/ PushHead

-----------------------------------------------------------------------------
(* queueCommand: the check, lock_guard, push_back.                         *)

QueueFrame == UNCHANGED <<ring, ring_head, ring_tail, file, accepted, producer, consumer, session>>

QueueCheck ==
  /\ commander = "idle" /\ enabled /\ made["command"] < MaxEvents
  /\ commander' = "lock"
  /\ UNCHANGED <<made, pending, pending_locked>> /\ QueueFrame

QueueLock ==
  /\ commander = "lock"
  /\ commander' = "held" /\ pending_locked' = TRUE
  /\ UNCHANGED <<made, pending>> /\ QueueFrame

QueuePush ==
  /\ commander = "held"
  /\ pending' = Append(pending, Made("command")) /\ Counted("command")
  /\ commander' = "idle" /\ pending_locked' = FALSE
  /\ QueueFrame

QueueGoesOn == QueueLock \/ QueuePush

-----------------------------------------------------------------------------
(* drain, by the drainer or inside shutdown: file_mutex_ lets one of them  *)
(* pop at a time, and neither looks at enabled_ again once inside.         *)

PopFrame == UNCHANGED <<ring, ring_head, accepted, made, producer, queue, enabled, file_open,
                        sessions, reopen, due>>

DrainCall ==
  /\ drainer = "idle" /\ enabled
  /\ drainer' = "lock"
  /\ UNCHANGED <<ring_tail, file, pop, taken, popped, file_holder, control>> /\ PopFrame

DrainLock ==
  /\ drainer = "lock" /\ file_holder = "none"
  /\ \/ /\ file_open
        /\ file_holder' = "drainer" /\ drainer' = "pop" /\ pop' = "load"
     \/ /\ ~file_open
        /\ drainer' = "idle"
        /\ UNCHANGED <<file_holder, pop>>
  /\ UNCHANGED <<ring_tail, file, taken, popped, control>> /\ PopFrame

ShutdownLockOnly ==
  /\ control = "lock" /\ file_holder = "none"
  /\ control' = "close"
  /\ UNCHANGED <<ring_tail, file, drainer, pop, taken, popped, file_holder>> /\ PopFrame

ShutdownLock ==
  /\ control = "lock" /\ file_holder = "none"
  /\ file_holder' = "control" /\ control' = "pop" /\ pop' = "load"
  /\ UNCHANGED <<ring_tail, file, drainer, taken, popped>> /\ PopFrame

PopLoadFreesSlot ==
  /\ pop = "load"
  /\ \/ /\ ring_tail # ring_head
        /\ pop' = "copy" /\ taken' = ring_tail /\ ring_tail' = Next1(ring_tail)
        /\ UNCHANGED <<file_holder, drainer, control>>
     \/ /\ ring_tail = ring_head
        /\ pop' = "off" /\ file_holder' = "none"
        /\ drainer' = IF file_holder = "drainer" THEN "idle" ELSE drainer
        /\ control' = IF file_holder = "control" THEN "close" ELSE control
        /\ UNCHANGED <<taken, ring_tail>>
  /\ UNCHANGED <<file, popped>> /\ PopFrame

PopLoad ==
  /\ pop = "load"
  /\ \/ /\ ring_tail # ring_head
        /\ pop' = "copy" /\ taken' = ring_tail
        /\ UNCHANGED <<file_holder, drainer, control>>
     \/ /\ ring_tail = ring_head
        /\ pop' = "off" /\ file_holder' = "none"
        /\ drainer' = IF file_holder = "drainer" THEN "idle" ELSE drainer
        /\ control' = IF file_holder = "control" THEN "close" ELSE control
        /\ UNCHANGED taken
  /\ UNCHANGED <<ring_tail, file, popped>> /\ PopFrame

PopCopy ==
  /\ pop = "copy" /\ pop' = "advance"
  /\ popped' = ring[taken]
  /\ UNCHANGED <<ring_tail, file, taken, file_holder, drainer, control>> /\ PopFrame

PopAdvance ==
  /\ pop = "advance" /\ pop' = "write"
  /\ ring_tail' = Next1(taken)
  /\ UNCHANGED <<file, taken, popped, file_holder, drainer, control>> /\ PopFrame

PopWriteFindsNoFile ==
  /\ pop = "write" /\ pop' = "load"
  /\ popped' = NoEvent /\ taken' = 0
  /\ UNCHANGED <<ring_tail, file, file_holder, drainer, control>> /\ PopFrame

(* writeEvent *)
PopWrite ==
  /\ pop = "write" /\ pop' = "load"
  /\ file' = Append(file, popped)
  /\ popped' = NoEvent /\ taken' = 0
  /\ UNCHANGED <<ring_tail, file_holder, drainer, control>> /\ PopFrame

Pop == PopLoad \/ PopCopy \/ PopAdvance \/ PopWrite

-----------------------------------------------------------------------------
(* initialize and shutdown, called by one thread.                          *)

ControlFrame == UNCHANGED <<ring, made, producer, drainer, pop, taken, popped, queue>>

Shutdown ==
  /\ control = "idle" /\ enabled
  /\ control' = "lock" /\ due' = Len(accepted)
  /\ \E again \in BOOLEAN :
       /\ again => sessions < MaxSessions
       /\ reopen' = again
  /\ UNCHANGED <<ring_head, ring_tail, enabled, file_open, sessions, file, accepted,
                 file_holder>>
  /\ ControlFrame

Close ==
  /\ control = "close" /\ file_holder = "none"
  /\ control' = "disable" /\ file_open' = FALSE
  /\ UNCHANGED <<ring_head, ring_tail, enabled, sessions, reopen, due, file, accepted,
                 file_holder>>
  /\ ControlFrame

Disable ==
  /\ control = "disable"
  /\ control' = IF reopen THEN "open" ELSE "idle"
  /\ enabled' = FALSE
  /\ UNCHANGED <<ring_head, ring_tail, file_open, sessions, reopen, due, file, accepted,
                 file_holder>>
  /\ ControlFrame

(* The directory and the file, opened or not. *)
Open ==
  /\ control = "open" \/ (control = "idle" /\ ~enabled)
  /\ sessions < MaxSessions
  /\ RestartsQuietly => job = "idle" /\ drainer = "idle"
  /\ sessions' = sessions + 1 /\ reopen' = FALSE
  /\ \/ /\ control' = "resetHead" /\ file_open' = TRUE /\ file' = <<>>
     \/ /\ control' = "idle" /\ UNCHANGED <<file_open, file>>
  /\ UNCHANGED <<ring_head, ring_tail, enabled, due, accepted, file_holder>>
  /\ ControlFrame

ResetHead ==
  /\ control = "resetHead" /\ control' = "resetTail"
  /\ ring_head' = 0
  /\ UNCHANGED <<ring_tail, enabled, file_open, sessions, reopen, due, file, accepted,
                 file_holder>>
  /\ ControlFrame

ResetTail ==
  /\ control = "resetTail" /\ control' = "enable"
  /\ ring_tail' = 0 /\ accepted' = <<>> /\ due' = 0
  /\ UNCHANGED <<ring_head, enabled, file_open, sessions, reopen, file, file_holder>>
  /\ ControlFrame

Enable ==
  /\ control = "enable" /\ control' = "idle"
  /\ enabled' = TRUE
  /\ UNCHANGED <<ring_head, ring_tail, file_open, sessions, reopen, due, file, accepted,
                 file_holder>>
  /\ ControlFrame

ControlGoesOn == ShutdownLock \/ Close \/ Disable \/ ResetHead \/ ResetTail \/ Enable
                   \/ (control = "open" /\ Open)

Next ==
  \/ JobNext
  \/ QueueCheck \/ QueueGoesOn
  \/ DrainCall \/ DrainLock \/ Pop
  \/ Shutdown \/ Open \/ ControlGoesOn

Spec == Init /\ [][Next]_vars

(* A call that has begun goes on, and the application keeps draining, for  *)
(* which drain() is there (runtime_logger.hpp:66); nothing else need ever   *)
(* be called.                                                              *)
FairSpec ==
  /\ Spec
  /\ WF_vars(JobGoesOn)
  /\ WF_vars(QueueGoesOn)
  /\ WF_vars(DrainCall) /\ WF_vars(DrainLock) /\ WF_vars(Pop)
  /\ WF_vars(ControlGoesOn)

-----------------------------------------------------------------------------
RingContents ==
  LET held == (ring_head + RingCapacity - ring_tail) % RingCapacity
  IN  [k \in 1..held |-> ring[(ring_tail + k - 1) % RingCapacity]]

Written(e) == \E k \in DOMAIN file : file[k] = e

(* What the ring accepted since initialize() is in the file or in the ring, *)
(* each event once and in its order, although push and pop share head and  *)
(* tail without a lock and two threads may drain.                          *)
AcceptedOnceInOrder ==
  control \notin {"resetHead", "resetTail"} =>
    accepted = file \o (IF pop = "write" THEN <<popped>> ELSE <<>>) \o RingContents

(* The Job never writes the slot that is being copied out.                 *)
SlotExclusive == ~(job = "slot" /\ pop = "copy" /\ slot = taken)

(* shutdown() closes the file only after everything the ring held when it  *)
(* was called is in it, also when the drainer is in the middle of a pop.   *)
DrainedBeforeClose ==
  [][control = "close" /\ control' = "disable" => Len(file) >= due]_vars

(* An accepted event reaches the file unless the log is shut meanwhile.    *)
AcceptedIsWritten ==
  \A e \in Events :
    (\E k \in DOMAIN accepted : accepted[k] = e) ~> Written(e) \/ ~enabled
=============================================================================
