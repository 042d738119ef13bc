------------------------- MODULE RuntimeLogger_proofs -------------------------
(* Proofs about RuntimeLogger, for every capacity of the ring and any number *)
(* of events and sessions, where the application keeps its threads out of    *)
(* the logger while it is opened again (RestartsQuietly).                    *)
EXTENDS RuntimeLogger, SequenceTheorems, TLAPS

(* What a slot may hold. *)
Contents == Events \union {NoEvent}

(* The events from a tail up to a head, and the slot of the k-th after it.   *)
Held(tail, head) == IF head >= tail THEN head - tail ELSE head + RingCapacity - tail

Place(tail, k) == IF tail + k < RingCapacity THEN tail + k ELSE tail + k - RingCapacity

InRing(cells, tail, head) == [k \in 1..Held(tail, head) |-> cells[Place(tail, k - 1)]]

InFlight == IF pop = "write" THEN <<popped>> ELSE <<>>

Opening == {"resetHead", "resetTail", "enable"}

(* Who holds the file pops, and nobody else; while the log is opened it is   *)
(* disabled and both threads are outside.                                    *)
HolderPops ==
  /\ file_holder = "drainer" <=> drainer = "pop"
  /\ file_holder = "control" <=> control = "pop"
  /\ file_holder = "none" <=> pop = "off"
  /\ control \in {"open"} \union Opening => ~enabled
  /\ control \in Opening => job = "idle" /\ drainer = "idle"
  /\ control \in {"resetHead", "resetTail"} => file = <<>>
  /\ control = "resetTail" => ring_head = 0

(* A push has claimed the head of a ring with room, and a pop the tail of    *)
(* one with an event; neither moves before the other thread can see it.      *)
ClaimsStand ==
  /\ job \in {"load", "slot", "head"} => todo # <<>>
  /\ job \in {"slot", "head"} =>
       slot = ring_head /\ Held(ring_tail, ring_head) + 1 < RingCapacity
  /\ job = "head" => ring[slot] = Head(todo)
  /\ commander # "idle" => made["command"] < MaxEvents
  /\ pop \in {"copy", "advance"} => taken = ring_tail /\ ring_tail # ring_head
  /\ pop = "advance" => popped = ring[taken]

(* The events of the session are in the file, in flight or in the ring.      *)
OneOrder ==
  control \notin {"resetHead", "resetTail"} =>
    accepted = file \o InFlight \o InRing(ring, ring_tail, ring_head)

(* What shutdown() must see written has been accepted, and is written once   *)
(* its own drain has found the ring empty.                                   *)
DueWritten ==
  /\ control \in {"lock", "pop"} => due <= Len(accepted)
  /\ control = "close" => due <= Len(file)

LogInv == TypeOK /\ HolderPops /\ ClaimsStand /\ OneOrder /\ DueWritten

-----------------------------------------------------------------------------
(* The arithmetic of the ring. *)

(* A remainder below twice the capacity is one subtraction at most. *)
LEMMA ModOnce ==
  /\ \A k \in 0..(RingCapacity - 1) : k % RingCapacity = k
  /\ \A k \in RingCapacity..(2 * RingCapacity - 1) : k % RingCapacity = k - RingCapacity
<1>1. ASSUME NEW k \in 0..(RingCapacity - 1)
      PROVE  k % RingCapacity = k
  BY LoggerAssumption
<1>2. ASSUME NEW k \in RingCapacity..(2 * RingCapacity - 1)
      PROVE  k % RingCapacity = k - RingCapacity
  BY LoggerAssumption
<1> QED BY <1>1, <1>2

(* The slot after another, and that it is a slot. *)
LEMMA NextSlot ==
  ASSUME NEW k \in Slots
  PROVE  /\ Next1(k) = IF k + 1 < RingCapacity THEN k + 1 ELSE 0
         /\ Next1(k) \in Slots
<1>1. CASE k + 1 < RingCapacity
  <2>1. k + 1 \in 0..(RingCapacity - 1)
    BY <1>1, LoggerAssumption DEF Slots
  <2>2. (k + 1) % RingCapacity = k + 1
    BY <2>1, ModOnce
  <2> QED BY <1>1, <2>1, <2>2 DEF Next1, Slots
<1>2. CASE ~(k + 1 < RingCapacity)
  <2>1. k + 1 = RingCapacity /\ k + 1 \in RingCapacity..(2 * RingCapacity - 1)
    BY <1>2, LoggerAssumption DEF Slots
  <2>2. (k + 1) % RingCapacity = 0
    <3>1. (k + 1) % RingCapacity = (k + 1) - RingCapacity
      BY <2>1, ModOnce
    <3> QED BY <2>1, <3>1, LoggerAssumption
  <2> QED BY <1>2, <2>2, LoggerAssumption DEF Next1, Slots
<1> QED BY <1>1, <1>2

(* A ring holds less than its capacity, and is full when the head would meet the tail. *)
LEMMA HeldBounds ==
  ASSUME NEW tail \in Slots, NEW head \in Slots
  PROVE  /\ Held(tail, head) \in 0..(RingCapacity - 1)
         /\ Held(tail, head) = 0 <=> head = tail
         /\ \A k \in 0..(RingCapacity - 1) : Place(tail, k) \in Slots
         /\ Next1(head) = tail <=> Held(tail, head) + 1 = RingCapacity
  BY NextSlot, LoggerAssumption DEF Held, Place, Slots

(* What the model computes with remainders. *)
LEMMA RingContentsIs ==
  ASSUME ring_tail \in Slots, ring_head \in Slots
  PROVE  RingContents = InRing(ring, ring_tail, ring_head)
<1>1. (ring_head + RingCapacity - ring_tail) % RingCapacity = Held(ring_tail, ring_head)
  <2>1. CASE ring_head >= ring_tail
    <3> DEFINE x == ring_head + RingCapacity - ring_tail
    <3>1. x \in RingCapacity..(2 * RingCapacity - 1) /\ x - RingCapacity = ring_head - ring_tail
      BY <2>1, LoggerAssumption DEF Slots
    <3> HIDE DEF x
    <3>2. x % RingCapacity = x - RingCapacity
      BY <3>1, ModOnce
    <3>3. x % RingCapacity = ring_head - ring_tail
      BY <3>1, <3>2
    <3> QED BY <2>1, <3>3 DEF Held, x
  <2>2. CASE ~(ring_head >= ring_tail)
    <3>1. ring_head + RingCapacity - ring_tail \in 0..(RingCapacity - 1)
      BY <2>2, LoggerAssumption DEF Slots
    <3> QED BY <2>2, <3>1, ModOnce DEF Held
  <2> QED BY <2>1, <2>2
<1>2. ASSUME NEW k \in 1..Held(ring_tail, ring_head)
      PROVE  (ring_tail + k - 1) % RingCapacity = Place(ring_tail, k - 1)
  <2>1. k - 1 \in 0..(RingCapacity - 1) /\ ring_tail + (k - 1) = ring_tail + k - 1
    BY HeldBounds, LoggerAssumption DEF Slots
  <2>2. CASE ring_tail + k - 1 < RingCapacity
    <3>1. ring_tail + k - 1 \in 0..(RingCapacity - 1)
      BY <2>1, <2>2, LoggerAssumption DEF Slots
    <3> QED BY <2>1, <2>2, <3>1, ModOnce DEF Place
  <2>3. CASE ~(ring_tail + k - 1 < RingCapacity)
    <3> DEFINE x == ring_tail + k - 1
    <3>1. x \in RingCapacity..(2 * RingCapacity - 1)
      BY <2>1, <2>3, LoggerAssumption DEF Slots
    <3> HIDE DEF x
    <3>2. x % RingCapacity = x - RingCapacity
      BY <3>1, ModOnce
    <3>3. Place(ring_tail, k - 1) = x - RingCapacity
      BY <2>1, <2>3, LoggerAssumption DEF Place, x, Slots
    <3> QED BY <3>2, <3>3 DEF x
  <2> QED BY <2>2, <2>3
<1> QED BY <1>1, <1>2 DEF RingContents, InRing

(* The events held are a sequence of what the slots hold. *)
LEMMA InRingTyped ==
  ASSUME NEW cells \in [Slots -> Contents], NEW tail \in Slots, NEW head \in Slots
  PROVE  /\ InRing(cells, tail, head) \in Seq(Contents)
         /\ Len(InRing(cells, tail, head)) = Held(tail, head)
         /\ \A k \in 1..Held(tail, head) :
              InRing(cells, tail, head)[k] = cells[Place(tail, k - 1)]
<1>1. Held(tail, head) \in Nat
  BY HeldBounds
<1>2. \A k \in 1..Held(tail, head) : cells[Place(tail, k - 1)] \in Contents
  <2>1. \A k \in 1..Held(tail, head) : k - 1 \in 0..(RingCapacity - 1)
    BY HeldBounds, LoggerAssumption
  <2> QED BY <2>1, HeldBounds
<1>3. InRing(cells, tail, head) \in [1..Held(tail, head) -> Contents]
  BY <1>2 DEF InRing
<1> QED BY <1>1, <1>3 DEF InRing

(* The slot at the head holds none of them, so a push may write it. *)
LEMMA HeadIsFree ==
  ASSUME NEW cells \in [Slots -> Contents], NEW tail \in Slots, NEW head \in Slots,
         NEW e \in Contents
  PROVE  InRing([cells EXCEPT ![head] = e], tail, head) = InRing(cells, tail, head)
<1>1. ASSUME NEW k \in 1..Held(tail, head)
      PROVE  Place(tail, k - 1) \in Slots /\ Place(tail, k - 1) # head
  BY LoggerAssumption DEF Held, Place, Slots
<1> QED BY <1>1 DEF InRing

(* Moving the head appends what its slot held. *)
LEMMA HeadMoves ==
  ASSUME NEW cells \in [Slots -> Contents], NEW tail \in Slots, NEW head \in Slots,
         Held(tail, head) + 1 < RingCapacity
  PROVE  /\ InRing(cells, tail, Next1(head)) = Append(InRing(cells, tail, head), cells[head])
         /\ Held(tail, Next1(head)) = Held(tail, head) + 1
<1> DEFINE old == InRing(cells, tail, head)
           new == InRing(cells, tail, Next1(head))
<1>1. Held(tail, Next1(head)) = Held(tail, head) + 1
  BY NextSlot, LoggerAssumption DEF Held, Slots
<1>2. /\ old \in Seq(Contents) /\ Len(old) = Held(tail, head)
      /\ \A k \in 1..Held(tail, head) : old[k] = cells[Place(tail, k - 1)]
  BY InRingTyped
<1>3. /\ new \in Seq(Contents) /\ Len(new) = Held(tail, head) + 1
      /\ \A k \in 1..(Held(tail, head) + 1) : new[k] = cells[Place(tail, k - 1)]
  <2>1. Next1(head) \in Slots
    BY NextSlot
  <2>2. /\ new \in Seq(Contents) /\ Len(new) = Held(tail, Next1(head))
        /\ \A k \in 1..Held(tail, Next1(head)) : new[k] = cells[Place(tail, k - 1)]
    BY <2>1, InRingTyped
  <2> HIDE DEF new
  <2> QED BY <1>1, <2>2
<1>4. Place(tail, Held(tail, head)) = head /\ Held(tail, head) \in Nat
  BY LoggerAssumption DEF Held, Place, Slots
<1>5. cells[head] \in Contents
  OBVIOUS
<1> HIDE DEF old, new
<1>6. /\ Append(old, cells[head]) \in Seq(Contents)
      /\ Len(Append(old, cells[head])) = Len(old) + 1
      /\ \A k \in 1..Len(old) : Append(old, cells[head])[k] = old[k]
      /\ Append(old, cells[head])[Len(old) + 1] = cells[head]
  BY <1>2, <1>5, AppendProperties
<1>7. ASSUME NEW k \in 1..Len(new)
      PROVE  new[k] = Append(old, cells[head])[k]
  <2>1. CASE k = Held(tail, head) + 1
    <3>1. k - 1 = Held(tail, head)
      BY <1>4, <2>1
    <3> QED BY <1>2, <1>3, <1>4, <1>6, <2>1, <3>1
  <2>2. CASE k # Held(tail, head) + 1
    <3>1. k \in 1..Held(tail, head)
      BY <1>3, <1>4, <2>2
    <3> QED BY <1>2, <1>3, <1>6, <3>1
  <2> QED BY <2>1, <2>2
<1>8. Len(new) = Len(Append(old, cells[head]))
  BY <1>2, <1>3, <1>6
<1>9. new = Append(old, cells[head])
  BY <1>3, <1>6, <1>7, <1>8, SeqEqual
<1> QED BY <1>1, <1>9 DEF old, new

(* Moving the tail takes the first. *)
LEMMA TailMoves ==
  ASSUME NEW cells \in [Slots -> Contents], NEW tail \in Slots, NEW head \in Slots, tail # head
  PROVE  /\ InRing(cells, tail, head) = <<cells[tail]>> \o InRing(cells, Next1(tail), head)
         /\ Held(Next1(tail), head) = Held(tail, head) - 1
<1> DEFINE old == InRing(cells, tail, head)
           new == InRing(cells, Next1(tail), head)
<1>0. Next1(tail) = IF tail + 1 < RingCapacity THEN tail + 1 ELSE 0
  BY NextSlot
<1>1. Held(Next1(tail), head) = Held(tail, head) - 1 /\ Held(tail, head) \in Nat \ {0}
  BY <1>0, LoggerAssumption DEF Held, Slots
<1>2. /\ old \in Seq(Contents) /\ Len(old) = Held(tail, head)
      /\ \A k \in 1..Held(tail, head) : old[k] = cells[Place(tail, k - 1)]
  BY InRingTyped
<1>3. /\ new \in Seq(Contents) /\ Len(new) = Held(tail, head) - 1
      /\ \A k \in 1..(Held(tail, head) - 1) : new[k] = cells[Place(Next1(tail), k - 1)]
  BY <1>1, InRingTyped, NextSlot
<1>4. /\ Place(tail, 0) = tail
      /\ \A k \in 1..(Held(tail, head) - 1) : Place(Next1(tail), k - 1) = Place(tail, k)
  <2>1. Place(tail, 0) = tail
    BY LoggerAssumption DEF Place, Slots
  <2>2. ASSUME NEW k \in 1..(Held(tail, head) - 1)
        PROVE  Place(Next1(tail), k - 1) = Place(tail, k)
    BY <1>0, LoggerAssumption DEF Held, Place, Slots
  <2> QED BY <2>1, <2>2
<1>5. /\ <<cells[tail]>> \in Seq(Contents) /\ Len(<<cells[tail]>>) = 1
      /\ <<cells[tail]>>[1] = cells[tail]
  OBVIOUS
<1> HIDE DEF old, new
<1> DEFINE joined == <<cells[tail]>> \o new
<1>6. /\ joined \in Seq(Contents) /\ Len(joined) = 1 + Len(new)
      /\ \A k \in 1..(1 + Len(new)) :
           joined[k] = IF k <= 1 THEN <<cells[tail]>>[k] ELSE new[k - 1]
  BY <1>3, <1>5, ConcatProperties
<1> HIDE DEF joined
<1>7. ASSUME NEW k \in 1..Len(old)
      PROVE  old[k] = joined[k]
  <2>1. CASE k = 1
    BY <1>1, <1>2, <1>3, <1>4, <1>5, <1>6, <2>1
  <2>2. CASE k # 1
    <3>1. k - 1 \in 1..(Held(tail, head) - 1) /\ k \in 1..(1 + Len(new)) /\ ~(k <= 1)
      BY <1>1, <1>2, <1>3, <2>2
    <3>2. joined[k] = new[k - 1] /\ new[k - 1] = cells[Place(Next1(tail), (k - 1) - 1)]
      BY <1>3, <1>6, <3>1
    <3>3. Place(Next1(tail), (k - 1) - 1) = Place(tail, k - 1)
      BY <1>4, <3>1
    <3> QED BY <1>2, <3>2, <3>3
  <2> QED BY <2>1, <2>2
<1>8. Len(old) = Len(joined)
  BY <1>1, <1>2, <1>3, <1>6
<1>9. old = joined
  BY <1>2, <1>6, <1>7, <1>8, SeqEqual
<1> QED BY <1>1, <1>9 DEF old, new, joined

-----------------------------------------------------------------------------
(* Types. *)

(* A source below its bound makes an event and counts it. *)
LEMMA EventsMade ==
  ASSUME NEW s \in Sources, made \in [Sources -> 0..MaxEvents], made[s] < MaxEvents
  PROVE  /\ Made(s) \in Events
         /\ [made EXCEPT ![s] = @ + 1] \in [Sources -> 0..MaxEvents]
<1>1. made[s] + 1 \in 1..MaxEvents /\ made[s] + 1 \in 0..MaxEvents
  BY LoggerAssumption
<1> QED BY <1>1 DEF Made, Events

(* A step of the Job keeps the types: it never takes from an empty list. *)
LEMMA JobTyped ==
  ASSUME TypeOK, ClaimsStand, JobNext
  PROVE  TypeOK'
<1> USE DEF TypeOK, JobFrame, consumer, session, queue
<1>1. CASE PushRtEvent
  <2>1. Made("job") \in Events /\ made' \in [Sources -> 0..MaxEvents]
    BY <1>1, EventsMade DEF PushRtEvent, Counted, Sources
  <2>2. <<Made("job")>> \in Seq(Events)
    BY <2>1
  <2> QED BY <1>1, <2>1, <2>2 DEF PushRtEvent
<1>2. CASE FlushCheck
  BY <1>2 DEF FlushCheck
<1>3. CASE FlushSwap
  <2>1. pending' \in Seq(Events) /\ todo' \in Seq(Events) /\ job' \in {"idle", "load"}
    BY <1>3, EmptySeq DEF FlushSwap
  <2>2. UNCHANGED <<ring, ring_head, accepted, made, slot, pending_locked, commander>>
    BY <1>3 DEF FlushSwap
  <2>3. JobFrame
    BY <1>3 DEF FlushSwap
  <2> QED BY <2>1, <2>2, <2>3
<1>4. CASE PushLoad
  <2>1. Tail(todo) \in Seq(Events) /\ AfterPush \in {"idle", "load"}
    BY <1>4, HeadTailProperties DEF PushLoad, AfterPush, ClaimsStand
  <2>2. /\ slot' \in Slots /\ job' \in {"idle", "load", "slot"}
        /\ todo' \in Seq(Events)
    BY <1>4, <2>1 DEF PushLoad
  <2>3. UNCHANGED <<ring, ring_head, accepted, made, queue>> /\ JobFrame
    BY <1>4 DEF PushLoad
  <2> QED BY <2>2, <2>3
<1>5. CASE PushSlot
  <2>1. Head(todo) \in Events
    BY <1>5, HeadTailProperties DEF PushSlot, ClaimsStand
  <2> QED BY <1>5, <2>1 DEF PushSlot
<1>6. CASE PushHead
  <2>1. Head(todo) \in Events /\ Tail(todo) \in Seq(Events) /\ AfterPush \in {"idle", "load"}
    BY <1>6, HeadTailProperties DEF PushHead, AfterPush, ClaimsStand
  <2>2. Append(accepted, Head(todo)) \in Seq(Events)
    BY <2>1, AppendProperties
  <2>3. Next1(slot) \in Slots
    BY NextSlot
  <2> QED BY <1>6, <2>1, <2>2, <2>3 DEF PushHead
<1> QED BY <1>1, <1>2, <1>3, <1>4, <1>5, <1>6 DEF JobNext

(* A step of queueCommand keeps the types. *)
LEMMA QueueTyped ==
  ASSUME TypeOK, ClaimsStand, QueueCheck \/ QueueGoesOn
  PROVE  TypeOK'
<1>1. UNCHANGED <<ring, ring_head, ring_tail, file, accepted, producer, consumer, session>>
  BY DEF QueueGoesOn, QueueCheck, QueueLock, QueuePush, QueueFrame
<1>2. UNCHANGED <<job, todo, slot>>
  BY <1>1 DEF producer
<1>3. UNCHANGED <<drainer, pop, taken, popped, file_holder>>
  BY <1>1 DEF consumer
<1>4. UNCHANGED <<enabled, file_open, control, sessions, reopen, due>>
  BY <1>1 DEF session
<1>5. /\ pending' \in Seq(Events) /\ commander' \in {"idle", "lock", "held"}
      /\ pending_locked' \in BOOLEAN /\ made' \in [Sources -> 0..MaxEvents]
  <2>1. CASE QueueCheck \/ QueueLock
    BY <2>1 DEF QueueCheck, QueueLock, TypeOK
  <2>2. CASE QueuePush
    <3>1. made \in [Sources -> 0..MaxEvents] /\ "command" \in Sources /\ pending \in Seq(Events)
      BY DEF TypeOK, Sources
    <3>2. made["command"] < MaxEvents
      BY <2>2 DEF QueuePush, ClaimsStand
    <3>3. Made("command") \in Events /\ made' \in [Sources -> 0..MaxEvents]
      BY <2>2, <3>1, <3>2, EventsMade DEF QueuePush, Counted
    <3>4. Append(pending, Made("command")) \in Seq(Events)
      BY <3>1, <3>3, AppendProperties
    <3> QED BY <2>2, <3>3, <3>4 DEF QueuePush
  <2> QED BY <2>1, <2>2 DEF QueueGoesOn
<1> QED BY <1>1, <1>2, <1>3, <1>4, <1>5 DEF TypeOK

(* The element between two sequences. *)
LEMMA MiddleElement ==
  ASSUME NEW S, NEW a \in Seq(S), NEW e \in S, NEW b \in Seq(S)
  PROVE  /\ Len(a) + 1 \in 1..Len((a \o <<e>>) \o b)
         /\ ((a \o <<e>>) \o b)[Len(a) + 1] = e
<1>1. Append(a, e) = a \o <<e>>
  BY AppendIsConcat
<1> DEFINE front == Append(a, e)
<1>2. /\ front \in Seq(S) /\ Len(front) = Len(a) + 1
      /\ front[Len(a) + 1] = e
  BY AppendProperties
<1> HIDE DEF front
<1>3. Len(a) \in Nat /\ Len(b) \in Nat
  BY LenProperties
<1>4. /\ Len(front \o b) = Len(front) + Len(b)
      /\ \A i \in 1..(Len(front) + Len(b)) :
           (front \o b)[i] = IF i <= Len(front) THEN front[i] ELSE b[i - Len(front)]
  BY <1>2, ConcatProperties
<1>5. Len(a) + 1 \in 1..Len(front \o b) /\ (front \o b)[Len(a) + 1] = e
  BY <1>2, <1>3, <1>4
<1> QED BY <1>1, <1>5 DEF front

(* A pop in flight carries an event: it is one of those accepted. *)
LEMMA PoppedIsEvent ==
  ASSUME TypeOK, HolderPops, OneOrder, pop = "write"
  PROVE  popped \in Events
<1>1. control \notin {"resetHead", "resetTail"}
  BY DEF HolderPops, Opening, TypeOK
<1> DEFINE rest == InRing(ring, ring_tail, ring_head)
<1>2. accepted = (file \o <<popped>>) \o rest /\ accepted \in Seq(Events)
  BY <1>1 DEF OneOrder, InFlight, TypeOK
<1>3. rest \in Seq(Contents) /\ file \in Seq(Contents) /\ popped \in Contents
  <2>1. ring \in [Slots -> Contents] /\ popped \in Contents /\ file \in Seq(Contents)
    BY DEF TypeOK, Contents
  <2> QED BY <2>1, InRingTyped DEF TypeOK
<1> HIDE DEF rest
<1>4. /\ Len(file) + 1 \in 1..Len(accepted)
      /\ accepted[Len(file) + 1] = popped
  BY <1>2, <1>3, MiddleElement
<1> QED BY <1>2, <1>4, ElementOfSeq

(* A step of drain keeps the types: it writes events only. *)
LEMMA PopTyped ==
  ASSUME TypeOK, HolderPops, OneOrder, DrainCall \/ DrainLock \/ ShutdownLock \/ Pop
  PROVE  TypeOK'
<1> USE DEF TypeOK, PopFrame, producer, queue
<1>1. CASE DrainCall
  BY <1>1 DEF DrainCall
<1>2. CASE DrainLock
  BY <1>2 DEF DrainLock
<1>3. CASE ShutdownLock
  BY <1>3 DEF ShutdownLock
<1>4. CASE PopLoad
  <2>1. /\ file_holder' \in {"none", "drainer", "control"}
        /\ drainer' \in {"idle", "lock", "pop"}
        /\ control' \in {"idle", "lock", "pop", "close", "disable",
                         "open", "resetHead", "resetTail", "enable"}
        /\ pop' \in {"off", "copy"} /\ taken' \in Slots
    BY <1>4 DEF PopLoad
  <2>2. UNCHANGED <<ring_tail, file, popped>> /\ PopFrame
    BY <1>4 DEF PopLoad
  <2> QED BY <2>1, <2>2
<1>5. CASE PopCopy
  <2>1. ring[taken] \in Events \union {NoEvent}
    OBVIOUS
  <2> QED BY <1>5, <2>1 DEF PopCopy
<1>6. CASE PopAdvance
  <2>1. Next1(taken) \in Slots
    BY NextSlot
  <2> QED BY <1>6, <2>1 DEF PopAdvance
<1>7. CASE PopWrite
  <2>1. Append(file, popped) \in Seq(Events)
    BY <1>7, PoppedIsEvent, AppendProperties DEF PopWrite
  <2>2. 0 \in Slots
    BY LoggerAssumption DEF Slots
  <2> QED BY <1>7, <2>1, <2>2 DEF PopWrite
<1> QED BY <1>1, <1>2, <1>3, <1>4, <1>5, <1>6, <1>7 DEF Pop

(* A step of initialize or shutdown keeps the types. *)
LEMMA ControlTyped ==
  ASSUME TypeOK,
         Shutdown \/ Close \/ Disable \/ Open \/ ResetHead \/ ResetTail \/ Enable
  PROVE  TypeOK'
<1> DEFINE Steps == {"idle", "lock", "pop", "close", "disable",
                     "open", "resetHead", "resetTail", "enable"}
<1>1. UNCHANGED <<ring, made, producer, drainer, pop, taken, popped, queue>>
  BY DEF Shutdown, Close, Disable, Open, ResetHead, ResetTail, Enable, ControlFrame
<1>2. UNCHANGED <<job, todo, slot>>
  BY <1>1 DEF producer
<1>3. UNCHANGED <<pending, pending_locked, commander>>
  BY <1>1 DEF queue
<1>4. file_holder' = file_holder
  BY DEF Shutdown, Close, Disable, Open, ResetHead, ResetTail, Enable
<1>5. control' \in Steps
  BY DEF Shutdown, Close, Disable, Open, ResetHead, ResetTail, Enable
<1>6. enabled' \in BOOLEAN /\ file_open' \in BOOLEAN /\ reopen' \in BOOLEAN
  BY DEF Shutdown, Close, Disable, Open, ResetHead, ResetTail, Enable, TypeOK
<1>7. ring_head' \in Slots /\ ring_tail' \in Slots
  <2>1. 0 \in Slots /\ ring_head \in Slots /\ ring_tail \in Slots
    BY LoggerAssumption DEF Slots, TypeOK
  <2> QED BY <2>1 DEF Shutdown, Close, Disable, Open, ResetHead, ResetTail, Enable
<1>8. sessions' \in 0..MaxSessions
  <2>1. sessions \in 0..MaxSessions /\ MaxSessions \in Nat
    BY LoggerAssumption DEF TypeOK
  <2>2. CASE Open
    BY <2>1, <2>2 DEF Open
  <2>3. CASE ~Open
    BY <2>1, <2>3 DEF Shutdown, Close, Disable, ResetHead, ResetTail, Enable
  <2> QED BY <2>2, <2>3
<1>9. file' \in Seq(Events) /\ accepted' \in Seq(Events)
  <2>1. file \in Seq(Events) /\ accepted \in Seq(Events) /\ <<>> \in Seq(Events)
    BY EmptySeq DEF TypeOK
  <2> QED BY <2>1 DEF Shutdown, Close, Disable, Open, ResetHead, ResetTail, Enable
<1>10. due' \in Nat
  <2>1. due \in Nat /\ Len(accepted) \in Nat
    BY LenProperties DEF TypeOK
  <2> QED BY <2>1 DEF Shutdown, Close, Disable, Open, ResetHead, ResetTail, Enable
<1> QED BY <1>1, <1>2, <1>3, <1>4, <1>5, <1>6, <1>7, <1>8, <1>9, <1>10 DEF TypeOK

-----------------------------------------------------------------------------
(* Who may be where. *)

(* While the log is opened nobody pushes or pops. *)
LEMMA QuietWhileOpening ==
  ASSUME TypeOK, HolderPops, control \in Opening
  PROVE  ~enabled /\ job = "idle" /\ drainer = "idle" /\ file_holder = "none" /\ pop = "off"
  BY DEF HolderPops, Opening, TypeOK

(* HolderPops is kept: an opening finds both threads outside, and keeps them there. *)
LEMMA HolderPopsKept ==
  ASSUME RestartsQuietly, TypeOK, HolderPops, Next
  PROVE  HolderPops'
<1>1. CASE JobNext
  <2>1. UNCHANGED <<drainer, pop, taken, popped, file_holder>>
    BY <1>1 DEF JobNext, PushRtEvent, FlushCheck, FlushSwap, PushLoad, PushSlot, PushHead,
                JobFrame, consumer
  <2>2. UNCHANGED <<enabled, file_open, control, sessions, reopen, due>> /\ UNCHANGED file
    BY <1>1 DEF JobNext, PushRtEvent, FlushCheck, FlushSwap, PushLoad, PushSlot, PushHead,
                JobFrame, session
  <2>3. control \notin Opening
    <3>1. job # "idle" \/ enabled
      BY <1>1 DEF JobNext, PushRtEvent, FlushCheck, FlushSwap, PushLoad, PushSlot, PushHead
    <3> QED BY <3>1, QuietWhileOpening
  <2> QED BY <2>1, <2>2, <2>3 DEF HolderPops, Opening
<1>2. CASE QueueCheck \/ QueueGoesOn
  <2>1. UNCHANGED <<ring, ring_head, ring_tail, file, accepted, producer, consumer, session>>
    BY <1>2 DEF QueueGoesOn, QueueCheck, QueueLock, QueuePush, QueueFrame
  <2>2. job' = job
    BY <2>1 DEF producer
  <2>3. UNCHANGED <<drainer, pop, taken, popped, file_holder>>
    BY <2>1 DEF consumer
  <2>4. UNCHANGED <<enabled, file_open, control, sessions, reopen, due>>
    BY <2>1 DEF session
  <2> QED BY <2>1, <2>2, <2>3, <2>4 DEF HolderPops, Opening
<1>3. CASE DrainCall \/ DrainLock \/ ShutdownLock \/ Pop
  <2>1. PopFrame
    BY <1>3 DEF DrainCall, DrainLock, ShutdownLock, Pop, PopLoad, PopCopy, PopAdvance, PopWrite
  <2>2. UNCHANGED <<ring_head, enabled>> /\ job' = job
    BY <2>1 DEF PopFrame, producer
  <2>3. control \notin Opening
    BY <1>3, QuietWhileOpening
       DEF DrainCall, DrainLock, ShutdownLock, Pop, PopLoad, PopCopy, PopAdvance, PopWrite,
           Opening
  <2>4. control' \notin Opening
    BY <1>3, <2>3
       DEF DrainCall, DrainLock, ShutdownLock, Pop, PopLoad, PopCopy, PopAdvance, PopWrite,
           Opening
  <2>5. control' = "open" => ~enabled'
    BY <1>3, <2>2
       DEF DrainCall, DrainLock, ShutdownLock, Pop, PopLoad, PopCopy, PopAdvance, PopWrite,
           HolderPops
  <2>6. /\ file_holder' = "drainer" <=> drainer' = "pop"
        /\ file_holder' = "control" <=> control' = "pop"
        /\ file_holder' = "none" <=> pop' = "off"
    <3>1. CASE DrainCall
      BY <3>1 DEF DrainCall, HolderPops
    <3>2. CASE DrainLock
      BY <3>2 DEF DrainLock, HolderPops
    <3>3. CASE ShutdownLock
      BY <3>3 DEF ShutdownLock, HolderPops
    <3>4. CASE PopLoad
      BY <3>4 DEF PopLoad, HolderPops, TypeOK
    <3>5. CASE PopCopy \/ PopAdvance \/ PopWrite
      BY <3>5 DEF PopCopy, PopAdvance, PopWrite, HolderPops
    <3> QED BY <1>3, <3>1, <3>2, <3>3, <3>4, <3>5 DEF Pop
  <2> QED BY <2>4, <2>5, <2>6 DEF HolderPops, Opening
<1>4. CASE Shutdown \/ Close \/ Disable \/ Open \/ ResetHead \/ ResetTail \/ Enable
  <2>1. ControlFrame
    BY <1>4 DEF Shutdown, Close, Disable, Open, ResetHead, ResetTail, Enable
  <2>2. UNCHANGED <<drainer, pop>> /\ job' = job
    BY <2>1 DEF ControlFrame, producer
  <2>3. file_holder' = file_holder
    BY <1>4 DEF Shutdown, Close, Disable, Open, ResetHead, ResetTail, Enable
  <2>4. control # "pop" /\ control' # "pop"
    BY <1>4 DEF Shutdown, Close, Disable, Open, ResetHead, ResetTail, Enable
  <2>5. control' \in {"open"} \union Opening => ~enabled'
    BY <1>4 DEF Shutdown, Close, Disable, Open, ResetHead, ResetTail, Enable, HolderPops, Opening
  <2>6. control' \in Opening => job' = "idle" /\ drainer' = "idle"
    BY <1>4, <2>2
       DEF Shutdown, Close, Disable, Open, ResetHead, ResetTail, Enable, HolderPops, Opening
  <2>7. control' \in {"resetHead", "resetTail"} => file' = <<>>
    BY <1>4 DEF Shutdown, Close, Disable, Open, ResetHead, ResetTail, Enable, HolderPops
  <2>8. control' = "resetTail" => ring_head' = 0
    BY <1>4 DEF Shutdown, Close, Disable, Open, ResetHead, ResetTail, Enable
  <2> QED BY <2>2, <2>3, <2>4, <2>5, <2>6, <2>7, <2>8 DEF HolderPops
<1> QED BY <1>1, <1>2, <1>3, <1>4 DEF Next, ControlGoesOn

-----------------------------------------------------------------------------
(* What push and pop have claimed. *)

(* After the event is pushed or dropped the Job goes on only with more. *)
LEMMA AfterPushLeft ==
  ASSUME todo \in Seq(Events), todo # <<>>
  PROVE  /\ AfterPush \in {"idle", "load"}
         /\ AfterPush = "load" => Tail(todo) # <<>>
<1>1. Len(Tail(todo)) = Len(todo) - 1 /\ Len(todo) \in Nat
  BY HeadTailProperties, LenProperties
<1> DEFINE left == Tail(todo)
           n == Len(todo)
<1>2. Len(left) = n - 1 /\ n \in Nat
  BY <1>1
<1> HIDE DEF left, n
<1>3. left = <<>> => n = 1
  BY <1>2
<1> QED BY <1>3 DEF AfterPush, left, n

(* A push claims a free slot and moves the head only to where no pop is. *)
LEMMA JobClaims ==
  ASSUME TypeOK, ClaimsStand, JobNext
  PROVE  ClaimsStand'
<1>1. /\ ring \in [Slots -> Contents] /\ todo \in Seq(Events) /\ slot \in Slots
      /\ ring_head \in Slots /\ ring_tail \in Slots
      /\ pop \in {"copy", "advance"} => taken = ring_tail /\ ring_tail # ring_head
      /\ pop = "advance" => popped = ring[taken]
      /\ job \in {"load", "slot", "head"} => todo # <<>>
      /\ job \in {"slot", "head"} =>
           slot = ring_head /\ Held(ring_tail, ring_head) + 1 < RingCapacity
  BY DEF TypeOK, ClaimsStand, Contents
<1>2. UNCHANGED <<ring_tail, file, consumer, session>>
  BY DEF JobNext, PushRtEvent, FlushCheck, FlushSwap, PushLoad, PushSlot, PushHead, JobFrame
<1>3. ring_tail' = ring_tail /\ UNCHANGED <<drainer, pop, taken, popped, file_holder>>
  BY <1>2 DEF consumer
<1>4. commander' # "idle" => made'["command"] < MaxEvents
  <2>1. commander' = commander
    BY DEF JobNext, PushRtEvent, FlushCheck, FlushSwap, PushLoad, PushSlot, PushHead, queue
  <2>2. made'["command"] = made["command"]
    BY DEF JobNext, PushRtEvent, FlushCheck, FlushSwap, PushLoad, PushSlot, PushHead, Counted,
           TypeOK, Sources
  <2> QED BY <2>1, <2>2 DEF ClaimsStand
<1>5. CASE PushRtEvent \/ FlushCheck \/ FlushSwap
  <2>1. UNCHANGED <<ring, ring_head, slot>> /\ job' \in {"idle", "flush", "load"}
    BY <1>5 DEF PushRtEvent, FlushCheck, FlushSwap
  <2>2. job' = "load" => todo' # <<>>
    BY <1>5 DEF PushRtEvent, FlushCheck, FlushSwap
  <2> QED BY <1>1, <1>3, <1>4, <2>1, <2>2 DEF ClaimsStand
<1>6. CASE PushLoad
  <2>1. UNCHANGED <<ring, ring_head>> /\ job = "load"
    BY <1>6 DEF PushLoad
  <2>2. CASE Next1(ring_head) = ring_tail
    <3>1. todo' = Tail(todo) /\ job' = AfterPush
      BY <1>6, <2>2 DEF PushLoad
    <3> QED BY <1>1, <1>3, <1>4, <2>1, <3>1, AfterPushLeft DEF ClaimsStand
  <2>3. CASE Next1(ring_head) # ring_tail
    <3>1. slot' = ring_head /\ job' = "slot" /\ todo' = todo
      BY <1>6, <2>3 DEF PushLoad
    <3>2. Held(ring_tail, ring_head) + 1 < RingCapacity
      <4>1. /\ Held(ring_tail, ring_head) \in 0..(RingCapacity - 1)
            /\ Held(ring_tail, ring_head) + 1 # RingCapacity
        BY <1>1, <2>3, HeldBounds
      <4> QED BY <4>1, LoggerAssumption
    <3> QED BY <1>1, <1>3, <1>4, <2>1, <3>1, <3>2 DEF ClaimsStand
  <2> QED BY <2>2, <2>3
<1>7. CASE PushSlot
  <2>1. /\ job = "slot" /\ job' = "head" /\ ring' = [ring EXCEPT ![slot] = Head(todo)]
        /\ UNCHANGED <<ring_head, todo, slot>>
    BY <1>7 DEF PushSlot
  <2>2. ring'[slot] = Head(todo)
    BY <1>1, <2>1
  <2>3. pop = "advance" => ring'[taken] = ring[taken]
    BY <1>1, <2>1
  <2> QED BY <1>1, <1>3, <1>4, <2>1, <2>2, <2>3 DEF ClaimsStand
<1>8. CASE PushHead
  <2>1. /\ job = "head" /\ ring_head' = Next1(slot) /\ todo' = Tail(todo) /\ job' = AfterPush
        /\ UNCHANGED <<ring, slot>>
    BY <1>8 DEF PushHead
  <2>2. Next1(ring_head) # ring_tail
    <3>1. Held(ring_tail, ring_head) + 1 # RingCapacity
      <4>1. /\ Held(ring_tail, ring_head) \in 0..(RingCapacity - 1)
            /\ Held(ring_tail, ring_head) + 1 < RingCapacity
        BY <1>1, <2>1, HeldBounds
      <4> QED BY <4>1, LoggerAssumption
    <3> QED BY <1>1, <3>1, HeldBounds
  <2>3. job' \in {"idle", "load"} /\ (job' = "load" => todo' # <<>>)
    BY <1>1, <2>1, AfterPushLeft
  <2>4. ring_tail # ring_head'
    BY <1>1, <2>1, <2>2
  <2> QED BY <1>1, <1>3, <1>4, <2>1, <2>3, <2>4 DEF ClaimsStand
<1> QED BY <1>5, <1>6, <1>7, <1>8 DEF JobNext

(* Queueing a command touches no claim. *)
LEMMA QueueClaims ==
  ASSUME TypeOK, ClaimsStand, QueueCheck \/ QueueGoesOn
  PROVE  ClaimsStand'
<1>1. UNCHANGED <<ring, ring_head, ring_tail, file, accepted, producer, consumer, session>>
  BY DEF QueueGoesOn, QueueCheck, QueueLock, QueuePush, QueueFrame
<1>2. UNCHANGED <<job, todo, slot>>
  BY <1>1 DEF producer
<1>3. UNCHANGED <<drainer, pop, taken, popped, file_holder>>
  BY <1>1 DEF consumer
<1>4. commander' # "idle" => made'["command"] < MaxEvents
  BY DEF QueueGoesOn, QueueCheck, QueueLock, QueuePush, ClaimsStand
<1> QED BY <1>1, <1>2, <1>3, <1>4 DEF ClaimsStand

(* A pop moves the tail away from what a push has claimed. *)
LEMMA PopClaims ==
  ASSUME TypeOK, ClaimsStand, DrainCall \/ DrainLock \/ ShutdownLock \/ Pop
  PROVE  ClaimsStand'
<1>1. /\ ring_head \in Slots /\ ring_tail \in Slots
      /\ pop \in {"copy", "advance"} => taken = ring_tail /\ ring_tail # ring_head
      /\ job \in {"slot", "head"} =>
           slot = ring_head /\ Held(ring_tail, ring_head) + 1 < RingCapacity
  BY DEF TypeOK, ClaimsStand
<1>2. UNCHANGED <<ring, ring_head, accepted, made, producer, queue>>
  BY DEF DrainCall, DrainLock, ShutdownLock, Pop, PopLoad, PopCopy, PopAdvance, PopWrite,
         PopFrame
<1>3. UNCHANGED <<job, todo, slot>>
  BY <1>2 DEF producer
<1>4. commander' = commander
  BY <1>2 DEF queue
<1>5. /\ pop' \in {"copy", "advance"} => taken' = ring_tail' /\ ring_tail' # ring_head
      /\ pop' = "advance" => popped' = ring[taken']
  BY DEF DrainCall, DrainLock, ShutdownLock, Pop, PopLoad, PopCopy, PopAdvance, PopWrite,
         ClaimsStand
<1>6. job \in {"slot", "head"} => Held(ring_tail', ring_head) + 1 < RingCapacity
  <2>1. CASE PopAdvance
    <3>1. ring_tail' = Next1(ring_tail) /\ ring_tail # ring_head
      BY <1>1, <2>1 DEF PopAdvance
    <3>2. Held(ring_tail', ring_head) = Held(ring_tail, ring_head) - 1
      <4>1. ring \in [Slots -> Contents]
        BY DEF TypeOK, Contents
      <4> QED BY <1>1, <3>1, <4>1, TailMoves
    <3>3. Held(ring_tail, ring_head) \in 0..(RingCapacity - 1)
      BY <1>1, HeldBounds
    <3> QED BY <1>1, <3>2, <3>3, LoggerAssumption
  <2>2. CASE ~PopAdvance
    <3>1. ring_tail' = ring_tail
      BY <2>2 DEF DrainCall, DrainLock, ShutdownLock, Pop, PopLoad, PopCopy, PopWrite
    <3> QED BY <1>1, <3>1
  <2> QED BY <2>1, <2>2
<1> QED BY <1>2, <1>3, <1>4, <1>5, <1>6 DEF ClaimsStand

(* The resets of head and tail find no claim. *)
LEMMA ControlClaims ==
  ASSUME TypeOK, HolderPops, ClaimsStand,
         Shutdown \/ Close \/ Disable \/ Open \/ ResetHead \/ ResetTail \/ Enable
  PROVE  ClaimsStand'
<1>1. UNCHANGED <<ring, made, producer, drainer, pop, taken, popped, queue>>
  BY DEF Shutdown, Close, Disable, Open, ResetHead, ResetTail, Enable, ControlFrame
<1>2. UNCHANGED <<job, todo, slot>>
  BY <1>1 DEF producer
<1>3. commander' = commander
  BY <1>1 DEF queue
<1>4. CASE ResetHead \/ ResetTail
  <2>1. control \in Opening
    BY <1>4 DEF ResetHead, ResetTail, Opening
  <2>2. job = "idle" /\ pop = "off"
    BY <2>1, QuietWhileOpening
  <2> QED BY <1>1, <1>2, <1>3, <2>2 DEF ClaimsStand
<1>5. CASE Shutdown \/ Close \/ Disable \/ Open \/ Enable
  <2>1. UNCHANGED <<ring_head, ring_tail>>
    BY <1>5 DEF Shutdown, Close, Disable, Open, Enable
  <2> QED BY <1>1, <1>2, <1>3, <2>1 DEF ClaimsStand
<1> QED BY <1>4, <1>5

-----------------------------------------------------------------------------
(* The order of the events. *)

(* The four sequences the order is stated over. *)
LEMMA SequencesTyped ==
  ASSUME TypeOK
  PROVE  /\ file \in Seq(Contents) /\ accepted \in Seq(Contents) /\ InFlight \in Seq(Contents)
         /\ ring \in [Slots -> Contents] /\ ring_head \in Slots /\ ring_tail \in Slots
         /\ InRing(ring, ring_tail, ring_head) \in Seq(Contents)
<1>1. /\ file \in Seq(Contents) /\ accepted \in Seq(Contents) /\ popped \in Contents
      /\ ring \in [Slots -> Contents] /\ ring_head \in Slots /\ ring_tail \in Slots
  BY DEF TypeOK, Contents
<1>2. InFlight \in Seq(Contents)
  BY <1>1, EmptySeq DEF InFlight
<1>3. InRing(ring, ring_tail, ring_head) \in Seq(Contents)
  BY <1>1, InRingTyped
<1> QED BY <1>1, <1>2, <1>3

(* A ring whose head is its tail holds nothing. *)
LEMMA EmptyRing ==
  ASSUME NEW cells \in [Slots -> Contents], NEW tail \in Slots
  PROVE  InRing(cells, tail, tail) = <<>>
<1>1. Held(tail, tail) = 0
  BY HeldBounds
<1>2. Len(InRing(cells, tail, tail)) = 0 /\ InRing(cells, tail, tail) \in Seq(Contents)
  BY <1>1, InRingTyped
<1> QED BY <1>2, EmptySeq

(* An event that enters the ring goes behind all others. *)
LEMMA PushedLast ==
  ASSUME NEW a \in Seq(Contents), NEW b \in Seq(Contents), NEW e \in Contents
  PROVE  Append(a \o b, e) = a \o Append(b, e)
<1>1. a \o b \in Seq(Contents) /\ <<e>> \in Seq(Contents)
  BY ConcatProperties
<1>2. Append(a \o b, e) = (a \o b) \o <<e>>
  BY <1>1, AppendIsConcat
<1>3. Append(b, e) = b \o <<e>>
  BY AppendIsConcat
<1>4. (a \o b) \o <<e>> = a \o (b \o <<e>>)
  BY <1>1, ConcatAssociative
<1> QED BY <1>2, <1>3, <1>4

(* An event that leaves it stays in its place. *)
LEMMA PoppedInPlace ==
  ASSUME NEW S, NEW a \in Seq(S), NEW b \in Seq(S), NEW e \in S
  PROVE  (a \o <<>>) \o (<<e>> \o b) = (a \o <<e>>) \o b
<1>1. a \o <<>> = a /\ <<e>> \in Seq(S)
  BY ConcatEmptySeq
<1> QED BY <1>1, ConcatAssociative

(* A push keeps the order: it appends to the ring what it counts as accepted. *)
LEMMA JobOrder ==
  ASSUME TypeOK, HolderPops, ClaimsStand, OneOrder, DueWritten, JobNext
  PROVE  OneOrder' /\ DueWritten'
<1>1. UNCHANGED <<ring_tail, file, consumer, session>>
  BY DEF JobNext, PushRtEvent, FlushCheck, FlushSwap, PushLoad, PushSlot, PushHead, JobFrame
<1>2. UNCHANGED <<ring_tail, file>> /\ InFlight' = InFlight
  BY <1>1 DEF consumer, InFlight
<1>3. control' = control /\ due' = due
  BY <1>1 DEF session
<1>4. accepted = file \o InFlight \o InRing(ring, ring_tail, ring_head)
  <2>1. job # "idle" \/ enabled
    BY DEF JobNext, PushRtEvent, FlushCheck, FlushSwap, PushLoad, PushSlot, PushHead
  <2>2. control \notin Opening
    BY <2>1, QuietWhileOpening
  <2> QED BY <2>2 DEF OneOrder, Opening
<1> DEFINE front == file \o InFlight
           R == InRing(ring, ring_tail, ring_head)
<1>5. /\ front \in Seq(Contents) /\ R \in Seq(Contents)
      /\ ring \in [Slots -> Contents] /\ ring_head \in Slots /\ ring_tail \in Slots
  BY SequencesTyped, ConcatProperties
<1>6. /\ accepted' = file' \o InFlight' \o InRing(ring', ring_tail', ring_head')
      /\ accepted' = accepted \/ \E e \in Events : accepted' = Append(accepted, e)
  <2>1. CASE PushRtEvent \/ FlushCheck \/ FlushSwap \/ PushLoad
    <3>1. UNCHANGED <<ring, ring_head, accepted>>
      BY <2>1 DEF PushRtEvent, FlushCheck, FlushSwap, PushLoad
    <3> QED BY <1>2, <1>4, <3>1
  <2>2. CASE PushSlot
    <3>1. /\ ring' = [ring EXCEPT ![ring_head] = Head(todo)]
          /\ UNCHANGED <<ring_head, accepted>>
      BY <2>2 DEF PushSlot, ClaimsStand
    <3>2. Head(todo) \in Contents
      <4>1. todo \in Seq(Events) /\ todo # <<>>
        BY <2>2 DEF PushSlot, ClaimsStand, TypeOK
      <4> QED BY <4>1, HeadTailProperties DEF Contents
    <3>3. InRing(ring', ring_tail, ring_head) = R
      BY <1>5, <3>1, <3>2, HeadIsFree
    <3> QED BY <1>2, <1>4, <3>1, <3>3
  <2>3. CASE PushHead
    <3>1. /\ ring_head' = Next1(ring_head) /\ ring' = ring
          /\ accepted' = Append(accepted, Head(todo))
          /\ Head(todo) = ring[ring_head]
          /\ Held(ring_tail, ring_head) + 1 < RingCapacity
      BY <2>3 DEF PushHead, ClaimsStand
    <3>2. Head(todo) \in Events
      <4>1. todo \in Seq(Events) /\ todo # <<>>
        BY <2>3 DEF PushHead, ClaimsStand, TypeOK
      <4> QED BY <4>1, HeadTailProperties
    <3>3. InRing(ring, ring_tail, Next1(ring_head)) = Append(R, ring[ring_head])
      BY <1>5, <3>1, HeadMoves
    <3>4. ring[ring_head] \in Contents
      BY <1>5
    <3> DEFINE e == ring[ring_head]
    <3> HIDE DEF front, R, e
    <3>5. Append(front \o R, e) = front \o Append(R, e)
      <4>1. e \in Contents
        BY <3>4 DEF e
      <4> QED BY <1>5, <4>1, PushedLast
    <3>6. accepted = front \o R
      BY <1>4 DEF front, R
    <3>7. accepted' = front \o InRing(ring', ring_tail', ring_head')
      BY <1>2, <3>1, <3>3, <3>5, <3>6 DEF e
    <3> QED BY <1>2, <3>1, <3>2, <3>7 DEF front
  <2> QED BY <2>1, <2>2, <2>3 DEF JobNext
<1>7. Len(accepted) <= Len(accepted') /\ Len(accepted) \in Nat /\ Len(accepted') \in Nat
  <2>1. accepted \in Seq(Events) /\ Len(accepted) \in Nat
    BY LenProperties DEF TypeOK
  <2> QED BY <1>6, <2>1, AppendProperties
<1>8. OneOrder'
  BY <1>6 DEF OneOrder
<1>9. DueWritten'
  BY <1>2, <1>3, <1>7 DEF DueWritten, TypeOK
<1> QED BY <1>8, <1>9

(* Queueing a command leaves the order alone. *)
LEMMA QueueOrder ==
  ASSUME OneOrder, DueWritten, QueueCheck \/ QueueGoesOn
  PROVE  OneOrder' /\ DueWritten'
<1>1. UNCHANGED <<ring, ring_head, ring_tail, file, accepted, producer, consumer, session>>
  BY DEF QueueGoesOn, QueueCheck, QueueLock, QueuePush, QueueFrame
<1>2. InFlight' = InFlight
  BY <1>1 DEF consumer, InFlight
<1>3. control' = control /\ due' = due
  BY <1>1 DEF session
<1> QED BY <1>1, <1>2, <1>3 DEF OneOrder, DueWritten

(* A pop keeps the order, and shutdown's own ends with all of it written. *)
LEMMA PopOrder ==
  ASSUME TypeOK, HolderPops, ClaimsStand, OneOrder, DueWritten,
         DrainCall \/ DrainLock \/ ShutdownLock \/ Pop
  PROVE  OneOrder' /\ DueWritten'
<1>1. UNCHANGED <<ring, ring_head, accepted, due>>
  BY DEF DrainCall, DrainLock, ShutdownLock, Pop, PopLoad, PopCopy, PopAdvance, PopWrite,
         PopFrame
<1>2. control \notin Opening
  BY QuietWhileOpening
     DEF DrainCall, DrainLock, ShutdownLock, Pop, PopLoad, PopCopy, PopAdvance, PopWrite,
         Opening
<1>3. accepted = file \o InFlight \o InRing(ring, ring_tail, ring_head)
  BY <1>2 DEF OneOrder, Opening
<1> DEFINE R == InRing(ring, ring_tail, ring_head)
<1>4. /\ file \in Seq(Contents) /\ R \in Seq(Contents)
      /\ ring \in [Slots -> Contents] /\ ring_head \in Slots /\ ring_tail \in Slots
  BY SequencesTyped
<1>5. Len(accepted) \in Nat /\ Len(file) \in Nat /\ due \in Nat
  BY LenProperties DEF TypeOK
<1>6. CASE PopAdvance
  <2>1. /\ ring_tail' = Next1(ring_tail) /\ ring_tail # ring_head /\ popped = ring[ring_tail]
        /\ InFlight = <<>> /\ InFlight' = <<popped>>
        /\ file' = file /\ control' = control
    BY <1>6 DEF PopAdvance, ClaimsStand, InFlight
  <2> DEFINE S == InRing(ring, Next1(ring_tail), ring_head)
  <2>2. R = <<popped>> \o S
    BY <1>4, <2>1, TailMoves
  <2>3. S \in Seq(Contents) /\ popped \in Contents
    <3>1. Next1(ring_tail) \in Slots
      BY <1>4, NextSlot
    <3> QED BY <1>4, <2>1, <3>1, InRingTyped
  <2>4. InRing(ring', ring_tail', ring_head') = S
    BY <1>1, <2>1
  <2>5. accepted = (file \o <<>>) \o R
    BY <1>3, <2>1
  <2> HIDE DEF R, S
  <2>6. (file \o <<>>) \o (<<popped>> \o S) = (file \o <<popped>>) \o S
    BY <1>4, <2>3, PoppedInPlace
  <2>7. accepted' = file' \o InFlight' \o InRing(ring', ring_tail', ring_head')
    BY <1>1, <2>1, <2>2, <2>4, <2>5, <2>6
  <2> QED BY <1>1, <2>1, <2>7 DEF OneOrder, DueWritten
<1>7. CASE PopWrite
  <2>1. /\ UNCHANGED <<ring_tail, control>> /\ file' = Append(file, popped)
        /\ InFlight = <<popped>> /\ InFlight' = <<>>
    BY <1>7 DEF PopWrite, InFlight
  <2>2. popped \in Contents
    BY DEF TypeOK, Contents
  <2>3. /\ Append(file, popped) \in Seq(Contents) /\ Len(Append(file, popped)) = Len(file) + 1
        /\ Append(file, popped) = file \o <<popped>>
    BY <1>4, <2>2, AppendProperties, AppendIsConcat
  <2>4. file' \o InFlight' = file \o InFlight
    BY <2>1, <2>3, ConcatEmptySeq
  <2>5. InRing(ring', ring_tail', ring_head') = R
    BY <1>1, <2>1
  <2> HIDE DEF R
  <2>6. accepted' = file' \o InFlight' \o InRing(ring', ring_tail', ring_head')
    BY <1>1, <1>3, <2>4, <2>5 DEF R
  <2>7. DueWritten'
    BY <1>1, <1>5, <2>1, <2>3 DEF DueWritten
  <2> QED BY <2>6, <2>7 DEF OneOrder
<1>8. CASE DrainCall \/ DrainLock \/ ShutdownLock \/ PopLoad \/ PopCopy
  <2>1. UNCHANGED <<ring_tail, file>>
    BY <1>8 DEF DrainCall, DrainLock, ShutdownLock, PopLoad, PopCopy
  <2>2. InFlight' = InFlight
    <3>1. CASE DrainCall
      BY <3>1 DEF DrainCall, InFlight
    <3>2. CASE DrainLock \/ ShutdownLock
      <4>1. pop = "off" /\ pop' \in {"off", "load"}
        BY <3>2 DEF DrainLock, ShutdownLock, HolderPops
      <4> QED BY <4>1 DEF InFlight
    <3>3. CASE PopLoad \/ PopCopy
      <4>1. pop # "write" /\ pop' # "write"
        BY <3>3 DEF PopLoad, PopCopy
      <4> QED BY <4>1 DEF InFlight
    <3> QED BY <1>8, <3>1, <3>2, <3>3
  <2>3. OneOrder'
    BY <1>1, <1>3, <2>1, <2>2 DEF OneOrder
  <2>4. DueWritten'
    <3>1. CASE PopLoad /\ control' # control
      <4>1. control = "pop" /\ control' = "close" /\ ring_tail = ring_head /\ pop = "load"
        BY <3>1 DEF PopLoad, HolderPops
      <4>2. R = <<>> /\ InFlight = <<>>
        BY <1>4, <4>1, EmptyRing DEF InFlight
      <4> HIDE DEF R
      <4>3. accepted = (file \o <<>>) \o <<>>
        BY <1>3, <4>2 DEF R
      <4>4. accepted = file
        BY <1>4, <4>3, ConcatEmptySeq
      <4>5. due <= Len(file)
        BY <4>1, <4>4 DEF DueWritten
      <4> QED BY <1>1, <2>1, <4>1, <4>5 DEF DueWritten
    <3>2. CASE ~(PopLoad /\ control' # control)
      <4>1. control' = control \/ (control = "lock" /\ control' = "pop")
        BY <1>8, <3>2 DEF DrainCall, DrainLock, ShutdownLock, PopLoad, PopCopy
      <4> QED BY <1>1, <2>1, <4>1 DEF DueWritten
    <3> QED BY <3>1, <3>2
  <2> QED BY <2>3, <2>4
<1> QED BY <1>6, <1>7, <1>8 DEF Pop

(* Opening starts the order again with file and ring empty. *)
LEMMA ControlOrder ==
  ASSUME TypeOK, HolderPops, OneOrder, DueWritten,
         Shutdown \/ Close \/ Disable \/ Open \/ ResetHead \/ ResetTail \/ Enable
  PROVE  OneOrder' /\ DueWritten'
<1>1. UNCHANGED <<ring, made, producer, drainer, pop, taken, popped, queue>>
  BY DEF Shutdown, Close, Disable, Open, ResetHead, ResetTail, Enable, ControlFrame
<1>2. InFlight' = InFlight
  BY <1>1 DEF InFlight
<1>3. DueWritten'
  <2>1. CASE Shutdown
    <3>1. Len(accepted) \in Nat
      BY LenProperties DEF TypeOK
    <3> QED BY <2>1, <3>1 DEF Shutdown, DueWritten
  <2>2. CASE ~Shutdown
    <3>1. control' \notin {"lock", "pop", "close"}
      BY <2>2 DEF Close, Disable, Open, ResetHead, ResetTail, Enable
    <3> QED BY <3>1 DEF DueWritten
  <2> QED BY <2>1, <2>2
<1>4. CASE Shutdown \/ Close \/ Disable \/ Enable
  <2>1. UNCHANGED <<ring_head, ring_tail, file, accepted>>
    BY <1>4 DEF Shutdown, Close, Disable, Enable
  <2>2. control \notin {"resetHead", "resetTail"}
    BY <1>4 DEF Shutdown, Close, Disable, Enable
  <2> QED BY <1>1, <1>2, <1>3, <2>1, <2>2 DEF OneOrder
<1>5. CASE Open
  <2>1. UNCHANGED <<ring_head, ring_tail, accepted>>
    BY <1>5 DEF Open
  <2>2. control \notin {"resetHead", "resetTail"}
    BY <1>5 DEF Open
  <2>3. control' = "resetHead" \/ file' = file
    BY <1>5 DEF Open
  <2> QED BY <1>1, <1>2, <1>3, <2>1, <2>2, <2>3 DEF OneOrder
<1>6. CASE ResetHead
  BY <1>3, <1>6 DEF ResetHead, OneOrder
<1>7. CASE ResetTail
  <2>1. /\ accepted' = <<>> /\ file' = <<>> /\ ring_tail' = 0 /\ ring_head' = 0
        /\ pop = "off" /\ 0 \in Slots
    <3>1. control = "resetTail" /\ control \in Opening
      BY <1>7 DEF ResetTail, Opening
    <3>2. pop = "off"
      BY <3>1, QuietWhileOpening
    <3>3. file = <<>> /\ ring_head = 0
      BY <3>1 DEF HolderPops
    <3> QED BY <1>7, <3>2, <3>3 DEF ResetTail, TypeOK
  <2>2. InFlight' = <<>>
    BY <1>2, <2>1 DEF InFlight
  <2>3. InRing(ring', ring_tail', ring_head') = <<>>
    <3>1. InRing(ring, 0, 0) = <<>>
      BY <2>1, SequencesTyped, EmptyRing
    <3> QED BY <1>1, <2>1, <3>1
  <2>4. <<>> \o <<>> \o <<>> = <<>>
    BY ConcatEmptySeq, EmptySeq
  <2> QED BY <1>3, <2>1, <2>2, <2>3, <2>4 DEF OneOrder
<1> QED BY <1>4, <1>5, <1>6, <1>7

-----------------------------------------------------------------------------
(* The invariant, and what the log promises. *)

(* The invariant holds before the first initialize(). *)
LEMMA LogInvFirst ==
  ASSUME Init
  PROVE  LogInv
<1>1. 0 \in Slots /\ <<>> \in Seq(Events) /\ NoEvent \in Contents
  BY LoggerAssumption, EmptySeq DEF Slots, Contents
<1>2. TypeOK
  <2>1. [k \in Slots |-> NoEvent] \in [Slots -> Events \union {NoEvent}]
    OBVIOUS
  <2>2. [s \in Sources |-> 0] \in [Sources -> 0..MaxEvents] /\ 0 \in 0..MaxSessions
    BY LoggerAssumption
  <2> QED BY <1>1, <2>1, <2>2 DEF Init, TypeOK
<1>3. HolderPops
  BY DEF Init, HolderPops, Opening
<1>4. ClaimsStand
  BY DEF Init, ClaimsStand
<1>5. OneOrder
  <2>1. InFlight = <<>> /\ file = <<>> /\ accepted = <<>>
    BY DEF Init, InFlight
  <2>2. InRing(ring, ring_tail, ring_head) = <<>>
    <3>1. ring \in [Slots -> Contents] /\ ring_head = ring_tail /\ ring_tail \in Slots
      BY <1>1 DEF Init
    <3> QED BY <3>1, EmptyRing
  <2>3. <<>> \o <<>> \o <<>> = <<>>
    BY ConcatEmptySeq, EmptySeq
  <2> QED BY <2>1, <2>2, <2>3 DEF OneOrder
<1>6. DueWritten
  BY DEF Init, DueWritten
<1> QED BY <1>2, <1>3, <1>4, <1>5, <1>6 DEF LogInv

(* Every step keeps it where restarts are quiet. *)
LEMMA LogInvKept ==
  ASSUME RestartsQuietly, LogInv, [Next]_vars
  PROVE  LogInv'
<1> USE DEF LogInv
<1>1. CASE JobNext
  BY <1>1, JobTyped, HolderPopsKept, JobClaims, JobOrder DEF Next
<1>2. CASE QueueCheck \/ QueueGoesOn
  BY <1>2, QueueTyped, HolderPopsKept, QueueClaims, QueueOrder DEF Next
<1>3. CASE DrainCall \/ DrainLock \/ ShutdownLock \/ Pop
  BY <1>3, PopTyped, HolderPopsKept, PopClaims, PopOrder DEF Next, ControlGoesOn
<1>4. CASE Shutdown \/ Close \/ Disable \/ Open \/ ResetHead \/ ResetTail \/ Enable
  BY <1>4, ControlTyped, HolderPopsKept, ControlClaims, ControlOrder DEF Next, ControlGoesOn
<1>5. CASE UNCHANGED vars
  <2>1. UNCHANGED <<job, todo, slot>>
    BY <1>5 DEF vars, producer
  <2>2. UNCHANGED <<drainer, pop, taken, popped, file_holder>>
    BY <1>5 DEF vars, consumer
  <2>3. UNCHANGED <<pending, pending_locked, commander>>
    BY <1>5 DEF vars, queue
  <2>4. UNCHANGED <<enabled, file_open, control, sessions, reopen, due>>
    BY <1>5 DEF vars, session
  <2>5. UNCHANGED <<ring, ring_head, ring_tail, file, accepted, made>>
    BY <1>5 DEF vars
  <2>6. TypeOK'
    BY <2>1, <2>2, <2>3, <2>4, <2>5 DEF TypeOK
  <2>7. HolderPops' /\ ClaimsStand'
    BY <2>1, <2>2, <2>3, <2>4, <2>5 DEF HolderPops, ClaimsStand
  <2>8. OneOrder' /\ DueWritten'
    BY <2>2, <2>4, <2>5 DEF OneOrder, DueWritten, InFlight
  <2> QED BY <2>6, <2>7, <2>8
<1> QED BY <1>1, <1>2, <1>3, <1>4, <1>5 DEF Next, ControlGoesOn

(* The invariant. *)
LEMMA LogInvHolds ==
  ASSUME RestartsQuietly
  PROVE  Spec => []LogInv
<1> QED BY LogInvFirst, LogInvKept, PTL DEF Spec

(* The Job writes the slot at the head, a pop copies the one at the tail,    *)
(* and when both are under way they differ: one slot stays free, so that no  *)
(* event is overwritten while it is read, at any capacity.                   *)
THEOREM SlotsNeverShared ==
  ASSUME RestartsQuietly
  PROVE  Spec => []SlotExclusive
<1>1. LogInv => SlotExclusive
  BY DEF LogInv, ClaimsStand, SlotExclusive
<1> QED BY <1>1, LogInvHolds, PTL

(* Every event the ring accepted since the log was opened is once, and in    *)
(* its order, in the file, in the pop in flight or in the ring, though two   *)
(* threads push and pop without a lock between them and two may drain.       *)
THEOREM NoEventLostOrTwice ==
  ASSUME RestartsQuietly
  PROVE  Spec => []AcceptedOnceInOrder
<1>1. LogInv => AcceptedOnceInOrder
  <2> SUFFICES ASSUME LogInv PROVE AcceptedOnceInOrder
    OBVIOUS
  <2>1. RingContents = InRing(ring, ring_tail, ring_head)
    BY RingContentsIs DEF LogInv, TypeOK
  <2> QED BY <2>1 DEF LogInv, OneOrder, AcceptedOnceInOrder, InFlight
<1> QED BY <1>1, LogInvHolds, PTL

(* shutdown() closes the file only when all that had been accepted at its    *)
(* call is written, also if the drainer was in the middle of a pop.          *)
THEOREM ClosesWhenDrained ==
  ASSUME RestartsQuietly
  PROVE  Spec => DrainedBeforeClose
<1>1. LogInv => [control = "close" /\ control' = "disable" => Len(file) >= due]_vars
  <2> SUFFICES ASSUME LogInv, control = "close" PROVE Len(file) >= due
    OBVIOUS
  <2>1. due <= Len(file) /\ due \in Nat /\ Len(file) \in Nat
    BY LenProperties DEF LogInv, DueWritten, TypeOK
  <2> QED BY <2>1
<1> QED BY <1>1, LogInvHolds, PTL DEF Spec, DrainedBeforeClose
=============================================================================
