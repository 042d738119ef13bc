----------------------------- MODULE DcSync_proofs -----------------------------
(* Proofs about DcSync, for every cycle time, set of offsets and delays, size *)
(* of the filter and limit of the adjustment.                                *)
EXTENDS DcSync, TLAPS

-----------------------------------------------------------------------------
(* The arithmetic. *)

(* The greater and the smaller of two numbers. *)
LEMMA MaxOfTwo ==
  ASSUME NEW a \in Int, NEW b \in Int
  PROVE  Max({a, b}) = IF a >= b THEN a ELSE b
<1>1. PICK m \in {a, b} : \A y \in {a, b} : m >= y
  BY SMT
<1>2. Max({a, b}) \in {a, b} /\ \A y \in {a, b} : Max({a, b}) >= y
  BY <1>1 DEF Max
<1> QED BY <1>2

(* Likewise. *)
LEMMA MinOfTwo ==
  ASSUME NEW a \in Int, NEW b \in Int
  PROVE  Min({a, b}) = IF a <= b THEN a ELSE b
<1>1. PICK m \in {a, b} : \A y \in {a, b} : m <= y
  BY SMT
<1>2. Min({a, b}) \in {a, b} /\ \A y \in {a, b} : Min({a, b}) <= y
  BY <1>1 DEF Min
<1> QED BY <1>2

(* Clamping gives a number within the bound, the number itself if it is.     *)
LEMMA WithinBound ==
  ASSUME NEW a \in Int, NEW bound \in Nat
  PROVE  /\ Within(a, bound) \in -bound .. bound
         /\ Within(a, bound) = IF a > bound THEN bound
                               ELSE IF a < -bound THEN -bound ELSE a
<1>1. Min({a, bound}) = IF a <= bound THEN a ELSE bound
  BY MinOfTwo
<1>2. Min({a, bound}) \in Int /\ -bound \in Int
  BY <1>1
<1>3. Within(a, bound) = IF -bound >= Min({a, bound}) THEN -bound ELSE Min({a, bound})
  BY <1>2, MaxOfTwo DEF Within
<1> QED BY <1>1, <1>3

(* A remainder as C++ takes it: below the divisor, on the side of a. *)
LEMMA RemainderBound ==
  ASSUME NEW a \in Int, NEW n \in Nat \ {0}
  PROVE  /\ Quotient(a, n) \in Int /\ Remainder(a, n) \in Int
         /\ a >= 0 => Remainder(a, n) \in 0 .. n - 1
         /\ a <= 0 => Remainder(a, n) \in -(n - 1) .. 0
<1>1. \A k \in Nat : k \div n \in Nat /\ k - n * (k \div n) \in 0 .. n - 1
  OBVIOUS
<1>2. CASE a >= 0
  BY <1>1, <1>2 DEF Quotient, Remainder
<1>3. CASE a < 0
  BY <1>1, <1>3 DEF Quotient, Remainder
<1> QED BY <1>2, <1>3

(* A folded difference is a number. *)
LEMMA Folded ==
  ASSUME NEW d \in Int
  PROVE  Normalise(d) \in Int
<1> DEFINE h == Cycle \div 2
           r == Remainder(d + h, Cycle)
<1>1. h \in Int /\ Cycle \in Nat \ {0}
  BY ClockAssumption
<1>2. r \in Int
  BY <1>1, RemainderBound
<1>3. Remainder(r + Cycle, Cycle) \in Int
  BY <1>1, <1>2, RemainderBound
<1> QED BY <1>1, <1>3 DEF Normalise

-----------------------------------------------------------------------------
(* The loop. *)

(* What the loop adds to the time base never exceeds the limit.             *)
LEMMA AdjustmentBound ==
  ASSUME NEW f, f.deltas \in Int, f.diffs \in Int, f.adjust \in -AdjustLimit .. AdjustLimit
  PROVE  Adjusted(f) \in -AdjustLimit .. AdjustLimit
<1> DEFINE average == Quotient(f.deltas + FilterCount \div 2, FilterCount)
           wanted  == Within(average + Sign(Quotient(f.diffs, FilterCount)), AdjustLimit)
<1>1. FilterCount \in Nat \ {0} /\ AdjustLimit \in Nat
  BY ClockAssumption, ReadAssumption
<1>2. f.deltas + FilterCount \div 2 \in Int
  BY <1>1
<1>3. average \in Int /\ Quotient(f.diffs, FilterCount) \in Int
  BY <1>1, <1>2, RemainderBound
<1>4. average + Sign(Quotient(f.diffs, FilterCount)) \in Int
  BY <1>3 DEF Sign
<1>5. wanted \in -AdjustLimit .. AdjustLimit
  BY <1>1, <1>4, WithinBound
<1>6. Adjusted(f) = Quotient(f.adjust + wanted, 2)
  BY DEF Adjusted
<1> HIDE DEF wanted, average
<1> QED BY <1>1, <1>5, <1>6 DEF Quotient

(* The filter between two cycles. *)
Filters == [started : BOOLEAN, prev : Offsets \cup {0}, diffs : Int, deltas : Int,
            idx : 0 .. FilterCount - 1, adjust : -AdjustLimit .. AdjustLimit]

(* A filter may hold one difference too many while it takes one in. *)
TakingIn == [started : BOOLEAN, prev : Offsets \cup {0}, diffs : Int, deltas : Int,
             idx : 0 .. FilterCount, adjust : -AdjustLimit .. AdjustLimit]

(* It keeps that when one field of it is set. *)
LEMMA FieldsTyped ==
  ASSUME NEW f \in TakingIn
  PROVE  /\ \A d \in Offsets : [f EXCEPT !.prev = d] \in TakingIn
         /\ \A n \in Int : [f EXCEPT !.diffs = n] \in TakingIn
         /\ \A n \in Int : [f EXCEPT !.deltas = n] \in TakingIn
         /\ \A n \in 0 .. FilterCount : [f EXCEPT !.idx = n] \in TakingIn
         /\ \A n \in -AdjustLimit .. AdjustLimit : [f EXCEPT !.adjust = n] \in TakingIn
         /\ [f EXCEPT !.started = TRUE] \in TakingIn
<1>1. \A d \in Offsets : [f EXCEPT !.prev = d] \in TakingIn
  BY DEF TakingIn
<1>2. \A n \in Int : [f EXCEPT !.diffs = n] \in TakingIn
  BY DEF TakingIn
<1>3. \A n \in Int : [f EXCEPT !.deltas = n] \in TakingIn
  BY DEF TakingIn
<1>4. \A n \in 0 .. FilterCount : [f EXCEPT !.idx = n] \in TakingIn
  BY DEF TakingIn
<1>5. \A n \in -AdjustLimit .. AdjustLimit : [f EXCEPT !.adjust = n] \in TakingIn
  BY DEF TakingIn
<1>6. [f EXCEPT !.started = TRUE] \in TakingIn
  BY DEF TakingIn
<1> QED BY <1>1, <1>2, <1>3, <1>4, <1>5, <1>6

(* With the count below its limit it is one between two cycles again. *)
LEMMA Fits ==
  ASSUME NEW f \in TakingIn, f.idx < FilterCount
  PROVE  f \in Filters
<1>1. FilterCount \in Nat /\ f.idx \in 0 .. FilterCount
  BY ReadAssumption DEF TakingIn
<1>2. f.idx \in 0 .. FilterCount - 1
  BY <1>1
<1> QED BY <1>2 DEF TakingIn, Filters

(* The filter keeps its type whether it starts, fills or is emptied.        *)
LEMMA FilterTyped ==
  ASSUME filter \in Filters, NEW d \in Offsets
  PROVE  Filtered(d) \in Filters /\ Filtered(d).started
<1> DEFINE seen  == [filter EXCEPT !.prev = d]
           other == [seen EXCEPT !.diffs = filter.diffs + Normalise(d)]
           moved == [other EXCEPT !.deltas = filter.deltas + d - filter.prev]
           f     == [moved EXCEPT !.idx = filter.idx + 1]
<1>1. FilterCount \in Nat \ {0} /\ d \in Int /\ Offsets \cup {0} \subseteq Int
  BY ClockAssumption, ReadAssumption
<1>2. /\ filter \in TakingIn /\ filter.idx \in 0 .. FilterCount - 1
      /\ filter.prev \in Offsets \cup {0} /\ filter.diffs \in Int /\ filter.deltas \in Int
  BY <1>1 DEF Filters, TakingIn
<1>3. /\ filter.idx + 1 \in 0 .. FilterCount /\ filter.deltas + d - filter.prev \in Int
      /\ filter.diffs + Normalise(d) \in Int
  <2>1. Normalise(d) \in Int /\ filter.prev \in Int
    BY <1>1, <1>2, Folded
  <2> QED BY <1>1, <1>2, <2>1
<1>4. seen \in TakingIn
  BY <1>2, FieldsTyped
<1>5. other \in TakingIn
  BY <1>3, <1>4, FieldsTyped
<1>6. moved \in TakingIn
  BY <1>3, <1>5, FieldsTyped
<1>7. f \in TakingIn
  BY <1>3, <1>6, FieldsTyped
<1>8. f.idx = filter.idx + 1 /\ f.started = filter.started
  BY <1>2 DEF TakingIn
<1>9. f = [filter EXCEPT !.prev = d, !.diffs = @ + Normalise(d),
                         !.deltas = @ + d - filter.prev, !.idx = @ + 1]
  OBVIOUS
<1>10. CASE ~filter.started
  <2>1. Filtered(d) = [seen EXCEPT !.started = TRUE]
    BY <1>10 DEF Filtered
  <2>2. Filtered(d).idx = filter.idx /\ Filtered(d).started
    BY <2>1, <1>2 DEF TakingIn
  <2> HIDE DEF seen
  <2>3. Filtered(d) \in TakingIn
    BY <1>4, <2>1, FieldsTyped
  <2> QED BY <1>1, <1>2, <2>2, <2>3, Fits
<1>11. CASE filter.started /\ f.idx < FilterCount
  <2>1. Filtered(d) = f
    BY <1>9, <1>11 DEF Filtered
  <2> HIDE DEF f
  <2> QED BY <1>7, <1>8, <1>11, <2>1, Fits
<1>12. CASE filter.started /\ ~(f.idx < FilterCount)
  <2> DEFINE summed   == [f EXCEPT !.diffs = 0]
             emptied  == [summed EXCEPT !.deltas = 0]
             rewound  == [emptied EXCEPT !.idx = 0]
             adjusted == [rewound EXCEPT !.adjust = Adjusted(f)]
  <2>1. Filtered(d) = adjusted
    BY <1>9, <1>12 DEF Filtered
  <2> HIDE DEF f
  <2>2. f.diffs \in Int /\ f.deltas \in Int /\ f.adjust \in -AdjustLimit .. AdjustLimit
    BY <1>7 DEF TakingIn
  <2>3. Adjusted(f) \in -AdjustLimit .. AdjustLimit
    BY <2>2, AdjustmentBound
  <2>4. summed \in TakingIn
    <3>1. 0 \in Int
      OBVIOUS
    <3> QED BY <1>7, <3>1, FieldsTyped
  <2>5. emptied \in TakingIn
    <3>1. 0 \in Int
      OBVIOUS
    <3> HIDE DEF summed
    <3> QED BY <2>4, <3>1, FieldsTyped
  <2>6. 0 \in 0 .. FilterCount /\ 0 < FilterCount
    BY <1>1
  <2>7. rewound \in TakingIn
    BY <2>5, <2>6, FieldsTyped
  <2>8. adjusted \in TakingIn
    BY <2>3, <2>7, FieldsTyped
  <2>9. adjusted.idx = 0 /\ adjusted.started
    BY <1>7, <1>8, <1>12 DEF TakingIn
  <2> HIDE DEF adjusted
  <2> QED BY <2>1, <2>6, <2>8, <2>9, Fits
<1> QED BY <1>10, <1>11, <1>12

-----------------------------------------------------------------------------
(* The state. *)

(* Where the Job is bounds how far the application time can be from the     *)
(* clock; and until the loop starts the base is zero.                       *)
OnTheGrid ==
  /\ job_pc \in {"plan", "tail"} => lag >= -AdjustLimit
  /\ job_pc = "process" => lag >= 0
  /\ job_pc = "sleep" => -(Cycle + AdjustLimit) <= lag /\ lag <= Cycle
  /\ ~filter.started => base = 0

(* A cycle that met its deadline has left no more behind than one period    *)
(* and the step of the base, and its tail is all that came after.           *)
MetLeavesLittle ==
  /\ job_pc = "tail" => ~deadline_met \/ lag <= Cycle + AdjustLimit
  /\ job_pc = "plan" => ~deadline_met \/ lag <= Cycle + AdjustLimit + tail

(* The code counts its readings as the history does, and it skips no attempt *)
(* while they are trusted: not in the warmup, when none was made, and not in *)
(* the back-off, which ends with the first that succeeds.                    *)
Counting ==
  /\ successes = trusted
  /\ backoff \/ warmup > 0 => trusted = 0

ClockInv == TypeOK /\ OnTheGrid /\ MetLeavesLittle /\ Counting /\ AlarmRestsOnReading

(* What a cycle without a reading takes for the difference was read before, *)
(* or is zero.                                                              *)
LEMMA HeldWasRead ==
  \/ Held = 0
  \/ Held \in last_good
BY DEF Held

(* A count goes up to where it is compared. *)
LEMMA CountedUp ==
  ASSUME NEW n \in Int, NEW m \in Nat, n >= 0
  PROVE  Min({n + 1, m}) \in 0 .. m
<1>1. Min({n + 1, m}) = IF n + 1 <= m THEN n + 1 ELSE m
  BY MinOfTwo
<1> QED BY <1>1

(* The counts of the reading stay where they are compared.                  *)
LEMMA CountsTyped ==
  ASSUME TypeOK, Process
  PROVE  /\ warmup' \in 0 .. WarmupCycles
         /\ process_cycle' \in 0 .. BackoffMax - 1
         /\ streak' \in 0 .. 4 * FailEnterBackoff
         /\ backoff' \in BOOLEAN
         /\ successes' \in 0 .. RequiredSuccesses
         /\ last_good' \in {{}} \cup {{d} : d \in Offsets}
         /\ trusted' \in 0 .. RequiredSuccesses
<1>1. WarmupCycles \in Nat /\ BackoffMax \in Nat \ {0} /\ FailEnterBackoff \in Nat
      /\ RequiredSuccesses \in Nat \ {0}
  BY ReadAssumption
<1>2. warmup' \in 0 .. WarmupCycles
  <2>1. warmup \in 0 .. WarmupCycles /\ warmup' = Max({warmup - 1, 0})
    BY DEF TypeOK, Process, Tick
  <2>2. Max({warmup - 1, 0}) = IF warmup - 1 >= 0 THEN warmup - 1 ELSE 0
    BY <1>1, <2>1, MaxOfTwo
  <2> QED BY <1>1, <2>1, <2>2
<1>3. process_cycle' \in 0 .. BackoffMax - 1
  <2>1. process_cycle \in 0 .. BackoffMax - 1
    BY DEF TypeOK
  <2>2. (process_cycle + 1) % BackoffMax \in 0 .. BackoffMax - 1
    BY <1>1, <2>1
  <2>3. process_cycle' \in {process_cycle, (process_cycle + 1) % BackoffMax}
    BY DEF Process, Tick
  <2> QED BY <2>1, <2>2, <2>3
<1>4. /\ streak \in 0 .. 4 * FailEnterBackoff /\ successes \in 0 .. RequiredSuccesses
      /\ trusted \in 0 .. RequiredSuccesses /\ backoff \in BOOLEAN
      /\ last_good \in {{}} \cup {{d} : d \in Offsets}
  BY DEF TypeOK
<1>5. /\ Min({streak + 1, 4 * FailEnterBackoff}) \in 0 .. 4 * FailEnterBackoff
      /\ Min({successes + 1, RequiredSuccesses}) \in 0 .. RequiredSuccesses
      /\ Min({trusted + 1, RequiredSuccesses}) \in 0 .. RequiredSuccesses
      /\ 0 \in 0 .. 4 * FailEnterBackoff /\ 0 \in 0 .. RequiredSuccesses
  <2>1. 4 * FailEnterBackoff \in Nat /\ streak \in Int /\ successes \in Int /\ trusted \in Int
        /\ streak >= 0 /\ successes >= 0 /\ trusted >= 0
    BY <1>1, <1>4
  <2>2. Min({streak + 1, 4 * FailEnterBackoff}) \in 0 .. 4 * FailEnterBackoff
    BY <2>1, CountedUp
  <2>3. Min({successes + 1, RequiredSuccesses}) \in 0 .. RequiredSuccesses
    BY <1>1, <2>1, CountedUp
  <2>4. Min({trusted + 1, RequiredSuccesses}) \in 0 .. RequiredSuccesses
    BY <1>1, <2>1, CountedUp
  <2> QED BY <1>1, <2>1, <2>2, <2>3, <2>4
<1>6. CASE \E d \in Offsets : ReadSucceeds(d)
  BY <1>2, <1>3, <1>5, <1>6 DEF ReadSucceeds
<1>7. CASE ReadFails
  BY <1>2, <1>3, <1>4, <1>5, <1>7 DEF ReadFails
<1>8. CASE ReadSkipped
  BY <1>2, <1>3, <1>4, <1>8 DEF ReadSkipped
<1> QED BY <1>6, <1>7, <1>8 DEF Process

(* The counts stay together, and a cycle that does not read leaves them      *)
(* short of what the loop asks for.                                          *)
LEMMA CountedAlike ==
  ASSUME TypeOK, Counting, Process
  PROVE  /\ Counting'
         /\ (\A d \in Offsets : ~ReadSucceeds(d)) => trusted' # RequiredSuccesses
<1>1. RequiredSuccesses # 0 /\ warmup \in Int /\ warmup >= 0
  BY ReadAssumption DEF TypeOK
<1>2. warmup' = IF warmup - 1 >= 0 THEN warmup - 1 ELSE 0
  BY <1>1, MaxOfTwo DEF Process, Tick
<1>3. CASE \E d \in Offsets : ReadSucceeds(d)
  <2>1. successes' = trusted' /\ ~backoff' /\ warmup <= 1
    BY <1>3 DEF ReadSucceeds, Attempts, Counting
  <2>2. ~(warmup' > 0)
    BY <1>1, <1>2, <2>1
  <2> QED BY <1>3, <2>1, <2>2 DEF Counting
<1>4. CASE ReadFails
  BY <1>1, <1>4 DEF ReadFails, Attempts, ReadSucceeds, Counting
<1>5. CASE ReadSkipped
  <2>1. warmup > 1 \/ backoff
    BY <1>1, <1>5 DEF ReadSkipped, Attempts
  <2>2. backoff \/ warmup > 0
    BY <1>1, <2>1
  <2>3. trusted = 0
    BY <2>2 DEF Counting
  <2>4. successes' = 0 /\ trusted' = 0
    BY <1>5, <2>3 DEF ReadSkipped, Counting
  <2> QED BY <1>1, <2>4 DEF Counting
<1> QED BY <1>3, <1>4, <1>5 DEF Process

(* The loop's part of processSync: the base moves by one adjustment at most, *)
(* and it takes for the difference the last one read: folded, once as many  *)
(* readings have succeeded in a row as the loop asks for.                    *)
LEMMA LoopStep ==
  ASSUME TypeOK, OnTheGrid, Counting, Process
  PROVE  /\ filter' \in Filters /\ (~filter'.started => base' = 0)
         /\ base' \in -MaxBase .. MaxBase
         /\ -AdjustLimit <= base' - base /\ base' - base <= AdjustLimit
         /\ diff' \in Int
         /\ diff' = 0 \/ \E d \in last_good' : diff' = Judged(d)'
<1>1. /\ AdjustLimit \in Nat /\ MaxBase \in Nat /\ Offsets \subseteq Int
      /\ base \in -MaxBase .. MaxBase /\ filter \in Filters
      /\ last_good \in {{}} \cup {{d} : d \in Offsets}
  BY ClockAssumption DEF TypeOK, Filters
<1>2. /\ Counting'
      /\ (\A d \in Offsets : ~ReadSucceeds(d)) => trusted' # RequiredSuccesses
  BY CountedAlike
<1>3. trusted' \in 0 .. RequiredSuccesses /\ successes' = trusted'
  BY <1>2, CountsTyped DEF Counting
<1>4. ASSUME NEW d \in Offsets, LoopRuns(d)
      PROVE  /\ filter' \in Filters /\ filter'.started
             /\ base' \in -MaxBase .. MaxBase
             /\ -AdjustLimit <= base' - base /\ base' - base <= AdjustLimit
             /\ diff' \in Int /\ diff' = Normalise(d)
  <2>1. filter' \in Filters /\ filter'.started
    BY <1>1, <1>4, FilterTyped DEF LoopRuns
  <2>2. diff' \in Int /\ diff' = Normalise(d)
    BY <1>1, <1>4, Folded DEF LoopRuns
  <2>3. filter'.adjust \in -AdjustLimit .. AdjustLimit
    BY <2>1 DEF Filters
  <2>4. CASE filter.started
    <3>1. base' = Within(base + filter'.adjust, MaxBase)
      BY <1>4, <2>4 DEF LoopRuns, BaseAfter
    <3>2. base + filter'.adjust \in Int
      BY <1>1, <2>3
    <3>3. base' = IF base + filter'.adjust > MaxBase THEN MaxBase
                  ELSE IF base + filter'.adjust < -MaxBase THEN -MaxBase
                  ELSE base + filter'.adjust
      BY <1>1, <3>1, <3>2, WithinBound
    <3>4. /\ base' \in -MaxBase .. MaxBase
          /\ -AdjustLimit <= base' - base /\ base' - base <= AdjustLimit
      BY <1>1, <2>3, <3>3
    <3> QED BY <2>1, <2>2, <3>4
  <2>5. CASE ~filter.started
    <3>1. base' = 0 /\ base = 0
      BY <1>4, <2>5 DEF LoopRuns, BaseAfter, OnTheGrid
    <3> QED BY <1>1, <2>1, <2>2, <3>1
  <2> QED BY <2>4, <2>5
<1>5. ASSUME NEW d, LoopRests(d)
      PROVE  /\ filter' \in Filters /\ (~filter'.started => base' = 0)
             /\ base' \in -MaxBase .. MaxBase
             /\ -AdjustLimit <= base' - base /\ base' - base <= AdjustLimit
             /\ diff' = d
  BY <1>1, <1>5 DEF LoopRests, OnTheGrid
<1>6. ASSUME NEW d \in Offsets, ReadSucceeds(d), LoopRests(d),
             successes' < RequiredSuccesses
      PROVE  diff' \in Int /\ \E e \in last_good' : diff' = Judged(e)'
  <2>1. trusted' # RequiredSuccesses
    BY <1>3, <1>6
  <2>2. diff' = d /\ d \in last_good' /\ d \in Int
    BY <1>1, <1>5, <1>6 DEF ReadSucceeds
  <2>3. Judged(d)' = d
    BY <2>1 DEF Judged
  <2> QED BY <2>2, <2>3
<1>7. ASSUME NEW d \in Offsets, ReadSucceeds(d), LoopRuns(d),
             ~(successes' < RequiredSuccesses)
      PROVE  \E e \in last_good' : diff' = Judged(e)'
  <2>1. trusted' = RequiredSuccesses
    BY <1>3, <1>7, ReadAssumption
  <2>2. d \in last_good' /\ diff' = Normalise(d)
    BY <1>4, <1>7 DEF ReadSucceeds
  <2>3. Judged(d)' = Normalise(d)
    BY <2>1 DEF Judged, Normalise, Remainder, Quotient
  <2> QED BY <2>2, <2>3
<1>8. ASSUME ReadFails \/ ReadSkipped, \A d \in Offsets : ~ReadSucceeds(d), LoopRests(Held)
      PROVE  diff' \in Int /\ (diff' = 0 \/ \E e \in last_good' : diff' = Judged(e)')
  <2>1. last_good' = last_good /\ diff' = Held /\ trusted' # RequiredSuccesses
    BY <1>2, <1>5, <1>8 DEF ReadFails, ReadSkipped
  <2>2. CASE Held = 0
    BY <2>1, <2>2
  <2>3. CASE Held \in last_good
    <3>1. Held \in Int
      BY <1>1, <2>3
    <3>2. PICK e \in last_good' : e = Held
      BY <2>1, <2>3
    <3>3. Judged(e)' = e
      BY <2>1 DEF Judged
    <3> QED BY <2>1, <3>1, <3>2, <3>3
  <2> QED BY <2>2, <2>3, HeldWasRead
<1>9. CASE \E d \in Offsets : ReadSucceeds(d)
  <2>1. ~ReadFails /\ ~ReadSkipped
    BY <1>9 DEF ReadSucceeds, ReadFails, ReadSkipped
  <2>2. PICK d \in Offsets : /\ ReadSucceeds(d)
                            /\ IF successes' < RequiredSuccesses THEN LoopRests(d)
                               ELSE LoopRuns(d)
    BY <2>1 DEF Process
  <2>3. CASE successes' < RequiredSuccesses
    BY <1>5, <1>6, <2>2, <2>3
  <2>4. CASE ~(successes' < RequiredSuccesses)
    BY <1>4, <1>7, <2>2, <2>4
  <2> QED BY <2>3, <2>4
<1>10. CASE \A d \in Offsets : ~ReadSucceeds(d)
  <2>1. (ReadFails \/ ReadSkipped) /\ LoopRests(Held)
    BY <1>10 DEF Process
  <2> QED BY <1>5, <1>8, <1>10, <2>1
<1> QED BY <1>9, <1>10

(* The first state. *)
LEMMA FirstState == Init => ClockInv
<1> SUFFICES ASSUME Init PROVE ClockInv
  OBVIOUS
<1>1. /\ Cycle \in Nat \ {0} /\ AdjustLimit \in Nat /\ MaxBase \in Nat
      /\ WarmupCycles \in Nat /\ BackoffMax \in Nat \ {0} /\ FailEnterBackoff \in Nat
      /\ RequiredSuccesses \in Nat /\ FilterCount \in Nat \ {0}
  BY ClockAssumption, ReadAssumption
<1>2. filter \in Filters
  <2>1. 0 \in 0 .. FilterCount - 1 /\ 0 \in -AdjustLimit .. AdjustLimit
    BY <1>1
  <2> QED BY <2>1 DEF Init, NewFilter, Filters
<1>3. TypeOK
  <2>1. /\ base \in -MaxBase .. MaxBase /\ warmup \in 0 .. WarmupCycles
        /\ process_cycle \in 0 .. BackoffMax - 1 /\ streak \in 0 .. 4 * FailEnterBackoff
        /\ successes \in 0 .. RequiredSuccesses /\ trusted \in 0 .. RequiredSuccesses
    BY <1>1 DEF Init
  <2>2. /\ filter \in [started : BOOLEAN, prev : Offsets \cup {0}, diffs : Int, deltas : Int,
                        idx : 0 .. FilterCount - 1, adjust : -AdjustLimit .. AdjustLimit]
        /\ sample \in [valid : BOOLEAN, in_sync : BOOLEAN]
        /\ last_good \in {{}} \cup {{d} : d \in Offsets}
    BY <1>2 DEF Init, Filters
  <2>3. lag \in Int /\ diff \in Int /\ tail \in Nat
    BY DEF Init
  <2>4. backoff \in BOOLEAN /\ deadline_met \in BOOLEAN /\ readable \in BOOLEAN
    BY Zenon DEF Init
  <2>5. job_pc \in {"plan", "sleep", "process", "tail"}
    BY DEF Init
  <2> QED BY <2>1, <2>2, <2>3, <2>4, <2>5, Zenon DEF TypeOK
<1>4. OnTheGrid /\ MetLeavesLittle /\ Counting /\ AlarmRestsOnReading
  BY <1>1 DEF Init, OnTheGrid, MetLeavesLittle, Counting, AlarmRestsOnReading
<1> QED BY <1>3, <1>4 DEF ClockInv

(* What the cycle neither reads nor judges leaves the alarm as it is. *)
LEMMA AlarmStays ==
  ASSUME AlarmRestsOnReading, UNCHANGED <<readVars, loopVars>>
  PROVE  AlarmRestsOnReading'
<1>1. UNCHANGED <<sample, filter, last_good, trusted>>
  BY DEF readVars, loopVars
<1>2. ASSUME NEW d
      PROVE  Magnitude(Judged(d))' = Magnitude(Judged(d))
  BY <1>1 DEF Magnitude, Judged, Normalise, Remainder, Quotient
<1> QED BY <1>1, <1>2 DEF AlarmRestsOnReading

(* The Job's plan and its sleep. *)
LEMMA WakeupStep ==
  ASSUME ClockInv, JobPlan \/ JobSleep
  PROVE  ClockInv'
<1>1. Cycle \in Nat \ {0} /\ AdjustLimit \in Nat /\ Delays \subseteq Nat /\ lag \in Int
      /\ AdjustLimit <= Cycle
  BY ClockAssumption DEF ClockInv, TypeOK
<1>2. UNCHANGED <<base, readVars, loopVars, tail, readable>>
  BY DEF JobPlan, JobSleep
<1>3. Counting' /\ AlarmRestsOnReading'
  BY <1>2, AlarmStays DEF ClockInv, Counting, readVars
<1>4. CASE JobPlan
  <2>1. lag >= -AdjustLimit /\ job_pc' = "sleep"
        /\ lag' = IF lag - Cycle > Cycle THEN 0 ELSE lag - Cycle
    BY <1>4 DEF ClockInv, OnTheGrid, JobPlan, Replanned
  <2>2. lag' \in Int /\ -(Cycle + AdjustLimit) <= lag' /\ lag' <= Cycle
    BY <1>1, <2>1
  <2>3. TypeOK'
    BY <1>2, <2>1, <2>2 DEF ClockInv, TypeOK, readVars, loopVars
  <2>4. OnTheGrid' /\ MetLeavesLittle'
    BY <1>2, <2>1, <2>2 DEF ClockInv, OnTheGrid, MetLeavesLittle, loopVars
  <2> QED BY <1>3, <2>3, <2>4 DEF ClockInv
<1>5. CASE JobSleep
  <2>1. PICK late \in Delays : lag' = Max({lag, 0}) + late
    BY <1>5 DEF JobSleep
  <2>2. Max({lag, 0}) = IF lag >= 0 THEN lag ELSE 0
    BY <1>1, MaxOfTwo
  <2>3. lag' \in Int /\ lag' >= 0
    BY <1>1, <2>1, <2>2
  <2>4. job_pc' = "process"
    BY <1>5 DEF JobSleep
  <2>5. TypeOK'
    BY <1>2, <2>3, <2>4 DEF ClockInv, TypeOK, readVars, loopVars
  <2>6. OnTheGrid' /\ MetLeavesLittle'
    BY <1>2, <2>3, <2>4 DEF ClockInv, OnTheGrid, MetLeavesLittle, loopVars
  <2> QED BY <1>3, <2>5, <2>6 DEF ClockInv
<1> QED BY <1>4, <1>5

(* processSync with the two verdicts. *)
LEMMA ProcessStep ==
  ASSUME ClockInv, JobProcess
  PROVE  ClockInv'
<1>1. /\ Cycle \in Nat \ {0} /\ AdjustLimit \in Nat /\ Delays \subseteq Nat
      /\ Threshold \in Nat /\ MaxBase \in Nat
  BY ClockAssumption
<1>2. TypeOK /\ OnTheGrid /\ lag \in Int /\ lag >= 0 /\ base \in -MaxBase .. MaxBase
  BY DEF ClockInv, TypeOK, OnTheGrid, JobProcess
<1>3. Process /\ job_pc' = "tail" /\ tail' = tail /\ readable' = readable
      /\ sample' = StatusSample(filter'.started, diff')
  BY DEF JobProcess
<1>4. PICK took \in Delays : /\ lag' = lag + took - (base' - base)
                             /\ deadline_met' = DeadlineMet(lag, took)
  BY DEF JobProcess
<1>5. /\ filter' \in Filters /\ (~filter'.started => base' = 0)
      /\ base' \in -MaxBase .. MaxBase
      /\ -AdjustLimit <= base' - base /\ base' - base <= AdjustLimit
      /\ diff' \in Int
  BY <1>2, <1>3, LoopStep DEF ClockInv
<1>6. took \in Nat /\ base \in Int /\ base' \in Int
  BY <1>1, <1>2, <1>4, <1>5
<1>7. lag' \in Int /\ lag' >= -AdjustLimit /\ (deadline_met' => lag' <= Cycle + AdjustLimit)
  <2> DEFINE step == base' - base
  <2>1. deadline_met' => lag + took <= Cycle
    BY <1>4 DEF DeadlineMet
  <2>2. step \in Int /\ -AdjustLimit <= step /\ step <= AdjustLimit /\ lag' = lag + took - step
    BY <1>4, <1>5, <1>6
  <2> HIDE DEF step
  <2>3. lag' \in Int /\ lag' >= -AdjustLimit
    BY <1>1, <1>2, <1>6, <2>2
  <2>4. lag + took <= Cycle => lag' <= Cycle + AdjustLimit
    BY <1>1, <1>2, <1>6, <2>2
  <2> QED BY <2>1, <2>3, <2>4
<1>8. deadline_met' \in BOOLEAN
  BY <1>4 DEF DeadlineMet
<1>9. filter'.started \in BOOLEAN /\ sample' \in [valid : BOOLEAN, in_sync : BOOLEAN]
  BY <1>3, <1>5 DEF Filters, StatusSample
<1>10. TypeOK'
  BY <1>2, <1>3, <1>5, <1>7, <1>8, <1>9, CountsTyped DEF TypeOK, Filters
<1>11. OnTheGrid' /\ MetLeavesLittle'
  BY <1>3, <1>5, <1>7 DEF OnTheGrid, MetLeavesLittle
<1>12. AlarmRestsOnReading'
  <2> SUFFICES ASSUME sample'.valid, ~sample'.in_sync
               PROVE  AlarmRestsOnReading'
    BY DEF AlarmRestsOnReading
  <2>1. filter'.started /\ ~(Magnitude(diff') <= Threshold)
    BY <1>3 DEF StatusSample
  <2>2. Magnitude(diff') > Threshold /\ diff' # 0
    <3>1. Magnitude(diff') \in Int /\ Magnitude(0) = 0
      BY <1>5 DEF Magnitude
    <3>2. Magnitude(diff') > Threshold
      BY <1>1, <2>1, <3>1
    <3>3. ~(0 > Threshold)
      BY <1>1
    <3> QED BY <3>1, <3>2, <3>3
  <2>3. PICK d \in last_good' : diff' = Judged(d)'
    BY <1>2, <1>3, <2>2, LoopStep DEF ClockInv
  <2>4. Magnitude(Judged(d)') > Threshold
    BY <2>2, <2>3
  <2> QED BY <2>1, <2>4 DEF AlarmRestsOnReading, Magnitude
<1>13. Counting'
  BY <1>2, <1>3, CountedAlike DEF ClockInv
<1> QED BY <1>10, <1>11, <1>12, <1>13 DEF ClockInv

(* The rest of the cycle, and the clock's own changes. *)
LEMMA QuietStep ==
  ASSUME ClockInv, JobTail \/ ClockChanges \/ UNCHANGED vars
  PROVE  ClockInv'
<1>1. Cycle \in Nat \ {0} /\ AdjustLimit \in Nat /\ Delays \subseteq Nat /\ lag \in Int
  BY ClockAssumption DEF ClockInv, TypeOK
<1>2. CASE JobTail
  <2>1. PICK took \in Delays : lag' = lag + took /\ tail' = took
    BY <1>2 DEF JobTail
  <2>2. job_pc = "tail" /\ job_pc' = "plan" /\ UNCHANGED <<base, readVars, loopVars, readable>>
    BY <1>2 DEF JobTail
  <2>3. took \in Nat /\ lag' = lag + took /\ tail' = took
    BY <1>1, <2>1
  <2>4. /\ lag' \in Int /\ lag' >= lag
        /\ lag <= Cycle + AdjustLimit => lag' <= Cycle + AdjustLimit + took
    BY <1>1, <2>3
  <2>5. TypeOK'
    BY <2>2, <2>3, <2>4 DEF ClockInv, TypeOK, readVars, loopVars
  <2>6. OnTheGrid'
    <3>1. lag >= -AdjustLimit
      BY <2>2 DEF ClockInv, OnTheGrid
    <3>2. lag' >= -AdjustLimit
      BY <1>1, <2>4, <3>1
    <3>3. ~filter.started => base = 0
      BY DEF ClockInv, OnTheGrid
    <3> QED BY <2>2, <3>2, <3>3 DEF OnTheGrid, loopVars
  <2>7. MetLeavesLittle'
    <3>1. ~deadline_met \/ lag <= Cycle + AdjustLimit
      BY <2>2 DEF ClockInv, MetLeavesLittle
    <3> QED BY <2>2, <2>3, <2>4, <3>1 DEF MetLeavesLittle, loopVars
  <2>8. Counting' /\ AlarmRestsOnReading'
    BY <2>2, AlarmStays DEF ClockInv, Counting, readVars
  <2> QED BY <2>5, <2>6, <2>7, <2>8 DEF ClockInv
<1>3. CASE ClockChanges \/ UNCHANGED vars
  <2>1. UNCHANGED <<job_pc, lag, base, readVars, loopVars, tail>> /\ readable' \in BOOLEAN
    BY <1>3 DEF ClockInv, TypeOK, ClockChanges, vars, readVars, loopVars
  <2>2. TypeOK'
    BY <2>1 DEF ClockInv, TypeOK, readVars, loopVars
  <2>3. OnTheGrid' /\ MetLeavesLittle' /\ Counting' /\ AlarmRestsOnReading'
    BY <2>1, AlarmStays DEF ClockInv, OnTheGrid, MetLeavesLittle, Counting, readVars, loopVars
  <2> QED BY <2>2, <2>3 DEF ClockInv
<1> QED BY <1>2, <1>3

(* The invariant holds in every behaviour. *)
LEMMA ClockInvHolds == Spec => []ClockInv
<1>1. ClockInv /\ [Next]_vars => ClockInv'
  BY WakeupStep, ProcessStep, QuietStep DEF Next, JobNext
<1> QED BY <1>1, FirstState, PTL DEF Spec

-----------------------------------------------------------------------------
(* The theorems. *)

(* For every cycle time, delay and offset, the wakeup that the Job plans is  *)
(* within a cycle of the clock, and one adjustment of the base.              *)
THEOREM GridFollowsClock == Spec => []AppTimeFollowsClock
<1>1. ClockInv => AppTimeFollowsClock
  BY DEF ClockInv, OnTheGrid, AppTimeFollowsClock
<1> QED BY <1>1, ClockInvHolds, PTL

(* Cycles dropped from the grid show as a missed deadline, unless the time   *)
(* was lost between the verdict and the next plan.                           *)
THEOREM LostTimeIsSeen == Spec => []OverrunSeen
<1>1. ClockInv => OverrunSeen
  <2> SUFFICES ASSUME ClockInv, job_pc = "plan", lag > 2 * Cycle, deadline_met
               PROVE  tail + AdjustLimit > Cycle
    BY DEF OverrunSeen
  <2>1. lag \in Int /\ tail \in Nat /\ lag <= Cycle + AdjustLimit + tail
    BY DEF ClockInv, TypeOK, MetLeavesLittle
  <2> QED BY <2>1, ClockAssumption
<1> QED BY <1>1, ClockInvHolds, PTL

(* An alarm of the DC monitor rests on the last difference that was read:    *)
(* folded into the cycle while the clock answers, which needs the readings   *)
(* to have been counted and no cycle skipped; as it was read elsewhere.      *)
THEOREM AlarmWasRead == Spec => []AlarmRestsOnReading
<1>1. ClockInv => AlarmRestsOnReading
  BY DEF ClockInv
<1> QED BY <1>1, ClockInvHolds, PTL
=============================================================================
