--------------------------- MODULE AnomalyTracker ---------------------------
(***************************************************************************)
(* The anomaly counter of util/anomaly_tracker.hpp.  Each bus cycle feeds  *)
(* one Boolean; the tracker asks for a stop after a run of anomalies, or   *)
(* when too many of the last window_size cycles were anomalous.  The       *)
(* window is a ring bitmap (window_bits_, here the set of its 1 bits) with *)
(* a running population count.                                             *)
(*                                                                         *)
(* A tracker is a record, so that IghRuntime can keep several of them.     *)
(***************************************************************************)
EXTENDS Naturals, FiniteSets

CONSTANTS
  BitmapWidth,     (* bits of window_bits_: 64 in the code                 *)
  MaxTotal,        (* largest total_: 2^64 - 1 in the code                 *)
  MaxConsecutive   (* largest consecutive_: 2^32 - 1 in the code           *)

ASSUME WidthAssumption ==
  /\ BitmapWidth \in Nat \ {0}
  /\ MaxTotal \in Nat
  /\ MaxConsecutive \in Nat \ {0}

-----------------------------------------------------------------------------
AtLeast(lo, x) == IF x < lo THEN lo ELSE x
Clamp(x, lo, hi) == IF x < lo THEN lo ELSE IF hi < x THEN hi ELSE x

(* What the configuration can ask for, and what sanitize leaves of it. *)
RawPolicies ==
  [consecutive_stop : 0..MaxConsecutive, window_size : Nat, window_stop : Nat]

Policies ==
  {p \in [consecutive_stop : 1..MaxConsecutive,
          window_size : 1..BitmapWidth,
          window_stop : 1..BitmapWidth] : p.window_stop <= p.window_size}

SanitizeKeepsWindowStop(raw) ==
  LET size == Clamp(raw.window_size, 1, BitmapWidth)
  IN  [consecutive_stop |-> AtLeast(1, raw.consecutive_stop),
       window_size      |-> size,
       window_stop      |-> AtLeast(1, raw.window_stop)]

Sanitize(raw) ==
  LET size == Clamp(raw.window_size, 1, BitmapWidth)
  IN  [consecutive_stop |-> AtLeast(1, raw.consecutive_stop),
       window_size      |-> size,
       window_stop      |-> Clamp(raw.window_stop, 1, size)]

-----------------------------------------------------------------------------
Trackers(p) ==
  [total        : 0..MaxTotal,
   consecutive  : 0..MaxConsecutive,
   bits         : SUBSET (0..(p.window_size - 1)),
   window_count : 0..p.window_size,
   cursor       : 0..(p.window_size - 1)]

Cleared ==
  [total |-> 0, consecutive |-> 0, bits |-> {}, window_count |-> 0, cursor |-> 0]

StopRequired(p, t) ==
  \/ t.consecutive >= p.consecutive_stop
  \/ t.window_count >= p.window_stop

Saturating(n, max) == IF n # max THEN n + 1 ELSE n

(* The population count after the bit under the cursor is overwritten. *)
CountForgetsEviction(t, anomaly) ==
  t.window_count + (IF anomaly THEN 1 ELSE 0)

CountAfter(t, anomaly) ==
  LET evicted == t.cursor \in t.bits /\ t.window_count > 0
      kept    == IF evicted THEN t.window_count - 1 ELSE t.window_count
  IN  IF anomaly THEN kept + 1 ELSE kept

ObserveKeepsRun(p, t, anomaly) ==
  [total        |-> IF anomaly THEN Saturating(t.total, MaxTotal) ELSE t.total,
   consecutive  |-> IF anomaly THEN Saturating(t.consecutive, MaxConsecutive)
                               ELSE t.consecutive,
   bits         |-> IF anomaly THEN t.bits \union {t.cursor} ELSE t.bits \ {t.cursor},
   window_count |-> CountAfter(t, anomaly),
   cursor       |-> (t.cursor + 1) % p.window_size]

Observe(p, t, anomaly) ==
  [total        |-> IF anomaly THEN Saturating(t.total, MaxTotal) ELSE t.total,
   consecutive  |-> IF anomaly THEN Saturating(t.consecutive, MaxConsecutive)
                               ELSE 0,
   bits         |-> IF anomaly THEN t.bits \union {t.cursor} ELSE t.bits \ {t.cursor},
   window_count |-> CountAfter(t, anomaly),
   cursor       |-> (t.cursor + 1) % p.window_size]
=============================================================================
