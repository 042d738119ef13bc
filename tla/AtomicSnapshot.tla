--------------------------- MODULE AtomicSnapshot ---------------------------
(***************************************************************************)
(* What the PDO cache promises its readers (ethercat_servo.cpp:2189 calls  *)
(* it a consistent snapshot): the values of one write appear all at once,  *)
(* and a read copies the cells it asks for from one such moment.           *)
(***************************************************************************)
EXTENDS Naturals

CONSTANTS Cells, Readers, MaxWrites

VARIABLES
  published,   (* for each cell the number of the write its value is from  *)
  copied       (* the same for the copy each reader holds                  *)

Init ==
  /\ published = [c \in Cells |-> 0]
  /\ copied = [r \in Readers |-> published]

Publish ==
  /\ \E fresh \in 1..MaxWrites, written \in SUBSET Cells :
       /\ \A c \in Cells : published[c] < fresh
       /\ published' = [c \in Cells |-> IF c \in written THEN fresh ELSE published[c]]
  /\ UNCHANGED copied

Read(r) ==
  /\ \E asked \in SUBSET Cells :
       copied' = [copied EXCEPT ![r] =
                    [c \in Cells |-> IF c \in asked THEN published[c] ELSE @[c]]]
  /\ UNCHANGED published

Next == Publish \/ \E r \in Readers : Read(r)

Spec == Init /\ [][Next]_<<published, copied>>
=============================================================================
