------------------------------ MODULE MCDcSync ------------------------------
(* A small instance of DcSync: an offset of most of a cycle, which is far   *)
(* off as read and in sync when folded, and one of half a cycle, which is   *)
(* out of sync both ways.                                                   *)
EXTENDS DcSync

MCOffsets == {-3, 2}
=============================================================================
