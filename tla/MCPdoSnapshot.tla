--------------------------- MODULE MCPdoSnapshot ----------------------------
(* One motor, one force sensor and one reader: readers do not write, so    *)
(* none of them can disturb another.                                       *)
EXTENDS PdoSnapshot
=============================================================================
