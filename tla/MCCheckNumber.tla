--------------------------- MODULE MCCheckNumber ---------------------------
(* CheckNumber on small instances. *)
EXTENDS CheckNumber
=============================================================================
