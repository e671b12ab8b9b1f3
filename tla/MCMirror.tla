----------------------------- MODULE MCMirror -----------------------------
(* Mirror on small instances. *)
EXTENDS Mirror
=============================================================================
