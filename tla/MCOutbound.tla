----------------------------- MODULE MCOutbound -----------------------------
(* Outbound on small instances. *)
EXTENDS Outbound
=============================================================================
