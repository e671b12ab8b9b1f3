---------------------------- MODULE MCStoring ------------------------------
(* Storing on small instances. *)
EXTENDS Storing
=============================================================================
