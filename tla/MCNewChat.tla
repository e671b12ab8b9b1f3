----------------------------- MODULE MCNewChat -----------------------------
(* NewChat on small instances. *)
EXTENDS NewChat
=============================================================================
