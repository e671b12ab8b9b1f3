---------------------------- MODULE MCReactions ----------------------------
(* Reactions on small instances. *)
EXTENDS Reactions
=============================================================================
