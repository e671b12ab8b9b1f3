------------------------------- MODULE Schema -------------------------------
(***************************************************************************)
(* Statements that use columns of newer migrations (store.Fallback).  When *)
(* MySQL does not know a column, the feature the column belongs to is      *)
(* switched off for the life of the process and an older statement runs;   *)
(* the features nest, and all goroutines share what is off.                *)
(* Whoever uses this module runs the statements.                           *)
(***************************************************************************)
EXTENDS Integers

CONSTANT Callers  \* the goroutines that call the store

VARIABLES
    lacks,   \* the features whose columns the database does not have
    lacked,  \* history: those it did not have when the process started
    off,     \* the features switched off
    call     \* per goroutine: its operation, the features its statement uses,
             \* and the one whose column was just refused

Features == {"quotes", "location", "edits"}
Ops == {"place", "text", "tail", "edit"}

NoCall == [op |-> "none", use |-> {}, refused |-> "none"]

TypeOK ==
    /\ lacks \subseteq Features /\ lacked \subseteq Features /\ off \subseteq Features
    /\ call \in [Callers -> [op : Ops \union {"none"}, use : SUBSET Features,
                             refused : Features \union {"none"}]]

Init == /\ lacks \in SUBSET Features /\ lacked = lacks
        /\ off = {} /\ call = [p \in Callers |-> NoCall]

\* The operation: a message with a place or without one, the tail of a chat,
\* an edit.
Wants(op) == CASE op = "place" -> {"quotes", "location"}
               [] op = "text"  -> {"quotes"}
               [] op = "tail"  -> {"edits", "location"}
               [] op = "edit"  -> {"edits"}

\* The feature of the inner Fallback, whose columns come first.
Inner(op) == CHOOSE f \in Wants(op) : f # "location"

Calls(p, op) ==
    /\ call[p].op = "none"
    /\ call' = [call EXCEPT ![p] = [op |-> op, use |-> Wants(op) \ off, refused |-> "none"]]
    /\ UNCHANGED <<lacks, lacked, off>>

Calling(p, op) == call[p].op = op /\ call[p].refused = "none"
Known(p) == call[p].use \intersect lacks = {}

Return(p) == call' = [call EXCEPT ![p] = NoCall] /\ UNCHANGED <<lacks, lacked, off>>

\* Faulty: the inner Fallback takes every error for its own.
OwnerIsInner(p) == IF Inner(call[p].op) \in call[p].use THEN Inner(call[p].op) ELSE "location"

\* columnOwner: the inner Fallback hands an error of the outer one's column on.
Owner(p) == IF Inner(call[p].op) \in call[p].use \intersect lacks
            THEN Inner(call[p].op) ELSE "location"

\* "Unknown column".
Refuse(p) == /\ call[p].refused = "none" /\ ~Known(p)
             /\ call' = [call EXCEPT ![p].refused = Owner(p)]
             /\ UNCHANGED <<lacks, lacked, off>>

\* Faulty: the oldest statement runs, whatever is missing.
Oldest(p, f) == {}

\* The legacy statement of the outer feature asks again what is off.
Legacy(p, f) == IF f = "location" THEN {Inner(call[p].op)} \ off ELSE call[p].use \ {f}

SwitchOff(p) ==
    LET f == call[p].refused IN
    /\ f # "none"
    /\ off' = off \union {f}
    /\ call' = [call EXCEPT ![p].refused = "none", ![p].use = Legacy(p, f)]
    /\ UNCHANGED <<lacks, lacked>>

\* The migrations are applied while the bridge runs.
Migrate == lacks # {} /\ lacks' = {} /\ UNCHANGED <<lacked, off, call>>

\* Another process.
Renew == /\ off' = {} /\ lacked' = lacks /\ call' = [p \in Callers |-> NoCall]
         /\ UNCHANGED lacks
=============================================================================
