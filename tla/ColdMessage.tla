---------------------------- MODULE ColdMessage ----------------------------
(***************************************************************************)
(* What the new-chat path promises about a message to a customer who never *)
(* wrote ("a cold message must go out at most once, and only while it is   *)
(* current", newchat.go): one message, one ID, and a verdict the web app   *)
(* can believe.  No attempts, statements, crashes or retries here.         *)
(***************************************************************************)
CONSTANTS Rows, Ids, NoID

VARIABLES
    verdict,  \* what the web app reads: none, resolve, sent, failed
    old,      \* the web app counts the row as undelivered (24 h)
    token,    \* the one ID the message may go out with
    seen      \* the IDs the customer's phone has shown

vars == <<verdict, old, token, seen>>

Init == /\ verdict = [r \in Rows |-> "none"]
        /\ old = [r \in Rows |-> FALSE]
        /\ token = [r \in Rows |-> NoID]
        /\ seen = [r \in Rows |-> {}]

Ask(r) ==
    /\ verdict[r] = "none"
    /\ verdict' = [verdict EXCEPT ![r] = "resolve"]
    /\ UNCHANGED <<old, token, seen>>

Outdate(r) ==
    /\ verdict[r] = "resolve"
    /\ old' = [old EXCEPT ![r] = TRUE]
    /\ UNCHANGED <<verdict, token, seen>>

\* Only a waiting row is taken up, and once.
Take(r, id) ==
    /\ verdict[r] = "resolve"
    /\ token[r] = NoID
    /\ token' = [token EXCEPT ![r] = id]
    /\ UNCHANGED <<verdict, old, seen>>

\* The customer sees the message: never a second one, never an old one, and
\* never that of a row which was failed before it was taken up.
Reach(r) ==
    /\ token[r] # NoID
    /\ seen[r] = {}
    /\ ~old[r]
    /\ verdict[r] \in {"resolve", "failed"}
    /\ seen' = [seen EXCEPT ![r] = {token[r]}]
    /\ UNCHANGED <<verdict, old, token>>

\* "sent" is said only of what the customer has, and is final.
ReportSent(r) ==
    /\ seen[r] # {}
    /\ verdict[r] \in {"resolve", "failed"}
    /\ verdict' = [verdict EXCEPT ![r] = "sent"]
    /\ UNCHANGED <<old, token, seen>>

ReportFailed(r) ==
    /\ verdict[r] = "resolve"
    /\ verdict' = [verdict EXCEPT ![r] = "failed"]
    /\ UNCHANGED <<old, token, seen>>

Next == \E r \in Rows :
            \/ Ask(r) \/ Outdate(r) \/ Reach(r)
            \/ ReportSent(r) \/ ReportFailed(r)
            \/ \E id \in Ids : Take(r, id)

Spec == Init /\ [][Next]_vars
=============================================================================
