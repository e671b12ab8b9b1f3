------------------------------ MODULE NewChat ------------------------------
(***************************************************************************)
(* The new-chat path of the outbound goroutine (newchat.go, its statements *)
(* in store.go, markAttempt in wabridge.go).                               *)
(*                                                                         *)
(* The web app queues a message to a customer who never wrote before as a  *)
(* wa_outbound row with status 'resolve'.  The bridge looks the phone up,  *)
(* writes a fresh message ID on the row, sends, stamps the row 'sent' and  *)
(* only then mirrors chat, message and chat_jid.  Each wait for WhatsApp   *)
(* or MySQL ends an action, because the web app, the clock and a crash can *)
(* come between any two; the branches between two waits belong to the      *)
(* action before them.                                                     *)
(***************************************************************************)
EXTENDS Integers, FiniteSets

CONSTANTS
    Rows,         \* ids of the wa_outbound rows (AUTO_INCREMENT)
    Ids,          \* WhatsApp message IDs the bridge can draw
    NoID,         \* SQL NULL of whatsapp_message_id
    MaxAttempts,  \* outboundMaxAttempts
    MaxFaults,    \* bound: statements that fail, in total
    MaxRestarts,  \* bound: restarts of the bridge
    StallPoints   \* steps of an attempt that may last more than an hour

ASSUME RowsAssumption == Rows \subseteq Nat \ {0}
ASSUME IdsAssumption == NoID \notin Ids
ASSUME AttemptsAssumption == MaxAttempts \in Nat \ {0}
ASSUME BoundsAssumption == MaxFaults \in Nat /\ MaxRestarts \in Nat
ASSUME StallAssumption == StallPoints \subseteq {"lookup", "claim", "send"}

VARIABLES
    row,              \* wa_outbound and what was mirrored of it (durable)
    delivered,        \* the IDs the customer's phone has shown, by row
    pc, cur,          \* the goroutine: its step, the snapshot it works from
    sent,             \* b.newChat.sent: the ID of a send still to be stamped
    paced,            \* b.newChat.lastLookup is less than newChatMinGap ago
    acked,            \* history: rows whose send this process saw succeed
    recent,           \* history: who did the last lookup, within the gap
    byHand,           \* history: rows failed by hand
    faults, restarts  \* use of the bounds

history == <<acked, recent, byHand>>
bounds == <<faults, restarts>>
vars == <<row, delivered, pc, cur, sent, paced, history, bounds>>

\* A message ID, or none.
IDs == Ids \union {NoID}

\* due: the backoff is over.  age: hours since created_at (0: under 23,
\* 1: under 24, 2: more).  input: what sendNewChatRow finds in kind, body and
\* to_phone.  mirrored: the writes of finishNewChat after the stamp.
Row == [status : {"none", "resolve", "sent", "failed"},
        attempts : 0..MaxAttempts, waID : IDs, due : BOOLEAN, age : 0..2,
        input : {"ok", "invalid"}, mirrored : SUBSET {"chat", "message", "link"}]

Steps == {"idle", "lookup", "claim", "send", "bump", "fail",
          "stamp", "chat", "message", "link"}

TypeOK ==
    /\ row \in [Rows -> Row]
    /\ delivered \in [Rows -> SUBSET Ids]
    /\ pc \in Steps
    /\ cur \in [id : Rows \union {0}, attempts : 0..MaxAttempts, waID : IDs]
    /\ sent \in [Rows -> IDs]
    /\ paced \in BOOLEAN
    /\ acked \subseteq Rows /\ byHand \subseteq Rows
    /\ recent \in {"none", "here", "before"}
    /\ faults \in 0..MaxFaults /\ restarts \in 0..MaxRestarts

\* A row as it will be queued.
Fresh(input) == [status |-> "none", attempts |-> 0, waID |-> NoID, due |-> TRUE,
                 age |-> 0, input |-> input, mirrored |-> {}]

\* The goroutine holds no row.
Nothing == [id |-> 0, attempts |-> 0, waID |-> NoID]

Init ==
    /\ \E input \in [Rows -> {"ok", "invalid"}] :
            row = [r \in Rows |-> Fresh(input[r])]
    /\ delivered = [r \in Rows |-> {}]
    /\ pc = "idle" /\ cur = Nothing
    /\ sent = [r \in Rows |-> NoID] /\ paced = FALSE
    /\ acked = {} /\ recent = "none" /\ byHand = {}
    /\ faults = 0 /\ restarts = 0

-----------------------------------------------------------------------------
(* The web app, the operator and the clock.                                 *)

Queue(r) ==
    /\ row[r].status = "none"
    /\ row' = [row EXCEPT ![r].status = "resolve"]
    /\ UNCHANGED <<delivered, pc, cur, sent, paced, history, bounds>>

\* "someone failed it by hand meanwhile" (store.go:950).
FailByHand(r) ==
    /\ row[r].status = "resolve"
    /\ row' = [row EXCEPT ![r].status = "failed"]
    /\ byHand' = byHand \union {r}
    /\ UNCHANGED <<delivered, pc, cur, sent, paced, acked, recent, bounds>>

\* The goroutine is at a step of row r that ends within the hour that
\* newChatMaxAge leaves: a WhatsApp call ends after newChatCallTimeout.
Pinned(r) == cur.id = r /\ pc \in {"lookup", "claim", "send"} \ StallPoints

Age(r) ==
    /\ row[r].status = "resolve"
    /\ row[r].age < 2
    /\ row[r].age = 1 => ~Pinned(r)
    /\ row' = [row EXCEPT ![r].age = @ + 1]
    /\ UNCHANGED <<delivered, pc, cur, sent, paced, history, bounds>>

BackoffElapses(r) ==
    /\ ~row[r].due
    /\ row' = [row EXCEPT ![r].due = TRUE]
    /\ UNCHANGED <<delivered, pc, cur, sent, paced, history, bounds>>

GapElapses ==
    /\ recent # "none"
    /\ recent' = "none"
    /\ paced' = FALSE
    /\ UNCHANGED <<row, delivered, pc, cur, sent, acked, byHand, bounds>>

-----------------------------------------------------------------------------
(* One tick: processNewChats, and sendNewChatRow up to its first wait.      *)

\* The WHERE clause of queryResolveOutbound.
Ready(r) == row[r].status = "resolve" /\ row[r].attempts < MaxAttempts /\ row[r].due

\* Faulty: the age is looked at before the memory of what was sent.
RouteExpiredFirst(r) ==
    IF row[r].age > 0 THEN "fail" ELSE IF sent[r] # NoID THEN "stamp" ELSE "lookup"

\* Faulty: no age limit.
RouteAgeless(r) == IF sent[r] # NoID THEN "stamp" ELSE "lookup"

\* Sent already: only the writes.  Too old or not a text to a phone: failed.
Route(r) ==
    IF sent[r] # NoID THEN "stamp"
    ELSE IF row[r].age > 0 \/ row[r].input # "ok" THEN "fail"
    ELSE "lookup"

\* Faulty: the time of the lookup is not kept.
NeverPaces(step) == FALSE

\* Only a lookup sets lastLookup.
Paces(step) == step = "lookup"

\* Its ORDER BY id LIMIT 1, unless the last lookup is too recent.
Select(r) ==
    /\ pc = "idle" /\ ~paced
    /\ Ready(r) /\ \A s \in Rows : Ready(s) => r <= s
    /\ pc' = Route(r)
    /\ cur' = [id |-> r, attempts |-> row[r].attempts, waID |-> row[r].waID]
    /\ paced' = Paces(pc')
    /\ recent' = IF pc' = "lookup" THEN "here" ELSE recent
    /\ UNCHANGED <<row, delivered, sent, acked, byHand, bounds>>

-----------------------------------------------------------------------------
(* The steps of an attempt.                                                 *)

\* What a statement may do.  "unconfirmed": MySQL committed it, but the
\* connection (an SSH tunnel) broke before the answer came back.
Outcomes == {"done", "lost", "unconfirmed"}
Applied(o) == o # "lost"

Charge(o) == IF o = "done" THEN UNCHANGED faults
                           ELSE faults < MaxFaults /\ faults' = faults + 1

GoTo(step) == pc' = step /\ cur' = cur
BackToTicker == pc' = "idle" /\ cur' = Nothing

\* The lookup answers with an error, with no user account, or with a hit.  A
\* row that already carries an ID is sent with that one.
Lookup(answer) ==
    /\ pc = "lookup"
    /\ GoTo(CASE answer = "error"   -> "bump"
              [] answer = "refused" -> "fail"
              [] answer = "hit"     -> IF cur.waID = NoID THEN "claim" ELSE "send")
    /\ UNCHANGED <<row, delivered, sent, paced, history, bounds>>

\* IDs with a trace anywhere: a new one is never one of them.
Used == UNION {{row[r].waID, sent[r]} \union delivered[r] : r \in Rows}

\* The WHERE clause of ClaimNewChatMessageID.
Claimable(r) == row[r].status = "resolve" /\ row[r].waID = NoID

\* Faulty: the answer of the claim is not looked at.
AlwaysClaimed(o) == TRUE

\* The claim is answered, with one row affected.
Claimed(o) == o = "done" /\ Claimable(cur.id)

Claim(id, o) ==
    /\ pc = "claim"
    /\ id \in Ids \ Used
    /\ Charge(o)
    /\ row' = IF Applied(o) /\ Claimable(cur.id)
              THEN [row EXCEPT ![cur.id].waID = id] ELSE row
    /\ IF Claimed(o) THEN pc' = "send" /\ cur' = [cur EXCEPT !.waID = id]
                     ELSE BackToTicker
    /\ UNCHANGED <<delivered, sent, paced, history, restarts>>

\* The recipient drops an ID already shown.
Show == delivered' = [delivered EXCEPT ![cur.id] = @ \union {cur.waID}]

\* Faulty: the chat is written first.
ChatFirst == "chat"

\* The first write after the send.
FirstWrite == "stamp"

SendAcked ==
    /\ pc = "send"
    /\ Show
    /\ sent' = [sent EXCEPT ![cur.id] = cur.waID]
    /\ acked' = acked \union {cur.id}
    /\ GoTo(FirstWrite)
    /\ UNCHANGED <<row, paced, recent, byHand, bounds>>

\* Faulty: a send that failed is taken for done.
StampAnyway == "stamp"

\* The write after a send that failed.
WriteAfterError == "bump"

\* The call fails, and may have reached the customer all the same.
SendFailed(reached) ==
    /\ pc = "send"
    /\ IF reached THEN Show ELSE UNCHANGED delivered
    /\ GoTo(WriteAfterError)
    /\ UNCHANGED <<row, sent, paced, history, bounds>>

\* Faulty: one attempt more than there were.
FailedPastCap(r, n) == [row EXCEPT ![r].status = "failed", ![r].attempts = n + 1]

\* FailOutbound: no condition on the status.
Failed(r, n) == [row EXCEPT ![r].status = "failed", ![r].attempts = n]

\* Faulty: > instead of >=.
CapPassed(n) == n > MaxAttempts

\* The attempt that fails the row.
CapReached(n) == n >= MaxAttempts

\* markAttempt: one more attempt than the SELECT returned.
Bump(o) ==
    LET n == cur.attempts + 1 IN
    /\ pc = "bump"
    /\ Charge(o)
    /\ row' = IF ~Applied(o) THEN row
              ELSE IF CapReached(n) THEN Failed(cur.id, n)
              ELSE [row EXCEPT ![cur.id].attempts = n, ![cur.id].due = FALSE]
    /\ BackToTicker
    /\ UNCHANGED <<delivered, sent, paced, history, restarts>>

\* failNewChat.
Fail(o) ==
    /\ pc = "fail"
    /\ Charge(o)
    /\ row' = IF Applied(o) THEN Failed(cur.id, MaxAttempts) ELSE row
    /\ BackToTicker
    /\ UNCHANGED <<delivered, sent, paced, history, restarts>>

-----------------------------------------------------------------------------
(* finishNewChat: stamp, chat, message, link, each through storeRetry.      *)

\* MarkNewChatSent: no condition on the status either.
Stamp(o) ==
    /\ pc = "stamp"
    /\ Charge(o)
    /\ row' = IF ~Applied(o) THEN row
              ELSE [row EXCEPT ![cur.id].status = "sent", ![cur.id].waID = sent[cur.id]]
    /\ IF o = "done" THEN GoTo("chat") /\ sent' = [sent EXCEPT ![cur.id] = NoID]
                     ELSE BackToTicker /\ UNCHANGED sent
    /\ UNCHANGED <<delivered, paced, history, restarts>>

\* The write at a step, with the step after it when it is answered and when
\* it is not: without the chat row nothing more is written.
Writes == {[step |-> "chat",    next |-> "message", failed |-> "idle"],
           [step |-> "message", next |-> "link",    failed |-> "link"],
           [step |-> "link",    next |-> "idle",    failed |-> "idle"]}

Mirror(w, o) ==
    LET after == IF o = "done" THEN w.next ELSE w.failed IN
    /\ pc = w.step
    /\ Charge(o)
    /\ row' = IF Applied(o) THEN [row EXCEPT ![cur.id].mirrored = @ \union {w.step}]
                            ELSE row
    /\ IF after = "idle" THEN BackToTicker ELSE GoTo(after)
    /\ UNCHANGED <<delivered, sent, paced, history, restarts>>

-----------------------------------------------------------------------------
\* runOnce ends and supervise starts it again with a new Bridge: whatever the
\* goroutine knew is gone.  The one it leaves behind has a closed database
\* and a disconnected client, and changes nothing more.
Restart ==
    /\ restarts < MaxRestarts
    /\ restarts' = restarts + 1
    /\ BackToTicker
    /\ sent' = [r \in Rows |-> NoID] /\ paced' = FALSE
    /\ acked' = {} /\ recent' = IF recent = "none" THEN "none" ELSE "before"
    /\ UNCHANGED <<row, delivered, byHand, faults>>

Environment ==
    \/ \E r \in Rows : Queue(r) \/ FailByHand(r) \/ Age(r) \/ BackoffElapses(r)
    \/ GapElapses

Bridge ==
    \/ \E r \in Rows : Select(r)
    \/ \E answer \in {"error", "refused", "hit"} : Lookup(answer)
    \/ \E id \in Ids, o \in Outcomes : Claim(id, o)
    \/ SendAcked
    \/ \E reached \in BOOLEAN : SendFailed(reached)
    \/ \E o \in Outcomes : Bump(o) \/ Fail(o) \/ Stamp(o)
    \/ \E w \in Writes, o \in Outcomes : Mirror(w, o)

Next == Environment \/ Bridge \/ Restart

Spec == Init /\ [][Next]_vars

\* The goroutine keeps ticking (and the client stays connected); a backoff
\* and the gap end.
Fairness == /\ WF_vars(Bridge)
            /\ WF_vars(GapElapses)
            /\ \A r \in Rows : WF_vars(BackoffElapses(r))

FairSpec == Spec /\ Fairness

-----------------------------------------------------------------------------
(* Properties.                                                              *)

\* A customer is never shown two messages for one row, whatever fails or
\* restarts between the claim of the ID, the send and the stamp
\* (newchat.go:31, "A cold message must go out at most once").
AtMostOnce == \A r \in Rows : Cardinality(delivered[r]) <= 1

\* A row the web app reads as 'sent' was shown to the customer, under the ID
\* on the row: receipts find the message by that ID.
SentWasShown ==
    \A r \in Rows : row[r].status = "sent" => delivered[r] = {row[r].waID}

\* newchat.go:28, "wa_chats is written only after a send to a JID WhatsApp
\* confirmed": a chat exists only for a row already stamped sent, and the
\* message and chat_jid (both foreign keys) only with the chat.
MirrorFollowsStamp ==
    \A r \in Rows :
        /\ row[r].mirrored # {} => row[r].status = "sent" /\ delivered[r] # {}
        /\ row[r].mirrored # {} => "chat" \in row[r].mirrored

\* No row is left waiting that the SELECT will never return again: the
\* attempt that reaches the cap also fails the row (markAttempt).
NoStrandedRow ==
    \A r \in Rows : row[r].status = "resolve" => row[r].attempts < MaxAttempts

\* Once WhatsApp confirmed the send, this process neither sends the row again
\* nor fails it (not even as EXPIRED when the stamp kept failing until the
\* row was too old): only the writes are retried (newchat.go:174).
AckedIsFinished ==
    [][\A r \in acked \intersect acked' :
          /\ ~(pc # "send" /\ pc' = "send" /\ cur'.id = r)
          /\ row'[r].status = "failed" /\ row[r].status # "failed" => r \in byHand'
      ]_vars

\* Two lookups of one process are at least newChatMinGap apart, also when the
\* first found nobody or failed.
PacedInProcess == [][pc # "lookup" /\ pc' = "lookup" => recent # "here"]_vars

\* newchat.go:290, "If the stamp fails the row stays 'resolve' and the next
\* tick retries the writes": what the process still has to write belongs to
\* a row the SELECT can return.
UnfinishedIsRetried ==
    \A r \in Rows \ byHand :
        pc = "idle" /\ sent[r] # NoID => row[r].status = "resolve"

\* The row as ColdMessage sees it.
Verdict == [r \in Rows |-> row[r].status]
Old == [r \in Rows |-> row[r].age = 2]
Token == [r \in Rows |-> row[r].waID]

Promise == INSTANCE ColdMessage
    WITH verdict <- Verdict, old <- Old, token <- Token, seen <- delivered

\* The bridge keeps the promise of ColdMessage: at most one message, under
\* the claimed ID, none late, 'sent' final and true, and a row failed by hand
\* before its claim never sent.
KeepsPromise == Promise!Spec

\* Every queued row reaches a verdict, whatever rows with a smaller id do,
\* once statements stop failing and the bridge stays up.
Drains ==
    \A r \in Rows : row[r].status = "resolve" ~> row[r].status \in {"sent", "failed"}
=============================================================================
