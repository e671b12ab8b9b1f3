------------------------------ MODULE Outbound ------------------------------
(***************************************************************************)
(* The existing-chat path of the outbound goroutine (wabridge.go from      *)
(* WatchOutbound to markOutboundPermanentlyFailed, sendlocation.go).       *)
(*                                                                         *)
(* A tick selects up to BatchSize 'pending' rows by id and works through   *)
(* them from the snapshot: prepare (reply or reaction target, media, place *)
(* of a pin), send under a new message ID, stamp, mirror.  Nothing is      *)
(* claimed before the send, and the stamp, unlike the one of new chats, is *)
(* tried once and its failure only logged: the row then goes out again.    *)
(***************************************************************************)
EXTENDS Integers, FiniteSets

CONSTANTS
    Rows,         \* ids of the wa_outbound rows (AUTO_INCREMENT)
    Reacts,       \* those that carry a reaction, stored in a way of its own
    BatchSize,    \* LIMIT of the SELECT
    MaxAttempts,  \* outboundMaxAttempts
    ChatKnown,    \* wa_chats has a row under the canonical JID at the start
    MaxFaults     \* bound: statements that fail and restarts, in total

ASSUME OutboundAssumption ==
    /\ Rows \subseteq Nat \ {0} /\ Reacts \subseteq Rows
    /\ BatchSize \in Nat \ {0} /\ MaxAttempts \in Nat \ {0}
    /\ ChatKnown \in BOOLEAN
    /\ MaxFaults \in Nat

VARIABLES
    row,              \* wa_outbound and the copies the customer saw (durable)
    chat,             \* wa_chats has the row wa_messages.chat_jid refers to
    mirrored,         \* rows whose message is in wa_messages
    pc, batch,        \* the goroutine: its step, the rows still to do with
                      \* the attempts the SELECT returned for each
    ready,            \* history: what the last SELECT could have returned
    tried,            \* history: rows taken up at least once
    excuses,          \* history: by row, the copies a lost answer, a lost
                      \* stamp or a restart explains
    excused,          \* history: rows that met a fault while mirrored
    faults            \* use of the bound

history == <<ready, tried, excuses, excused>>
vars == <<row, chat, mirrored, pc, batch, history, faults>>

\* shown: the copies the customer saw.
Row == [status : {"none", "pending", "sent", "failed"}, attempts : 0..MaxAttempts,
        due : BOOLEAN, shown : Nat]

Steps == {"idle", "prepare", "send", "bump", "fail", "stamp", "message", "chat"}

TypeOK ==
    /\ row \in [Rows -> Row]
    /\ chat \in BOOLEAN
    /\ mirrored \subseteq Rows
    /\ pc \in Steps
    /\ DOMAIN batch \subseteq Rows /\ batch \in [DOMAIN batch -> 0..MaxAttempts]
    /\ ready \subseteq Rows /\ tried \subseteq Rows /\ excused \subseteq Rows
    /\ excuses \in [Rows -> Nat]
    /\ faults \in 0..MaxFaults

Fresh == [status |-> "none", attempts |-> 0, due |-> TRUE, shown |-> 0]

\* The goroutine has no row to do.
Nothing == [r \in {} |-> 0]

Init ==
    /\ row = [r \in Rows |-> Fresh]
    /\ chat = ChatKnown
    /\ mirrored = {}
    /\ pc = "idle" /\ batch = Nothing
    /\ ready = {} /\ tried = {} /\ excused = {}
    /\ excuses = [r \in Rows |-> 0]
    /\ faults = 0

-----------------------------------------------------------------------------
(* The web app and the clock.                                               *)

Queue(r) ==
    /\ row[r].status = "none"
    /\ row' = [row EXCEPT ![r].status = "pending"]
    /\ UNCHANGED <<chat, mirrored, pc, batch, history, faults>>

BackoffElapses(r) ==
    /\ ~row[r].due
    /\ row' = [row EXCEPT ![r].due = TRUE]
    /\ UNCHANGED <<chat, mirrored, pc, batch, history, faults>>

-----------------------------------------------------------------------------
(* The tick: processOutboundBatch.                                          *)

\* The WHERE clause of queryPendingOutbound.
Ready(r) == row[r].status = "pending" /\ row[r].attempts < MaxAttempts /\ row[r].due

\* Faulty: the newest row first.
NewestFirst(r, s) == r > s

\* ORDER BY id.
Before(r, s) == r < s

\* LIMIT.
FirstOf(S) == {r \in S : Cardinality({s \in S : Before(s, r)}) < BatchSize}

Select ==
    LET S == {r \in Rows : Ready(r)} IN
    /\ pc = "idle"
    /\ S # {}
    /\ batch' = [r \in FirstOf(S) |-> row[r].attempts]
    /\ pc' = "prepare"
    /\ ready' = S
    /\ UNCHANGED <<row, chat, mirrored, tried, excuses, excused, faults>>

\* The row the loop over the batch is at.
cur == CHOOSE r \in DOMAIN batch : \A s \in DOMAIN batch : ~Before(s, r)

GoTo(step) == pc' = step /\ batch' = batch

NextRow == LET rest == DOMAIN batch \ {cur} IN
           /\ batch' = [r \in rest |-> batch[r]]
           /\ pc' = IF rest = {} THEN "idle" ELSE "prepare"

-----------------------------------------------------------------------------
(* sendOutboundRow and sendReactionRow.                                     *)

\* What stands between a row and its send - a file to read, a table for a
\* reply or reaction target, the coordinates of a pin - may be wrong for good
\* or out of reach for now.  (A plain text can only be wrong for good.)
Obstacles == {"ok", "permanent", "transient"}

Prepare(answer) ==
    /\ pc = "prepare"
    /\ GoTo(CASE answer = "ok"        -> "send"
              [] answer = "permanent" -> "fail"
              [] answer = "transient" -> "bump")
    /\ tried' = tried \union {cur}
    /\ UNCHANGED <<row, chat, mirrored, ready, excuses, excused, faults>>

\* One more copy at the customer's: every send has an ID of its own.
Show(r) == [row EXCEPT ![r].shown = @ + 1]

SendAcked ==
    /\ pc = "send"
    /\ row' = Show(cur)
    /\ GoTo("stamp")
    /\ UNCHANGED <<chat, mirrored, history, faults>>

\* Faulty: a send that failed is taken for done.
StampAnyway == "stamp"

\* The write after a send that failed.
WriteAfterError == "bump"

\* The call fails, and may have reached the customer all the same.
SendFailed(reached) ==
    /\ pc = "send"
    /\ IF reached THEN /\ row' = Show(cur)
                       /\ excuses' = [excuses EXCEPT ![cur] = @ + 1]
                  ELSE UNCHANGED <<row, excuses>>
    /\ GoTo(WriteAfterError)
    /\ UNCHANGED <<chat, mirrored, ready, tried, excused, faults>>

\* What a statement may do ("unconfirmed": committed, the answer was lost).
Outcomes == {"done", "lost", "unconfirmed"}
Applied(o) == o # "lost"

Charge(o) == IF o = "done" THEN UNCHANGED faults
                           ELSE faults < MaxFaults /\ faults' = faults + 1

\* Faulty: one attempt more than there were.
FailedPastCap(r, n) == [row EXCEPT ![r].status = "failed", ![r].attempts = n + 1]

\* FailOutbound.
Failed(r, n) == [row EXCEPT ![r].status = "failed", ![r].attempts = n]

\* Faulty: the count is written, the row never failed.
RetriedFor(r, n) == [row EXCEPT ![r].attempts = n, ![r].due = FALSE]

\* Faulty: a failure is only worth a backoff.
Postponed(r, n) == [row EXCEPT ![r].due = FALSE]

\* markAttempt: one more attempt than the SELECT returned.
Attempted(r, n) == IF n >= MaxAttempts THEN Failed(r, n)
                   ELSE [row EXCEPT ![r].attempts = n, ![r].due = FALSE]

Bump(o) ==
    /\ pc = "bump"
    /\ Charge(o)
    /\ row' = IF Applied(o) THEN Attempted(cur, batch[cur] + 1) ELSE row
    /\ NextRow
    /\ UNCHANGED <<chat, mirrored, history>>

\* markOutboundPermanentlyFailed.
Fail(o) ==
    /\ pc = "fail"
    /\ Charge(o)
    /\ row' = IF Applied(o) THEN Failed(cur, MaxAttempts) ELSE row
    /\ NextRow
    /\ UNCHANGED <<chat, mirrored, history>>

\* Faulty: a reaction is not stamped.
StampedMessage(r) == IF r \in Reacts THEN row
                     ELSE [row EXCEPT ![r].status = "sent"]

\* The UPDATE of a sent row.
Stamped(r) == [row EXCEPT ![r].status = "sent"]

\* A stamp that fails is logged, and the writes go on.
Stamp(o) ==
    /\ pc = "stamp"
    /\ Charge(o)
    /\ row' = IF Applied(o) THEN Stamped(cur) ELSE row
    /\ excuses' = IF Applied(o) THEN excuses ELSE [excuses EXCEPT ![cur] = @ + 1]
    /\ GoTo("message")
    /\ UNCHANGED <<chat, mirrored, ready, tried, excused>>

\* Faulty: a reaction is not stored.
WrittenMessage(r) ==
    IF chat /\ r \notin Reacts THEN mirrored \union {r} ELSE mirrored

\* InsertMessage, or UpsertReaction for a reaction: INSERT IGNORE, which turns
\* a chat_jid without its wa_chats row into a warning nobody reads.
Written(r) == IF chat THEN mirrored \union {r} ELSE mirrored

MirrorMessage(o) ==
    /\ pc = "message"
    /\ Charge(o)
    /\ mirrored' = IF Applied(o) THEN Written(cur) ELSE mirrored
    /\ excused' = IF o = "done" THEN excused ELSE excused \union {cur}
    /\ IF cur \in Reacts THEN NextRow ELSE GoTo("chat")
    /\ UNCHANGED <<row, chat, ready, tried, excuses>>

\* UpsertChat of the canonical JID.
MirrorChat(o) ==
    /\ pc = "chat"
    /\ Charge(o)
    /\ chat' = (chat \/ Applied(o))
    /\ NextRow
    /\ UNCHANGED <<row, mirrored, history>>

-----------------------------------------------------------------------------
\* runOnce ends and supervise starts a new Bridge.
Restart ==
    /\ faults < MaxFaults /\ faults' = faults + 1
    /\ pc' = "idle" /\ batch' = Nothing
    /\ excuses' = IF pc = "stamp" THEN [excuses EXCEPT ![cur] = @ + 1] ELSE excuses
    /\ excused' = IF pc \in {"stamp", "message"} THEN excused \union {cur} ELSE excused
    /\ UNCHANGED <<row, chat, mirrored, ready, tried>>

Environment == \E r \in Rows : Queue(r) \/ BackoffElapses(r)

Bridge ==
    \/ Select
    \/ \E answer \in Obstacles : Prepare(answer)
    \/ SendAcked
    \/ \E reached \in BOOLEAN : SendFailed(reached)
    \/ \E o \in Outcomes :
          Bump(o) \/ Fail(o) \/ Stamp(o) \/ MirrorMessage(o) \/ MirrorChat(o)

Next == Environment \/ Bridge \/ Restart

Spec == Init /\ [][Next]_vars

\* The goroutine keeps ticking (and the client stays connected), and a backoff
\* ends.
FairSpec == Spec /\ WF_vars(Bridge) /\ \A r \in Rows : WF_vars(BackoffElapses(r))

-----------------------------------------------------------------------------
(* Properties.                                                              *)

\* A customer sees a row twice only if the answer of a send, a stamp or the
\* process was lost in between: one copy more per loss and not one without
\* (nothing but the stamp keeps a row from the next SELECT).
RepeatsHaveCause == \A r \in Rows : row[r].shown <= 1 + excuses[r]

\* What the web app reads as 'sent' was shown at least once.
SentWasShown == \A r \in Rows : row[r].status = "sent" => row[r].shown > 0

\* No row is left pending that the SELECT will never return again.
NoStrandedRow ==
    \A r \in Rows : row[r].status = "pending" => row[r].attempts < MaxAttempts

\* A customer reads the rows in the order they were queued: a row goes out
\* before one with a smaller id, both ready at the SELECT, only if that one was
\* tried and did not make it.
InOrder ==
    [][\A r, s \in Rows :
          /\ row[r].shown = 0 /\ row'[r].shown > 0
          /\ s < r /\ {r, s} \subseteq ready
          => s \in tried]_vars

\* wabridge.go:1585, "also inserts a row into wa_messages so the UI sees the
\* outbound message": unless a statement failed, a stamped row whose turn is
\* over is in wa_messages.
UiSeesMessage ==
    \A r \in Rows \ excused :
        row[r].status = "sent" /\ r \notin DOMAIN batch => r \in mirrored

\* Every queued row reaches a verdict, also those beyond the LIMIT and behind
\* rows that keep failing.
Drains ==
    \A r \in Rows : row[r].status = "pending" ~> row[r].status \in {"sent", "failed"}
=============================================================================
