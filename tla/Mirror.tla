------------------------------- MODULE Mirror -------------------------------
(***************************************************************************)
(* wa_chats and wa_messages as the mirror of one direct chat, and the      *)
(* three goroutines that write them without a lock: the event handler      *)
(* (messages, edits, deletes, reads on the phone), a history sync, and the *)
(* writes that follow a send of the outbound goroutine.  One SQL statement *)
(* is one action.  Events come in the order they happened and are gone     *)
(* once handled; after a restart the unfinished one may come again.        *)
(***************************************************************************)
EXTENDS Integers, FiniteSets

CONSTANTS
    Last,        \* bound: the last thing that happens in the chat
    MaxSyncs,    \* bound: history syncs
    MaxFaults,   \* bound: statements that fail
    MaxRestarts  \* bound: restarts of the bridge

ASSUME MirrorAssumption == /\ Last \in Nat /\ MaxSyncs \in Nat
                           /\ MaxFaults \in Nat /\ MaxRestarts \in Nat

VARIABLES
    event,    \* what happened in the chat, numbered by its time
    row,      \* wa_messages: what is stored of each event
    chat,     \* the wa_chats row
    inbox,    \* events WhatsApp still has to deliver
    live,     \* the event handler: its step, what its SELECT found
    sync,     \* the history sync: its step, the events to do, the deletes
              \* it stores as rows, an insert was answered, its SELECT
    out,      \* the sent message still to be written, and the write it is at
    unseen,   \* history: their messages counted since we wrote, and not read
    missing,  \* history: those of them not stored when the count was set
    again,    \* history: counts of a message counted or stored before
    counted,  \* history: their messages that were counted
    excused,  \* history: why the tail may be wrong
    syncs, faults, restarts  \* use of the bounds

tables == <<row, chat>>
history == <<unseen, missing, again, counted, excused>>
bounds == <<syncs, faults, restarts>>
vars == <<event, tables, inbox, live, sync, out, history, bounds>>

Times == 1..Last

\* The event being handled: they are handled one by one.
head == CHOOSE t \in inbox : \A s \in inbox : t <= s

\* of: the message an edit or delete names, or the last one read.
Event == [what : {"nothing", "message", "edit", "revoke", "read"},
          side : {"us", "them"}, of : 0..Last]

\* A row shows its text, the edited text, or is marked as deleted.
Forms == {"text", "edited", "deleted"}

\* The tail: last_message_at (0: NULL), _preview and _from_me.
Tail == [at : 0..Last, form : Forms, us : BOOLEAN]

TypeOK ==
    /\ event \in [Times -> Event]
    /\ row \in [Times -> Forms \union {"none"}]
    /\ chat \in [known : BOOLEAN, tail : Tail, unread : 0..(Last + MaxRestarts)]
    /\ inbox \subseteq Times
    /\ live \in [step : {"idle", "upsert", "insert", "select", "update"}, found : Tail]
    /\ sync \in [step : {"idle", "rows", "update"}, todo : SUBSET Times,
                 plain : SUBSET Times, inserted : BOOLEAN, found : Tail]
    /\ out \in [step : {"idle", "insert", "chat"}, at : 0..Last]
    /\ missing \subseteq unseen /\ unseen \subseteq counted /\ counted \subseteq Times
    /\ again \in 0..(Last + MaxRestarts)
    /\ excused \in BOOLEAN
    /\ syncs \in 0..MaxSyncs /\ faults \in 0..MaxFaults /\ restarts \in 0..MaxRestarts

NoTail == [at |-> 0, form |-> "text", us |-> FALSE]
Idle == [step |-> "idle", found |-> NoTail]
NoSync == [step |-> "idle", todo |-> {}, plain |-> {}, inserted |-> FALSE,
           found |-> NoTail]
NothingSent == [step |-> "idle", at |-> 0]

Init ==
    /\ event = [t \in Times |-> [what |-> "nothing", side |-> "us", of |-> 0]]
    /\ row = [t \in Times |-> "none"]
    /\ chat = [known |-> FALSE, tail |-> NoTail, unread |-> 0]
    /\ inbox = {} /\ live = Idle /\ sync = NoSync /\ out = NothingSent
    /\ unseen = {} /\ missing = {} /\ again = 0 /\ counted = {} /\ excused = FALSE
    /\ syncs = 0 /\ faults = 0 /\ restarts = 0

-----------------------------------------------------------------------------
(* The chat itself.                                                         *)

Happened == {t \in Times : event[t].what # "nothing"}

\* The time of the next event.
Now == Cardinality(Happened) + 1

Happens(what, side, of) ==
    /\ Now \in Times
    /\ event' = [event EXCEPT ![Now] = [what |-> what, side |-> side, of |-> of]]

\* They write, or staff write on the phone; an author edits or deletes; staff
\* read their messages, up to one, on the phone.
SomethingHappens ==
    /\ \/ \E side \in {"us", "them"} : Happens("message", side, 0)
       \/ \E m \in Happened, what \in {"edit", "revoke"} :
             event[m].what = "message" /\ Happens(what, event[m].side, m)
       \/ \E m \in Happened :
             /\ event[m].what = "message" /\ event[m].side = "them"
             /\ Happens("read", "us", m)
    /\ inbox' = inbox \union {Now}
    /\ UNCHANGED <<tables, live, sync, out, history, bounds>>

\* sendOutboundRow has sent a message, which has no event of its own.
Send ==
    /\ out.step = "idle"
    /\ Happens("message", "us", 0)
    /\ out' = [step |-> "insert", at |-> Now]
    /\ UNCHANGED <<tables, inbox, live, sync, history, bounds>>

-----------------------------------------------------------------------------
(* The statements (store.go).                                               *)

\* "unconfirmed": carried out, the answer was lost.
Outcomes == {"done", "lost", "unconfirmed"}
Applied(o) == o # "lost"

Charge(o) == IF o = "done" THEN UNCHANGED faults
                           ELSE faults < MaxFaults /\ faults' = faults + 1

Stored == {t \in Times : row[t] # "none"}

\* ORDER BY timestamp DESC.
NewestOf(S) == CHOOSE t \in S : \A s \in S : s <= t

\* The SELECT of RecomputeChatTail.
CurrentTail == LET t == NewestOf(Stored) IN
               [at |-> t, form |-> row[t], us |-> event[t].side = "us"]

\* The tail a message writes as it comes.
TailOf(t) == [at |-> t, form |-> IF event[t].what = "revoke" THEN "deleted" ELSE "text",
              us |-> event[t].side = "us"]

\* UpsertChat with a message: from_me clears the count.
Upserted(t) ==
    [known |-> TRUE, tail |-> TailOf(t),
     unread |-> IF event[t].side = "us" THEN 0 ELSE chat.unread + 1]

\* UpsertChat without one: last_message_from_me is written all the same.
UpsertedBare == [chat EXCEPT !.known = TRUE, !.tail.us = FALSE]

\* Faulty: a row that is there is written again.
Replaced(t) == [row EXCEPT ![t] = TailOf(t).form]

\* InsertMessage: IGNOREd when the row is there, or the chat is not.
Inserted(t) == IF row[t] = "none" /\ chat.known
               THEN [row EXCEPT ![t] = TailOf(t).form] ELSE row

\* ApplyEdit and RevokeMessage (the text of a deleted row stays hidden).
Amended(t) ==
    [row EXCEPT ![event[t].of] = IF event[t].what = "revoke" \/ @ = "deleted"
                                 THEN "deleted" ELSE "edited"]

Theirs(S) == {s \in S : event[s].side = "them"}

\* Faulty: the newer ones are subtracted.
LessNewer(m) == chat.unread - Cardinality({s \in Theirs(Stored) : s > m})

\* Faulty: the message read is one of them.
NewerOrSame(m) ==
    LET newer == Cardinality({s \in Theirs(Stored) : m \in Stored /\ s >= m}) IN
    IF newer < chat.unread THEN newer ELSE chat.unread

\* ClearUnreadUpTo: those stored after the message read, at most as many as
\* there were, and none if it is not stored.
LeftUnread(m) ==
    LET newer == Cardinality({s \in Theirs(Stored) : m \in Stored /\ s > m}) IN
    IF newer < chat.unread THEN newer ELSE chat.unread

-----------------------------------------------------------------------------
(* History variables.                                                       *)

\* The tail written now is older than a row stored or about to be, or shows a
\* row as it no longer is.
OutOfOrder(tail) ==
    \/ live.step = "insert" /\ tail.at < head
    \/ \E t \in Stored : tail.at < t
    \/ tail.at \in Stored /\ tail.form # row[tail.at]

\* A message is counted, or a message of ours clears the count.
Count(t) ==
    IF event[t].side = "us"
    THEN unseen' = {} /\ missing' = {} /\ again' = 0 /\ counted' = counted
    ELSE /\ unseen' = unseen \union {t} /\ counted' = counted \union {t}
         /\ missing' = missing
         /\ again' = IF t \in unseen \union Stored THEN again + 1 ELSE again

NoCount == UNCHANGED <<unseen, missing, again, counted>>

WritesTail(o, tail) ==
    excused' = IF o = "done" THEN OutOfOrder(tail) ELSE TRUE

Fails(o) == excused' = (excused \/ o # "done")

-----------------------------------------------------------------------------
(* The event handler: handleMessage, applyProtocolAction, handleReceipt.    *)

Handles(step, whats) == live.step = step /\ inbox # {} /\ event[head].what \in whats

Goes(step) == live' = [live EXCEPT !.step = step] /\ inbox' = inbox
Done == live' = Idle /\ inbox' = inbox \ {head}

\* The chat row first; the message is dropped if it cannot be written.
LiveUpsert(o) ==
    /\ Handles("idle", {"message"}) \/ Handles("upsert", {"revoke"})
    /\ Charge(o)
    /\ IF Applied(o) THEN chat' = Upserted(head) /\ Count(head)
                     ELSE chat' = chat /\ NoCount
    /\ WritesTail(o, TailOf(head))
    /\ IF o = "done" THEN Goes("insert") ELSE Done
    /\ UNCHANGED <<event, row, sync, out, syncs, restarts>>

LiveInsert(o) ==
    /\ Handles("insert", {"message", "revoke"})
    /\ Charge(o)
    /\ row' = IF Applied(o) THEN Inserted(head) ELSE row
    /\ Fails(o) /\ NoCount
    /\ Done
    /\ UNCHANGED <<event, chat, sync, out, syncs, restarts>>

\* Faulty: the list is left as it is after a delete.
ListAfterEdit(t) == IF event[t].what = "edit" THEN "select" ELSE "idle"

\* The tail is looked up again after an edit or a delete.
ListAfter(t) == "select"

\* ApplyEdit or RevokeMessage, three attempts.  An edit of a message that is
\* not stored is dropped, a delete of one becomes a row of its own, and so
\* does one that failed.
LiveAmend(o) ==
    LET found == row[event[head].of] # "none" IN
    /\ Handles("idle", {"edit", "revoke"})
    /\ Charge(o)
    /\ row' = IF Applied(o) /\ found THEN Amended(head) ELSE row
    /\ Fails(o) /\ NoCount
    /\ IF found /\ o = "done" /\ ListAfter(head) # "idle" THEN Goes(ListAfter(head))
       ELSE IF event[head].what = "revoke" /\ ~(found /\ o = "done") THEN Goes("upsert")
       ELSE Done
    /\ UNCHANGED <<event, chat, sync, out, syncs, restarts>>

LiveSelect(o) ==
    /\ live.step = "select"
    /\ Charge(o)
    /\ IF o = "done" THEN /\ live' = [step |-> "update", found |-> CurrentTail]
                          /\ inbox' = inbox
                     ELSE Done
    /\ Fails(o) /\ NoCount
    /\ UNCHANGED <<event, tables, sync, out, syncs, restarts>>

LiveUpdate(o) ==
    /\ live.step = "update"
    /\ Charge(o)
    /\ chat' = IF Applied(o) THEN [chat EXCEPT !.tail = live.found] ELSE chat
    /\ WritesTail(o, live.found) /\ NoCount
    /\ Done
    /\ UNCHANGED <<event, row, sync, out, syncs, restarts>>

LiveRead(o) ==
    LET m == event[head].of IN
    /\ Handles("idle", {"read"})
    /\ Charge(o)
    /\ IF Applied(o)
       THEN /\ chat' = [chat EXCEPT !.unread = LeftUnread(m)]
            /\ unseen' = {s \in unseen : m \in Stored /\ s > m}
            /\ missing' = {s \in unseen' : s \in missing \/ s \notin Stored}
       ELSE UNCHANGED <<chat, unseen, missing>>
    /\ Done
    /\ UNCHANGED <<event, row, sync, out, again, counted, excused, syncs, restarts>>

-----------------------------------------------------------------------------
(* handleHistorySync, for this chat.                                        *)

SyncStart(S, o) ==
    /\ sync.step = "idle"
    /\ syncs < MaxSyncs /\ syncs' = syncs + 1
    /\ S \subseteq {t \in Happened : event[t].what \in {"message", "revoke"}}
    /\ Charge(o)
    /\ chat' = IF Applied(o) THEN UpsertedBare ELSE chat
    /\ sync' = IF o = "done" THEN [NoSync EXCEPT !.step = "rows", !.todo = S] ELSE sync
    /\ Fails(o) /\ NoCount
    /\ UNCHANGED <<event, row, inbox, live, out, restarts>>

\* A delete of a stored message marks it; one that fails becomes a row.
SyncRevoke(t, o) ==
    /\ sync.step = "rows" /\ t \in sync.todo \ sync.plain
    /\ event[t].what = "revoke" /\ row[event[t].of] # "none"
    /\ Charge(o)
    /\ row' = IF Applied(o) THEN Amended(t) ELSE row
    /\ sync' = IF o = "done" THEN [sync EXCEPT !.todo = @ \ {t}]
                            ELSE [sync EXCEPT !.plain = @ \union {t}]
    /\ Fails(o) /\ NoCount
    /\ UNCHANGED <<event, chat, inbox, live, out, syncs, restarts>>

SyncInsert(t, o) ==
    /\ sync.step = "rows" /\ t \in sync.todo
    /\ event[t].what = "revoke" /\ t \notin sync.plain => row[event[t].of] = "none"
    /\ Charge(o)
    /\ row' = IF Applied(o) THEN Inserted(t) ELSE row
    /\ sync' = [sync EXCEPT !.todo = @ \ {t}, !.inserted = @ \/ o = "done"]
    /\ Fails(o) /\ NoCount
    /\ UNCHANGED <<event, chat, inbox, live, out, syncs, restarts>>

\* The tail is looked up only if a row was inserted.
SyncSelect(o) ==
    /\ sync.step = "rows" /\ sync.todo = {}
    /\ Charge(o)
    /\ IF sync.inserted /\ o = "done"
       THEN /\ sync' = [sync EXCEPT !.step = "update", !.found = CurrentTail]
            /\ excused' = excused
       ELSE sync' = NoSync /\ excused' = TRUE
    /\ NoCount
    /\ UNCHANGED <<event, tables, inbox, live, out, syncs, restarts>>

SyncUpdate(o) ==
    /\ sync.step = "update"
    /\ Charge(o)
    /\ chat' = IF Applied(o) THEN [chat EXCEPT !.tail = sync.found] ELSE chat
    /\ sync' = NoSync
    /\ WritesTail(o, sync.found) /\ NoCount
    /\ UNCHANGED <<event, row, inbox, live, out, syncs, restarts>>

-----------------------------------------------------------------------------
(* sendOutboundRow after the send: the message first, then the chat.        *)

OutInsert(o) ==
    /\ out.step = "insert"
    /\ Charge(o)
    /\ row' = IF Applied(o) THEN Inserted(out.at) ELSE row
    /\ out' = [out EXCEPT !.step = "chat"]
    /\ Fails(o) /\ NoCount
    /\ UNCHANGED <<event, chat, inbox, live, sync, syncs, restarts>>

OutChat(o) ==
    /\ out.step = "chat"
    /\ Charge(o)
    /\ IF Applied(o) THEN chat' = Upserted(out.at) /\ Count(out.at)
                     ELSE chat' = chat /\ NoCount
    /\ excused' = (o # "done" \/ OutOfOrder(TailOf(out.at)) \/ out.at \notin Stored)
    /\ out' = NothingSent
    /\ UNCHANGED <<event, row, inbox, live, sync, syncs, restarts>>

-----------------------------------------------------------------------------
\* A new Bridge: the event being handled is delivered again, or was
\* acknowledged and is lost.
Restart ==
    /\ restarts < MaxRestarts
    /\ restarts' = restarts + 1
    /\ inbox' \in {inbox, {t \in inbox : t # head}}
    /\ live' = Idle /\ sync' = NoSync /\ out' = NothingSent
    /\ excused' = (excused \/ live # Idle \/ sync # NoSync \/ out # NothingSent)
    /\ NoCount
    /\ UNCHANGED <<event, tables, syncs, faults>>

Bridge ==
    \/ Restart
    \/ \E o \in Outcomes :
          \/ LiveUpsert(o) \/ LiveInsert(o) \/ LiveAmend(o) \/ LiveSelect(o)
          \/ LiveUpdate(o) \/ LiveRead(o)
          \/ \E S \in SUBSET Times : SyncStart(S, o)
          \/ \E t \in Times : SyncRevoke(t, o) \/ SyncInsert(t, o)
          \/ SyncSelect(o) \/ SyncUpdate(o)
          \/ OutInsert(o) \/ OutChat(o)

Next == SomethingHappens \/ Send \/ Bridge

Spec == Init /\ [][Next]_vars

-----------------------------------------------------------------------------
(* Properties.                                                              *)

Quiet == inbox = {} /\ sync.step = "idle" /\ out.step = "idle"

\* Once everything is written, the chat list shows the newest stored message,
\* marked as deleted when it was, unless statements failed, a history sync
\* stopped before its end or inserted nothing, or the last write of the tail
\* was overtaken by a newer message (nothing orders the three goroutines).
TailIsNewest == Quiet /\ ~excused /\ Stored # {} => chat.tail = CurrentTail

\* The unread count covers each message of theirs counted since we last wrote
\* and not read, save those that were not stored when a read set the count, and
\* exceeds the unread ones by no more than what was delivered again and what a
\* history sync stored (whatever it stores is never counted as new).
UnreadCounts ==
    /\ Cardinality(unseen \ missing) <= chat.unread
    /\ chat.unread <= Cardinality(unseen) + again + Cardinality(Theirs(Stored) \ counted)

\* No later delivery or history sync brings the first text of an edited or
\* deleted message back, or takes a row away.
NoWayBack ==
    [][\A t \in Times :
          /\ row[t] = "deleted" => row'[t] = "deleted"
          /\ row[t] = "edited" => row'[t] # "text"
          /\ row[t] # "none" => row'[t] # "none"]_vars

\* store.go:208, "last_message_* fields are always overwritten when
\* LastMessageAt is non-NULL": the side of the tail is that of its message.
TailSide == chat.tail.at # 0 => chat.tail.us = (event[chat.tail.at].side = "us")
=============================================================================
