----------------------------- MODULE Reactions ------------------------------
(***************************************************************************)
(* The reactions to one message and their rows in wa_messages.  The chat   *)
(* is a direct one that WhatsApp routes under two JIDs, the phone number's *)
(* and the LID, or a group whose member reacts under both; whatsmeow may   *)
(* learn at any time that they are the same.  The event handler and a      *)
(* history sync store reactions with the same statements, without a lock   *)
(* or a transaction.  Schemas without target_message_id are left out.      *)
(***************************************************************************)
EXTENDS Integers, FiniteSets

CONSTANTS
    Sides,       \* who reacts: "us", "them"
    Last,        \* bound: the last event
    MaxSyncs,    \* bound: history syncs
    MaxFaults,   \* bound: statements that fail
    MaxRestarts  \* bound: restarts of the bridge

ASSUME ReactionsAssumption == /\ Sides \subseteq {"us", "them"}
                              /\ Last \in Nat /\ MaxSyncs \in Nat
                              /\ MaxFaults \in Nat /\ MaxRestarts \in Nat

VARIABLES
    group,     \* the chat is a group
    home,      \* wa_messages: the chat the message is stored in
    known,     \* whatsmeow knows the LID of the phone number
    event,     \* the reactions, numbered by their time
    inbox,     \* events WhatsApp still has to deliver
    at,        \* per goroutine: its step, event, chat and the row it found
    todo,      \* the events the history sync has still to store
    chats,     \* wa_chats: the JIDs that have a row
    row,       \* wa_messages: the reaction row each event made, if any
    fresh,     \* the message was stamped since the last change of a reaction
    handled,   \* history: the reactions a goroutine went through with
    flaws,     \* history: what failed, or came in an order that matters
    syncs, faults, restarts  \* use of the bounds

world == <<group, home, event>>
tables == <<chats, row, fresh>>
history == <<handled, flaws>>
bounds == <<syncs, faults, restarts>>
vars == <<world, known, inbox, at, todo, tables, history, bounds>>

Times == 1..Last
Rows == 0..Last  \* 0: a reaction of theirs stored before
None == -1
Forms == {"pn", "lid"}
Jids == Forms \union {"group"}
Goroutines == {"live", "sync"}

\* form: the JID the contact has in this event.
Event == [what : {"nothing", "react", "remove"}, side : {"us", "them"}, form : Forms]

\* A removed reaction stays, as a system row.  at: its timestamp.
Reaction == [shown : {"none", "reaction", "system"}, jid : Jids \union {"none"},
             at : 0..Last]

Worker == [step : {"idle", "select", "write", "bump"}, t : Times \union {None},
           jid : Jids \union {"none"}, found : Rows \union {None}]

TypeOK ==
    /\ group \in BOOLEAN /\ known \in BOOLEAN
    /\ home \in Jids \union {"none"}
    /\ event \in [Rows -> Event]
    /\ inbox \subseteq Times /\ todo \subseteq Times
    /\ at \in [Goroutines -> Worker]
    /\ chats \subseteq Jids
    /\ row \in [Rows -> Reaction]
    /\ \A r \in Rows : row[r].shown = "none" \/ row[r].jid \in chats
    /\ fresh \in BOOLEAN
    /\ handled \subseteq Rows
    /\ flaws \subseteq {"failed", "overlap", "astray", "tooEarly"}
    /\ syncs \in 0..MaxSyncs /\ faults \in 0..MaxFaults /\ restarts \in 0..MaxRestarts

Idle == [step |-> "idle", t |-> None, jid |-> "none", found |-> None]
NoReaction == [shown |-> "none", jid |-> "none", at |-> 0]

\* The chat is old: it may be stored under the phone number, the message be
\* from before the bridge, and they may have reacted to it already.
Init ==
    /\ group \in BOOLEAN /\ known \in BOOLEAN
    /\ chats \in IF group THEN {{"group"}} ELSE {{"pn"}, {"lid"}}
    /\ home \in chats \union {"none"}
    /\ row \in [Rows -> {NoReaction, [shown |-> "reaction", jid |-> home, at |-> 0],
                         [shown |-> "system", jid |-> home, at |-> 0]}]
    /\ home = "none" => row[0] = NoReaction
    /\ \A t \in Times : row[t] = NoReaction
    /\ \E f \in IF group THEN Forms ELSE {"pn"} :
          event = [t \in Rows |->
                      [what |-> IF t # 0 \/ row[0] = NoReaction THEN "nothing"
                                ELSE IF row[0].shown = "reaction" THEN "react" ELSE "remove",
                       side |-> "them", form |-> f]]
    /\ handled = {r \in Rows : row[r] # NoReaction}
    /\ inbox = {} /\ todo = {} /\ at = [p \in Goroutines |-> Idle]
    /\ fresh = TRUE /\ flaws = {}
    /\ syncs = 0 /\ faults = 0 /\ restarts = 0

-----------------------------------------------------------------------------
(* The JIDs of a chat and of a sender.                                      *)

RawChat(f) == IF group THEN "group" ELSE f

\* canonicalChatJID: the LID, once it is known.
Canonical(j) == IF j = "pn" /\ known THEN "lid" ELSE j

\* resolvePNForLID.
PhoneOf(j) == IF j = "lid" /\ known THEN {"pn"} ELSE {}

ChatAliases(j) == {Canonical(j), j} \union PhoneOf(Canonical(j)) \union PhoneOf(j)

SenderAliases(f) == IF known THEN Forms ELSE {f}

-----------------------------------------------------------------------------
(* What people and WhatsApp do.                                             *)

Happened == {t \in Times : event[t].what # "nothing"}
Now == Cardinality(Happened) + 1
Head == CHOOSE t \in inbox : \A s \in inbox : t <= s

\* Somebody reacts, or takes the reaction back.
SomethingHappens ==
    /\ Now \in Times
    /\ \E e \in Event :
          /\ e.what # "nothing" /\ e.side \in Sides
          /\ group /\ e.side = "us" => e.form = "pn"
          /\ event' = [event EXCEPT ![Now] = e]
    /\ inbox' = inbox \union {Now}
    /\ UNCHANGED <<group, home, known, at, todo, tables, history, bounds>>

\* whatsmeow learns the LID of the phone number.
Learn == /\ ~known /\ known' = TRUE
         /\ UNCHANGED <<world, inbox, at, todo, tables, history, bounds>>

-----------------------------------------------------------------------------
(* Statements.                                                              *)

Outcomes == {"done", "lost", "unconfirmed"}
Applied(o) == o # "lost"

Charge(o) == IF o = "done" THEN UNCHANGED faults
                           ELSE faults < MaxFaults /\ faults' = faults + 1

Flawed(o, S) == flaws' = flaws \union S \union (IF o = "done" THEN {} ELSE {"failed"})

\* By from_me in a direct chat, by any known form of the sender in a group.
SameReactor(r, t) ==
    /\ event[r].side = event[t].side
    /\ group /\ event[t].side = "them" => event[r].form \in SenderAliases(event[t].form)

\* Faulty: a reaction that was removed is not looked for.
MatchesShown(t, j) ==
    {r \in Rows : row[r].shown = "reaction" /\ row[r].jid = j /\ SameReactor(r, t)}

\* The reactions the SELECT of UpsertReaction returns.
Matches(t, j) ==
    {r \in Rows : row[r].shown # "none" /\ row[r].jid = j /\ SameReactor(r, t)}

\* ORDER BY timestamp DESC LIMIT 1.
NewestOf(S) == IF S = {} THEN None
               ELSE CHOOSE r \in S : \A s \in S : row[s].at <= row[r].at

Changed(t) == IF event[t].what = "react" THEN "reaction" ELSE "system"

\* Faulty: AND timestamp > ?.
UpdatedOlder(r, t) == IF row[r].at > t
                      THEN [row EXCEPT ![r].shown = Changed(t), ![r].at = t] ELSE row

\* UPDATE ... AND timestamp <= ?.
Updated(r, t) == IF row[r].at <= t
                 THEN [row EXCEPT ![r].shown = Changed(t), ![r].at = t] ELSE row

\* Faulty: the reaction makes a row whatever its chat.
InsertedAnyway(t, j) ==
    IF row[t].shown = "none"
    THEN [row EXCEPT ![t] = [shown |-> "reaction", jid |-> j, at |-> t]] ELSE row

\* INSERT IGNORE, with the foreign key on wa_chats.
InsertedReaction(t, j) ==
    IF row[t].shown = "none" /\ j \in chats
    THEN [row EXCEPT ![t] = [shown |-> "reaction", jid |-> j, at |-> t]] ELSE row

-----------------------------------------------------------------------------
(* The event handler.                                                       *)

\* The event is done with; the history sync goes on with its next one.
Finish(p, t) ==
    /\ inbox' = IF p = "live" THEN inbox \ {t} ELSE inbox
    /\ todo' = IF p = "sync" THEN todo \ {t} ELSE todo
    /\ at' = [at EXCEPT ![p] = IF p = "sync" /\ todo' # {}
                               THEN [Idle EXCEPT !.step = "select", !.jid = at[p].jid]
                               ELSE Idle]

\* handleMessage looks the chat up; a reaction goes to the chat its message
\* is in, if it finds it there.
LiveBegin(o) ==
    LET raw == RawChat(event[Head].form) IN
    /\ at["live"].step = "idle" /\ inbox # {}
    /\ Cardinality(ChatAliases(raw)) = 1 => o = "done"
    /\ Charge(o)
    /\ at' = [at EXCEPT !["live"] =
                 [step |-> "select", t |-> Head, found |-> None,
                  jid |-> IF o = "done" /\ home \in ChatAliases(raw)
                          THEN home ELSE Canonical(raw)]]
    /\ Flawed(o, {})
    /\ UNCHANGED <<world, known, inbox, todo, tables, handled, syncs, restarts>>

-----------------------------------------------------------------------------
(* UpsertReaction, called from both goroutines.                             *)

\* A member's reactions can be found under both forms.
Traceable(t) == group /\ event[t].side = "them" => known

Writing(p, side) == at[p].step = "write" /\ event[at[p].t].side = side

\* The event handler has its event; a history sync takes any it has to do,
\* and looks for no chat the message may be in.
Current(p) == IF p = "live" THEN {at[p].t} ELSE todo

\* A group member is looked up under the forms known by now.  An event whose
\* SELECT fails is dropped.
Select(p, t, o) ==
    /\ at[p].step = "select" /\ t \in Current(p)
    /\ Charge(o)
    /\ IF o = "done"
       THEN /\ at' = [at EXCEPT ![p] = [step |-> "write", t |-> t, jid |-> @.jid,
                                        found |-> NewestOf(Matches(t, @.jid))]]
            /\ UNCHANGED <<inbox, todo>>
       ELSE Finish(p, t)
    /\ Flawed(o, (IF \E q \in Goroutines \ {p} : Writing(q, event[t].side)
                  THEN {"overlap"} ELSE {})
                \union (IF at[p].jid # home \/ ~Traceable(t) THEN {"astray"} ELSE {}))
    /\ UNCHANGED <<world, known, tables, handled, syncs, restarts>>

\* Faulty: a reaction that was there is changed without telling.
TellsOfNew(t, r) == r = None /\ event[t].what = "react"

\* Whether a statement changed the reaction, and the message is stamped.
Tells(t, r) == r # None \/ event[t].what = "react"

\* The earlier reaction is changed, or the first one inserted; taking back a
\* reaction that is not there runs no statement.
Write(p, o) ==
    LET t == at[p].t
        r == at[p].found
        none == r = None /\ event[t].what = "remove" IN
    /\ at[p].step = "write"
    /\ none => o = "done"
    /\ Charge(o)
    /\ row' = IF ~Applied(o) \/ none THEN row
              ELSE IF r # None THEN Updated(r, t) ELSE InsertedReaction(t, at[p].jid)
    /\ fresh' = (fresh /\ row' = row)
    /\ IF o = "done" /\ Tells(t, r)
       THEN at' = [at EXCEPT ![p].step = "bump"] /\ UNCHANGED <<inbox, todo>>
       ELSE Finish(p, t)
    /\ handled' = handled \union {t}
    /\ Flawed(o, IF none THEN {"tooEarly"} ELSE {})
    /\ UNCHANGED <<world, known, chats, syncs, restarts>>

\* status_updated_at of the message, in the chat of the reaction.
Bump(p, o) ==
    /\ at[p].step = "bump"
    /\ Charge(o)
    /\ fresh' = (fresh \/ (Applied(o) /\ at[p].jid = home))
    /\ Finish(p, at[p].t)
    /\ Flawed(o, {})
    /\ UNCHANGED <<world, known, chats, row, handled, syncs, restarts>>

-----------------------------------------------------------------------------
(* handleHistorySync.                                                       *)

\* The chat is looked up and written once, for all its messages.
SyncBegin(f, S) ==
    LET j == Canonical(RawChat(f)) IN
    /\ at["sync"].step = "idle"
    /\ syncs < MaxSyncs /\ syncs' = syncs + 1
    /\ S \subseteq Happened
    /\ at' = [at EXCEPT !["sync"] = [Idle EXCEPT !.step = "select", !.jid = j]]
    /\ S # {} /\ todo' = S
    /\ chats' = chats \union {j}
    /\ UNCHANGED <<world, known, inbox, row, fresh, history, faults, restarts>>

-----------------------------------------------------------------------------
\* A new Bridge: the event being handled comes again, or is lost.
Restart ==
    /\ restarts < MaxRestarts
    /\ restarts' = restarts + 1
    /\ inbox' \in {inbox, inbox \ {at["live"].t}}
    /\ at' = [p \in Goroutines |-> Idle] /\ todo' = {}
    /\ flaws' = IF \A p \in Goroutines : at[p].step = "idle" THEN flaws
                ELSE flaws \union {"failed"}
    /\ UNCHANGED <<world, known, tables, handled, syncs, faults>>

Bridge ==
    \/ Restart
    \/ \E o \in Outcomes :
          \/ LiveBegin(o)
          \/ \E p \in Goroutines : Write(p, o) \/ Bump(p, o) \/ \E t \in Times : Select(p, t, o)
    \/ \E f \in Forms, S \in SUBSET Times : SyncBegin(f, S)

Next == SomethingHappens \/ Learn \/ Bridge

Spec == Init /\ [][Next]_vars

-----------------------------------------------------------------------------
(* Properties.                                                              *)

Quiet == inbox = {} /\ \A p \in Goroutines : at[p].step = "idle"

RowsOf(side) == {r \in Rows : row[r].shown # "none" /\ event[r].side = side}

\* store.go:644, "keeps one reaction per (sender, target message)": unless the
\* two goroutines overlapped, or the reaction was stored apart from its
\* message or from the sender's other form.
OneReaction ==
    flaws \intersect {"overlap", "astray"} = {}
        => \A side \in {"us", "them"} : Cardinality(RowsOf(side)) <= 1

\* Whatever the order in which the goroutines store them, the last reaction
\* counts - or its removal, when what it removes was there.
LastReactionCounts ==
    Quiet /\ flaws = {} =>
        \A side \in {"us", "them"} :
            LET done == {t \in handled : event[t].side = side}
                shown == {r \in RowsOf(side) : row[r].shown = "reaction"} IN
            done # {} =>
                LET last == CHOOSE t \in done : \A s \in done : s <= t IN
                IF event[last].what = "react" THEN {row[r].at : r \in shown} = {last}
                                              ELSE shown = {}

\* store.go:656, the message is stamped "so the web client's incremental
\* refresh picks the new chip up".
ChipsRefresh == Quiet /\ flaws \intersect {"failed", "astray"} = {} => fresh

\* wabridge.go:794, "The reaction lives in the same chat row as the message
\* it targets".
WithItsMessage ==
    [][known /\ home # "none" =>
         \A r \in Rows : row[r].shown = "none" /\ row'[r].shown # "none"
                            => row'[r].jid = home]_vars
=============================================================================
