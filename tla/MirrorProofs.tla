---------------------------- MODULE MirrorProofs -----------------------------
(***************************************************************************)
(* The tail of the chat list, the unread count and the stored texts, for   *)
(* any number of events, history syncs, failed statements and restarts.    *)
(*                                                                         *)
(* Two arguments that have only the typing and the numbering of the events *)
(* in common.  The count: events are handled oldest first, so their        *)
(* messages that were counted and not read are the last ones counted       *)
(* (CountedInOrder), and what a read leaves in the count is either among   *)
(* them or was never counted.  The tail: while nothing excuses it and no   *)
(* goroutine is about to write it, it is of the newest row there is, or of *)
(* the message whose row the event handler inserts next (TailHolds).       *)
(***************************************************************************)
EXTENDS Mirror, FiniteSetTheorems, WellFoundedInduction, TLAPS

\* Events are numbered without a gap.
Numbered == \E k \in 0..Last : Happened = 1..k

\* The bridge handles and stores nothing but events that happened, a row has
\* its chat, and what a writer is about to write about is there.
Real ==
    /\ inbox \union Stored \union sync.todo \subseteq Happened
    /\ \A t \in Happened : event[t].what \in {"edit", "revoke", "read"} => event[t].of \in Times
    /\ live.step # "idle" => inbox # {}
    /\ live.step = "insert" \/ sync.step = "rows" \/ Stored # {} => chat.known
    /\ live.step = "select" \/ sync.inserted => Stored # {}
    /\ out.step # "idle" => out.at \in Happened /\ event[out.at].side = "us"

\* The events that were handled once, and once more for each restart.
Handled == Cardinality(Happened \ inbox) + restarts
           + (IF live.step = "insert" THEN 1 ELSE 0)

\* A message is counted when it is handled.
Bounded == chat.unread <= Handled /\ again <= Handled

Basic == TypeOK /\ Numbered /\ Real /\ Bounded

\* What is counted is theirs and precedes what is still to be handled; what is
\* unread is the last that was counted.
CountedInOrder ==
    /\ counted \subseteq Theirs(Happened)
    /\ \A c \in counted, i \in inbox : c <= i
    /\ \A s \in unseen, c \in counted : s < c => c \in unseen

\* A tail of a stored row shows the row as it is.
Shows(tail) == tail.form = row[tail.at] /\ tail.us = (event[tail.at].side = "us")

\* What a SELECT found is of a row, which is never taken away.
FoundReal ==
    /\ live.step = "update" =>
          live.found.at \in Stored /\ live.found.us = (event[live.found.at].side = "us")
    /\ sync.step = "update" =>
          sync.found.at \in Stored /\ sync.found.us = (event[sync.found.at].side = "us")

\* A goroutine that changed the rows is about to write the tail.
Rewritten == live.step \in {"select", "update"} \/ sync.step # "idle" \/ out.step = "chat"

\* The tail is of the newest row, or of the message inserted next.
TailHolds ==
    ~excused /\ ~Rewritten =>
        /\ \A t \in Stored : t <= chat.tail.at
        /\ live.step = "insert" => head <= chat.tail.at
        /\ IF chat.tail.at \in Stored THEN Shows(chat.tail)
           ELSE IF live.step = "insert" THEN chat.tail = TailOf(head)
           ELSE Stored = {}

IInv == /\ Basic
        /\ CountedInOrder
        /\ UnreadCounts
        /\ FoundReal
        /\ TailHolds

-----------------------------------------------------------------------------
(* Firsts, lasts and sizes.                                                 *)

\* A set of numbers has a first one.
LEMMA FirstExists ==
    ASSUME NEW S \in SUBSET Nat, S # {}
    PROVE  \E r \in S : \A s \in S : r <= s
<1>1. PICK r \in S : \A s \in S : <<s, r>> \notin OpToRel(<, Nat)
  BY NatLessThanWellFounded, WFMin
<1>2. \A s \in S : ~(s < r)
  BY <1>1 DEF OpToRel
<1> QED
  BY <1>2

\* The event handled is the first of the inbox.
LEMMA HeadIsFirst ==
    ASSUME TypeOK, inbox # {}
    PROVE  head \in inbox /\ \A s \in inbox : head <= s
<1>1. inbox \in SUBSET Nat
  BY DEF TypeOK, Times
<1> QED
  BY <1>1, FirstExists DEF head

\* ORDER BY timestamp DESC LIMIT 1 returns the newest of some rows.
LEMMA NewestIsLast ==
    ASSUME NEW S \in SUBSET Times, S # {}
    PROVE  NewestOf(S) \in S /\ \A s \in S : s <= NewestOf(S)
<1> DEFINE Ages == {Last - s : s \in S}
<1>1. \A s \in S : s \in 1..Last /\ Last - s \in Nat
  BY MirrorAssumption DEF Times
<1>2. Ages \in SUBSET Nat /\ Ages # {}
  BY <1>1
<1>3. PICK a \in Ages : \A b \in Ages : a <= b
  BY <1>2, FirstExists
<1>4. PICK t \in S : a = Last - t
  BY <1>3
<1>5. \A s \in S : Last - t <= Last - s
  BY <1>3, <1>4
<1>6. \A s \in S : s <= t
  BY <1>5, MirrorAssumption DEF Times
<1> QED
  BY <1>6 DEF NewestOf

\* Times, and every set of them, are finite in number.
LEMMA TimesAreFinite ==
    ASSUME NEW S \in SUBSET Times
    PROVE  IsFiniteSet(S) /\ Cardinality(S) \in Nat /\ Cardinality(S) <= Last
<1>1. IsFiniteSet(Times) /\ Cardinality(Times) = Last
  BY FS_Interval, MirrorAssumption DEF Times
<1> QED
  BY <1>1, FS_Subset, FS_CardinalityType

\* The next event follows the last one.
LEMMA NowIsNext ==
    ASSUME NEW k \in 0..Last, Happened = 1..k
    PROVE  Now = k + 1 /\ Now \notin Happened
<1>1. Cardinality(1..k) = k
  BY FS_Interval
<1> QED
  BY <1>1 DEF Now

-----------------------------------------------------------------------------
(* What a step does to the events and the rows.                             *)

\* Something new happens after everything that happened.
LEMMA NewIsLast ==
    ASSUME Basic, SomethingHappens \/ Send
    PROVE  /\ event' \in [Times -> Event]
           /\ Now \in Times \ Happened /\ Happened' = Happened \union {Now}
           /\ \A t \in Happened : t < Now /\ event'[t] = event[t]
           /\ event'[Now].what \in {"edit", "revoke", "read"} => event'[Now].of \in Times
           /\ Send => event'[Now].side = "us"
           /\ Numbered'
<1>1. PICK k \in 0..Last : Happened = 1..k
  BY DEF Basic, Numbered
<1>2. Now = k + 1 /\ Now \notin Happened
  BY <1>1, NowIsNext
<1>3. Now \in Times
  BY DEF SomethingHappens, Send, Happens
<1> DEFINE IsNew(w, s, o) == /\ Happens(w, s, o)
                             /\ w # "message" => o \in Times
                             /\ Send => s = "us"
<1>4. PICK what \in {"message", "edit", "revoke", "read"}, side \in {"us", "them"},
           of \in 0..Last : IsNew(what, side, of)
  <2>1. \A m \in Happened : m \in 0..Last /\ m \in Times /\ event[m].side \in {"us", "them"}
    BY MirrorAssumption DEF Basic, TypeOK, Happened, Times, Event
  <2>2. 0 \in 0..Last
    BY MirrorAssumption
  <2>3. CASE Send
    BY <2>2, <2>3 DEF Send
  <2>4. CASE SomethingHappens /\ ~Send
    <3>1. ASSUME NEW s \in {"us", "them"}, Happens("message", s, 0) 
          PROVE  IsNew("message", s, 0)
      BY <2>2, <2>4, <3>1
    <3>2. ASSUME NEW m \in Happened, NEW w \in {"edit", "revoke"}, Happens(w, event[m].side, m)
          PROVE  IsNew(w, event[m].side, m)
      BY <2>1, <2>4, <3>2
    <3>3. ASSUME NEW m \in Happened, Happens("read", "us", m) 
          PROVE  IsNew("read", "us", m)
      BY <2>1, <2>4, <3>3
    <3> QED
      BY <2>1, <2>2, <2>4, <3>1, <3>2, <3>3 DEF SomethingHappens
  <2> QED
    BY <2>3, <2>4
<1> DEFINE e == [what |-> what, side |-> side, of |-> of]
<1>5. event \in [Times -> Event] /\ Happened \subseteq Times /\ e \in Event
  BY DEF Basic, TypeOK, Happened, Event
<1>6. /\ event' \in [Times -> Event] /\ event'[Now] = e
      /\ \A t \in Times \ {Now} : event'[t] = event[t]
  BY <1>3, <1>4, <1>5 DEF Happens
<1>7. Happened' = Happened \union {Now}
  BY <1>3, <1>4, <1>6 DEF Happened
<1>8. Happened' = 1..(k + 1) /\ k + 1 \in 0..Last
  BY <1>1, <1>2, <1>3, <1>7, MirrorAssumption DEF Times
<1>9. Numbered'
  BY <1>8 DEF Numbered
<1> QED
  BY <1>1, <1>2, <1>3, <1>4, <1>5, <1>6, <1>7, <1>9

\* The bridge changes nothing of what happened.
LEMMA BridgeHandlesOnly ==
    ASSUME Bridge \/ UNCHANGED vars
    PROVE  event' = event /\ Happened' = Happened
<1>1. event' = event
  BY DEF Bridge, Restart, LiveUpsert, LiveInsert, LiveAmend, LiveSelect, LiveUpdate, LiveRead,
         SyncStart, SyncRevoke, SyncInsert, SyncSelect, SyncUpdate, OutInsert, OutChat, vars
<1> QED
  BY <1>1 DEF Happened

\* An INSERT leaves the rows there are, and adds at most its own.
LEMMA InsertAdds ==
    ASSUME TypeOK, NEW t \in Times
    PROVE  /\ Inserted(t) \in [Times -> Forms \union {"none"}]
           /\ \A s \in Times \ {t} : Inserted(t)[s] = row[s]
           /\ Inserted(t)[t] = IF row[t] = "none" /\ chat.known THEN TailOf(t).form ELSE row[t]
           /\ TailOf(t).form \in {"text", "deleted"}
<1>1. TailOf(t).form \in {"text", "deleted"}
  BY DEF TailOf
<1> QED
  BY <1>1 DEF TypeOK, Inserted, Forms

\* An edit or a delete changes the row it is of, and no row appears or goes.
LEMMA AmendChanges ==
    ASSUME TypeOK, NEW t \in Times, event[t].of \in Times, row[event[t].of] # "none"
    PROVE  /\ Amended(t) \in [Times -> Forms \union {"none"}]
           /\ \A s \in Times : Amended(t)[s] = "none" <=> row[s] = "none"
           /\ \A s \in Times : row[s] = "deleted" => Amended(t)[s] = "deleted"
           /\ \A s \in Times : row[s] = "edited" => Amended(t)[s] # "text"
  BY DEF TypeOK, Amended, Forms

\* A row that is there is never taken away or put back to its first text.
LEMMA RowsStay ==
    ASSUME Basic, [Next]_vars
    PROVE  /\ row' \in [Times -> Forms \union {"none"}]
           /\ \A t \in Times : /\ row[t] = "deleted" => row'[t] = "deleted"
                               /\ row[t] = "edited" => row'[t] # "text"
                               /\ row[t] # "none" => row'[t] # "none"
           /\ Stored \subseteq Stored' /\ Stored' \subseteq Happened
           /\ Stored' # {} => Stored # {} \/ chat.known
<1> DEFINE Kept == /\ row' \in [Times -> Forms \union {"none"}]
                   /\ \A t \in Times : /\ row[t] = "deleted" => row'[t] = "deleted"
                                       /\ row[t] = "edited" => row'[t] # "text"
                                       /\ row[t] # "none" => row'[t] # "none"
           Grown == \A t \in Times : row'[t] # "none" =>
                       row[t] # "none" \/ (t \in Happened /\ chat.known)
<1>1. TypeOK /\ Happened \subseteq Times /\ Stored \subseteq Happened
  BY DEF Basic, Real, Happened
<1>2. ASSUME NEW t \in Happened, row' = Inserted(t)
      PROVE  Kept /\ Grown
  BY <1>1, <1>2, InsertAdds DEF Forms
<1>3. ASSUME NEW t \in Happened, row' = Amended(t), row[event[t].of] # "none",
             event[t].what \in {"edit", "revoke"}
      PROVE  Kept /\ Grown
  BY <1>1, <1>3, AmendChanges DEF Basic, Real
<1>4. ASSUME row' = row
      PROVE  Kept /\ Grown
  BY <1>1, <1>4 DEF TypeOK
<1>5. inbox # {} => head \in Happened
  BY <1>1, HeadIsFirst DEF Basic, Real
<1>6. ASSUME NEW o \in Outcomes, LiveInsert(o)
      PROVE  Kept /\ Grown
  BY <1>2, <1>4, <1>5, <1>6 DEF LiveInsert, Handles
<1>7. ASSUME NEW o \in Outcomes, LiveAmend(o)
      PROVE  Kept /\ Grown
  BY <1>3, <1>4, <1>5, <1>7 DEF LiveAmend, Handles
<1>8. ASSUME NEW o \in Outcomes, NEW t \in Times, SyncRevoke(t, o)
      PROVE  Kept /\ Grown
  BY <1>3, <1>4, <1>8 DEF SyncRevoke, Basic, Real
<1>9. ASSUME NEW o \in Outcomes, NEW t \in Times, SyncInsert(t, o)
      PROVE  Kept /\ Grown
  BY <1>2, <1>4, <1>9 DEF SyncInsert, Basic, Real
<1>10. ASSUME NEW o \in Outcomes, OutInsert(o)
       PROVE  Kept /\ Grown
  BY <1>2, <1>4, <1>10 DEF OutInsert, Basic, Real
<1>11. Kept /\ Grown
  <2>1. ASSUME SomethingHappens \/ Send \/ Restart \/ UNCHANGED vars
        PROVE  row' = row
    BY <2>1 DEF SomethingHappens, Send, Restart, vars, tables
  <2>2. ASSUME NEW o, LiveUpsert(o) \/ LiveSelect(o) \/ LiveUpdate(o) \/ LiveRead(o)
                      \/ SyncSelect(o) \/ SyncUpdate(o) \/ OutChat(o)
                      \/ \E S \in SUBSET Times : SyncStart(S, o)
        PROVE  row' = row
    BY <2>2 DEF LiveUpsert, LiveSelect, LiveUpdate, LiveRead, SyncStart, SyncSelect,
                SyncUpdate, OutChat, tables
  <2> QED
    BY <1>4, <1>6, <1>7, <1>8, <1>9, <1>10, <2>1, <2>2 DEF Next, Bridge
<1> QED
  BY <1>1, <1>11 DEF Stored

\* What happened stays as it was.
LEMMA RecordStays ==
    ASSUME Basic, [Next]_vars
    PROVE  /\ event' \in [Times -> Event] /\ Numbered'
           /\ Happened \subseteq Happened' /\ \A t \in Happened : event'[t] = event[t]
           /\ \A t \in Happened' : event'[t].what \in {"edit", "revoke", "read"}
                                      => event'[t].of \in Times
<1>1. TypeOK /\ Numbered /\ Happened \subseteq Times
      /\ \A t \in Happened : event[t].what \in {"edit", "revoke", "read"} => event[t].of \in Times
  BY DEF Basic, Real, Happened
<1>2. CASE SomethingHappens \/ Send
  BY <1>1, <1>2, NewIsLast
<1>3. CASE Bridge \/ UNCHANGED vars
  BY <1>1, <1>3, BridgeHandlesOnly DEF TypeOK, Numbered
<1> QED
  BY <1>2, <1>3 DEF Next

-----------------------------------------------------------------------------
(* How many events were handled.                                            *)

\* An event more is handled when it leaves the inbox.
LEMMA OneMore ==
    ASSUME NEW H \in SUBSET Times, NEW I \in SUBSET H, NEW t \in I
    PROVE  Cardinality(H \ (I \ {t})) = Cardinality(H \ I) + 1
<1>1. H \ (I \ {t}) = (H \ I) \union {t} /\ t \notin H \ I
  OBVIOUS
<1>2. IsFiniteSet(H \ I)
  BY TimesAreFinite
<1> QED
  BY <1>1, <1>2, FS_AddElement

\* Each event is handled once, and once more after a restart.
LEMMA HandledIsBounded ==
    ASSUME TypeOK, Real
    PROVE  Handled \in Nat /\ Handled <= Last + restarts
<1>1. Happened \subseteq Times /\ inbox \subseteq Happened /\ restarts \in Nat
  BY DEF TypeOK, Real, Happened
<1>2. Cardinality(Happened \ inbox) \in Nat /\ Cardinality(Happened \ inbox) <= Last
  BY <1>1, TimesAreFinite
<1>3. CASE live.step = "insert"
  <2>1. head \in inbox
    BY <1>3, HeadIsFirst DEF Real
  <2>2. Cardinality(Happened \ (inbox \ {head})) = Cardinality(Happened \ inbox) + 1
    BY <1>1, <2>1, OneMore
  <2>3. Cardinality(Happened \ (inbox \ {head})) <= Last
    BY <1>1, TimesAreFinite
  <2> QED
    BY <1>1, <1>2, <1>3, <2>2, <2>3, MirrorAssumption DEF Handled
<1>4. CASE live.step # "insert"
  BY <1>1, <1>2, <1>4, MirrorAssumption DEF Handled
<1> QED
  BY <1>3, <1>4

\* The handled events become no fewer.
LEMMA HandledGrows ==
    ASSUME Basic, [Next]_vars
    PROVE  Handled \in Nat /\ Handled' \in Nat /\ Handled <= Handled'
<1> DEFINE H == Happened
           C == Cardinality(H \ inbox)
           Ins == IF live.step = "insert" THEN 1 ELSE 0
<1>1. /\ TypeOK /\ Real /\ H \in SUBSET Times /\ inbox \in SUBSET H
      /\ restarts \in Nat /\ Handled \in Nat
  BY HandledIsBounded DEF Basic, TypeOK, Real, Happened
<1>2. C \in Nat /\ Ins \in {0, 1} /\ Handled = C + restarts + Ins
  BY <1>1, TimesAreFinite DEF Handled
<1>3. inbox # {} => head \in inbox
  BY <1>1, HeadIsFirst
<1>4. ASSUME NEW D \in SUBSET Times, H \ inbox \subseteq D
      PROVE  Cardinality(D) \in Nat /\ C <= Cardinality(D)
  BY <1>1, <1>4, TimesAreFinite, FS_Subset
<1>5. CASE SomethingHappens
  <2>1. H' = H \union {Now} /\ Now \notin H
    BY <1>5, NewIsLast
  <2>2. H' \ inbox' = H \ inbox
    BY <1>1, <1>5, <2>1 DEF SomethingHappens
  <2>3. Handled' = Handled
    BY <1>5, <2>2 DEF SomethingHappens, Handled, bounds
  <2> QED
    BY <1>1, <2>3
<1>6. CASE Send
  <2>1. H' = H \union {Now} /\ Now \in Times
    BY <1>6, NewIsLast
  <2>2. Cardinality(H' \ inbox) \in Nat /\ C <= Cardinality(H' \ inbox)
    BY <1>1, <1>4, <2>1
  <2>3. Handled' = Cardinality(H' \ inbox) + restarts + Ins
    BY <1>6 DEF Send, Handled, bounds
  <2> QED
    BY <1>1, <1>2, <2>2, <2>3
<1>7. CASE Restart
  <2>1. H' = H /\ inbox' \subseteq inbox /\ live'.step = "idle" /\ restarts' = restarts + 1
    BY <1>7, BridgeHandlesOnly DEF Bridge, Restart, Idle
  <2>2. Cardinality(H \ inbox') \in Nat /\ C <= Cardinality(H \ inbox')
    BY <1>1, <1>4, <2>1
  <2>3. Handled' = Cardinality(H \ inbox') + restarts + 1
    BY <1>1, <2>1, <2>2 DEF Handled
  <2> QED
    BY <1>1, <1>2, <2>2, <2>3
<1>8. ASSUME H' = H, restarts' = restarts, inbox' = inbox,
             live.step = "insert" => live'.step = "insert"
      PROVE  Handled' \in Nat /\ Handled <= Handled'
  BY <1>1, <1>2, <1>8 DEF Handled
<1>9. ASSUME H' = H, restarts' = restarts, inbox # {}, Done
      PROVE  Handled' \in Nat /\ Handled <= Handled'
  <2>1. inbox' = inbox \ {head} /\ live'.step = "idle"
    BY <1>9 DEF Done, Idle
  <2>2. Cardinality(H \ inbox') = C + 1
    BY <1>1, <1>3, <1>9, <2>1, OneMore
  <2>3. Handled' = C + 1 + restarts
    BY <1>1, <1>2, <1>9, <2>1, <2>2 DEF Handled
  <2> QED
    BY <1>1, <1>2, <2>3
<1>10. ASSUME NEW o \in Outcomes, LiveUpsert(o) \/ LiveInsert(o) \/ LiveAmend(o)
                                  \/ LiveSelect(o) \/ LiveUpdate(o) \/ LiveRead(o)
       PROVE  Handled' \in Nat /\ Handled <= Handled'
  <2>1. H' = H /\ restarts' = restarts /\ inbox # {}
    BY <1>1, <1>10, BridgeHandlesOnly DEF Bridge, LiveUpsert, LiveInsert, LiveAmend, LiveSelect,
       LiveUpdate, LiveRead, Handles, Real
  <2>2. Done \/ (inbox' = inbox /\ live.step # "insert")
    BY <1>10 DEF LiveUpsert, LiveInsert, LiveAmend, LiveSelect, LiveUpdate, LiveRead, Handles,
                 Goes
  <2> QED
    BY <1>8, <1>9, <2>1, <2>2
<1>11. ASSUME NEW o \in Outcomes,
              \/ \E S \in SUBSET Times : SyncStart(S, o)
              \/ \E t \in Times : SyncRevoke(t, o) \/ SyncInsert(t, o)
              \/ SyncSelect(o) \/ SyncUpdate(o) \/ OutInsert(o) \/ OutChat(o)
       PROVE  Handled' \in Nat /\ Handled <= Handled'
  <2>1. H' = H /\ restarts' = restarts /\ inbox' = inbox /\ live' = live
    BY <1>11, BridgeHandlesOnly DEF Bridge, SyncStart, SyncRevoke, SyncInsert, SyncSelect,
       SyncUpdate, OutInsert, OutChat
  <2> QED
    BY <1>8, <2>1
<1>12. CASE UNCHANGED vars
  <2>1. H' = H /\ restarts' = restarts /\ inbox' = inbox /\ live' = live
    BY <1>12, BridgeHandlesOnly DEF vars, bounds
  <2> QED
    BY <1>1, <1>8, <2>1
<1> QED
  BY <1>1, <1>5, <1>6, <1>7, <1>10, <1>11, <1>12 DEF Next, Bridge

\* A message that is counted is one more that was handled.
LEMMA CountedIsHandled ==
    ASSUME Basic, NEW o \in Outcomes, LiveUpsert(o)
    PROVE  Handled' = Handled + 1
<1>1. /\ TypeOK /\ Happened \in SUBSET Times /\ inbox \in SUBSET Happened /\ restarts \in Nat
      /\ live.step # "insert" /\ inbox # {} /\ restarts' = restarts
  BY DEF Basic, TypeOK, Real, Happened, LiveUpsert, Handles
<1>2. Happened' = Happened /\ head \in inbox
  BY <1>1, BridgeHandlesOnly, HeadIsFirst DEF Bridge
<1>3. Cardinality(Happened \ inbox) \in Nat
  BY <1>1, TimesAreFinite
<1>4. CASE o = "done"
  <2>1. inbox' = inbox /\ live'.step = "insert"
    BY <1>4 DEF LiveUpsert, Goes, Basic, TypeOK
  <2> QED
    BY <1>1, <1>2, <1>3, <2>1 DEF Handled
<1>5. CASE o # "done"
  <2>1. inbox' = inbox \ {head} /\ live'.step = "idle"
    BY <1>5 DEF LiveUpsert, Done, Idle
  <2>2. Cardinality(Happened \ inbox') = Cardinality(Happened \ inbox) + 1
    BY <1>1, <1>2, <2>1, OneMore
  <2> QED
    BY <1>1, <1>2, <1>3, <2>1, <2>2 DEF Handled
<1> QED
  BY <1>4, <1>5

-----------------------------------------------------------------------------
(* What a step does to the chat row.                                        *)

\* What a message writes is a tail.
LEMMA TailOfIsTail ==
    ASSUME TypeOK, NEW t \in Times
    PROVE  TailOf(t) \in Tail /\ TailOf(t).at = t
           /\ TailOf(t).us = (event[t].side = "us") /\ TailOf(t).form \in {"text", "deleted"}
  BY MirrorAssumption DEF TailOf, Tail, Forms, Times

\* What the SELECT returns is the tail of the newest row, if there is a row.
LEMMA CurrentIsTail ==
    ASSUME TypeOK, Stored # {}
    PROVE  /\ CurrentTail \in Tail /\ CurrentTail.at \in Stored /\ Shows(CurrentTail)
           /\ \A t \in Stored : t <= CurrentTail.at
<1> DEFINE t == NewestOf(Stored)
<1>1. Stored \subseteq Times /\ t \in Stored /\ \A s \in Stored : s <= t
  BY NewestIsLast DEF Stored
<1>2. t \in 0..Last /\ row[t] \in Forms
  BY <1>1, MirrorAssumption DEF TypeOK, Stored, Times
<1>3. CurrentTail = [at |-> t, form |-> row[t], us |-> event[t].side = "us"]
  BY DEF CurrentTail
<1> HIDE DEF t
<1> QED
  BY <1>1, <1>2, <1>3 DEF Tail, Shows

\* t is counted, or clears the count.
Counts(t) == chat'.unread = Upserted(t).unread /\ Count(t)

\* A read up to m sets the count.
Reads(m) ==
    /\ chat'.unread = LeftUnread(m)
    /\ unseen' = {s \in unseen : m \in Stored /\ s > m}
    /\ missing' = {s \in unseen' : s \in missing \/ s \notin Stored}
    /\ UNCHANGED <<again, counted>>

\* The event handler and the outbound goroutine count, a read sets the count,
\* and no other step touches it.
LEMMA WhoCounts ==
    ASSUME Basic, [Next]_vars
    PROVE  \/ (\E o \in Outcomes : LiveUpsert(o)) /\ Counts(head)
           \/ (\E o \in Outcomes : OutChat(o)) /\ Counts(out.at)
           \/ (\E o \in Outcomes : LiveRead(o)) /\ Reads(event[head].of)
           \/ chat'.unread = chat.unread /\ NoCount
<1>1. chat \in [known : BOOLEAN, tail : Tail, unread : 0..(Last + MaxRestarts)]
  BY DEF Basic, TypeOK
<1>2. ASSUME NEW o \in Outcomes, LiveUpsert(o)
      PROVE  Counts(head) \/ (chat'.unread = chat.unread /\ NoCount)
  BY <1>2 DEF LiveUpsert, Counts
<1>3. ASSUME NEW o \in Outcomes, OutChat(o)
      PROVE  Counts(out.at) \/ (chat'.unread = chat.unread /\ NoCount)
  BY <1>3 DEF OutChat, Counts
<1>4. ASSUME NEW o \in Outcomes, LiveRead(o)
      PROVE  Reads(event[head].of) \/ (chat'.unread = chat.unread /\ NoCount)
  BY <1>1, <1>4 DEF LiveRead, Reads, NoCount
<1>5. ASSUME NEW o \in Outcomes, LiveInsert(o) \/ LiveAmend(o) \/ LiveSelect(o) \/ SyncSelect(o)
                 \/ OutInsert(o) \/ \E t \in Times : SyncRevoke(t, o) \/ SyncInsert(t, o)
      PROVE  chat'.unread = chat.unread /\ NoCount
  BY <1>5 DEF LiveInsert, LiveAmend, LiveSelect, SyncSelect, OutInsert, SyncRevoke, SyncInsert,
              tables
<1>6. ASSUME NEW o \in Outcomes, LiveUpdate(o) \/ SyncUpdate(o)
                                 \/ \E S \in SUBSET Times : SyncStart(S, o)
      PROVE  chat'.unread = chat.unread /\ NoCount
  BY <1>1, <1>6 DEF LiveUpdate, SyncUpdate, SyncStart, UpsertedBare
<1>7. ASSUME SomethingHappens \/ Send \/ Restart \/ UNCHANGED vars
      PROVE  chat'.unread = chat.unread /\ NoCount
  BY <1>7 DEF SomethingHappens, Send, Restart, vars, tables, history, NoCount
<1> QED
  BY <1>2, <1>3, <1>4, <1>5, <1>6, <1>7 DEF Next, Bridge

\* The chat row keeps its shape and, once it is there, stays.
LEMMA ChatStays ==
    ASSUME Basic, [Next]_vars
    PROVE  /\ chat' \in [known : BOOLEAN, tail : Tail, unread : Int]
           /\ chat.known => chat'.known
<1> DEFINE Row == [known : BOOLEAN, tail : Tail, unread : Int]
           Kept == chat' \in Row /\ (chat.known => chat'.known)
<1>1. TypeOK /\ chat \in Row /\ chat.unread \in Nat
  BY MirrorAssumption DEF Basic, TypeOK
<1>2. ASSUME NEW t \in Times
      PROVE  Upserted(t) \in Row /\ Upserted(t).known
  BY <1>1, TailOfIsTail DEF Upserted
<1>3. ASSUME chat' = chat PROVE Kept
  BY <1>1, <1>3
<1>4. ASSUME NEW tail \in Tail, chat' = [chat EXCEPT !.tail = tail] PROVE Kept
  BY <1>1, <1>4
<1>5. inbox # {} => head \in Times
  BY <1>1, HeadIsFirst DEF TypeOK
<1>6. out.step # "idle" => out.at \in Times
  BY DEF Basic, Real, Happened
<1>7. ASSUME NEW o \in Outcomes, LiveUpsert(o) PROVE Kept
  BY <1>2, <1>3, <1>5, <1>7 DEF LiveUpsert, Handles
<1>8. ASSUME NEW o \in Outcomes, OutChat(o) PROVE Kept
  BY <1>2, <1>3, <1>6, <1>8 DEF OutChat
<1>9. ASSUME NEW o \in Outcomes, LiveRead(o) PROVE Kept
  <2> DEFINE n == LeftUnread(event[head].of)
  <2>1. ASSUME NEW m PROVE LeftUnread(m) \in Int
    <3>1. {s \in Theirs(Stored) : m \in Stored /\ s > m} \in SUBSET Times
      BY DEF Theirs, Stored
    <3>2. Cardinality({s \in Theirs(Stored) : m \in Stored /\ s > m}) \in Nat
      BY <3>1, TimesAreFinite
    <3> QED
      BY <1>1, <3>2 DEF LeftUnread
  <2>2. n \in Int
    BY <2>1
  <2>3. chat' = chat \/ chat' = [chat EXCEPT !.unread = n]
    BY <1>9 DEF LiveRead
  <2> HIDE DEF n
  <2> QED
    BY <1>1, <2>2, <2>3
<1>10. ASSUME NEW o \in Outcomes, LiveUpdate(o) PROVE Kept
  BY <1>1, <1>3, <1>4, <1>10 DEF LiveUpdate, TypeOK
<1>11. ASSUME NEW o \in Outcomes, SyncUpdate(o) PROVE Kept
  BY <1>1, <1>3, <1>4, <1>11 DEF SyncUpdate, TypeOK
<1>12. ASSUME NEW o \in Outcomes, NEW S \in SUBSET Times, SyncStart(S, o) PROVE Kept
  <2>1. UpsertedBare \in Row /\ UpsertedBare.known
    BY <1>1 DEF UpsertedBare, Tail
  <2> QED
    BY <1>3, <1>12, <2>1 DEF SyncStart
<1>13. ASSUME NEW o \in Outcomes, LiveInsert(o) \/ LiveAmend(o) \/ LiveSelect(o) \/ SyncSelect(o)
                 \/ OutInsert(o) \/ \E t \in Times : SyncRevoke(t, o) \/ SyncInsert(t, o)
       PROVE  Kept
  BY <1>3, <1>13 DEF LiveInsert, LiveAmend, LiveSelect, SyncSelect, OutInsert, SyncRevoke,
                     SyncInsert, tables
<1>14. ASSUME SomethingHappens \/ Send \/ Restart \/ UNCHANGED vars
       PROVE  Kept
  BY <1>3, <1>14 DEF SomethingHappens, Send, Restart, vars, tables
<1> QED
  BY <1>7, <1>8, <1>9, <1>10, <1>11, <1>12, <1>13, <1>14 DEF Next, Bridge

-----------------------------------------------------------------------------
(* The count.                                                               *)

\* What is left of the count is at most what it was, and at most the newer
\* messages of theirs.
LEMMA LeftIsLess ==
    ASSUME TypeOK, NEW m
    PROVE  LET newer == {s \in Theirs(Stored) : m \in Stored /\ s > m} IN
           /\ newer \in SUBSET Times /\ LeftUnread(m) \in Nat
           /\ LeftUnread(m) = Cardinality(newer) \/ LeftUnread(m) = chat.unread
           /\ LeftUnread(m) <= Cardinality(newer) /\ LeftUnread(m) <= chat.unread
<1> DEFINE newer == {s \in Theirs(Stored) : m \in Stored /\ s > m}
<1>1. newer \in SUBSET Times
  BY DEF Theirs, Stored
<1>2. Cardinality(newer) \in Nat /\ chat.unread \in Nat
  BY <1>1, TimesAreFinite, MirrorAssumption DEF TypeOK
<1> QED
  BY <1>1, <1>2 DEF LeftUnread

\* The count stays below what was handled, and its history is of its kind.
LEMMA CountIsBounded ==
    ASSUME Basic, [Next]_vars
    PROVE  /\ chat'.unread \in Nat /\ chat'.unread <= Handled'
           /\ again' \in Nat /\ again' <= Handled'
           /\ missing' \subseteq unseen' /\ unseen' \subseteq counted' /\ counted' \subseteq Times
<1>1. /\ TypeOK /\ chat.unread \in Nat /\ again \in Nat
      /\ missing \subseteq unseen /\ unseen \subseteq counted /\ counted \subseteq Times
      /\ chat.unread <= Handled /\ again <= Handled
  BY MirrorAssumption DEF Basic, TypeOK, Bounded
<1>2. Handled \in Nat /\ Handled' \in Nat /\ Handled <= Handled'
  BY HandledGrows
<1>3. CASE (\E o \in Outcomes : LiveUpsert(o)) /\ Counts(head)
  <2>1. Handled' = Handled + 1
    BY <1>3, CountedIsHandled
  <2>2. head \in Times
    BY <1>1, <1>3, HeadIsFirst DEF LiveUpsert, Handles, Basic, Real, TypeOK
  <2> QED
    BY <1>1, <1>2, <1>3, <2>1, <2>2 DEF Counts, Upserted, Count
<1>4. CASE (\E o \in Outcomes : OutChat(o)) /\ Counts(out.at)
  <2>1. event[out.at].side = "us"
    BY <1>4 DEF OutChat, Basic, Real
  <2> QED
    BY <1>1, <1>2, <1>4, <2>1 DEF Counts, Upserted, Count
<1>5. CASE Reads(event[head].of)
  <2>1. LeftUnread(event[head].of) \in Nat /\ LeftUnread(event[head].of) <= chat.unread
    BY <1>1, LeftIsLess
  <2> QED
    BY <1>1, <1>2, <1>5, <2>1 DEF Reads
<1>6. CASE chat'.unread = chat.unread /\ NoCount
  BY <1>1, <1>2, <1>6 DEF NoCount
<1> QED
  BY <1>3, <1>4, <1>5, <1>6, WhoCounts

\* Messages are counted in their order, and read from the first on.
LEMMA OrderIsKept ==
    ASSUME Basic, CountedInOrder, [Next]_vars
    PROVE  CountedInOrder'
<1>1. /\ TypeOK /\ unseen \subseteq counted /\ counted \subseteq Theirs(Happened)
      /\ inbox \subseteq Happened /\ Happened \subseteq Times
  BY DEF Basic, TypeOK, Real, CountedInOrder, Happened
<1>2. Happened \subseteq Happened' /\ \A t \in Happened : event'[t] = event[t]
  BY RecordStays
<1>3. Theirs(Happened) \subseteq Theirs(Happened)'
  BY <1>2 DEF Theirs
<1>4. inbox' \subseteq inbox \/ (SomethingHappens /\ inbox' = inbox \union {Now})
  BY DEF Next, Bridge, Restart, LiveUpsert, LiveInsert, LiveAmend, LiveSelect, LiveUpdate, LiveRead,
         SyncStart, SyncRevoke, SyncInsert, SyncSelect, SyncUpdate, OutInsert, OutChat,
         SomethingHappens, Send, vars, Goes, Done
<1>5. \A c \in counted, i \in inbox' : c <= i
  <2>1. CASE SomethingHappens /\ inbox' = inbox \union {Now}
    <3>1. Now \in Times /\ \A t \in Happened : t < Now
      BY <2>1, NewIsLast
    <3> QED
      BY <1>1, <2>1, <3>1 DEF CountedInOrder, Theirs, Times
  <2> QED
    BY <1>4, <2>1 DEF CountedInOrder
<1>6. CASE (\E o \in Outcomes : LiveUpsert(o)) /\ Counts(head)
  <2>1. inbox # {} /\ inbox' \subseteq inbox
    BY <1>6 DEF LiveUpsert, Handles, Goes, Done
  <2>2. head \in inbox /\ \A i \in inbox : head <= i
    BY <1>1, <2>1, HeadIsFirst
  <2>3. CASE event[head].side = "us"
    <3>1. unseen' = {} /\ counted' = counted
      BY <1>6, <2>3 DEF Counts, Count
    <3> QED
      BY <1>1, <1>3, <1>5, <3>1 DEF CountedInOrder
  <2>4. CASE event[head].side # "us"
    <3>1. unseen' = unseen \union {head} /\ counted' = counted \union {head}
      BY <1>6, <2>4 DEF Counts, Count
    <3>2. event[head].side = "them"
      BY <1>1, <2>2, <2>4 DEF TypeOK, Event
    <3>3. counted' \subseteq Theirs(Happened)'
      BY <1>1, <1>3, <2>2, <3>1, <3>2 DEF Theirs
    <3>4. \A c \in counted', i \in inbox' : c <= i
      BY <1>5, <2>1, <2>2, <3>1
    <3>5. \A c \in counted : c <= head /\ c \in Times /\ head \in Times
      BY <1>1, <2>2 DEF CountedInOrder, Theirs
    <3>6. ASSUME NEW s \in unseen', NEW c \in counted', s < c PROVE c \in unseen'
      <4>1. c # head => c \in counted
        BY <3>1
      <4>2. s = head => c = head
        BY <3>5, <3>6, <4>1 DEF Times
      <4> QED
        BY <3>1, <3>6, <4>1, <4>2 DEF CountedInOrder
    <3> QED
      BY <3>3, <3>4, <3>6 DEF CountedInOrder
  <2> QED
    BY <2>3, <2>4
<1>7. CASE (\E o \in Outcomes : OutChat(o)) /\ Counts(out.at)
  <2>1. event[out.at].side = "us"
    BY <1>7 DEF OutChat, Basic, Real
  <2>2. unseen' = {} /\ counted' = counted
    BY <1>7, <2>1 DEF Counts, Count
  <2> QED
    BY <1>1, <1>3, <1>5, <2>2 DEF CountedInOrder
<1>8. CASE Reads(event[head].of)
  <2> DEFINE m == event[head].of
  <2>1. counted' = counted /\ unseen' = {s \in unseen : m \in Stored /\ s > m}
    BY <1>8 DEF Reads
  <2>2. ASSUME NEW s \in unseen', NEW c \in counted, s < c PROVE c \in unseen'
    <3>1. s \in unseen /\ s \in Times /\ c \in Times /\ m \in Stored /\ s > m /\ m \in Times
      BY <1>1, <2>1, <2>2 DEF Theirs, Stored
    <3>2. c \in unseen /\ c > m
      BY <2>2, <3>1 DEF CountedInOrder, Times
    <3> QED
      BY <2>1, <3>1, <3>2
  <2> QED
    BY <1>1, <1>3, <1>5, <2>1, <2>2 DEF CountedInOrder
<1>9. CASE NoCount
  BY <1>1, <1>3, <1>5, <1>9 DEF NoCount, CountedInOrder
<1> QED
  BY <1>6, <1>7, <1>8, <1>9, WhoCounts

\* Messages stored that were never counted: a history sync stored them.
Uncounted == Theirs(Stored) \ counted

\* The count is as the chat has it.
LEMMA CountIsRight ==
    ASSUME Basic, CountedInOrder, UnreadCounts, [Next]_vars
    PROVE  UnreadCounts'
<1> DEFINE A == Cardinality(unseen \ missing)
           B == Cardinality(unseen)
           C == Cardinality(Uncounted)
<1>1. /\ TypeOK /\ missing \subseteq unseen /\ unseen \subseteq counted /\ counted \subseteq Times
      /\ chat.unread \in Nat /\ again \in Nat /\ Uncounted \in SUBSET Times
      /\ counted \subseteq Theirs(Happened) /\ Stored \subseteq Happened
  BY MirrorAssumption DEF Basic, TypeOK, Real, CountedInOrder, Uncounted, Theirs, Stored
<1>2. A \in Nat /\ B \in Nat /\ C \in Nat
  <2>1. unseen \in SUBSET Times /\ unseen \ missing \in SUBSET Times
    BY <1>1
  <2> QED
    BY <1>1, <2>1, TimesAreFinite
<1>3. A <= chat.unread /\ chat.unread <= B + again + C
  BY DEF UnreadCounts, Uncounted
<1>4. /\ IsFiniteSet(unseen) /\ IsFiniteSet(unseen \ missing) /\ IsFiniteSet(Uncounted)
  <2>1. unseen \in SUBSET Times /\ unseen \ missing \in SUBSET Times
    BY <1>1
  <2> QED
    BY <1>1, <2>1, TimesAreFinite
<1>5. ASSUME event' = event, row' = row
      PROVE  Theirs(Stored)' = Theirs(Stored)
  BY <1>5 DEF Theirs, Stored
<1> HIDE DEF A, B, C
<1>6. CASE (\E o \in Outcomes : LiveUpsert(o)) /\ Counts(head)
  <2>1. event' = event /\ row' = row /\ inbox # {}
    BY <1>6 DEF LiveUpsert, Handles
  <2>2. Theirs(Stored)' = Theirs(Stored)
    BY <1>5, <2>1
  <2>3. head \in Times
    BY <1>1, <2>1, HeadIsFirst DEF TypeOK
  <2>4. CASE event[head].side = "us"
    <3>1. chat'.unread = 0 /\ unseen' = {} /\ missing' = {} /\ again' = 0 /\ counted' = counted
      BY <1>6, <2>4 DEF Counts, Count, Upserted
    <3>2. Uncounted' = Uncounted /\ (unseen \ missing)' = {}
      BY <2>2, <3>1 DEF Uncounted
    <3>3. Cardinality({}) = 0
      BY FS_EmptySet
    <3> QED
      BY <1>2, <3>1, <3>2, <3>3 DEF UnreadCounts, Uncounted, C
  <2>5. CASE event[head].side # "us"
    <3>1. /\ chat'.unread = chat.unread + 1 /\ unseen' = unseen \union {head} /\ missing' = missing
          /\ counted' = counted \union {head}
          /\ again' = IF head \in unseen \union Stored THEN again + 1 ELSE again
      BY <1>6, <2>5 DEF Counts, Count, Upserted
    <3>2. Uncounted' = Uncounted \ {head}
      BY <2>2, <3>1 DEF Uncounted
    <3>3. Cardinality(unseen') = IF head \in unseen THEN B ELSE B + 1
      BY <1>4, <3>1, FS_AddElement DEF B
    <3>4. Cardinality(Uncounted') = IF head \in Uncounted THEN C - 1 ELSE C
      BY <1>4, <3>2, FS_RemoveElement DEF C
    <3>5. Cardinality((unseen \ missing)') <= A + 1 /\ Cardinality((unseen \ missing)') \in Nat
      <4>1. (unseen \ missing)' = (IF head \in missing THEN unseen \ missing
                                   ELSE (unseen \ missing) \union {head})
        BY <1>1, <3>1
      <4>2. CASE (unseen \ missing)' = unseen \ missing
        <5>1. Cardinality((unseen \ missing)') = A
          BY <4>2, Zenon DEF A
        <5> QED
          BY <1>2, <5>1
      <4>3. CASE (unseen \ missing)' = (unseen \ missing) \union {head}
        <5>1. \/ Cardinality((unseen \ missing)') = A
              \/ Cardinality((unseen \ missing)') = A + 1
          BY <1>4, <4>3, FS_AddElement DEF A
        <5> QED
          BY <1>2, <5>1
      <4> QED
        BY <4>1, <4>2, <4>3
    <3>6. head \in Uncounted => head \in Stored /\ head \notin unseen
      BY <1>1 DEF Uncounted, Theirs
    <3>7. chat'.unread <= Cardinality(unseen') + again' + Cardinality(Uncounted')
      BY <1>1, <1>2, <1>3, <3>1, <3>3, <3>4, <3>6
    <3>8. Cardinality((unseen \ missing)') <= chat'.unread
      BY <1>1, <1>2, <1>3, <3>1, <3>5
    <3> QED
      BY <3>7, <3>8 DEF UnreadCounts, Uncounted
  <2> QED
    BY <2>4, <2>5
<1>7. CASE (\E o \in Outcomes : OutChat(o)) /\ Counts(out.at)
  <2>1. event[out.at].side = "us" /\ event' = event /\ row' = row
    BY <1>7 DEF OutChat, Basic, Real
  <2>2. chat'.unread = 0 /\ unseen' = {} /\ missing' = {} /\ again' = 0 /\ counted' = counted
    BY <1>7, <2>1 DEF Counts, Count, Upserted
  <2>3. Uncounted' = Uncounted /\ (unseen \ missing)' = {}
    BY <1>5, <2>1, <2>2 DEF Uncounted
  <2>4. Cardinality({}) = 0
    BY FS_EmptySet
  <2> QED
    BY <1>2, <2>2, <2>3, <2>4 DEF UnreadCounts, Uncounted, C
<1>8. CASE (\E o \in Outcomes : LiveRead(o)) /\ Reads(event[head].of)
  <2> DEFINE m == event[head].of
             newer == {s \in Theirs(Stored) : m \in Stored /\ s > m}
             n == LeftUnread(m)
  <2>1. event' = event /\ row' = row
    BY <1>8 DEF LiveRead
  <2>2. /\ chat'.unread = n /\ unseen' = {s \in unseen : m \in Stored /\ s > m}
        /\ missing' = {s \in unseen' : s \in missing \/ s \notin Stored}
        /\ again' = again /\ counted' = counted
    BY <1>8 DEF Reads
  <2>3. Uncounted' = Uncounted
    BY <1>5, <2>1, <2>2 DEF Uncounted
  <2>4. /\ newer \in SUBSET Times /\ n \in Nat /\ (n = Cardinality(newer) \/ n = chat.unread)
        /\ n <= Cardinality(newer) /\ n <= chat.unread
    BY <1>1, LeftIsLess
  <2>5. IsFiniteSet(newer) /\ Cardinality(newer) \in Nat
    <3> HIDE DEF newer
    <3> QED
      BY <2>4, TimesAreFinite
  <2>6. Stored \subseteq Times /\ unseen' \subseteq unseen
    BY <2>2 DEF Stored
  <2> HIDE DEF n
  <2>7. (unseen \ missing)' \subseteq newer /\ (unseen \ missing)' \subseteq unseen \ missing
    BY <1>1, <2>2 DEF Theirs
  <2>8. Cardinality((unseen \ missing)') <= n
    <3>1. Cardinality((unseen \ missing)') <= Cardinality(newer)
      BY <2>5, <2>7, FS_Subset
    <3>2. Cardinality((unseen \ missing)') <= A
      BY <1>4, <2>7, FS_Subset DEF A
    <3>3. Cardinality((unseen \ missing)') \in Nat
      BY <2>5, <2>7, FS_Subset, FS_CardinalityType
    <3> HIDE DEF newer
    <3> QED
      BY <1>1, <1>2, <1>3, <2>4, <2>5, <3>1, <3>2, <3>3
  <2>9. IsFiniteSet(unseen') /\ Cardinality(unseen') \in Nat
    BY <1>4, <2>6, FS_Subset, FS_CardinalityType
  <2>10. n <= Cardinality(unseen') + again + C
    <3>1. CASE m \notin Stored
      <4>1. newer = {} /\ Cardinality({}) = 0
        BY <3>1, FS_EmptySet
      <4> QED
        BY <1>1, <1>2, <2>4, <2>9, <4>1
    <3>2. CASE m \in Stored /\ \A s \in unseen : s > m
      <4>1. unseen' = unseen
        BY <2>2, <3>2
      <4> QED
        BY <1>1, <1>2, <1>3, <2>4, <4>1 DEF B
    <3>3. CASE m \in Stored /\ \E s \in unseen : ~(s > m)
      <4>1. PICK s \in unseen : ~(s > m)
        BY <3>3
      <4>2. s \in Times /\ m \in Times
        BY <1>1, <2>6, <3>3
      <4>3. ASSUME NEW c \in newer, c \in counted PROVE c \in unseen'
        <5>1. c > m /\ c \in Times
          BY <2>6 DEF Theirs
        <5>2. s < c
          BY <4>1, <4>2, <5>1 DEF Times
        <5> QED
          BY <2>2, <3>3, <4>1, <4>3, <5>1, <5>2 DEF CountedInOrder
      <4>4. newer \subseteq unseen' \union Uncounted
        BY <4>3 DEF Uncounted
      <4>5. /\ IsFiniteSet(unseen' \union Uncounted)
            /\ Cardinality(unseen' \union Uncounted) <= Cardinality(unseen') + C
        <5>1. /\ IsFiniteSet(unseen' \union Uncounted)
              /\ Cardinality(unseen' \union Uncounted)
                 = Cardinality(unseen') + Cardinality(Uncounted)
                   - Cardinality(unseen' \intersect Uncounted)
          BY <1>4, <2>9, FS_Union
        <5>2. Cardinality(unseen' \intersect Uncounted) \in Nat
          BY <2>9, FS_Subset, FS_CardinalityType
        <5> QED
          BY <1>2, <2>9, <5>1, <5>2 DEF C
      <4>6. Cardinality(newer) <= Cardinality(unseen' \union Uncounted)
        BY <4>4, <4>5, FS_Subset
      <4>7. Cardinality(unseen' \union Uncounted) \in Nat
        BY <4>5, FS_CardinalityType
      <4> QED
        BY <1>1, <1>2, <2>4, <2>5, <2>9, <4>5, <4>6, <4>7
    <3> QED
      BY <3>1, <3>2, <3>3
  <2> QED
    BY <2>2, <2>3, <2>8, <2>10 DEF UnreadCounts, Uncounted, C
<1>9. CASE chat'.unread = chat.unread /\ NoCount
  <2>1. Happened \subseteq Happened' /\ \A t \in Happened : event'[t] = event[t]
    BY RecordStays
  <2>2. Stored \subseteq Stored'
    BY RowsStay
  <2>3. Uncounted \subseteq Uncounted'
    BY <1>1, <1>9, <2>1, <2>2 DEF Uncounted, Theirs, NoCount
  <2>4. IsFiniteSet(Uncounted') /\ C <= Cardinality(Uncounted') /\ Cardinality(Uncounted') \in Nat
    <3>1. Uncounted' \in SUBSET Times
      BY DEF Uncounted, Theirs, Stored
    <3> QED
      BY <2>3, <3>1, TimesAreFinite, FS_Subset DEF C
  <2> QED
    BY <1>1, <1>2, <1>3, <1>9, <2>4 DEF UnreadCounts, Uncounted, NoCount, A, B
<1> QED
  BY <1>6, <1>7, <1>8, <1>9, WhoCounts

-----------------------------------------------------------------------------
(* The three goroutines.                                                    *)

\* The event handler is at the first event of its inbox.
LiveReal ==
    /\ live \in [step : {"idle", "upsert", "insert", "select", "update"}, found : Tail]
    /\ inbox \subseteq Happened
    /\ live.step # "idle" => inbox # {}
    /\ live.step = "insert" => chat.known
    /\ live.step = "select" => Stored # {}
    /\ live.step = "update" =>
          live.found.at \in Stored /\ live.found.us = (event[live.found.at].side = "us")

\* The event handler stays at an event of the inbox, and at a row that is there.
LEMMA LiveStays ==
    ASSUME Basic, FoundReal, [Next]_vars
    PROVE  LiveReal'
<1>1. /\ TypeOK /\ LiveReal
  BY DEF Basic, TypeOK, Real, FoundReal, LiveReal
<1>2. /\ Happened \subseteq Happened' /\ \A t \in Happened : event'[t] = event[t]
      /\ Stored \subseteq Stored' /\ Stored \subseteq Happened /\ (chat.known => chat'.known)
  BY RecordStays, RowsStay, ChatStays DEF Basic, Real
<1>3. ASSUME live' = live, inbox \subseteq inbox', inbox' \subseteq Happened'
      PROVE  LiveReal'
  BY <1>1, <1>2, <1>3 DEF LiveReal
<1>4. Idle \in [step : {"idle", "upsert", "insert", "select", "update"}, found : Tail]
      /\ Idle.step = "idle"
  BY MirrorAssumption DEF Idle, NoTail, Tail, Forms
<1>5. ASSUME live' = Idle, inbox' \subseteq inbox
      PROVE  LiveReal'
  BY <1>1, <1>2, <1>4, <1>5 DEF LiveReal
<1>6. CASE SomethingHappens
  BY <1>1, <1>2, <1>3, <1>6, NewIsLast DEF SomethingHappens, LiveReal
<1>7. CASE Restart
  BY <1>5, <1>7 DEF Restart
<1>8. ASSUME NEW step \in {"upsert", "insert", "select"}, Goes(step), inbox # {},
             step = "insert" => chat'.known, step = "select" => Stored # {}
      PROVE  LiveReal'
  BY <1>1, <1>2, <1>8 DEF Goes, LiveReal
<1>9. inbox # {} => head \in Happened
  BY <1>1, HeadIsFirst DEF LiveReal
<1>10. ASSUME NEW o \in Outcomes, LiveUpsert(o)
       PROVE  LiveReal'
  <2>1. CASE o = "done"
    BY <1>8, <1>10, <2>1 DEF LiveUpsert, Handles, Applied, Upserted
  <2>2. CASE o # "done"
    BY <1>5, <1>10, <2>2 DEF LiveUpsert, Done
  <2> QED
    BY <2>1, <2>2
<1>11. ASSUME NEW o \in Outcomes, LiveAmend(o)
       PROVE  LiveReal'
  <2>1. inbox # {} /\ event[head].of \in Times
    BY <1>9, <1>11 DEF LiveAmend, Handles, Basic, Real
  <2>2. row[event[head].of] # "none" => Stored # {}
    BY <2>1 DEF Stored
  <2>3. \/ Goes("select") /\ row[event[head].of] # "none"
        \/ Goes("upsert") \/ Done
    BY <1>11 DEF LiveAmend, ListAfter
  <2> QED
    BY <1>5, <1>8, <2>1, <2>2, <2>3 DEF Done
<1>12. ASSUME NEW o \in Outcomes, LiveSelect(o)
       PROVE  LiveReal'
  <2>1. CASE o = "done"
    <3>1. Stored # {} /\ inbox # {} /\ inbox' = inbox
      BY <1>1, <1>12, <2>1 DEF LiveSelect, LiveReal
    <3>2. live' = [step |-> "update", found |-> CurrentTail]
      BY <1>12, <2>1 DEF LiveSelect
    <3>3. CurrentTail \in Tail /\ CurrentTail.at \in Stored
          /\ CurrentTail.us = (event[CurrentTail.at].side = "us")
      BY <1>1, <3>1, CurrentIsTail DEF Shows
    <3> QED
      BY <1>1, <1>2, <3>1, <3>2, <3>3 DEF LiveReal
  <2>2. CASE o # "done"
    BY <1>5, <1>12, <2>2 DEF LiveSelect, Done
  <2> QED
    BY <2>1, <2>2
<1>13. ASSUME NEW o \in Outcomes, LiveInsert(o) \/ LiveUpdate(o) \/ LiveRead(o)
       PROVE  LiveReal'
  BY <1>5, <1>13 DEF LiveInsert, LiveUpdate, LiveRead, Done
<1>14. ASSUME NEW o \in Outcomes,
              \/ \E S \in SUBSET Times : SyncStart(S, o)
              \/ \E t \in Times : SyncRevoke(t, o) \/ SyncInsert(t, o)
              \/ SyncSelect(o) \/ SyncUpdate(o) \/ OutInsert(o) \/ OutChat(o)
       PROVE  LiveReal'
  <2>1. live' = live /\ inbox' = inbox
    BY <1>14 DEF SyncStart, SyncRevoke, SyncInsert, SyncSelect, SyncUpdate, OutInsert, OutChat
  <2> QED
    BY <1>1, <1>2, <1>3, <2>1 DEF LiveReal
<1>15. CASE Send \/ UNCHANGED vars
  BY <1>1, <1>2, <1>3, <1>15 DEF Send, vars, LiveReal
<1> QED
  BY <1>6, <1>7, <1>10, <1>11, <1>12, <1>13, <1>14, <1>15 DEF Next, Bridge

\* A history sync stores events there are, in a chat there is.
SyncReal ==
    /\ sync \in [step : {"idle", "rows", "update"}, todo : SUBSET Times,
                 plain : SUBSET Times, inserted : BOOLEAN, found : Tail]
    /\ sync.todo \subseteq Happened
    /\ sync.step = "rows" => chat.known
    /\ sync.inserted => Stored # {}
    /\ sync.step = "update" =>
          sync.found.at \in Stored /\ sync.found.us = (event[sync.found.at].side = "us")

\* A history sync stays at events that happened.
LEMMA SyncStays ==
    ASSUME Basic, FoundReal, [Next]_vars
    PROVE  SyncReal'
<1> DEFINE Work == [step : {"idle", "rows", "update"}, todo : SUBSET Times,
                    plain : SUBSET Times, inserted : BOOLEAN, found : Tail]
<1>1. /\ TypeOK /\ SyncReal
  BY DEF Basic, TypeOK, Real, FoundReal, SyncReal
<1>2. /\ Happened \subseteq Happened' /\ \A t \in Happened : event'[t] = event[t]
      /\ Stored \subseteq Stored' /\ Stored \subseteq Happened /\ (chat.known => chat'.known)
  BY RecordStays, RowsStay, ChatStays DEF Basic, Real
<1>3. ASSUME sync' = sync
      PROVE  SyncReal'
  BY <1>1, <1>2, <1>3 DEF SyncReal
<1>4. NoSync \in Work /\ NoSync.step = "idle" /\ NoSync.todo = {} /\ ~NoSync.inserted
  BY MirrorAssumption DEF NoSync, NoTail, Tail, Forms
<1>5. ASSUME sync' = NoSync
      PROVE  SyncReal'
  BY <1>4, <1>5 DEF SyncReal
<1>6. ASSUME NEW o \in Outcomes, NEW S \in SUBSET Times, SyncStart(S, o)
      PROVE  SyncReal'
  <2>1. CASE o = "done"
    <3>1. sync' = [NoSync EXCEPT !.step = "rows", !.todo = S] /\ S \subseteq Happened
      BY <1>6, <2>1 DEF SyncStart
    <3>2. chat'.known
      BY <1>1, <1>6, <2>1 DEF SyncStart, Applied, UpsertedBare, TypeOK
    <3>3. sync' \in Work /\ sync'.todo = S /\ sync'.step = "rows" /\ ~sync'.inserted
      BY <1>4, <3>1
    <3> QED
      BY <1>2, <3>1, <3>2, <3>3 DEF SyncReal
  <2>2. CASE o # "done"
    BY <1>3, <1>6, <2>2 DEF SyncStart
  <2> QED
    BY <2>1, <2>2
<1>7. ASSUME NEW o \in Outcomes, NEW t \in Times, SyncRevoke(t, o)
      PROVE  SyncReal'
  <2>1. \/ sync' = [sync EXCEPT !.todo = @ \ {t}]
        \/ sync' = [sync EXCEPT !.plain = @ \union {t}]
    BY <1>7 DEF SyncRevoke
  <2>2. /\ sync' \in Work /\ sync'.todo \subseteq sync.todo /\ sync'.step = sync.step
        /\ sync'.inserted = sync.inserted /\ sync'.found = sync.found
    BY <1>1, <2>1 DEF SyncReal
  <2> QED
    BY <1>1, <1>2, <2>2 DEF SyncReal
<1>8. ASSUME NEW o \in Outcomes, NEW t \in Times, SyncInsert(t, o)
      PROVE  SyncReal'
  <2>1. sync' = [sync EXCEPT !.todo = @ \ {t}, !.inserted = @ \/ o = "done"]
    BY <1>8 DEF SyncInsert
  <2>2. /\ sync' \in Work /\ sync'.todo \subseteq sync.todo /\ sync'.step = sync.step
        /\ sync'.inserted = (sync.inserted \/ o = "done") /\ sync'.found = sync.found
    BY <1>1, <2>1 DEF SyncReal
  <2>3. ASSUME o = "done" PROVE t \in Stored'
    <3>1. row' = Inserted(t) /\ chat.known
      BY <1>1, <1>8, <2>3 DEF SyncInsert, Applied, SyncReal
    <3> QED
      BY <1>1, <3>1, InsertAdds DEF Stored
  <2> QED
    BY <1>1, <1>2, <2>2, <2>3 DEF SyncReal
<1>9. ASSUME NEW o \in Outcomes, SyncSelect(o)
      PROVE  SyncReal'
  <2>1. CASE sync.inserted /\ o = "done"
    <3>1. Stored # {} /\ sync' = [sync EXCEPT !.step = "update", !.found = CurrentTail]
      BY <1>1, <1>9, <2>1 DEF SyncSelect, SyncReal
    <3>2. CurrentTail \in Tail /\ CurrentTail.at \in Stored
          /\ CurrentTail.us = (event[CurrentTail.at].side = "us")
      BY <1>1, <3>1, CurrentIsTail DEF Shows
    <3>3. /\ sync' \in Work /\ sync'.todo = sync.todo /\ sync'.step = "update"
          /\ sync'.inserted = sync.inserted /\ sync'.found = CurrentTail
      BY <1>1, <3>1, <3>2 DEF SyncReal
    <3> QED
      BY <1>1, <1>2, <3>1, <3>2, <3>3 DEF SyncReal
  <2>2. CASE ~(sync.inserted /\ o = "done")
    BY <1>5, <1>9, <2>2 DEF SyncSelect
  <2> QED
    BY <2>1, <2>2
<1>10. ASSUME NEW o \in Outcomes, SyncUpdate(o)
       PROVE  SyncReal'
  BY <1>5, <1>10 DEF SyncUpdate
<1>11. CASE Restart
  BY <1>5, <1>11 DEF Restart
<1>12. ASSUME NEW o \in Outcomes, LiveUpsert(o) \/ LiveInsert(o) \/ LiveAmend(o) \/ LiveSelect(o)
                    \/ LiveUpdate(o) \/ LiveRead(o) \/ OutInsert(o) \/ OutChat(o)
       PROVE  SyncReal'
  BY <1>3, <1>12 DEF LiveUpsert, LiveInsert, LiveAmend, LiveSelect, LiveUpdate, LiveRead,
                     OutInsert, OutChat
<1>13. CASE SomethingHappens \/ Send \/ UNCHANGED vars
  BY <1>3, <1>13 DEF SomethingHappens, Send, vars
<1> QED
  BY <1>6, <1>7, <1>8, <1>9, <1>10, <1>11, <1>12, <1>13 DEF Next, Bridge

\* The message that was sent is ours.
OutReal ==
    /\ out \in [step : {"idle", "insert", "chat"}, at : 0..Last]
    /\ out.step # "idle" => out.at \in Happened /\ event[out.at].side = "us"

\* The outbound goroutine stays at the message it sent.
LEMMA OutStays ==
    ASSUME Basic, [Next]_vars
    PROVE  OutReal'
<1>1. OutReal
  BY DEF Basic, TypeOK, Real, OutReal
<1>2. Happened \subseteq Happened' /\ \A t \in Happened : event'[t] = event[t]
  BY RecordStays
<1>3. ASSUME out' = out
      PROVE  OutReal'
  BY <1>1, <1>2, <1>3 DEF OutReal
<1>4. ASSUME out' = NothingSent
      PROVE  OutReal'
  BY <1>4, MirrorAssumption DEF NothingSent, OutReal
<1>5. CASE Send
  <2>1. Now \in Times /\ Now \in Happened' /\ event'[Now].side = "us"
    BY <1>5, NewIsLast
  <2>2. out' = [step |-> "insert", at |-> Now]
    BY <1>5 DEF Send
  <2> QED
    BY <2>1, <2>2, MirrorAssumption DEF OutReal, Times
<1>6. ASSUME NEW o \in Outcomes, OutInsert(o)
      PROVE  OutReal'
  BY <1>1, <1>2, <1>6 DEF OutInsert, OutReal
<1>7. ASSUME NEW o \in Outcomes, OutChat(o)
      PROVE  OutReal'
  BY <1>4, <1>7 DEF OutChat
<1>8. CASE Restart
  BY <1>4, <1>8 DEF Restart
<1>9. ASSUME NEW o \in Outcomes, LiveUpsert(o) \/ LiveInsert(o) \/ LiveAmend(o) \/ LiveSelect(o)
                   \/ LiveUpdate(o) \/ LiveRead(o) \/ SyncSelect(o) \/ SyncUpdate(o)
                   \/ (\E S \in SUBSET Times : SyncStart(S, o))
                   \/ \E t \in Times : SyncRevoke(t, o) \/ SyncInsert(t, o)
      PROVE  OutReal'
  BY <1>3, <1>9 DEF LiveUpsert, LiveInsert, LiveAmend, LiveSelect, LiveUpdate, LiveRead,
                    SyncStart, SyncRevoke, SyncInsert, SyncSelect, SyncUpdate
<1>10. CASE SomethingHappens \/ UNCHANGED vars
  BY <1>3, <1>10 DEF SomethingHappens, vars
<1> QED
  BY <1>5, <1>6, <1>7, <1>8, <1>9, <1>10 DEF Next, Bridge

\* An excuse is given or not.
LEMMA ExcusedIsBoolean ==
    ASSUME Basic, [Next]_vars
    PROVE  excused' \in BOOLEAN
<1>1. excused \in BOOLEAN
  BY DEF Basic, TypeOK
<1>2. ASSUME NEW o \in Outcomes, NEW tail, WritesTail(o, tail)
      PROVE  excused' \in BOOLEAN
  BY <1>2 DEF WritesTail, OutOfOrder
<1>3. ASSUME NEW o \in Outcomes, Fails(o)
      PROVE  excused' \in BOOLEAN
  BY <1>3 DEF Fails
<1>4. ASSUME NEW o \in Outcomes, LiveUpsert(o) \/ LiveUpdate(o) \/ SyncUpdate(o)
      PROVE  excused' \in BOOLEAN
  BY <1>2, <1>4 DEF LiveUpsert, LiveUpdate, SyncUpdate
<1>5. ASSUME NEW o \in Outcomes,
             LiveInsert(o) \/ LiveAmend(o) \/ LiveSelect(o) \/ OutInsert(o)
             \/ (\E S \in SUBSET Times : SyncStart(S, o))
             \/ \E t \in Times : SyncRevoke(t, o) \/ SyncInsert(t, o)
      PROVE  excused' \in BOOLEAN
  BY <1>3, <1>5 DEF LiveInsert, LiveAmend, LiveSelect, OutInsert, SyncStart, SyncRevoke, SyncInsert
<1>6. ASSUME NEW o \in Outcomes, LiveRead(o) \/ SyncSelect(o) \/ OutChat(o)
      PROVE  excused' \in BOOLEAN
  BY <1>1, <1>6 DEF LiveRead, SyncSelect, OutChat
<1>7. ASSUME SomethingHappens \/ Send \/ Restart \/ UNCHANGED vars
      PROVE  excused' \in BOOLEAN
  BY <1>1, <1>7 DEF SomethingHappens, Send, Restart, vars, history
<1> QED
  BY <1>4, <1>5, <1>6, <1>7 DEF Next, Bridge

\* Syncs, failures and restarts stay within their bounds.
LEMMA BoundsHold ==
    ASSUME Basic, [Next]_vars
    PROVE  /\ syncs' \in 0..MaxSyncs /\ faults' \in 0..MaxFaults
           /\ restarts' \in 0..MaxRestarts /\ restarts' \in Nat /\ restarts' <= MaxRestarts
<1>1. syncs \in 0..MaxSyncs /\ faults \in 0..MaxFaults /\ restarts \in 0..MaxRestarts
  BY DEF Basic, TypeOK
<1>2. /\ syncs' = syncs \/ (syncs < MaxSyncs /\ syncs' = syncs + 1)
      /\ restarts' = restarts \/ (restarts < MaxRestarts /\ restarts' = restarts + 1)
      /\ faults' = faults \/ \E o \in Outcomes : Charge(o)
  <2>1. ASSUME NEW o \in Outcomes, LiveUpsert(o) \/ LiveInsert(o) \/ LiveAmend(o) \/ LiveSelect(o)
                     \/ LiveUpdate(o) \/ LiveRead(o) \/ SyncSelect(o) \/ SyncUpdate(o)
                     \/ OutInsert(o) \/ OutChat(o)
                     \/ \E t \in Times : SyncRevoke(t, o) \/ SyncInsert(t, o)
        PROVE  syncs' = syncs /\ restarts' = restarts /\ Charge(o)
    BY <2>1 DEF LiveUpsert, LiveInsert, LiveAmend, LiveSelect, LiveUpdate, LiveRead, SyncSelect,
                SyncUpdate, OutInsert, OutChat, SyncRevoke, SyncInsert
  <2>2. ASSUME NEW o \in Outcomes, NEW S \in SUBSET Times, SyncStart(S, o)
        PROVE  syncs < MaxSyncs /\ syncs' = syncs + 1 /\ restarts' = restarts /\ Charge(o)
    BY <2>2 DEF SyncStart
  <2>3. CASE Restart
    BY <2>3 DEF Restart
  <2>4. CASE SomethingHappens \/ Send \/ UNCHANGED vars
    BY <2>4 DEF SomethingHappens, Send, vars, bounds
  <2> QED
    BY <2>1, <2>2, <2>3, <2>4 DEF Next, Bridge
<1> QED
  BY <1>1, <1>2, MirrorAssumption DEF Charge

\* Every variable keeps its type, and the bridge its hold on what happened.
LEMMA BasicStays ==
    ASSUME Basic, FoundReal, [Next]_vars
    PROVE  Basic' /\ FoundReal'
<1>1. LiveReal' /\ SyncReal' /\ OutReal'
  BY LiveStays, SyncStays, OutStays
<1>2. /\ event' \in [Times -> Event] /\ Numbered' /\ Happened \subseteq Happened'
      /\ \A t \in Happened' : event'[t].what \in {"edit", "revoke", "read"}
                                 => event'[t].of \in Times
      /\ row' \in [Times -> Forms \union {"none"}] /\ Stored' \subseteq Happened
      /\ Stored' # {} => Stored # {} \/ chat.known
      /\ chat' \in [known : BOOLEAN, tail : Tail, unread : Int]
      /\ chat.known => chat'.known
      /\ Happened' \subseteq Times
  BY RecordStays, RowsStay, ChatStays DEF Happened
<1>3. /\ chat'.unread \in Nat /\ chat'.unread <= Handled'
      /\ again' \in Nat /\ again' <= Handled'
      /\ missing' \subseteq unseen' /\ unseen' \subseteq counted' /\ counted' \subseteq Times
  BY CountIsBounded
<1>4. /\ Stored # {} => chat.known /\ excused \in BOOLEAN
      /\ syncs \in 0..MaxSyncs /\ faults \in 0..MaxFaults /\ restarts \in 0..MaxRestarts
  BY DEF Basic, Real, TypeOK
<1>5. excused' \in BOOLEAN
  BY ExcusedIsBoolean
<1>6. restarts' \in 0..MaxRestarts /\ restarts' \in Nat /\ restarts' <= MaxRestarts
  BY BoundsHold
<1>7. syncs' \in 0..MaxSyncs /\ faults' \in 0..MaxFaults
  BY BoundsHold
<1>8. FoundReal'
  BY <1>1 DEF LiveReal, SyncReal, FoundReal
<1>9. Real'
  <2>1. Stored' # {} => chat'.known
    BY <1>2, <1>4
  <2> QED
    BY <1>1, <1>2, <2>1 DEF LiveReal, SyncReal, OutReal, Real
<1>10. PICK r \in Nat : r = restarts' /\ r <= MaxRestarts
  BY <1>6
<1>11. /\ chat'.unread \in 0..(Last + MaxRestarts)
       /\ again' \in 0..(Last + MaxRestarts)
  <2>1. Happened' \in SUBSET Times /\ inbox' \in SUBSET Happened' /\ inbox' \in SUBSET Times
    BY <1>1, <1>2 DEF LiveReal
  <2>2. PICK c \in Nat : c = Cardinality(Happened' \ inbox') /\ c <= Last
    BY <2>1, TimesAreFinite
  <2>3. live'.step = "insert" => c + 1 <= Last
    <3>1. SUFFICES ASSUME live'.step = "insert" PROVE c + 1 <= Last
      OBVIOUS
    <3>2. PICK t \in inbox' : TRUE
      BY <1>1, <3>1 DEF LiveReal
    <3>3. Cardinality(Happened' \ (inbox' \ {t})) = c + 1
      BY <2>1, <2>2, <3>2, OneMore
    <3>4. Cardinality(Happened' \ (inbox' \ {t})) <= Last
      BY <2>1, TimesAreFinite
    <3> QED
      BY <3>3, <3>4
  <2>4. /\ live'.step = "insert" => Handled' = c + r + 1
        /\ live'.step # "insert" => Handled' = c + r + 0
    BY <1>10, <2>2 DEF Handled
  <2>5. Handled' <= Last + MaxRestarts /\ Handled' \in Nat
    BY <1>10, <2>2, <2>3, <2>4, MirrorAssumption
  <2>6. ASSUME NEW n \in Nat, n <= Handled' PROVE n \in 0..(Last + MaxRestarts)
    BY <2>5, <2>6, MirrorAssumption
  <2> QED
    BY <1>3, <2>6
<1>12. TypeOK'
  <2>1. chat' \in [known : BOOLEAN, tail : Tail, unread : 0..(Last + MaxRestarts)]
    BY <1>2, <1>11
  <2>2. inbox' \subseteq Times
    BY <1>1, <1>2 DEF LiveReal
  <2> QED
    BY <1>1, <1>2, <1>3, <1>5, <1>6, <1>7, <1>11, <2>1, <2>2
    DEF TypeOK, LiveReal, SyncReal, OutReal
<1> QED
  BY <1>2, <1>3, <1>8, <1>9, <1>12 DEF Basic, Bounded

-----------------------------------------------------------------------------
(* The tail.                                                                *)

\* A writer that was not overtaken leaves the newest tail, if its row is there.
LEMMA WriterIsLast ==
    ASSUME Basic, NEW tail \in Tail, ~OutOfOrder(tail), tail.at \in Stored,
           tail.us = (event[tail.at].side = "us"),
           event' = event, row' = row, chat'.tail = tail,
           live'.step = "insert" => live' = live /\ inbox' = inbox
    PROVE  TailHolds'
<1>1. /\ \A t \in Stored : ~(tail.at < t)
      /\ live.step = "insert" => ~(tail.at < head)
      /\ tail.form = row[tail.at]
  BY DEF OutOfOrder
<1>2. Stored \subseteq Times /\ tail.at \in Times /\ TypeOK /\ (live.step = "insert" => inbox # {})
  BY DEF Stored, Basic, Real
<1>3. \A t \in Stored : t <= tail.at
  <2>1. tail.at \in Int /\ \A t \in Stored : t \in Int
    BY <1>2 DEF Times
  <2> QED
    BY <1>1, <2>1
<1>4. live.step = "insert" => head <= tail.at
  <2>1. live.step = "insert" => head \in Times
    BY <1>2, HeadIsFirst DEF TypeOK
  <2> QED
    BY <1>1, <1>2, <2>1 DEF Times
<1>5. Stored' = Stored /\ (live'.step = "insert" => head' = head)
  BY DEF Stored, head
<1> QED
  BY <1>1, <1>3, <1>4, <1>5 DEF TailHolds, Shows

\* The tail holds as long as nothing is written and the event handler stays at
\* its event, or is at none.
LEMMA NothingWritten ==
    ASSUME Basic, TailHolds, ~excused, ~Rewritten,
           \A t \in Happened : event'[t] = event[t],
           row' = row, chat'.tail = chat.tail,
           \/ live' = live /\ (live.step = "insert" => head' = head)
           \/ live.step # "insert" /\ live'.step # "insert"
    PROVE  TailHolds'
<1>1. Stored' = Stored /\ Stored \subseteq Happened
  BY DEF Stored, Basic, Real
<1>2. live.step = "insert" => head \in Happened
  BY HeadIsFirst DEF Basic, Real
<1>3. live'.step = "insert" => live.step = "insert" /\ TailOf(head)' = TailOf(head) /\ head' = head
  BY <1>2 DEF TailOf
<1>4. \A t \in Stored : event'[t] = event[t] /\ row'[t] = row[t]
  BY <1>1
<1> QED
  BY <1>1, <1>3, <1>4 DEF TailHolds, Shows

\* The row of the event handler's message is the one the tail is waiting for,
\* or is older than the tail.
LEMMA InsertCompletes ==
    ASSUME Basic, TailHolds, ~excused, ~Rewritten, live.step = "insert",
           event' = event, row' = Inserted(head), chat' = chat, live'.step = "idle"
    PROVE  TailHolds'
<1>1. TypeOK /\ chat.known /\ inbox # {} /\ Stored \subseteq Times
  BY DEF Basic, Real, Stored
<1>2. head \in Times
  BY <1>1, HeadIsFirst DEF TypeOK
<1>3. Stored' = Stored \union {head} /\ \A t \in Stored : row'[t] = row[t]
  BY <1>1, <1>2, InsertAdds, TailOfIsTail DEF Stored
<1>4. (\A t \in Stored : t <= chat.tail.at) /\ head <= chat.tail.at
  BY DEF TailHolds
<1>5. CASE chat.tail.at \in Stored
  BY <1>3, <1>4, <1>5 DEF TailHolds, Shows
<1>6. CASE chat.tail.at \notin Stored
  <2>1. chat.tail = TailOf(head) /\ chat.tail.at = head
    BY <1>1, <1>2, <1>6, TailOfIsTail DEF TailHolds
  <2>2. row'[head] = TailOf(head).form /\ TailOf(head).us = (event[head].side = "us")
    BY <1>1, <1>2, <1>6, <2>1, InsertAdds, TailOfIsTail DEF Stored
  <2> QED
    BY <1>3, <1>4, <2>1, <2>2 DEF TailHolds, Shows
<1> QED
  BY <1>5, <1>6

\* Each step leaves the tail newest, leaves a goroutine about to write it, or
\* gives an excuse.
LEMMA TailStays ==
    ASSUME Basic, FoundReal, TailHolds, [Next]_vars
    PROVE  TailHolds'
<1>1. /\ TypeOK /\ Stored \subseteq Happened /\ Happened \subseteq Times
      /\ live.step = "insert" => inbox # {}
  BY DEF Basic, Real, Happened
<1>2. SUFFICES ASSUME ~excused', ~Rewritten' PROVE TailHolds'
  BY DEF TailHolds
<1>3. inbox # {} => head \in Happened
  BY <1>1, HeadIsFirst DEF Basic, Real
<1>4. ASSUME NEW o \in Outcomes, LiveUpsert(o) PROVE TailHolds'
  <2>1. o = "done" /\ ~OutOfOrder(TailOf(head))
    BY <1>2, <1>4 DEF LiveUpsert, WritesTail
  <2>2. /\ inbox # {} /\ inbox' = inbox /\ live'.step = "insert" /\ event' = event /\ row' = row
        /\ chat'.tail = TailOf(head)
    BY <1>1, <1>4, <2>1 DEF LiveUpsert, Handles, Goes, Applied, Upserted, TypeOK
  <2>3. head \in Times /\ TailOf(head).at = head /\ TailOf(head).us = (event[head].side = "us")
    BY <1>1, <1>3, <2>2, TailOfIsTail
  <2>4. /\ \A t \in Stored : t <= head
        /\ head \in Stored => TailOf(head).form = row[head]
    BY <1>1, <2>1, <2>3 DEF OutOfOrder, Times
  <2>5. Stored' = Stored /\ head' = head /\ TailOf(head)' = TailOf(head)
    BY <2>2 DEF Stored, head, TailOf
  <2> QED
    BY <2>2, <2>3, <2>4, <2>5 DEF TailHolds, Shows, Times
<1>5. ASSUME NEW o \in Outcomes, LiveInsert(o) PROVE TailHolds'
  <2>1. ~excused /\ o = "done"
    BY <1>2, <1>5 DEF LiveInsert, Fails
  <2>2. /\ live.step = "insert" /\ event' = event /\ row' = Inserted(head) /\ chat' = chat
        /\ live'.step = "idle" /\ sync' = sync /\ out' = out
    BY <1>5, <2>1 DEF LiveInsert, Handles, Applied, Done, Idle
  <2>3. ~Rewritten
    BY <1>2, <2>2 DEF Rewritten
  <2> QED
    BY <2>1, <2>2, <2>3, InsertCompletes
<1>6. ASSUME NEW o \in Outcomes, LiveAmend(o) PROVE TailHolds'
  <2>1. ~excused /\ o = "done"
    BY <1>2, <1>6 DEF LiveAmend, Fails
  <2>2. /\ live.step = "idle" /\ event' = event /\ chat' = chat /\ sync' = sync /\ out' = out
        /\ row' = (IF row[event[head].of] # "none" THEN Amended(head) ELSE row)
    BY <1>6, <2>1 DEF LiveAmend, Handles, Applied
  <2>3. row[event[head].of] = "none" /\ live'.step \in {"upsert", "idle"}
    BY <1>1, <1>2, <1>6, <2>1 DEF LiveAmend, ListAfter, Goes, Done, Idle, Rewritten, TypeOK
  <2>4. ~Rewritten
    BY <1>2, <2>2 DEF Rewritten
  <2> QED
    BY <2>1, <2>2, <2>3, <2>4, NothingWritten
<1>7. ASSUME NEW o \in Outcomes, LiveSelect(o) PROVE TailHolds'
  <2>1. o = "done"
    BY <1>2, <1>7 DEF LiveSelect, Fails
  <2>2. live'.step = "update"
    BY <1>7, <2>1 DEF LiveSelect
  <2> QED
    BY <1>2, <2>2 DEF Rewritten
<1>8. ASSUME NEW o \in Outcomes, LiveUpdate(o) PROVE TailHolds'
  <2>1. o = "done" /\ ~OutOfOrder(live.found)
    BY <1>2, <1>8 DEF LiveUpdate, WritesTail
  <2>2. live.found \in Tail /\ live.found.at \in Stored
        /\ live.found.us = (event[live.found.at].side = "us")
    BY <1>1, <1>8 DEF LiveUpdate, FoundReal, TypeOK
  <2>3. event' = event /\ row' = row /\ chat'.tail = live.found /\ live'.step = "idle"
    BY <1>1, <1>8, <2>1 DEF LiveUpdate, Applied, Done, Idle, TypeOK
  <2> QED
    BY <2>1, <2>2, <2>3, WriterIsLast
<1>9. ASSUME NEW o \in Outcomes, LiveRead(o) PROVE TailHolds'
  <2>1. /\ live.step = "idle" /\ live'.step = "idle" /\ event' = event /\ row' = row
        /\ excused' = excused /\ sync' = sync /\ out' = out /\ chat'.tail = chat.tail
    BY <1>1, <1>9 DEF LiveRead, Handles, Done, Idle, TypeOK
  <2>2. ~excused /\ ~Rewritten
    BY <1>2, <2>1 DEF Rewritten
  <2> QED
    BY <2>1, <2>2, NothingWritten
<1>10. ASSUME NEW o \in Outcomes, NEW S \in SUBSET Times, SyncStart(S, o) PROVE TailHolds'
  <2>1. o = "done"
    BY <1>2, <1>10 DEF SyncStart, Fails
  <2>2. sync'.step = "rows"
    BY <1>10, <2>1 DEF SyncStart, NoSync
  <2> QED
    BY <1>2, <2>2 DEF Rewritten
<1>11. ASSUME NEW o \in Outcomes, NEW t \in Times, SyncRevoke(t, o) \/ SyncInsert(t, o)
       PROVE  TailHolds'
  <2>1. sync'.step = "rows"
    BY <1>1, <1>11 DEF SyncRevoke, SyncInsert, TypeOK
  <2> QED
    BY <1>2, <2>1 DEF Rewritten
<1>12. ASSUME NEW o \in Outcomes, SyncSelect(o) PROVE TailHolds'
  <2>1. sync' = [sync EXCEPT !.step = "update", !.found = CurrentTail]
    BY <1>2, <1>12 DEF SyncSelect
  <2>2. sync'.step = "update"
    BY <1>1, <2>1 DEF TypeOK
  <2> QED
    BY <1>2, <2>2 DEF Rewritten
<1>13. ASSUME NEW o \in Outcomes, SyncUpdate(o) PROVE TailHolds'
  <2>1. o = "done" /\ ~OutOfOrder(sync.found)
    BY <1>2, <1>13 DEF SyncUpdate, WritesTail
  <2>2. sync.found \in Tail /\ sync.found.at \in Stored
        /\ sync.found.us = (event[sync.found.at].side = "us")
    BY <1>1, <1>13 DEF SyncUpdate, FoundReal, TypeOK
  <2>3. event' = event /\ row' = row /\ chat'.tail = sync.found /\ live' = live /\ inbox' = inbox
    BY <1>1, <1>13, <2>1 DEF SyncUpdate, Applied, TypeOK
  <2> QED
    BY <2>1, <2>2, <2>3, WriterIsLast
<1>14. ASSUME NEW o \in Outcomes, OutInsert(o) PROVE TailHolds'
  <2>1. out'.step = "chat"
    BY <1>1, <1>14 DEF OutInsert, TypeOK
  <2> QED
    BY <1>2, <2>1 DEF Rewritten
<1>15. ASSUME NEW o \in Outcomes, OutChat(o) PROVE TailHolds'
  <2>1. o = "done" /\ ~OutOfOrder(TailOf(out.at)) /\ out.at \in Stored
    BY <1>2, <1>15 DEF OutChat
  <2>2. out.at \in Times
    BY <1>1, <2>1
  <2>3. TailOf(out.at) \in Tail /\ TailOf(out.at).at = out.at
        /\ TailOf(out.at).us = (event[out.at].side = "us")
    BY <1>1, <2>2, TailOfIsTail
  <2>4. event' = event /\ row' = row /\ chat'.tail = TailOf(out.at) /\ live' = live
        /\ inbox' = inbox
    BY <1>15, <2>1 DEF OutChat, Applied, Upserted
  <2> QED
    BY <2>1, <2>3, <2>4, WriterIsLast
<1>16. CASE Restart
  <2>1. /\ ~excused /\ live = Idle /\ sync = NoSync /\ out = NothingSent
        /\ live' = Idle /\ event' = event /\ row' = row /\ chat' = chat
    BY <1>2, <1>16 DEF Restart, tables
  <2>2. ~Rewritten /\ live.step # "insert" /\ live'.step # "insert"
    BY <2>1 DEF Rewritten, Idle, NoSync, NothingSent
  <2> QED
    BY <2>1, <2>2, NothingWritten
<1>17. CASE SomethingHappens \/ Send
  <2>1. /\ live' = live /\ sync' = sync /\ row' = row /\ chat' = chat /\ excused' = excused
        /\ out' = out \/ (out.step = "idle" /\ out'.step = "insert")
        /\ inbox' = inbox \/ inbox' = inbox \union {Now}
    BY <1>17 DEF SomethingHappens, Send, tables, history
  <2>2. (\A t \in Happened : event'[t] = event[t] /\ t < Now) /\ Now \in Times
    BY <1>17, NewIsLast
  <2>3. ~excused /\ ~Rewritten
    BY <1>2, <2>1 DEF Rewritten
  <2>4. live.step = "insert" => head' = head
    <3>1. SUFFICES ASSUME live.step = "insert", inbox' = inbox \union {Now} PROVE head' = head
      BY <2>1 DEF head
    <3>2. head \in inbox /\ \A s \in inbox : head <= s
      BY <1>1, <3>1, HeadIsFirst
    <3>3. inbox \subseteq Happened
      BY DEF Basic, Real
    <3>4. inbox' \subseteq Times /\ head \in inbox' /\ \A s \in inbox' : head <= s
      BY <1>1, <2>2, <3>1, <3>2, <3>3 DEF Times
    <3>5. \A t \in inbox' : (\A s \in inbox' : t <= s) => t = head
      BY <3>4 DEF Times
    <3> QED
      BY <3>4, <3>5 DEF head
  <2> QED
    BY <2>1, <2>2, <2>3, <2>4, NothingWritten
<1>18. CASE UNCHANGED vars
  BY <1>18 DEF vars, tables, history, TailHolds, Rewritten, Shows, Stored, head, TailOf
<1> QED
  BY <1>4, <1>5, <1>6, <1>7, <1>8, <1>9, <1>10, <1>11, <1>12, <1>13, <1>14, <1>15, <1>16, <1>17,
     <1>18 DEF Next, Bridge

-----------------------------------------------------------------------------
(* The theorems.                                                            *)

\* The invariant holds of the empty chat.
LEMMA InitHolds == Init => IInv
<1> SUFFICES ASSUME Init PROVE IInv
  OBVIOUS
<1>1. Happened = {} /\ Stored = {} /\ inbox = {}
  BY DEF Init, Happened, Stored
<1>2. Happened = 1..0 /\ 0 \in 0..Last
  BY <1>1, MirrorAssumption
<1>3. Numbered
  BY <1>2 DEF Numbered
<1>4. Real
  BY <1>1 DEF Init, Real, Idle, NoSync, NothingSent
<1>5. NoTail \in Tail
  BY MirrorAssumption DEF NoTail, Tail, Forms
<1>6. TypeOK
  <2>1. event \in [Times -> Event]
    BY MirrorAssumption DEF Init, Event
  <2>2. chat \in [known : BOOLEAN, tail : Tail, unread : 0..(Last + MaxRestarts)]
    BY <1>5, MirrorAssumption DEF Init
  <2>3. row \in [Times -> Forms \union {"none"}]
    BY DEF Init
  <2>4. live \in [step : {"idle", "upsert", "insert", "select", "update"}, found : Tail]
    BY <1>5 DEF Init, Idle
  <2>5. sync \in [step : {"idle", "rows", "update"}, todo : SUBSET Times,
                 plain : SUBSET Times, inserted : BOOLEAN, found : Tail]
    BY <1>5 DEF Init, NoSync
  <2>6. out \in [step : {"idle", "insert", "chat"}, at : 0..Last]
    BY MirrorAssumption DEF Init, NothingSent
  <2>7. /\ again \in 0..(Last + MaxRestarts)
        /\ syncs \in 0..MaxSyncs /\ faults \in 0..MaxFaults /\ restarts \in 0..MaxRestarts
    BY MirrorAssumption DEF Init
  <2> QED
    BY <1>1, <2>1, <2>2, <2>3, <2>4, <2>5, <2>6, <2>7 DEF Init, TypeOK
<1>7. Bounded
  <2>1. Handled \in Nat
    BY <1>4, <1>6, HandledIsBounded
  <2> QED
    BY <2>1 DEF Init, Bounded
<1>8. CountedInOrder
  BY DEF Init, CountedInOrder
<1>9. UnreadCounts
  <2>1. Theirs(Stored) \ counted = {} /\ unseen = {} /\ unseen \ missing = {}
    BY <1>1 DEF Init, Theirs
  <2> QED
    BY <2>1, FS_EmptySet DEF Init, UnreadCounts
<1>10. FoundReal
  BY DEF Init, FoundReal, Idle, NoSync
<1>11. TailHolds
  BY <1>1, MirrorAssumption DEF Init, TailHolds, Idle, NoTail
<1> QED
  BY <1>3, <1>4, <1>6, <1>7, <1>8, <1>9, <1>10, <1>11 DEF IInv, Basic

\* The inductive invariant holds in every state: the numbering of the events,
\* the order of what was counted, the count, and the tail.
THEOREM Invariance == Spec => []IInv
<1>1. IInv /\ [Next]_vars => IInv'
  BY BasicStays, OrderIsKept, CountIsRight, TailStays DEF IInv
<1> QED
  BY InitHolds, <1>1, PTL DEF Spec

\* Every variable keeps its type: the three goroutines write nothing but tails
\* of events there are (CurrentTail is never asked of an empty chat), and the
\* count stays below what was handled.
THEOREM TypeCorrect == Spec => []TypeOK
<1>1. IInv => TypeOK
  BY DEF IInv, Basic
<1> QED
  BY Invariance, <1>1, PTL

\* RecomputeChatTail and the upserts of messages leave the newest stored message
\* in the chat list, in whatever order the three goroutines write it.
THEOREM ListShowsNewest == Spec => []TailIsNewest
<1>1. IInv => TailIsNewest
  <2> SUFFICES ASSUME IInv, Quiet, ~excused, Stored # {} PROVE chat.tail = CurrentTail
    BY DEF TailIsNewest
  <2>1. TypeOK /\ live.step = "idle" /\ ~Rewritten
    BY DEF IInv, Basic, Real, Quiet, Rewritten
  <2>2. (\A t \in Stored : t <= chat.tail.at) /\ chat.tail.at \in Stored /\ Shows(chat.tail)
    BY <2>1 DEF IInv, TailHolds
  <2>3. /\ CurrentTail \in Tail /\ CurrentTail.at \in Stored /\ Shows(CurrentTail)
        /\ \A t \in Stored : t <= CurrentTail.at
    BY <2>1, CurrentIsTail
  <2>4. chat.tail.at = CurrentTail.at
    <3>1. chat.tail.at \in Int /\ CurrentTail.at \in Int
      BY <2>2, <2>3 DEF Stored, Times
    <3>2. chat.tail.at <= CurrentTail.at /\ CurrentTail.at <= chat.tail.at
      BY <2>2, <2>3
    <3> QED
      BY <3>1, <3>2
  <2>5. chat.tail.form = CurrentTail.form /\ chat.tail.us = CurrentTail.us
    BY <2>2, <2>3, <2>4 DEF Shows
  <2>6. chat.tail \in Tail
    BY <2>1 DEF TypeOK
  <2> QED
    BY <2>3, <2>4, <2>5, <2>6 DEF Tail
<1> QED
  BY Invariance, <1>1, PTL

\* UpsertChat and ClearUnreadUpTo keep the unread count between what they must
\* have counted and what they can have counted twice.
THEOREM CountIsKept == Spec => []UnreadCounts
<1>1. IInv => UnreadCounts
  BY DEF IInv
<1> QED
  BY Invariance, <1>1, PTL

\* InsertMessage, ApplyEdit and RevokeMessage never bring an earlier text back
\* or take a row away, whatever is delivered or synchronised again.
THEOREM NothingComesBack == Spec => NoWayBack
<1>1. IInv /\ [Next]_vars =>
         [\A t \in Times :
             /\ row[t] = "deleted" => row'[t] = "deleted"
             /\ row[t] = "edited" => row'[t] # "text"
             /\ row[t] # "none" => row'[t] # "none"]_vars
  BY RowsStay DEF IInv
<1> QED
  BY Invariance, <1>1, PTL DEF Spec, NoWayBack

=============================================================================
