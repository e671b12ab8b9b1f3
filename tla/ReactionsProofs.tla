-------------------------- MODULE ReactionsProofs ---------------------------
(***************************************************************************)
(* One reaction per person and message, the last one, and a message that   *)
(* is stamped when it changed: for any number of events, history syncs,    *)
(* failed statements and restarts.                                         *)
(*                                                                         *)
(* The argument is conditional on the flaws so far, like the properties:   *)
(* while nothing was stored away from its message every row and every      *)
(* writer is in the message's chat (InPlace); while no two writers of one  *)
(* side overlapped either, a writer's SELECT still holds (SelectHolds) and *)
(* a side has at most one row (OneRow); while nothing failed, a change not *)
(* yet stamped has its stamp coming (StampComing), and the row of a side   *)
(* is of the latest event stored (LatestShown).                            *)
(***************************************************************************)
EXTENDS Reactions, FiniteSetTheorems, WellFoundedInduction, TLAPS

\* The events there are: those that happened, and the one before the bridge.
Recorded == Happened \union {0}

\* Events are numbered without a gap.
Numbered == \E k \in 0..Last : Happened = 1..k

\* The bridge handles and stores nothing but events there are.
Real ==
    /\ inbox \union todo \subseteq Happened
    /\ \A p \in Goroutines :
          /\ at[p].step \in {"write", "bump"} \/ (p = "live" /\ at[p].step = "select")
                 => at[p].t \in Happened
          /\ at[p].step # "idle" => at[p].jid \in Jids
          /\ at[p].step = "write" /\ at[p].found # None
                 => row[at[p].found].shown # "none"
    /\ \A r \in Rows : row[r].shown # "none" => r \in Recorded
    /\ handled \subseteq Recorded

\* The chat of the message has its row.
HomeIsAChat == home # "none" => home \in chats

Basic == TypeOK /\ Numbered /\ Real /\ HomeIsAChat

\* Nothing was stored apart from the message, or is about to be.
InPlace ==
    "astray" \notin flaws =>
        /\ \A r \in Rows : row[r].shown # "none" => row[r].jid = home
        /\ \A p \in Goroutines :
              at[p].step \in {"write", "bump"} => at[p].jid = home /\ Traceable(at[p].t)

Orderly == flaws \intersect {"overlap", "astray"} = {}

\* A side has one writer at a time, and what its SELECT returned still holds.
SelectHolds ==
    Orderly =>
        \A p \in Goroutines : \A side \in {"us", "them"} :
            Writing(p, side) =>
                /\ \A q \in Goroutines \ {p} : ~Writing(q, side)
                /\ IF at[p].found = None THEN RowsOf(side) = {}
                                         ELSE at[p].found \in RowsOf(side)

\* A side has at most one row.
OneRow ==
    Orderly => \A side \in {"us", "them"} : \A r, s \in RowsOf(side) : r = s

\* A change that is not stamped yet has its stamp coming.
StampComing ==
    flaws \intersect {"failed", "astray"} = {} /\ ~fresh
        => \E p \in Goroutines : at[p].step = "bump"

\* The events of a side that a goroutine went through with.
DoneBy(side) == {t \in handled : event[t].side = side}

\* The row of a side is that of the latest event stored, and shows it.
LatestShown ==
    flaws = {} =>
        \A side \in {"us", "them"} :
            /\ DoneBy(side) # {} => RowsOf(side) # {}
            /\ \A r \in RowsOf(side) :
                  /\ row[r].at \in DoneBy(side) /\ \A t \in DoneBy(side) : t <= row[r].at
                  /\ row[r].shown = Changed(row[r].at)

IInv == /\ Basic
        /\ InPlace
        /\ SelectHolds
        /\ OneRow
        /\ StampComing
        /\ LatestShown

-----------------------------------------------------------------------------
(* Firsts and lasts.                                                        *)

\* A set of numbers has a first one.
LEMMA FirstExists ==
    ASSUME NEW S \in SUBSET Nat, S # {}
    PROVE  \E r \in S : \A s \in S : r <= s
<1>1. PICK r \in S : \A s \in S : <<s, r>> \notin OpToRel(<, Nat)
  BY NatLessThanWellFounded, WFMin
<1>2. \A s \in S : ~(s < r)
  BY <1>1 DEF OpToRel
<1> QED
  BY <1>2

\* The event handler takes an event from its inbox.
LEMMA HeadInInbox ==
    ASSUME TypeOK, inbox # {}
    PROVE  Head \in inbox
<1>1. inbox \in SUBSET Nat
  BY DEF TypeOK, Times
<1> QED
  BY <1>1, FirstExists DEF Head

\* ORDER BY ... LIMIT 1 returns one of the rows, if there are any.
LEMMA NewestIsOne ==
    ASSUME TypeOK, NEW S \in SUBSET Rows
    PROVE  IF S = {} THEN NewestOf(S) = None ELSE NewestOf(S) \in S
<1> SUFFICES ASSUME S # {} PROVE NewestOf(S) \in S
  BY DEF NewestOf
<1>1. \A r \in Rows : row[r].at \in 0..Last
  BY DEF TypeOK, Reaction
<1> DEFINE Ages == {Last - row[r].at : r \in S}
<1>2. Ages \in SUBSET Nat /\ Ages # {}
  BY <1>1, ReactionsAssumption
<1>3. PICK a \in Ages : \A b \in Ages : a <= b
  BY <1>2, FirstExists
<1>4. PICK r \in S : a = Last - row[r].at
  BY <1>3
<1>5. \A s \in S : Last - row[r].at <= Last - row[s].at
  BY <1>3, <1>4
<1>6. \A s \in S : row[s].at <= row[r].at
  BY <1>1, <1>5, ReactionsAssumption
<1> QED
  BY <1>6 DEF NewestOf

\* The next event follows the last one.
LEMMA NowIsNext ==
    ASSUME NEW k \in 0..Last, Happened = 1..k
    PROVE  Now = k + 1 /\ Now \notin Happened
<1>1. Cardinality(1..k) = k
  BY FS_Interval
<1> QED
  BY <1>1 DEF Now

\* What happened stays as it was, and a flaw stays on record.
LEMMA RecordStays ==
    ASSUME Basic, [Next]_vars
    PROVE  /\ \A t \in Recorded : event'[t] = event[t]
           /\ Recorded \subseteq Recorded' /\ Happened \subseteq Happened'
           /\ home' = home /\ group' = group /\ (known => known')
           /\ flaws \subseteq flaws' /\ chats \subseteq chats'
<1>1. CASE SomethingHappens
  <2>1. PICK k \in 0..Last : Happened = 1..k
    BY DEF Basic, Numbered
  <2>2. Now = k + 1 /\ Now \notin Happened /\ Now # 0 /\ Now \in Times
    BY <1>1, <2>1, NowIsNext DEF SomethingHappens
  <2>3. PICK e \in Event : event' = [event EXCEPT ![Now] = e] /\ e.what # "nothing"
    BY <1>1 DEF SomethingHappens
  <2>4. event \in [Rows -> Event] /\ Recorded \subseteq Rows
    BY ReactionsAssumption DEF Basic, TypeOK, Recorded, Happened, Rows, Times
  <2>5. \A t \in Recorded : event'[t] = event[t]
    BY <2>2, <2>3, <2>4 DEF Recorded
  <2>6. Happened \subseteq Happened'
    BY <2>5 DEF Happened, Recorded
  <2> QED
    BY <1>1, <2>5, <2>6 DEF SomethingHappens, Recorded, tables, history
<1>2. CASE ~SomethingHappens
  <2>1. ASSUME NEW o, LiveBegin(o) \/ \E p \in Goroutines :
                         Write(p, o) \/ Bump(p, o) \/ \E t \in Times : Select(p, t, o)
        PROVE  UNCHANGED <<event, home, group, known, chats>> /\ flaws \subseteq flaws'
    BY <2>1 DEF LiveBegin, Write, Bump, Select, Flawed, world, tables, history
  <2>2. ASSUME NEW f, NEW S, SyncBegin(f, S)
        PROVE  UNCHANGED <<event, home, group, known, flaws>> /\ chats \subseteq chats'
    BY <2>2 DEF SyncBegin, world, history
  <2>3. ASSUME Restart \/ Learn \/ UNCHANGED vars
        PROVE  /\ UNCHANGED <<event, home, group, chats>> /\ (known => known')
               /\ flaws \subseteq flaws'
    BY <2>3 DEF Restart, Learn, vars, world, tables, history
  <2>4. /\ UNCHANGED <<event, home, group>> /\ (known => known')
        /\ flaws \subseteq flaws' /\ chats \subseteq chats'
    BY <1>2, <2>1, <2>2, <2>3 DEF Next, Bridge
  <2>5. Happened' = Happened
    BY <2>4 DEF Happened
  <2> QED
    BY <2>4, <2>5 DEF Recorded
<1> QED
  BY <1>1, <1>2

-----------------------------------------------------------------------------
(* What the steps that handlers share do.                                   *)

\* A worker is idle, or takes the next event of its sync, after Finish.
LEMMA FinishEnds ==
    ASSUME TypeOK, NEW p \in Goroutines, NEW t, Finish(p, t)
    PROVE  /\ at' \in [Goroutines -> Worker]
           /\ \A q \in Goroutines \ {p} : at'[q] = at[q]
           /\ at'[p].step \in {"idle", "select"}
           /\ at'[p].step = "select" => p = "sync" /\ at'[p].jid = at[p].jid
           /\ inbox' \subseteq inbox /\ todo' \subseteq todo
<1> DEFINE new == IF p = "sync" /\ todo' # {}
                  THEN [Idle EXCEPT !.step = "select", !.jid = at[p].jid] ELSE Idle
<1>1. at \in [Goroutines -> Worker] /\ at[p].jid \in Jids \union {"none"}
  BY DEF TypeOK, Worker
<1>2. Idle \in Worker /\ [Idle EXCEPT !.step = "select", !.jid = at[p].jid] \in Worker
  BY <1>1 DEF Idle, Worker
<1>3. at' = [at EXCEPT ![p] = new]
  BY DEF Finish
<1>4. /\ new \in Worker /\ new.step \in {"idle", "select"}
      /\ new.step = "select" => p = "sync" /\ new.jid = at[p].jid
  BY <1>2 DEF Idle
<1> QED
  BY <1>1, <1>3, <1>4 DEF Finish

\* A statement uses the bound on faults at most once.
LEMMA ChargeType ==
    ASSUME TypeOK, NEW o, Charge(o)
    PROVE  faults' \in 0..MaxFaults
  BY ReactionsAssumption DEF TypeOK, Charge

\* JIDs are looked up among the forms they may have.
LEMMA JidTypes ==
    ASSUME NEW f \in Forms
    PROVE  RawChat(f) \in Jids /\ Canonical(RawChat(f)) \in Jids
  BY DEF RawChat, Canonical, Jids, Forms

\* The UPDATE leaves an earlier reaction of a later event, and makes another
\* one the reaction of this event.
LEMMA UpdateWrites ==
    ASSUME TypeOK, NEW r \in Rows, NEW t \in Times
    PROVE  /\ Updated(r, t) \in [Rows -> Reaction]
           /\ \A s \in Rows \ {r} : Updated(r, t)[s] = row[s]
           /\ Updated(r, t)[r].jid = row[r].jid
           /\ IF row[r].at <= t
              THEN Updated(r, t)[r].at = t /\ Updated(r, t)[r].shown = Changed(t)
              ELSE Updated(r, t) = row
<1>1. /\ row \in [Rows -> Reaction] /\ row[r] \in Reaction
      /\ t \in 0..Last /\ Changed(t) \in {"reaction", "system"}
  BY ReactionsAssumption DEF TypeOK, Times, Changed
<1>2. CASE row[r].at <= t
  <2>1. Updated(r, t) = [row EXCEPT ![r] = [row[r] EXCEPT !.shown = Changed(t), !.at = t]]
    BY <1>1, <1>2 DEF Updated
  <2>2. /\ [row[r] EXCEPT !.shown = Changed(t), !.at = t] \in Reaction
        /\ [row[r] EXCEPT !.shown = Changed(t), !.at = t].jid = row[r].jid
        /\ [row[r] EXCEPT !.shown = Changed(t), !.at = t].shown = Changed(t)
        /\ [row[r] EXCEPT !.shown = Changed(t), !.at = t].at = t
    BY <1>1 DEF Reaction
  <2> QED
    BY <1>1, <1>2, <2>1, <2>2
<1>3. CASE ~(row[r].at <= t)
  BY <1>1, <1>3 DEF Updated
<1> QED
  BY <1>2, <1>3

\* The INSERT makes a row of the event, unless it has one or its chat has none.
LEMMA InsertWrites ==
    ASSUME TypeOK, NEW t \in Times, NEW j \in Jids
    PROVE  /\ InsertedReaction(t, j) \in [Rows -> Reaction]
           /\ \A s \in Rows \ {t} : InsertedReaction(t, j)[s] = row[s]
           /\ IF row[t].shown = "none" /\ j \in chats
              THEN InsertedReaction(t, j)[t] = [shown |-> "reaction", jid |-> j, at |-> t]
              ELSE InsertedReaction(t, j) = row
<1>1. row \in [Rows -> Reaction] /\ t \in 0..Last /\ t \in Rows
  BY ReactionsAssumption DEF TypeOK, Times, Rows
<1>2. [shown |-> "reaction", jid |-> j, at |-> t] \in Reaction
  BY <1>1 DEF Reaction
<1> QED
  BY <1>1, <1>2 DEF InsertedReaction

-----------------------------------------------------------------------------
(* The types and the events, step by step.                                  *)

LEMMA HappensKeepsBasic == Basic /\ SomethingHappens => Basic'
<1> SUFFICES ASSUME Basic, SomethingHappens PROVE Basic'
  OBVIOUS
<1>1. /\ \A t \in Recorded : event'[t] = event[t]
      /\ Recorded \subseteq Recorded' /\ Happened \subseteq Happened'
  BY RecordStays DEF Next
<1>2. PICK k \in 0..Last : Happened = 1..k
  BY DEF Basic, Numbered
<1>3. Now = k + 1 /\ Now \in Times
  BY <1>2, NowIsNext DEF SomethingHappens
<1>4. PICK e \in Event : event' = [event EXCEPT ![Now] = e] /\ e.what # "nothing"
  BY DEF SomethingHappens
<1>5. event \in [Rows -> Event] /\ Now \in Rows /\ Times \subseteq Rows
  BY <1>3, ReactionsAssumption DEF Basic, TypeOK, Rows, Times
<1>6. Happened' = Happened \union {Now}
  BY <1>3, <1>4, <1>5 DEF Happened
<1>7. Happened' = 1..(k + 1) /\ k + 1 \in 0..Last
  BY <1>2, <1>3, <1>6, ReactionsAssumption DEF Times
<1>8. Numbered'
  BY <1>7 DEF Numbered
<1>9. /\ event' \in [Rows -> Event] /\ inbox' = inbox \union {Now}
      /\ UNCHANGED <<group, home, known, at, todo, chats, row, fresh, handled, flaws,
                     syncs, faults, restarts>>
  BY <1>4, <1>5 DEF SomethingHappens, tables, history, bounds
<1>10. TypeOK'
  BY <1>3, <1>9 DEF Basic, TypeOK
<1>11. Real' /\ HomeIsAChat'
  BY <1>1, <1>6, <1>9 DEF Basic, Real, HomeIsAChat
<1> QED
  BY <1>8, <1>10, <1>11 DEF Basic

LEMMA LiveBeginKeepsBasic ==
    ASSUME Basic, NEW o \in Outcomes, LiveBegin(o)
    PROVE  Basic'
<1>1. /\ UNCHANGED <<group, home, event, known, inbox, todo, chats, row, fresh,
                     handled, syncs, restarts>>
      /\ Happened' = Happened /\ Recorded' = Recorded
  BY DEF LiveBegin, world, tables, Happened, Recorded
<1>2. Head \in inbox /\ Head \in Happened /\ Head \in Times
  BY HeadInInbox DEF LiveBegin, Basic, TypeOK, Real
<1>3. event[Head].form \in Forms
  BY <1>2, ReactionsAssumption DEF Basic, TypeOK, Event, Times, Rows
<1>4. PICK j \in Jids : at' = [at EXCEPT !["live"] =
                 [step |-> "select", t |-> Head, found |-> None, jid |-> j]]
  <2>1. CASE o = "done" /\ home \in ChatAliases(RawChat(event[Head].form))
    <3>1. home \in Jids
      BY <1>3, <2>1, JidTypes DEF ChatAliases, Canonical, PhoneOf, Jids, Forms
    <3> QED
      BY <2>1, <3>1 DEF LiveBegin
  <2>2. CASE ~(o = "done" /\ home \in ChatAliases(RawChat(event[Head].form)))
    BY <1>3, <2>2, JidTypes DEF LiveBegin
  <2> QED
    BY <2>1, <2>2
<1>5. [step |-> "select", t |-> Head, found |-> None, jid |-> j] \in Worker
  BY <1>2 DEF Worker
<1>6. faults' \in 0..MaxFaults /\ flaws' \subseteq {"failed", "overlap", "astray", "tooEarly"}
  BY ChargeType DEF LiveBegin, Flawed, Basic, TypeOK
<1>7. TypeOK'
  BY <1>1, <1>4, <1>5, <1>6 DEF Basic, TypeOK
<1>8. Numbered' /\ HomeIsAChat'
  BY <1>1 DEF Basic, Numbered, HomeIsAChat
<1>9. Real'
  BY <1>1, <1>2, <1>4 DEF Basic, TypeOK, Real, Goroutines
<1> QED
  BY <1>7, <1>8, <1>9 DEF Basic

LEMMA SelectKeepsBasic ==
    ASSUME Basic, NEW o \in Outcomes, NEW p \in Goroutines, NEW t \in Times, Select(p, t, o)
    PROVE  Basic'
<1>1. /\ UNCHANGED <<group, home, event, known, chats, row, fresh,
                     handled, syncs, restarts>>
      /\ Happened' = Happened /\ Recorded' = Recorded
  BY DEF Select, world, tables, Happened, Recorded
<1>2. at[p].step = "select" /\ at[p].jid \in Jids /\ t \in Happened
  BY DEF Select, Current, Basic, Real, Goroutines
<1>3. faults' \in 0..MaxFaults /\ flaws' \subseteq {"failed", "overlap", "astray", "tooEarly"}
  BY ChargeType DEF Select, Flawed, Basic, TypeOK
<1>4. /\ at' \in [Goroutines -> Worker] /\ inbox' \subseteq inbox /\ todo' \subseteq todo
      /\ \A q \in Goroutines \ {p} : at'[q] = at[q]
      /\ at'[p].step # "idle" => at'[p].jid \in Jids
      /\ \/ /\ at'[p].step = "write" /\ at'[p].t = t
            /\ at'[p].found # None => row[at'[p].found].shown # "none"
         \/ at'[p].step = "idle" \/ (at'[p].step = "select" /\ p = "sync")
  <2>1. CASE o = "done"
    <3>1. /\ at' = [at EXCEPT ![p] = [step |-> "write", t |-> t, jid |-> at[p].jid,
                                     found |-> NewestOf(Matches(t, at[p].jid))]]
          /\ inbox' = inbox /\ todo' = todo
      BY <2>1 DEF Select
    <3>2. NewestOf(Matches(t, at[p].jid)) \in Matches(t, at[p].jid) \union {None}
      BY NewestIsOne DEF Matches, Basic
    <3>3. [step |-> "write", t |-> t, jid |-> at[p].jid,
              found |-> NewestOf(Matches(t, at[p].jid))] \in Worker
      BY <1>2, <3>2 DEF Worker, Matches
    <3> QED
      BY <1>2, <3>1, <3>2, <3>3 DEF Basic, TypeOK, Matches
  <2>2. CASE o # "done"
    BY <1>2, <2>2, FinishEnds DEF Select, Basic
  <2> QED
    BY <2>1, <2>2
<1>5. TypeOK'
  BY <1>1, <1>3, <1>4 DEF Basic, TypeOK
<1>6. Numbered' /\ HomeIsAChat'
  BY <1>1 DEF Basic, Numbered, HomeIsAChat
<1>7. Real'
  BY <1>1, <1>2, <1>4 DEF Basic, Real
<1> QED
  BY <1>5, <1>6, <1>7 DEF Basic

\* What a write does to the rows: nothing, or a change of what was found, or a
\* first row.
LEMMA WriteRow ==
    ASSUME Basic, NEW o \in Outcomes, NEW p \in Goroutines, Write(p, o)
    PROVE  /\ at[p].step = "write" /\ at[p].t \in Times /\ at[p].t \in Happened
           /\ at[p].jid \in Jids
           /\ \/ row' = row
              \/ /\ at[p].found \in Rows /\ row[at[p].found].shown # "none"
                 /\ row' = Updated(at[p].found, at[p].t)
              \/ /\ at[p].found = None /\ event[at[p].t].what # "remove"
                 /\ row' = InsertedReaction(at[p].t, at[p].jid)
<1>1. at[p].step = "write" /\ at[p].t \in Happened /\ at[p].jid \in Jids
  BY DEF Write, Basic, Real
<1>2. at[p].found \in Rows \union {None}
  BY DEF Basic, TypeOK, Worker
<1> QED
  BY <1>1, <1>2 DEF Write, Happened, Basic, Real

LEMMA WriteKeepsBasic ==
    ASSUME Basic, NEW o \in Outcomes, NEW p \in Goroutines, Write(p, o)
    PROVE  Basic'
<1> DEFINE t == at[p].t
           r == at[p].found
<1>1. /\ UNCHANGED <<group, home, event, known, chats, syncs, restarts>>
      /\ Happened' = Happened /\ Recorded' = Recorded
      /\ handled' = handled \union {t}
  BY DEF Write, world, Happened, Recorded
<1>2. at[p].step = "write" /\ t \in Times /\ t \in Happened /\ at[p].jid \in Jids
      /\ t \in Rows
  BY WriteRow, ReactionsAssumption DEF Times, Rows
<1>3. faults' \in 0..MaxFaults /\ flaws' \subseteq {"failed", "overlap", "astray", "tooEarly"}
  BY ChargeType DEF Write, Flawed, Basic, TypeOK
<1>4. /\ at' \in [Goroutines -> Worker] /\ inbox' \subseteq inbox /\ todo' \subseteq todo
      /\ \A q \in Goroutines \ {p} : at'[q] = at[q]
      /\ at'[p].step # "idle" => at'[p].jid \in Jids
      /\ \/ at'[p].step = "bump" /\ at'[p].t = t
         \/ at'[p].step = "idle" \/ (at'[p].step = "select" /\ p = "sync")
  <2>1. CASE o = "done" /\ Tells(t, r)
    <3>1. at' = [at EXCEPT ![p] = [at[p] EXCEPT !.step = "bump"]] /\ UNCHANGED <<inbox, todo>>
      BY <2>1 DEF Write, Basic, TypeOK
    <3>2. at \in [Goroutines -> Worker] /\ [at[p] EXCEPT !.step = "bump"] \in Worker
      BY DEF Basic, TypeOK, Worker
    <3>3. /\ [at[p] EXCEPT !.step = "bump"].t = t
          /\ [at[p] EXCEPT !.step = "bump"].jid = at[p].jid
          /\ [at[p] EXCEPT !.step = "bump"].step = "bump"
      BY DEF Basic, TypeOK, Worker
    <3> QED
      BY <1>2, <3>1, <3>2, <3>3
  <2>2. CASE ~(o = "done" /\ Tells(t, r))
    BY <1>2, <2>2, FinishEnds DEF Write, Basic
  <2> QED
    BY <2>1, <2>2
<1>5. /\ row' \in [Rows -> Reaction]
      /\ \A s \in Rows : row'[s].shown # "none" =>
            /\ row'[s].jid \in chats
            /\ s \in Recorded
      /\ \A s \in Rows : row[s].shown # "none" => row'[s].shown # "none"
  <2>1. CASE row' = row
    BY <2>1 DEF Basic, TypeOK, Real
  <2>2. CASE r \in Rows /\ row[r].shown # "none" /\ row' = Updated(r, t)
    <3>1. /\ row' \in [Rows -> Reaction] /\ row'[r].jid = row[r].jid
          /\ row' = row \/ row'[r].shown = Changed(t)
          /\ \A s \in Rows \ {r} : row'[s] = row[s]
      BY <1>2, <2>2, UpdateWrites DEF Basic
    <3>2. Changed(t) # "none"
      BY DEF Changed
    <3> QED
      BY <2>2, <3>1, <3>2 DEF Basic, TypeOK, Real
  <2>3. CASE row' = InsertedReaction(t, at[p].jid)
    <3>1. CASE row[t].shown = "none" /\ at[p].jid \in chats
      <4>1. /\ row' \in [Rows -> Reaction]
            /\ \A s \in Rows \ {t} : row'[s] = row[s]
            /\ row'[t] = [shown |-> "reaction", jid |-> at[p].jid, at |-> t]
        BY <1>2, <2>3, <3>1, InsertWrites DEF Basic
      <4>2. row'[t].jid \in chats /\ row'[t].shown # "none"
        BY <3>1, <4>1
      <4> QED
        BY <1>2, <4>1, <4>2 DEF Basic, TypeOK, Real, Recorded
    <3>2. CASE ~(row[t].shown = "none" /\ at[p].jid \in chats)
      BY <1>2, <2>1, <2>3, <3>2, InsertWrites DEF Basic
    <3> QED
      BY <3>1, <3>2
  <2> QED
    BY <2>1, <2>2, <2>3, WriteRow
<1>6. TypeOK'
  <2>1. handled' \subseteq Rows
    BY <1>1, <1>2 DEF Basic, TypeOK
  <2>2. fresh' \in BOOLEAN
    BY DEF Write
  <2> QED
    BY <1>1, <1>3, <1>4, <1>5, <2>1, <2>2 DEF Basic, TypeOK
<1>7. Numbered' /\ HomeIsAChat'
  BY <1>1 DEF Basic, Numbered, HomeIsAChat
<1>8. Real'
  <2>1. \A q \in Goroutines : at[q].found \in Rows \union {None}
    BY DEF Basic, TypeOK, Worker
  <2> QED
    BY <1>1, <1>2, <1>4, <1>5, <2>1 DEF Basic, Real, Recorded
<1> QED
  BY <1>6, <1>7, <1>8 DEF Basic

LEMMA BumpKeepsBasic ==
    ASSUME Basic, NEW o \in Outcomes, NEW p \in Goroutines, Bump(p, o)
    PROVE  Basic'
<1>1. /\ UNCHANGED <<group, home, event, known, chats, row, handled, syncs, restarts>>
      /\ Happened' = Happened /\ Recorded' = Recorded
      /\ fresh' \in BOOLEAN
  BY DEF Bump, world, Happened, Recorded
<1>2. at[p].step = "bump" /\ at[p].jid \in Jids
  BY DEF Bump, Basic, Real
<1>3. faults' \in 0..MaxFaults /\ flaws' \subseteq {"failed", "overlap", "astray", "tooEarly"}
  BY ChargeType DEF Bump, Flawed, Basic, TypeOK
<1>4. /\ at' \in [Goroutines -> Worker] /\ inbox' \subseteq inbox /\ todo' \subseteq todo
      /\ \A q \in Goroutines \ {p} : at'[q] = at[q]
      /\ at'[p].step # "idle" => at'[p].jid \in Jids
      /\ at'[p].step = "idle" \/ (at'[p].step = "select" /\ p = "sync")
  BY <1>2, FinishEnds DEF Bump, Basic
<1>5. TypeOK'
  BY <1>1, <1>3, <1>4 DEF Basic, TypeOK
<1>6. Numbered' /\ HomeIsAChat'
  BY <1>1 DEF Basic, Numbered, HomeIsAChat
<1>7. Real'
  BY <1>1, <1>4 DEF Basic, Real
<1> QED
  BY <1>5, <1>6, <1>7 DEF Basic

LEMMA SyncBeginKeepsBasic ==
    ASSUME Basic, NEW f \in Forms, NEW S \in SUBSET Times, SyncBegin(f, S)
    PROVE  Basic'
<1> DEFINE j == Canonical(RawChat(f))
<1>1. /\ UNCHANGED <<group, home, event, known, inbox, row, fresh, handled, flaws,
                     faults, restarts>>
      /\ Happened' = Happened /\ Recorded' = Recorded
      /\ todo' = S /\ S \subseteq Happened /\ chats' = chats \union {j}
      /\ syncs < MaxSyncs /\ syncs' = syncs + 1
  BY DEF SyncBegin, world, history, Happened, Recorded
<1>2. j \in Jids
  BY JidTypes
<1> HIDE DEF j
<1>3. at' = [at EXCEPT !["sync"] = [Idle EXCEPT !.step = "select", !.jid = j]]
  BY DEF SyncBegin, j
<1>4. /\ [Idle EXCEPT !.step = "select", !.jid = j] \in Worker
      /\ [Idle EXCEPT !.step = "select", !.jid = j].step = "select"
      /\ [Idle EXCEPT !.step = "select", !.jid = j].jid = j
  BY <1>2 DEF Idle, Worker
<1>5. /\ at' \in [Goroutines -> Worker] /\ at'["live"] = at["live"]
      /\ at'["sync"].step = "select" /\ at'["sync"].jid = j
  BY <1>3, <1>4 DEF Basic, TypeOK, Goroutines
<1>6. syncs' \in 0..MaxSyncs
  BY <1>1, ReactionsAssumption DEF Basic, TypeOK
<1>7. TypeOK'
  BY <1>1, <1>2, <1>5, <1>6 DEF Basic, TypeOK
<1>8. Numbered' /\ HomeIsAChat'
  BY <1>1 DEF Basic, Numbered, HomeIsAChat
<1>9. Real'
  BY <1>1, <1>2, <1>5 DEF Basic, Real, Goroutines
<1> QED
  BY <1>7, <1>8, <1>9 DEF Basic

LEMMA RestartKeepsBasic == Basic /\ Restart => Basic'
<1> SUFFICES ASSUME Basic, Restart PROVE Basic'
  OBVIOUS
<1>1. /\ UNCHANGED <<group, home, event, known, chats, row, fresh, handled,
                     syncs, faults>>
      /\ Happened' = Happened /\ Recorded' = Recorded
      /\ inbox' \subseteq inbox /\ todo' = {}
      /\ at' = [p \in Goroutines |-> Idle]
      /\ flaws' \subseteq {"failed", "overlap", "astray", "tooEarly"}
  BY DEF Restart, world, tables, Happened, Recorded, Basic, TypeOK
<1>2. restarts' \in 0..MaxRestarts
  BY ReactionsAssumption DEF Restart, Basic, TypeOK
<1>3. Idle \in Worker /\ Idle.step = "idle"
  BY DEF Idle, Worker
<1>4. TypeOK'
  BY <1>1, <1>2, <1>3 DEF Basic, TypeOK
<1>5. Numbered' /\ HomeIsAChat'
  BY <1>1 DEF Basic, Numbered, HomeIsAChat
<1>6. Real'
  BY <1>1, <1>3 DEF Basic, Real
<1> QED
  BY <1>4, <1>5, <1>6 DEF Basic

\* The types hold, and nothing but what happened is stored, by every step.
LEMMA BasicInductive == Basic /\ [Next]_vars => Basic'
<1> SUFFICES ASSUME Basic, [Next]_vars PROVE Basic'
  OBVIOUS
<1>1. ASSUME Learn \/ UNCHANGED vars
      PROVE  Basic'
  <2>1. /\ UNCHANGED <<group, home, event, inbox, at, todo, chats, row, fresh,
                       handled, flaws, syncs, faults, restarts>>
        /\ known' \in BOOLEAN /\ Happened' = Happened /\ Recorded' = Recorded
    BY <1>1 DEF Learn, vars, world, tables, history, bounds, Happened, Recorded,
       Basic, TypeOK
  <2>2. TypeOK'
    BY <2>1 DEF Basic, TypeOK
  <2> QED
    BY <2>1, <2>2 DEF Basic, Numbered, Real, HomeIsAChat
<1> QED
  BY <1>1, HappensKeepsBasic, LiveBeginKeepsBasic, SelectKeepsBasic,
     WriteKeepsBasic, BumpKeepsBasic, SyncBeginKeepsBasic, RestartKeepsBasic
     DEF Next, Bridge

-----------------------------------------------------------------------------
(* What each kind of step does to the rows and to the writers.              *)

\* A SELECT that succeeds makes a writer, one that fails ends an event.
LEMMA SelectDoes ==
    ASSUME Basic, NEW o \in Outcomes, NEW p \in Goroutines, NEW t \in Times, Select(p, t, o)
    PROVE  /\ UNCHANGED <<event, home, group, known, row, fresh, handled>>
           /\ at[p].step = "select" /\ t \in Happened
           /\ \A q \in Goroutines \ {p} : at'[q] = at[q]
           /\ \/ /\ at'[p].step = "write" /\ at'[p].t = t /\ at'[p].jid = at[p].jid
                 /\ at'[p].found = NewestOf(Matches(t, at[p].jid))
              \/ at'[p].step \in {"idle", "select"} /\ "failed" \in flaws'
           /\ flaws \subseteq flaws'
           /\ (\E q \in Goroutines \ {p} : Writing(q, event[t].side)) => "overlap" \in flaws'
           /\ at[p].jid # home \/ ~Traceable(t) => "astray" \in flaws'
<1>1. /\ UNCHANGED <<event, home, group, known, row, fresh, handled>>
      /\ at[p].step = "select" /\ t \in Happened
  BY DEF Select, world, tables, Current, Basic, Real, Goroutines
<1>2. /\ flaws \subseteq flaws' /\ (o # "done" => "failed" \in flaws')
      /\ (\E q \in Goroutines \ {p} : Writing(q, event[t].side)) => "overlap" \in flaws'
      /\ at[p].jid # home \/ ~Traceable(t) => "astray" \in flaws'
  BY DEF Select, Flawed
<1>3. CASE o = "done"
  <2>1. at' = [at EXCEPT ![p] = [step |-> "write", t |-> t, jid |-> at[p].jid,
                                 found |-> NewestOf(Matches(t, at[p].jid))]]
    BY <1>3 DEF Select
  <2>2. at \in [Goroutines -> Worker]
    BY DEF Basic, TypeOK
  <2> QED
    BY <1>1, <1>2, <2>1, <2>2
<1>4. CASE o # "done"
  BY <1>1, <1>2, <1>4, FinishEnds DEF Select, Basic
<1> QED
  BY <1>3, <1>4

\* A write ends the writer, and is a flaw if it fails or finds nothing to
\* remove.
LEMMA WriteDoes ==
    ASSUME Basic, NEW o \in Outcomes, NEW p \in Goroutines, Write(p, o)
    PROVE  /\ UNCHANGED <<event, home, group, known, chats>> /\ flaws \subseteq flaws'
           /\ handled' = handled \union {at[p].t}
           /\ fresh' = (fresh /\ row' = row)
           /\ \A q \in Goroutines \ {p} : at'[q] = at[q]
           /\ \/ at'[p].step = "bump" /\ at'[p].t = at[p].t /\ at'[p].jid = at[p].jid
              \/ at'[p].step \in {"idle", "select"}
           /\ \/ "failed" \in flaws'
              \/ /\ row' = row /\ at[p].found = None
                 /\ event[at[p].t].what = "remove" /\ "tooEarly" \in flaws'
              \/ /\ at'[p].step = "bump"
                 /\ IF at[p].found # None
                    THEN row' = Updated(at[p].found, at[p].t)
                    ELSE /\ row' = InsertedReaction(at[p].t, at[p].jid)
                         /\ event[at[p].t].what = "react"
<1> DEFINE t == at[p].t
           r == at[p].found
<1>1. /\ UNCHANGED <<event, home, group, known, chats>> /\ flaws \subseteq flaws'
      /\ handled' = handled \union {t} /\ fresh' = (fresh /\ row' = row)
      /\ at[p].step = "write"
  BY DEF Write, world, Flawed
<1>2. at \in [Goroutines -> Worker] /\ t \in Happened
  BY <1>1 DEF Basic, TypeOK, Real
<1>3. event[t].what \in {"react", "remove"}
  BY <1>2, ReactionsAssumption DEF Happened, Basic, TypeOK, Event, Times, Rows
<1>4. CASE o = "done" /\ Tells(t, r)
  <2>1. at' = [at EXCEPT ![p] = [at[p] EXCEPT !.step = "bump"]]
    BY <1>2, <1>4 DEF Write
  <2>2. /\ at'[p].step = "bump" /\ at'[p].t = at[p].t /\ at'[p].jid = at[p].jid
        /\ \A q \in Goroutines \ {p} : at'[q] = at[q]
    BY <1>2, <2>1 DEF Worker
  <2>3. IF r # None THEN row' = Updated(r, t)
        ELSE row' = InsertedReaction(t, at[p].jid) /\ event[t].what = "react"
    BY <1>3, <1>4 DEF Write, Tells, Applied
  <2> QED
    BY <1>1, <2>2, <2>3
<1>5. CASE ~(o = "done" /\ Tells(t, r))
  <2>1. at'[p].step \in {"idle", "select"} /\ \A q \in Goroutines \ {p} : at'[q] = at[q]
    BY <1>5, FinishEnds DEF Write, Basic
  <2>2. CASE o # "done"
    <3>1. "failed" \in flaws'
      BY <2>2 DEF Write, Flawed
    <3> QED
      BY <1>1, <2>1, <3>1
  <2>3. CASE r = None /\ event[t].what = "remove"
    <3>1. row' = row /\ "tooEarly" \in flaws'
      BY <2>3 DEF Write, Flawed
    <3> QED
      BY <1>1, <2>1, <2>3, <3>1
  <2> QED
    BY <1>3, <1>5, <2>2, <2>3 DEF Tells
<1> QED
  BY <1>4, <1>5

Selects == \E o \in Outcomes, p \in Goroutines, t \in Times : Select(p, t, o)
Writes == \E o \in Outcomes, p \in Goroutines : Write(p, o)

\* Every other step makes no writer and writes no row.
LEMMA OthersDo ==
    ASSUME Basic, [Next]_vars, ~Selects, ~Writes
    PROVE  /\ row' = row /\ handled' = handled
           /\ \A p \in Goroutines :
                 at'[p].step \in {"write", "bump"} => at'[p] = at[p]
<1>1. ASSUME NEW o \in Outcomes, LiveBegin(o)
      PROVE  /\ row' = row /\ handled' = handled
             /\ \A p \in Goroutines :
                   at'[p].step \in {"write", "bump"} => at'[p] = at[p]
  BY <1>1 DEF LiveBegin, tables, Basic, TypeOK, Goroutines
<1>2. ASSUME NEW o \in Outcomes, NEW p \in Goroutines, Bump(p, o)
      PROVE  /\ row' = row /\ handled' = handled
             /\ \A q \in Goroutines :
                   at'[q].step \in {"write", "bump"} => at'[q] = at[q]
  BY <1>2, FinishEnds DEF Bump, Basic
<1>3. ASSUME NEW f \in Forms, NEW S \in SUBSET Times, SyncBegin(f, S)
      PROVE  /\ row' = row /\ handled' = handled
             /\ \A p \in Goroutines :
                   at'[p].step \in {"write", "bump"} => at'[p] = at[p]
  <2>1. at'["live"] = at["live"] /\ at'["sync"].step = "select"
    BY <1>3 DEF SyncBegin, Idle, Basic, TypeOK, Goroutines
  <2> QED
    BY <1>3, <2>1 DEF SyncBegin, history, Goroutines
<1>4. ASSUME Restart
      PROVE  /\ row' = row /\ handled' = handled
             /\ \A p \in Goroutines :
                   at'[p].step \in {"write", "bump"} => at'[p] = at[p]
  BY <1>4 DEF Restart, Idle, tables
<1>5. ASSUME SomethingHappens \/ Learn \/ UNCHANGED vars
      PROVE  UNCHANGED <<row, handled, at>>
  BY <1>5 DEF SomethingHappens, Learn, vars, tables, history
<1> QED
  BY <1>1, <1>2, <1>3, <1>4, <1>5 DEF Next, Bridge, Selects, Writes

\* A side's rows do not change unless a row does.
LEMMA RowsStay ==
    ASSUME Basic, [Next]_vars, row' = row, NEW side
    PROVE  RowsOf(side)' = RowsOf(side)
<1>1. \A r \in Rows : row[r].shown # "none" => event'[r] = event[r]
  BY RecordStays DEF Basic, Real
<1> QED
  BY <1>1 DEF RowsOf

\* A writer that stays one stays of its side.
LEMMA WriterStays ==
    ASSUME Basic, [Next]_vars, NEW p \in Goroutines, NEW side, at'[p] = at[p]
    PROVE  /\ Writing(p, side)' <=> Writing(p, side)
           /\ at[p].step \in {"write", "bump"} /\ Traceable(at[p].t) => Traceable(at[p].t)'
<1>1. at[p].step \in {"write", "bump"} => event'[at[p].t] = event[at[p].t]
  BY RecordStays DEF Basic, Real, Recorded
<1>2. group' = group /\ (known => known')
  BY RecordStays
<1> QED
  BY <1>1, <1>2 DEF Writing, Traceable

-----------------------------------------------------------------------------
(* The conditional invariants.                                              *)

\* A SELECT in another chat than the message's, or for a sender it cannot
\* trace, is a flaw: what was stored without one is in place.
LEMMA InPlaceInductive == Basic /\ InPlace /\ [Next]_vars => InPlace'
<1> SUFFICES ASSUME Basic, InPlace, [Next]_vars, "astray" \notin flaws'
             PROVE  /\ \A r \in Rows : row'[r].shown # "none" => row'[r].jid = home'
                    /\ \A p \in Goroutines :
                          at'[p].step \in {"write", "bump"}
                              => at'[p].jid = home' /\ Traceable(at[p].t)'
  BY DEF InPlace
<1>1. /\ home' = home /\ "astray" \notin flaws
      /\ \A r \in Rows : row[r].shown # "none" => row[r].jid = home
      /\ \A p \in Goroutines :
            at[p].step \in {"write", "bump"} => at[p].jid = home /\ Traceable(at[p].t)
  BY RecordStays DEF InPlace
<1>2. \A p \in Goroutines : at'[p] = at[p] /\ at'[p].step \in {"write", "bump"}
                              => at'[p].jid = home' /\ Traceable(at[p].t)'
  BY <1>1, WriterStays
<1>3. CASE ~Selects /\ ~Writes
  BY <1>1, <1>2, <1>3, OthersDo
<1>4. ASSUME NEW o \in Outcomes, NEW p \in Goroutines, NEW t \in Times, Select(p, t, o)
      PROVE  /\ row' = row
             /\ \A q \in Goroutines :
                   at'[q].step \in {"write", "bump"} => at'[q].jid = home' /\ Traceable(at[q].t)'
  <2>1. /\ row' = row /\ at[p].jid = home /\ Traceable(t)
        /\ event' = event /\ group' = group /\ known' = known
        /\ \A q \in Goroutines \ {p} : at'[q] = at[q]
    BY <1>4, SelectDoes
  <2>2. at'[p].step \in {"write", "bump"} => at'[p].t = t /\ at'[p].jid = at[p].jid
    BY <1>4, SelectDoes
  <2>3. at'[p].step \in {"write", "bump"} => at'[p].jid = home' /\ Traceable(at[p].t)'
    BY <1>1, <2>1, <2>2 DEF Traceable
  <2> QED
    BY <1>2, <2>1, <2>3
<1>5. ASSUME NEW o \in Outcomes, NEW p \in Goroutines, Write(p, o)
      PROVE  /\ \A r \in Rows : row'[r].shown # "none" => row'[r].jid = home'
             /\ \A q \in Goroutines :
                   at'[q].step \in {"write", "bump"} => at'[q].jid = home' /\ Traceable(at[q].t)'
  <2>1. /\ at[p].step = "write" /\ at[p].t \in Times /\ at[p].jid = home
        /\ at[p].t \in Happened /\ at[p].jid \in Jids /\ Traceable(at[p].t)
    BY <1>1, <1>5, WriteRow
  <2>2. \A r \in Rows : row'[r].shown # "none" => row'[r].jid = home
    <3>1. CASE row' = row
      BY <1>1, <3>1
    <3>2. CASE /\ at[p].found \in Rows /\ row[at[p].found].shown # "none"
               /\ row' = Updated(at[p].found, at[p].t)
      BY <1>1, <2>1, <3>2, UpdateWrites DEF Basic
    <3>3. CASE row' = InsertedReaction(at[p].t, at[p].jid) /\ row' # row
      <4>1. /\ row'[at[p].t] = [shown |-> "reaction", jid |-> at[p].jid, at |-> at[p].t]
            /\ \A s \in Rows \ {at[p].t} : row'[s] = row[s]
        BY <2>1, <3>3, InsertWrites DEF Basic
      <4>2. row'[at[p].t].jid = home
        BY <2>1, <4>1
      <4> QED
        BY <1>1, <4>1, <4>2
    <3> QED
      BY <1>5, <3>1, <3>2, <3>3, WriteRow
  <2>3. \A q \in Goroutines \ {p} : at'[q] = at[q]
    BY <1>5, WriteDoes
  <2>4. at'[p].step \in {"write", "bump"} => at'[p].jid = home' /\ Traceable(at[p].t)'
    <3>1. at'[p].step \in {"write", "bump"} => at'[p].t = at[p].t /\ at'[p].jid = at[p].jid
      BY <1>5, WriteDoes
    <3>2. event' = event /\ group' = group /\ known' = known
      BY <1>5, WriteDoes
    <3> QED
      BY <1>1, <2>1, <3>1, <3>2 DEF Traceable
  <2> QED
    BY <1>1, <1>2, <2>2, <2>3, <2>4
<1> QED
  BY <1>1, <1>3, <1>4, <1>5 DEF Selects, Writes

\* In place, a SELECT returns the rows of its side.
LEMMA MatchesAreRows ==
    ASSUME Basic, InPlace, "astray" \notin flaws, NEW t \in Happened, Traceable(t)
    PROVE  Matches(t, home) = RowsOf(event[t].side)
<1>1. \A r \in Rows : row[r].shown # "none" => row[r].jid = home
  BY DEF InPlace
<1>2. \A r \in Rows : event[r].form \in Forms
  BY DEF Basic, TypeOK, Event
<1>3. \A r \in Rows : SameReactor(r, t) <=> event[r].side = event[t].side
  BY <1>2 DEF SameReactor, SenderAliases, Traceable
<1> QED
  BY <1>1, <1>3 DEF Matches, RowsOf

\* A side's writers do not overlap without a flaw.
LEMMA SelectHoldsInductive ==
    ASSUME Basic, InPlace, SelectHolds, OneRow, [Next]_vars
    PROVE  SelectHolds' /\ OneRow'
<1> SUFFICES ASSUME Orderly'
             PROVE  /\ \A p \in Goroutines : \A side \in {"us", "them"} :
                          Writing(p, side)' =>
                              /\ \A q \in Goroutines \ {p} : ~Writing(q, side)'
                              /\ IF at'[p].found = None
                                 THEN RowsOf(side)' = {}
                                 ELSE at'[p].found \in RowsOf(side)'
                    /\ \A side \in {"us", "them"} : \A r, s \in RowsOf(side)' : r = s
  BY DEF SelectHolds, OneRow
<1>1. Orderly /\ "astray" \notin flaws /\ "astray" \notin flaws' /\ "overlap" \notin flaws'
  BY RecordStays DEF Orderly
<1>2. /\ \A p \in Goroutines : \A side \in {"us", "them"} :
            Writing(p, side) =>
                /\ \A q \in Goroutines \ {p} : ~Writing(q, side)
                /\ IF at[p].found = None THEN RowsOf(side) = {}
                                         ELSE at[p].found \in RowsOf(side)
      /\ \A side \in {"us", "them"} : \A r, s \in RowsOf(side) : r = s
  BY <1>1 DEF SelectHolds, OneRow
<1>3. CASE ~Selects /\ ~Writes
  <2>1. \A side : RowsOf(side)' = RowsOf(side)
    BY <1>3, OthersDo, RowsStay
  <2>2. \A p \in Goroutines, side \in {"us", "them"} :
           Writing(p, side)' => at'[p] = at[p] /\ Writing(p, side)
    <3>1. \A p \in Goroutines, side \in {"us", "them"} : Writing(p, side)' => at'[p] = at[p]
      BY <1>3, OthersDo DEF Writing
    <3> QED
      BY <3>1, WriterStays
  <2> QED
    BY <1>2, <2>1, <2>2
<1>4. ASSUME NEW o \in Outcomes, NEW p \in Goroutines, NEW t \in Times, Select(p, t, o)
      PROVE  /\ \A q \in Goroutines : \A side \in {"us", "them"} :
                   Writing(q, side)' =>
                       /\ \A u \in Goroutines \ {q} : ~Writing(u, side)'
                       /\ IF at'[q].found = None
                          THEN RowsOf(side)' = {}
                          ELSE at'[q].found \in RowsOf(side)'
             /\ \A side \in {"us", "them"} : \A r, s \in RowsOf(side)' : r = s
  <2>1. /\ UNCHANGED <<event, row>> /\ t \in Happened
        /\ at[p].jid = home /\ Traceable(t)
        /\ \A q \in Goroutines \ {p} : at'[q] = at[q] /\ ~Writing(q, event[t].side)
    BY <1>1, <1>4, SelectDoes
  <2>2. \A side : RowsOf(side)' = RowsOf(side)
    BY <2>1, RowsStay
  <2>3. \A q \in Goroutines \ {p}, side \in {"us", "them"} :
           Writing(q, side)' <=> Writing(q, side)
    BY <2>1, WriterStays
  <2>4. \A side \in {"us", "them"} : Writing(p, side)' =>
           /\ side = event[t].side
           /\ IF at'[p].found = None THEN RowsOf(side) = {} ELSE at'[p].found \in RowsOf(side)
    <3>1. SUFFICES ASSUME NEW side \in {"us", "them"}, Writing(p, side)'
                   PROVE  /\ side = event[t].side
                          /\ IF at'[p].found = None THEN RowsOf(side) = {}
                                                    ELSE at'[p].found \in RowsOf(side)
      OBVIOUS
    <3>2. at'[p].step = "write"
      BY <3>1 DEF Writing
    <3>3. at'[p].t = t /\ at'[p].found = NewestOf(Matches(t, home))
      BY <1>4, <2>1, <3>2, SelectDoes
    <3>4. side = event[t].side
      BY <2>1, <3>1, <3>3 DEF Writing
    <3>5. Matches(t, home) = RowsOf(side)
      BY <1>1, <2>1, <3>4, MatchesAreRows
    <3>6. IF RowsOf(side) = {} THEN at'[p].found = None
          ELSE at'[p].found \in RowsOf(side) /\ at'[p].found # None
      BY <3>3, <3>5, NewestIsOne, ReactionsAssumption DEF RowsOf, Basic, Rows, None
    <3> QED
      BY <3>4, <3>6
  <2> QED
    BY <1>2, <2>1, <2>2, <2>3, <2>4
<1>5. ASSUME NEW o \in Outcomes, NEW p \in Goroutines, Write(p, o)
      PROVE  /\ \A q \in Goroutines : \A side \in {"us", "them"} :
                   Writing(q, side)' =>
                       /\ \A u \in Goroutines \ {q} : ~Writing(u, side)'
                       /\ IF at'[q].found = None
                          THEN RowsOf(side)' = {}
                          ELSE at'[q].found \in RowsOf(side)'
             /\ \A side \in {"us", "them"} : \A r, s \in RowsOf(side)' : r = s
  <2>0. PICK t, r, mine : t = at[p].t /\ r = at[p].found /\ mine = event[t].side
    OBVIOUS
  <2>1. /\ event' = event /\ t \in Times /\ t \in Happened /\ t \in Rows /\ at[p].jid \in Jids
        /\ at[p].step = "write" /\ mine \in {"us", "them"}
    <3>1. t \in Rows /\ event' = event /\ event \in [Rows -> Event]
      BY <1>5, <2>0, WriteRow, WriteDoes, ReactionsAssumption DEF Times, Rows, Basic, TypeOK
    <3>2. mine \in {"us", "them"}
      BY <2>0, <3>1 DEF Event
    <3> QED
      BY <1>5, <2>0, <3>1, <3>2, WriteRow
  <2>2. Writing(p, mine)
    BY <2>0, <2>1 DEF Writing
  <2>3. \A q \in Goroutines \ {p} : at'[q] = at[q] /\ ~Writing(q, mine)
    BY <1>2, <1>5, <2>1, <2>2, WriteDoes
  <2>4. \A side \in {"us", "them"} : ~Writing(p, side)'
    <3>1. at'[p].step # "write"
      BY <1>5, WriteDoes
    <3> QED
      BY <3>1 DEF Writing
  <2>5. \A q \in Goroutines, side \in {"us", "them"} :
           Writing(q, side)' => q # p /\ side # mine /\ Writing(q, side)
    BY <2>3, <2>4, WriterStays
  <2>6. /\ \A side \in {"us", "them"} \ {mine} : RowsOf(side)' = RowsOf(side)
        /\ \A x, y \in RowsOf(mine)' : x = y
    <3>1. CASE row' = row
      BY <1>2, <2>1, <3>1, RowsStay
    <3>2. CASE r \in Rows /\ row' = Updated(r, t) /\ row' # row
      <4>1. r \in RowsOf(mine) /\ event[r].side = mine
        BY <1>2, <2>0, <2>1, <2>2, <3>2, ReactionsAssumption DEF RowsOf, None, Rows
      <4>2. /\ \A s \in Rows \ {r} : row'[s] = row[s]
            /\ row'[r].shown # "none" /\ row[r].shown # "none"
        BY <2>1, <3>2, <4>1, UpdateWrites DEF Basic, Changed, RowsOf
      <4>3. \A side : RowsOf(side)' = RowsOf(side)
        BY <2>1, <4>2 DEF RowsOf
      <4> QED
        BY <1>2, <2>1, <4>3
    <3>3. CASE r = None /\ row' = InsertedReaction(t, at[p].jid) /\ row' # row
      <4>1. RowsOf(mine) = {}
        BY <1>2, <2>0, <2>1, <2>2, <3>3
      <4>2. \A s \in Rows \ {t} : row'[s] = row[s]
        BY <2>1, <3>3, InsertWrites DEF Basic
      <4>3. \A side \in {"us", "them"} \ {mine} : RowsOf(side)' = RowsOf(side)
        BY <2>0, <2>1, <4>2 DEF RowsOf
      <4>4. RowsOf(mine)' \subseteq {t}
        BY <2>1, <4>1, <4>2 DEF RowsOf
      <4> QED
        BY <4>3, <4>4
    <3> QED
      BY <1>5, <2>0, <3>1, <3>2, <3>3, WriteRow
  <2> QED
    BY <1>2, <2>3, <2>5, <2>6
<1> QED
  BY <1>3, <1>4, <1>5 DEF Selects, Writes

\* A write is followed by the stamp of the message, unless something failed.
LEMMA StampComingInductive ==
    ASSUME Basic, InPlace, StampComing, [Next]_vars
    PROVE  StampComing'
<1> SUFFICES ASSUME "failed" \notin flaws', "astray" \notin flaws', ~fresh'
             PROVE  \E p \in Goroutines : at'[p].step = "bump"
  BY DEF StampComing
<1>1. "failed" \notin flaws /\ "astray" \notin flaws
  BY RecordStays
<1>2. fresh \/ \E p \in Goroutines : at[p].step = "bump"
  BY <1>1 DEF StampComing
<1>3. ASSUME NEW o \in Outcomes, NEW p \in Goroutines, NEW t \in Times, Select(p, t, o)
      PROVE  \E q \in Goroutines : at'[q].step = "bump"
  BY <1>2, <1>3, SelectDoes
<1>4. ASSUME NEW o \in Outcomes, NEW p \in Goroutines, Write(p, o)
      PROVE  \E q \in Goroutines : at'[q].step = "bump"
  <2>1. at[p].step = "write"
    BY <1>4, WriteRow
  <2>2. /\ fresh' = (fresh /\ row' = row) /\ \A q \in Goroutines \ {p} : at'[q] = at[q]
        /\ row' = row \/ at'[p].step = "bump"
    BY <1>4, WriteDoes
  <2> QED
    BY <1>2, <2>1, <2>2
<1>5. ASSUME NEW o \in Outcomes, NEW p \in Goroutines, Bump(p, o)
      PROVE  FALSE
  <2>1. o = "done" /\ at[p].jid = home
    BY <1>1, <1>5 DEF Bump, Flawed, InPlace
  <2> QED
    BY <1>5, <2>1 DEF Bump, Applied
<1>6. ASSUME NEW o \in Outcomes, LiveBegin(o)
      PROVE  \E q \in Goroutines : at'[q].step = "bump"
  <2>1. fresh' = fresh /\ at["live"].step = "idle" /\ at'["sync"] = at["sync"]
    BY <1>6 DEF LiveBegin, tables, Basic, TypeOK, Goroutines
  <2> QED
    BY <1>2, <2>1 DEF Goroutines
<1>7. ASSUME NEW f \in Forms, NEW S \in SUBSET Times, SyncBegin(f, S)
      PROVE  \E q \in Goroutines : at'[q].step = "bump"
  <2>1. fresh' = fresh /\ at["sync"].step = "idle" /\ at'["live"] = at["live"]
    BY <1>7 DEF SyncBegin, Basic, TypeOK, Goroutines
  <2> QED
    BY <1>2, <2>1 DEF Goroutines
<1>8. CASE Restart
  BY <1>2, <1>8 DEF Restart, tables
<1>9. CASE SomethingHappens \/ Learn \/ UNCHANGED vars
  BY <1>2, <1>9 DEF SomethingHappens, Learn, vars, tables
<1> QED
  BY <1>3, <1>4, <1>5, <1>6, <1>7, <1>8, <1>9 DEF Next, Bridge

\* Nothing changes for a side of which no event is stored.
LEMMA DoneStays ==
    ASSUME Basic, [Next]_vars, handled' = handled, NEW side
    PROVE  DoneBy(side)' = DoneBy(side)
<1>1. \A t \in handled : event'[t] = event[t]
  BY RecordStays DEF Basic, Real
<1> QED
  BY <1>1 DEF DoneBy

\* Without a flaw a write leaves its side's row to the later event.
LEMMA LatestShownInductive ==
    ASSUME Basic, InPlace, SelectHolds, OneRow, LatestShown, [Next]_vars
    PROVE  LatestShown'
<1> SUFFICES ASSUME flaws' = {}, NEW side \in {"us", "them"}
             PROVE  /\ DoneBy(side)' # {} => RowsOf(side)' # {}
                    /\ \A r \in RowsOf(side)' :
                          /\ row'[r].at \in DoneBy(side)'
                          /\ \A t \in DoneBy(side)' : t <= row'[r].at
                          /\ row'[r].shown = Changed(row[r].at)'
  BY DEF LatestShown
<1>1. flaws = {} /\ "astray" \notin flaws /\ Orderly
  BY RecordStays DEF Orderly
<1>2. /\ DoneBy(side) # {} => RowsOf(side) # {}
      /\ \A r \in RowsOf(side) :
            /\ row[r].at \in DoneBy(side) /\ \A t \in DoneBy(side) : t <= row[r].at
            /\ row[r].shown = Changed(row[r].at)
  BY <1>1 DEF LatestShown
<1>3. \A t \in handled : event'[t] = event[t]
  BY RecordStays DEF Basic, Real
<1>4. CASE row' = row /\ handled' = handled
  <2>1. RowsOf(side)' = RowsOf(side) /\ DoneBy(side)' = DoneBy(side)
    BY <1>4, RowsStay, DoneStays
  <2>2. \A r \in RowsOf(side) : Changed(row[r].at)' = Changed(row[r].at)
    BY <1>2, <1>3, <1>4 DEF Changed, DoneBy
  <2> QED
    BY <1>2, <1>4, <2>1, <2>2
<1>5. ASSUME NEW o \in Outcomes, NEW p \in Goroutines, Write(p, o)
      PROVE  /\ DoneBy(side)' # {} => RowsOf(side)' # {}
             /\ \A r \in RowsOf(side)' :
                   /\ row'[r].at \in DoneBy(side)'
                   /\ \A t \in DoneBy(side)' : t <= row'[r].at
                   /\ row'[r].shown = Changed(row[r].at)'
  <2>1. PICK t, r, mine : t = at[p].t /\ r = at[p].found /\ mine = event[t].side
    OBVIOUS
  <2>2. /\ t \in Times /\ t \in Happened /\ at[p].step = "write" /\ t \in Rows
        /\ event \in [Rows -> Event] /\ mine \in {"us", "them"} /\ Writing(p, mine)
    <3>1. t \in Times /\ t \in Happened /\ at[p].step = "write" /\ t \in Rows
      BY <1>5, <2>1, WriteRow, ReactionsAssumption DEF Times, Rows
    <3>2. event \in [Rows -> Event] /\ event[t] \in Event
      BY <3>1 DEF Basic, TypeOK
    <3> QED
      BY <2>1, <3>1, <3>2 DEF Event, Writing
  <2>3. at[p].jid = home /\ home \in Jids /\ home \in chats
    <3>1. at[p].jid = home /\ at[p].jid \in Jids
      BY <1>1, <1>5, WriteRow DEF InPlace
    <3> QED
      BY <3>1 DEF Basic, HomeIsAChat, Jids, Forms
  <2>4. /\ event' = event /\ handled' = handled \union {t}
        /\ IF r # None THEN row' = Updated(r, t)
           ELSE row' = InsertedReaction(t, home) /\ event[t].what = "react"
    BY <1>5, <2>1, <2>3, WriteDoes
  <2>5. IF r = None THEN RowsOf(mine) = {} ELSE r \in RowsOf(mine)
    BY <1>1, <2>1, <2>2 DEF SelectHolds
  <2>6. DoneBy(mine)' = DoneBy(mine) \union {t}
    BY <2>1, <2>4 DEF DoneBy
  <2>7. \A u : Changed(u)' = Changed(u)
    BY <2>4 DEF Changed
  <2>8. CASE side # mine
    <3>1. DoneBy(side)' = DoneBy(side)
      BY <2>1, <2>4, <2>8 DEF DoneBy
    <3>2. \A s \in Rows : event[s].side = side => row'[s] = row[s]
      <4>1. CASE r # None
        <5>1. r \in Rows /\ event[r].side = mine
          BY <2>5, <4>1 DEF RowsOf
        <5>2. \A s \in Rows \ {r} : row'[s] = row[s]
          BY <2>2, <2>4, <4>1, <5>1, UpdateWrites DEF Basic
        <5> QED
          BY <2>8, <5>1, <5>2
      <4>2. CASE r = None
        <5>1. TypeOK
          BY DEF Basic
        <5>2. \A s \in Rows \ {t} : InsertedReaction(t, home)[s] = row[s]
          BY <2>2, <2>3, <5>1, InsertWrites
        <5>3. row' = InsertedReaction(t, home)
          BY <2>4, <4>2
        <5> QED
          BY <2>1, <2>8, <5>2, <5>3
      <4> QED
        BY <4>1, <4>2
    <3>3. RowsOf(side)' = RowsOf(side) /\ \A s \in RowsOf(side) : row'[s] = row[s]
      BY <2>4, <3>2 DEF RowsOf
    <3>4. \A s \in RowsOf(side) : Changed(row[s].at)' = Changed(row[s].at)
      BY <2>4, <3>3 DEF Changed
    <3> QED
      BY <1>2, <3>1, <3>3, <3>4
  <2>9. CASE side = mine /\ r = None
    <3>1. /\ RowsOf(side) = {} /\ DoneBy(side) = {} /\ event[t].side = side
          /\ event[t].what = "react"
      BY <1>2, <2>1, <2>4, <2>5, <2>9
    <3>2. row[t].shown = "none"
      BY <2>2, <3>1 DEF RowsOf
    <3>3. /\ row'[t] = [shown |-> "reaction", jid |-> home, at |-> t]
          /\ \A s \in Rows \ {t} : row'[s] = row[s]
      BY <2>2, <2>3, <2>4, <2>9, <3>2, InsertWrites DEF Basic
    <3>4. row'[t].shown = "reaction" /\ row'[t].at = t
      BY <3>3
    <3>5. RowsOf(side)' = {t}
      BY <2>2, <2>4, <3>1, <3>3, <3>4 DEF RowsOf
    <3>6. DoneBy(side)' = {t} /\ t <= t
      BY <2>2, <2>6, <2>9, <3>1 DEF Times
    <3>7. Changed(row[t].at)' = "reaction"
      BY <2>4, <3>1, <3>4 DEF Changed
    <3> QED
      BY <3>4, <3>5, <3>6, <3>7
  <2>10. CASE side = mine /\ r # None
    <3>1. /\ r \in RowsOf(side) /\ \A s \in RowsOf(side) : s = r
      BY <1>1, <2>5, <2>10 DEF OneRow
    <3>2. r \in Rows /\ row[r].at \in 0..Last /\ row[r].shown # "none" /\ row' = Updated(r, t)
      BY <2>4, <2>10, <3>1 DEF RowsOf, Basic, TypeOK, Reaction
    <3>3. /\ row[r].at \in DoneBy(side) /\ \A u \in DoneBy(side) : u <= row[r].at
          /\ row[r].shown = Changed(row[r].at)
          /\ DoneBy(side) \subseteq 0..Last /\ t \in 0..Last
      BY <1>2, <2>2, <3>1 DEF DoneBy, Basic, TypeOK, Rows
    <3>4. /\ \A s \in Rows \ {r} : row'[s] = row[s]
          /\ IF row[r].at <= t THEN row'[r].at = t /\ row'[r].shown = Changed(t)
                               ELSE row' = row
      BY <2>2, <3>2, UpdateWrites DEF Basic
    <3>5. row'[r].shown # "none"
      BY <3>2, <3>4 DEF Changed
    <3>6. RowsOf(side)' = RowsOf(side)
      BY <2>4, <3>2, <3>4, <3>5 DEF RowsOf
    <3>7. /\ row'[r].at \in DoneBy(side) \union {t}
          /\ \A u \in DoneBy(side) \union {t} : u <= row'[r].at
      <4>1. CASE row[r].at <= t
        <5>1. row'[r].at = t
          BY <3>4, <4>1
        <5>2. \A u \in DoneBy(side) : u <= t
          BY <3>2, <3>3, <4>1
        <5> QED
          BY <3>3, <5>1, <5>2
      <4>2. CASE ~(row[r].at <= t)
        BY <3>2, <3>3, <3>4, <4>2
      <4> QED
        BY <4>1, <4>2
    <3>8. row'[r].shown = Changed(row[r].at)'
      BY <2>4, <3>3, <3>4 DEF Changed
    <3> QED
      BY <2>6, <2>10, <3>1, <3>6, <3>7, <3>8
  <2> QED
    BY <2>8, <2>9, <2>10
<1>6. CASE Selects
  BY <1>4, <1>6, SelectDoes DEF Selects
<1> QED
  BY <1>4, <1>5, <1>6, OthersDo DEF Writes

\* Every step of the two goroutines and of WhatsApp keeps the invariant.
LEMMA Inductive == IInv /\ [Next]_vars => IInv'
  BY BasicInductive, InPlaceInductive, SelectHoldsInductive, StampComingInductive,
     LatestShownInductive DEF IInv

\* The invariant holds at the start, with a reaction from before too.
LEMMA Starts == Init => IInv
<1> SUFFICES ASSUME Init PROVE IInv
  OBVIOUS
<1>1. /\ Rows = Times \union {0} /\ 0 \notin Times /\ 0 \in Rows
      /\ 0 \in 0..MaxSyncs /\ 0 \in 0..MaxFaults /\ 0 \in 0..MaxRestarts
  BY ReactionsAssumption DEF Rows, Times
<1>2. /\ \A t \in Times : row[t] = NoReaction
      /\ row[0] \in {NoReaction, [shown |-> "reaction", jid |-> home, at |-> 0],
                     [shown |-> "system", jid |-> home, at |-> 0]}
      /\ home = "none" => row[0] = NoReaction
      /\ home \in chats \union {"none"} /\ chats \subseteq Jids
  BY <1>1 DEF Init, Jids, Forms
<1>3. PICK f \in Forms :
          event = [t \in Rows |->
                      [what |-> IF t # 0 \/ row[0] = NoReaction THEN "nothing"
                                ELSE IF row[0].shown = "reaction" THEN "react" ELSE "remove",
                       side |-> "them", form |-> f]]
  BY DEF Init, Forms
<1>4. event \in [Rows -> Event]
  BY <1>3 DEF Event
<1>5. Happened = {}
  BY <1>1, <1>3 DEF Happened
<1>6. /\ row \in [Rows -> Reaction]
      /\ \A r \in Rows : row[r].shown = "none" \/ (row[r].jid = home /\ home \in chats /\ r = 0)
  <2>1. NoReaction \in Reaction /\ NoReaction.shown = "none"
    BY ReactionsAssumption DEF NoReaction, Reaction
  <2>2. home # "none" => /\ [shown |-> "reaction", jid |-> home, at |-> 0] \in Reaction
                         /\ [shown |-> "system", jid |-> home, at |-> 0] \in Reaction
    BY <1>2, ReactionsAssumption DEF Reaction
  <2>3. \A r \in Rows : row[r] \in Reaction
    BY <1>1, <1>2, <2>1, <2>2
  <2>4. row \in [Rows -> Reaction]
    BY <2>3 DEF Init
  <2>5. row[0] # NoReaction => row[0].jid = home /\ home \in chats
    BY <1>2
  <2> QED
    BY <1>1, <1>2, <2>1, <2>4, <2>5
<1>7. at = [p \in Goroutines |-> Idle] /\ Idle \in Worker /\ Idle.step = "idle"
  BY DEF Init, Idle, Worker
<1>8. TypeOK
  BY <1>1, <1>2, <1>4, <1>6, <1>7 DEF Init, TypeOK
<1>9. Numbered
  BY <1>5, ReactionsAssumption DEF Numbered
<1>10. Real /\ HomeIsAChat
  <2>1. handled \subseteq {0}
    BY <1>1, <1>2 DEF Init
  <2> QED
    BY <1>2, <1>6, <1>7, <2>1 DEF Init, Real, Recorded, HomeIsAChat
<1>11. InPlace /\ SelectHolds /\ StampComing /\ OneRow
  BY <1>6, <1>7 DEF Init, InPlace, SelectHolds, StampComing, OneRow, Writing, RowsOf
<1>12. LatestShown
  <2>1. CASE row[0] = NoReaction
    <3>1. handled = {} /\ \A side : RowsOf(side) = {}
      BY <1>1, <1>2, <2>1 DEF Init, RowsOf, NoReaction
    <3> QED
      BY <3>1 DEF LatestShown, DoneBy
  <2>2. CASE row[0] # NoReaction
    <3>1. /\ handled = {0} /\ event[0].side = "them" /\ row[0].at = 0
          /\ row[0].shown \in {"reaction", "system"}
          /\ event[0].what = IF row[0].shown = "reaction" THEN "react" ELSE "remove"
      BY <1>1, <1>2, <1>3, <2>2 DEF Init
    <3>2. /\ RowsOf("them") = {0} /\ RowsOf("us") = {}
          /\ DoneBy("them") = {0} /\ DoneBy("us") = {}
      BY <1>1, <1>6, <3>1 DEF RowsOf, DoneBy
    <3>3. row[0].shown = Changed(0)
      BY <3>1 DEF Changed
    <3> QED
      BY <3>1, <3>2, <3>3 DEF LatestShown
  <2> QED
    BY <2>1, <2>2
<1> QED
  BY <1>8, <1>9, <1>10, <1>11, <1>12 DEF IInv, Basic

-----------------------------------------------------------------------------
\* The invariant holds in every reachable state.
THEOREM Invariance == Spec => []IInv
  BY Inductive, Starts, PTL DEF Spec

\* The events, the tables and the goroutines keep their types, and a shown
\* reaction is in a chat that has a row.
THEOREM TypeCorrect == Spec => []TypeOK
<1>1. IInv => TypeOK
  BY DEF IInv, Basic
<1> QED
  BY <1>1, Invariance, PTL

\* UpsertReaction keeps one reaction per person and message, as long as its
\* SELECT finds what there is and nobody writes in between.
THEOREM AtMostOne == Spec => []OneReaction
<1>1. IInv => OneReaction
  <2> SUFFICES ASSUME IInv, Orderly, NEW side \in {"us", "them"}
               PROVE  Cardinality(RowsOf(side)) <= 1
    BY DEF OneReaction, Orderly
  <2>1. \A r, s \in RowsOf(side) : r = s
    BY DEF IInv, OneRow
  <2>2. RowsOf(side) = {} \/ \E r : RowsOf(side) = {r}
    BY <2>1
  <2> QED
    BY <2>2, FS_EmptySet, FS_Singleton
<1> QED
  BY <1>1, Invariance, PTL

\* In whatever order the two goroutines store the reactions, the row of a side
\* shows the last one that was stored.
THEOREM LastCounts == Spec => []LastReactionCounts
<1>1. IInv => LastReactionCounts
  <2> SUFFICES ASSUME IInv, flaws = {}, NEW side \in {"us", "them"}, DoneBy(side) # {},
                      NEW last, last = CHOOSE t \in DoneBy(side) : \A s \in DoneBy(side) : s <= t
               PROVE  IF event[last].what = "react"
                      THEN {row[r].at : r \in {r \in RowsOf(side) : row[r].shown = "reaction"}} = {last}
                      ELSE {r \in RowsOf(side) : row[r].shown = "reaction"} = {}
    BY DEF LastReactionCounts, DoneBy
  <2>1. PICK r : RowsOf(side) = {r}
    <3>1. RowsOf(side) # {} /\ \A r, s \in RowsOf(side) : r = s
      BY DEF IInv, LatestShown, OneRow, Orderly
    <3> QED
      BY <3>1
  <2>2. /\ row[r].at \in DoneBy(side) /\ \A t \in DoneBy(side) : t <= row[r].at
        /\ row[r].shown = Changed(row[r].at)
    BY <2>1 DEF IInv, LatestShown
  <2>3. DoneBy(side) \subseteq 0..Last
    BY DEF DoneBy, IInv, Basic, TypeOK, Rows
  <2>4. last \in DoneBy(side) /\ \A s \in DoneBy(side) : s <= last
    BY <2>2
  <2>5. last = row[r].at
    BY <2>2, <2>3, <2>4, ReactionsAssumption
  <2> QED
    BY <2>1, <2>2, <2>5 DEF Changed
<1> QED
  BY <1>1, Invariance, PTL

\* A message whose reactions changed is stamped once the bridge is quiet.
THEOREM ChipsAreFresh == Spec => []ChipsRefresh
<1>1. IInv => ChipsRefresh
  BY DEF IInv, StampComing, ChipsRefresh, Quiet
<1> QED
  BY <1>1, Invariance, PTL
=============================================================================
