--------------------------- MODULE StoringProofs ----------------------------
(***************************************************************************)
(* A message on its way into the database: the schema the statements meet, *)
(* the chat, the texts and the status, for any number of history syncs and *)
(* whatever the database lacks at first.  The files of the preview are in  *)
(* PreviewProofs.                                                          *)
(*                                                                         *)
(* The argument: a goroutine that runs a statement is at the step of that  *)
(* statement (AtItsCall), so what a statement does to the row follows from *)
(* where its goroutine is.  Of the schema, a statement uses what its       *)
(* operation wants and is not off (Uses), and only what was lacking is     *)
(* refused or off (OnlyLacked).  Of the row, the first text is kept from   *)
(* the insert on (FirstKept), the handler is past an edit only when the    *)
(* new text is stored (EditKept), and a receipt that was not early met the *)
(* row (ReceiptsFollow).                                                   *)
(***************************************************************************)
EXTENDS Storing, FiniteSetTheorems, TLAPS

\* TypeOK, save what Uploads and Schema keep.
Typed ==
    /\ origin \in Origins /\ form \in Jids /\ known \in BOOLEAN
    /\ inbox \subseteq {"message", "edit"} \union Receipts
    /\ at \in [Goroutines ->
                  [step : {"idle", "upload", "chat", "insert",
                           "locate", "edit", "text", "tail"},
                   jid : Jids \union {"none"}, aka : SUBSET Jids, url : BOOLEAN]]
    /\ chats \subseteq Jids
    /\ msg = NoRow \/ msg \in [jid : chats, url : BOOLEAN, has : SUBSET {"quotes", "location"},
                               status : IF Ours THEN Receipts \union {"sent"} ELSE {"received"},
                               body : {"old", "new"}, original : {"none", "old", "new"}]
    /\ edited \in BOOLEAN /\ told \subseteq Receipts \union {"edit"}
    /\ flaws \subseteq {"failed", "early", "overlap", "unnamed", "firstContact"}
    /\ syncs \in 0..MaxSyncs /\ faults \in 0..MaxFaults

\* A statement runs at the step of its operation.
AtItsCall ==
    \A p \in Goroutines : call[p].op # "none" =>
        at[p].step \in DOMAIN Operation /\ call[p].op = Operation[at[p].step]

\* A statement uses features that its operation wants, the one refused among
\* them, and an edit uses its own unless it is off.
Uses ==
    \A p \in Goroutines :
        /\ call[p].op = "none" => call[p].use = {}
        /\ call[p].op # "none" => call[p].use \subseteq Db!Wants(call[p].op)
        /\ call[p].refused # "none" => call[p].refused \in call[p].use
        /\ call[p].op = "edit" /\ call[p].use = {} => "edits" \in off

\* What is off, refused or not used was lacking when the process started.
OnlyLacked ==
    /\ off \subseteq lacked /\ lacks \subseteq lacked
    /\ \A p \in Goroutines :
          /\ call[p].refused # "none" => call[p].refused \in lacked
          /\ call[p].op = "place" => {"quotes", "location"} \ lacked \subseteq call[p].use

SchemaInv == Db!TypeOK /\ Uses /\ OnlyLacked

\* A sender that writes has looked its chat up, and a message is sent once.
Underway ==
    /\ \A p \in Goroutines : at[p].step \in {"upload", "chat", "insert"} => at[p].jid \in Jids
    /\ origin = "bridge" /\ "message" \in inbox => at["out"].step = "idle"
    /\ inbox \intersect Receipts # {} => Ours

\* While no chat was written before its LID was known, all go by the LID.
ByLid ==
    "firstContact" \notin flaws =>
        chats \subseteq {"lid"} /\ \A p \in Goroutines : at[p].jid \in {"lid", "none"}

\* The first text is the body, or was kept when it was replaced.
FirstKept ==
    msg # NoRow => /\ msg.original \in {"none", "old"}
                   /\ msg.original = "none" => msg.body = "old"

\* An edit that meets its message is applied or stored, before the tail is
\* looked up.
EditKept ==
    /\ at["live"].step = "edit" => msg # NoRow
    /\ at["live"].step = "tail" \/ "edit" \in told => msg.body = "new" \/ edited

\* A receipt that was not early found the message.
ReceiptsFollow ==
    Ours /\ flaws \intersect {"failed", "early"} = {} /\ msg = NoRow
        => told \intersect Receipts = {}

IInv == /\ Typed
        /\ AtItsCall
        /\ SchemaInv
        /\ Underway
        /\ ByLid
        /\ FirstKept
        /\ EditKept
        /\ ReceiptsFollow
        /\ StatusIsHighest

-----------------------------------------------------------------------------
(* The schema.                                                              *)

\* What a step does to the schema, and to what meets it.
LEMMA SchemaSteps ==
    ASSUME Next
    PROVE  \/ UNCHANGED schema \/ Db!Migrate \/ Db!Renew
           \/ \E p \in Goroutines :
                 \/ \E op \in Db!Ops : Db!Calls(p, op)
                 \/ Db!Return(p) \/ Db!Refuse(p) \/ Db!SwitchOff(p)
<1>1. CASE Learn \/ Migrate \/ Restart
  BY <1>1 DEF Learn, Migrate, Restart
<1>2. CASE LiveBegin \/ OutBegin \/ EditBegin \/ \E j \in Jids : SyncBegin(j)
  BY <1>2 DEF LiveBegin, OutBegin, EditBegin, SyncBegin
<1>3. ASSUME NEW p \in Goroutines, Calls(p)
      PROVE  \E op \in Db!Ops : Db!Calls(p, op)
  BY <1>3 DEF Calls, Operation, Db!Ops
<1>4. ASSUME NEW p \in Goroutines, FallBack(p)
      PROVE  Db!Refuse(p) \/ Db!SwitchOff(p)
  BY <1>4 DEF FallBack
<1>5. ASSUME NEW p \in Goroutines, NEW o \in Outcomes,
             Uploads(p, o) \/ UpsertChat(p, o) \/ InsertMessage(p, o) \/ RecomputeTail(p, o)
      PROVE  UNCHANGED schema \/ Db!Return(p)
  BY <1>5 DEF Uploads, UpsertChat, InsertMessage, RecomputeTail
<1>6. ASSUME NEW o \in Outcomes,
             \/ Locate(o) \/ ApplyEdit(o) \/ StoreEditAsRow(o)
             \/ \E s \in Receipts : HandleReceipt(s, o)
      PROVE  UNCHANGED schema \/ Db!Return("live")
  BY <1>6 DEF Locate, ApplyEdit, StoreEditAsRow, HandleReceipt
<1> QED
  BY <1>1, <1>2, <1>3, <1>4, <1>5, <1>6 DEF Next, Bridge, Goroutines, Uploaders

\* The inner feature of an operation.
LEMMA InnerIs ==
    /\ Db!Inner("place") = "quotes" /\ Db!Inner("text") = "quotes"
    /\ Db!Inner("tail") = "edits"   /\ Db!Inner("edit") = "edits"
BY DEF Db!Inner, Db!Wants

\* The column refused is one the statement uses and the database lacks.
LEMMA OwnerIsLacking ==
    ASSUME Db!TypeOK, Uses, NEW p \in Goroutines, ~Db!Known(p)
    PROVE  Db!Owner(p) \in call[p].use \intersect lacks
<1>1. call[p].op \in Db!Ops /\ call[p].use \subseteq Db!Wants(call[p].op)
  BY DEF Uses, Db!TypeOK, Db!Known
<1> QED
  BY <1>1, InnerIs DEF Db!Owner, Db!Known, Db!Wants, Db!Ops

\* The statement a Fallback goes on with leaves out what was refused, and
\* what is off.
LEMMA LegacyIs ==
    ASSUME Db!TypeOK, Uses, NEW p \in Goroutines, call[p].refused # "none"
    PROVE  LET f == call[p].refused IN
           /\ call[p].op \in Db!Ops
           /\ Db!Legacy(p, f) \subseteq Db!Wants(call[p].op) \ {f}
           /\ Db!Wants(call[p].op) \ Db!Legacy(p, f)
                 \subseteq {f} \union off \union (Db!Wants(call[p].op) \ call[p].use)
           /\ call[p].op = "edit" => f = "edits"
<1>1. call[p].op \in Db!Ops /\ call[p].use \subseteq Db!Wants(call[p].op)
      /\ call[p].refused \in call[p].use
  BY DEF Uses, Db!TypeOK
<1> QED
  BY <1>1, InnerIs DEF Db!Legacy, Db!Wants, Db!Ops

\* A step preserves what holds of the schema.
LEMMA SchemaStep ==
    ASSUME SchemaInv, Next
    PROVE  SchemaInv'
<1> USE DEF SchemaInv
<1>1. CASE UNCHANGED schema
  BY <1>1 DEF schema, Db!TypeOK, Uses, OnlyLacked
<1>2. CASE Db!Migrate
  BY <1>2 DEF Db!Migrate, Db!TypeOK, Uses, OnlyLacked
<1>3. CASE Db!Renew
  BY <1>3 DEF Db!Renew, Db!NoCall, Db!TypeOK, Uses, OnlyLacked
<1>4. ASSUME NEW p \in Goroutines, Db!Return(p)
      PROVE  SchemaInv'
  BY <1>4 DEF Db!Return, Db!NoCall, Db!TypeOK, Uses, OnlyLacked
<1>5. ASSUME NEW p \in Goroutines, NEW op \in Db!Ops, Db!Calls(p, op)
      PROVE  SchemaInv'
  BY <1>5 DEF Db!Calls, Db!TypeOK, Db!Ops, Db!Wants, Db!Features, Uses, OnlyLacked
<1>6. ASSUME NEW p \in Goroutines, Db!Refuse(p)
      PROVE  SchemaInv'
  BY <1>6, OwnerIsLacking DEF Db!Refuse, Db!TypeOK, Uses, OnlyLacked
<1>7. ASSUME NEW p \in Goroutines, Db!SwitchOff(p)
      PROVE  SchemaInv'
  <2> DEFINE f == call[p].refused
             use == Db!Legacy(p, f)
             op == call[p].op
  <2>1. /\ f # "none" /\ off' = off \union {f} /\ lacks' = lacks /\ lacked' = lacked
        /\ call' = [call EXCEPT ![p] = [@ EXCEPT !.refused = "none", !.use = use]]
    BY <1>7 DEF Db!SwitchOff
  <2>2. /\ op \in Db!Ops /\ use \subseteq Db!Wants(op) \ {f}
        /\ Db!Wants(op) \ use \subseteq {f} \union off \union (Db!Wants(op) \ call[p].use)
        /\ op = "edit" => f = "edits"
    BY <2>1, LegacyIs
  <2>3. use \subseteq Db!Features /\ f \in Db!Features /\ f \in lacked
    BY <2>1, <2>2 DEF Db!Ops, Db!Wants, Db!Features, Db!TypeOK, OnlyLacked
  <2> HIDE DEF use
  <2>4. /\ call'[p].op = op /\ call'[p].use = use /\ call'[p].refused = "none"
        /\ \A q \in Goroutines \ {p} : call'[q] = call[q]
    BY <2>1 DEF Db!TypeOK
  <2>5. Db!TypeOK'
    BY <2>1, <2>3 DEF Db!TypeOK
  <2>6. Uses'
    BY <2>1, <2>2, <2>4 DEF Uses, Db!Ops
  <2>7. OnlyLacked'
    BY <2>1, <2>2, <2>3, <2>4 DEF OnlyLacked, Db!Wants
  <2> QED
    BY <2>5, <2>6, <2>7
<1> QED
  BY <1>1, <1>2, <1>3, <1>4, <1>5, <1>6, <1>7, SchemaSteps

-----------------------------------------------------------------------------
(* The goroutines and the message.                                          *)

\* What a step does to the row of the message.
LEMMA MsgSteps ==
    ASSUME Next
    PROVE  \/ UNCHANGED msg
           \/ \E p \in Goroutines : Db!Calling(p, "place") /\ msg' = Inserted(p)
           \/ Db!Calling("live", "edit") /\ msg' = Rewritten
           \/ \E s \in Receipts \intersect inbox : msg' = Marked(s)
<1>1. CASE Learn \/ Migrate \/ Restart
  BY <1>1 DEF Learn, Migrate, Restart, tables
<1>2. CASE LiveBegin \/ OutBegin \/ EditBegin \/ \E j \in Jids : SyncBegin(j)
  BY <1>2 DEF LiveBegin, OutBegin, EditBegin, SyncBegin, tables
<1>3. CASE \E p \in Goroutines : Calls(p) \/ FallBack(p)
  BY <1>3 DEF Calls, FallBack, tables
<1>4. ASSUME NEW p \in Goroutines, NEW o \in Outcomes,
             Uploads(p, o) \/ UpsertChat(p, o) \/ RecomputeTail(p, o)
      PROVE  UNCHANGED msg
  BY <1>4 DEF Uploads, UpsertChat, RecomputeTail, tables
<1>5. ASSUME NEW p \in Goroutines, NEW o \in Outcomes, InsertMessage(p, o)
      PROVE  UNCHANGED msg \/ (Db!Calling(p, "place") /\ msg' = Inserted(p))
  BY <1>5 DEF InsertMessage
<1>6. ASSUME NEW o \in Outcomes, Locate(o) \/ StoreEditAsRow(o)
      PROVE  UNCHANGED msg
  BY <1>6 DEF Locate, StoreEditAsRow, tables
<1>7. ASSUME NEW o \in Outcomes, ApplyEdit(o)
      PROVE  UNCHANGED msg \/ (Db!Calling("live", "edit") /\ msg' = Rewritten)
  BY <1>7 DEF ApplyEdit
<1>8. ASSUME NEW o \in Outcomes, NEW s \in Receipts, HandleReceipt(s, o)
      PROVE  UNCHANGED msg \/ (s \in inbox /\ msg' = Marked(s))
  BY <1>8 DEF HandleReceipt
<1> QED
  BY <1>1, <1>2, <1>3, <1>4, <1>5, <1>6, <1>7, <1>8 DEF Next, Bridge, Goroutines, Uploaders

\* What is on record, and the chats, stay.
LEMMA Grows ==
    ASSUME Next
    PROVE  flaws \subseteq flaws' /\ told \subseteq told' /\ chats \subseteq chats'
           /\ UNCHANGED <<origin, form>> /\ inbox' \subseteq inbox
<1> DEFINE Claim == flaws \subseteq flaws' /\ told \subseteq told' /\ chats \subseteq chats'
                    /\ UNCHANGED <<origin, form>> /\ inbox' \subseteq inbox
<1>1. CASE Learn \/ Migrate \/ Restart
  BY <1>1 DEF Learn, Migrate, Restart, history, tables, world
<1>2. CASE LiveBegin \/ OutBegin \/ EditBegin \/ \E j \in Jids : SyncBegin(j)
  BY <1>2 DEF LiveBegin, OutBegin, EditBegin, SyncBegin, history, tables, world
<1>3. CASE \E p \in Goroutines : Calls(p) \/ FallBack(p)
  BY <1>3 DEF Calls, FallBack, history, tables, world
<1>4. ASSUME NEW p \in Goroutines, NEW o \in Outcomes,
             Uploads(p, o) \/ UpsertChat(p, o) \/ InsertMessage(p, o) \/ RecomputeTail(p, o)
      PROVE  Claim
  BY <1>4 DEF Uploads, UpsertChat, InsertMessage, RecomputeTail, Flawed, tables, world
<1>5. ASSUME NEW o \in Outcomes,
             \/ Locate(o) \/ ApplyEdit(o) \/ StoreEditAsRow(o)
             \/ \E s \in Receipts : HandleReceipt(s, o)
      PROVE  Claim
  BY <1>5 DEF Locate, ApplyEdit, StoreEditAsRow, HandleReceipt, Flawed, tables, world
<1> QED
  BY <1>1, <1>2, <1>3, <1>4, <1>5 DEF Next, Bridge, Goroutines, Uploaders

\* A message keeps its type.
LEMMA MsgTyped ==
    ASSUME IInv, Next
    PROVE  \/ msg' = NoRow
           \/ msg' \in [jid : chats', url : BOOLEAN, has : SUBSET {"quotes", "location"},
                        status : (IF Ours THEN Receipts \union {"sent"} ELSE {"received"})',
                        body : {"old", "new"}, original : {"none", "old", "new"}]
<1> DEFINE Rows(C) == [jid : C, url : BOOLEAN, has : SUBSET {"quotes", "location"},
                       status : IF Ours THEN Receipts \union {"sent"} ELSE {"received"},
                       body : {"old", "new"}, original : {"none", "old", "new"}]
<1>1. chats \subseteq chats' /\ Ours' = Ours
  BY Grows DEF Ours
<1>2. msg = NoRow \/ msg \in Rows(chats')
  BY <1>1 DEF IInv, Typed
<1>3. ASSUME NEW p \in Goroutines, Db!Calling(p, "place"), msg' = Inserted(p)
      PROVE  msg' = NoRow \/ msg' \in Rows(chats')
  <2>1. call[p].use \subseteq {"quotes", "location"}
    BY <1>3 DEF IInv, SchemaInv, Uses, Db!Calling, Db!Wants
  <2>2. at[p].url \in BOOLEAN
    BY DEF IInv, Typed
  <2> QED
    BY <1>1, <1>2, <1>3, <2>1, <2>2 DEF Inserted, DefaultStatus
<1>4. ASSUME Db!Calling("live", "edit"), msg' = Rewritten
      PROVE  msg' \in Rows(chats')
  <2>1. msg # NoRow
    BY <1>4 DEF IInv, AtItsCall, EditKept, Db!Calling, Operation, Goroutines, Uploaders
  <2> QED
    BY <1>2, <1>4, <2>1 DEF Rewritten
<1>5. ASSUME NEW s \in Receipts \intersect inbox, msg' = Marked(s)
      PROVE  msg' = NoRow \/ msg' \in Rows(chats')
  <2>1. Ours
    BY DEF IInv, Underway
  <2> QED
    BY <1>2, <1>5, <2>1 DEF Marked
<1> QED
  BY <1>1, <1>2, <1>3, <1>4, <1>5, MsgSteps

\* The steps a goroutine goes through, the chat it writes, and its statement.
Placed == /\ at \in [Goroutines ->
                        [step : {"idle", "upload", "chat", "insert",
                                 "locate", "edit", "text", "tail"},
                         jid : Jids \union {"none"}, aka : SUBSET Jids, url : BOOLEAN]]
          /\ chats \subseteq Jids
          /\ AtItsCall
          /\ Underway

CallTyped == call \in [Goroutines -> [op : Db!Ops \union {"none"}, use : SUBSET Db!Features,
                                       refused : Db!Features \union {"none"}]]

\* A goroutine whose call returned, or that has none, stays, ends or goes on.
LEMMA GoesOn ==
    ASSUME Placed, NEW p \in Goroutines,
           NEW s \in {"upload", "chat", "insert", "edit", "text", "tail", "locate"},
           s \in {"upload", "chat", "insert"} => at[p].jid \in Jids,
           at[p].step # "idle", at' = at \/ Ends(p) \/ Goes(p, s),
           CallTyped, (call[p].op = "none" /\ call' = call) \/ Db!Return(p),
           chats' \subseteq Jids, inbox' \subseteq inbox, UNCHANGED origin
    PROVE  Placed'
<1>1. call'[p].op = "none" /\ \A q \in Goroutines \ {p} : call'[q] = call[q]
  BY DEF CallTyped, Db!Return, Db!NoCall
<1>2. /\ at' \in [Goroutines ->
                    [step : {"idle", "upload", "chat", "insert",
                             "locate", "edit", "text", "tail"},
                     jid : Jids \union {"none"}, aka : SUBSET Jids, url : BOOLEAN]]
      /\ \A q \in Goroutines \ {p} : at'[q] = at[q]
      /\ at'[p].step = "idle" \/ at'[p] = at[p] \/ (at'[p].step = s /\ at'[p].jid = at[p].jid)
  <2>1. CASE at' = at
    BY <2>1 DEF Placed
  <2>2. CASE Ends(p)
    BY <2>2 DEF Placed, Ends, Idle
  <2>3. CASE Goes(p, s)
    BY <2>3 DEF Placed, Goes
  <2> QED
    BY <2>1, <2>2, <2>3
<1>3. AtItsCall'
  BY <1>1, <1>2 DEF Placed, AtItsCall
<1>4. "out" \in Goroutines
  BY DEF Goroutines
<1>5. Underway'
  BY <1>2, <1>4 DEF Placed, Underway, Ours
<1> QED
  BY <1>2, <1>3, <1>5 DEF Placed

LEMMA PlacedStep ==
    ASSUME IInv, Next
    PROVE  Placed'
<1> USE DEF Goroutines, Uploaders, Operation
<1>1. /\ Placed /\ CallTyped
      /\ form \in Jids /\ known \in BOOLEAN
      /\ \A j \in Jids : Canonical(j) \in Jids
  BY DEF IInv, Typed, Placed, SchemaInv, Db!TypeOK, CallTyped, Canonical, Jids
<1>2. Ours' = Ours
  BY Grows DEF Ours
<1>3. CASE Learn \/ Migrate
  BY <1>1, <1>2, <1>3 DEF Learn, Migrate, Db!Migrate, Placed, AtItsCall, Underway, tables,
     schema, world
<1>4. CASE LiveBegin
  BY <1>1, <1>2, <1>4 DEF LiveBegin, Idle, Placed, AtItsCall, Underway, tables, schema, world
<1>5. CASE OutBegin
  BY <1>1, <1>2, <1>5 DEF OutBegin, Idle, Placed, AtItsCall, Underway, tables, schema, world
<1>6. CASE EditBegin
  BY <1>1, <1>2, <1>6 DEF EditBegin, ChatAliases, Idle, Placed, AtItsCall, Underway,
     tables, schema, world
<1>7. ASSUME NEW j \in Jids, SyncBegin(j)
      PROVE  Placed'
  BY <1>1, <1>2, <1>7 DEF SyncBegin, Idle, Placed, AtItsCall, Underway, tables, schema, world
<1>8. CASE Restart
  BY <1>1, <1>2, <1>8 DEF CallTyped, Restart, Db!Renew, Db!NoCall, Idle, Placed, AtItsCall,
     Underway, tables, world
<1>9. ASSUME NEW p \in Goroutines, Calls(p)
      PROVE  Placed'
  BY <1>1, <1>2, <1>9 DEF CallTyped, Calls, Db!Calls, Placed, AtItsCall, Underway, tables, world
<1>10. ASSUME NEW p \in Goroutines, FallBack(p)
       PROVE  Placed'
  BY <1>1, <1>2, <1>10 DEF CallTyped, FallBack, Db!Refuse, Db!SwitchOff, Placed, AtItsCall,
     Underway, tables, world
<1>11. ASSUME NEW p \in Uploaders, NEW o \in Outcomes, Uploads(p, o)
       PROVE  Placed'
  BY <1>1, <1>2, <1>11 DEF Uploads, Placed, AtItsCall, Underway, tables, world, schema
<1>12. ASSUME NEW p \in Goroutines, NEW o \in Outcomes, UpsertChat(p, o)
       PROVE  Placed'
  <2>1. /\ at[p].step = "chat" /\ inbox' \subseteq inbox /\ UNCHANGED origin
        /\ call[p].op = "none" /\ call' = call
        /\ Ends(p) \/ Goes(p, "insert") \/ Goes(p, "upload")
    BY <1>1, <1>12 DEF UpsertChat, Placed, AtItsCall, world, schema
  <2>2. at[p].jid \in Jids /\ chats' \subseteq Jids
    BY <1>1, <1>12, <2>1 DEF UpsertChat, Placed, Underway
  <2> QED
    BY <1>1, <2>1, <2>2, GoesOn
<1>13. ASSUME NEW p \in Goroutines, NEW o \in Outcomes, InsertMessage(p, o)
       PROVE  Placed'
  <2>1. /\ at[p].step = "insert" /\ inbox' \subseteq inbox /\ UNCHANGED <<origin, chats>>
        /\ Db!Return(p) /\ (Ends(p) \/ Goes(p, "chat") \/ Goes(p, "tail"))
    BY <1>1, <1>13 DEF InsertMessage, Db!Calling, Placed, AtItsCall, world
  <2>2. at[p].jid \in Jids
    BY <1>1, <2>1 DEF Placed, Underway
  <2> QED
    BY <1>1, <2>1, <2>2, GoesOn DEF Placed
<1>14. ASSUME NEW p \in Goroutines, NEW o \in Outcomes, RecomputeTail(p, o)
       PROVE  Placed'
  <2>1. /\ at[p].step = "tail" /\ inbox' \subseteq inbox /\ UNCHANGED <<origin, chats>>
        /\ Db!Return(p) /\ (at' = at \/ Ends(p))
    BY <1>1, <1>14 DEF RecomputeTail, Db!Calling, Placed, AtItsCall, world, tables
  <2> QED
    BY <1>1, <2>1, GoesOn DEF Placed
<1>15. ASSUME NEW o \in Outcomes, Locate(o)
       PROVE  Placed'
  <2>1. /\ at["live"].step = "locate" /\ inbox' \subseteq inbox /\ UNCHANGED <<origin, chats>>
        /\ call["live"].op = "none" /\ call' = call
        /\ at' = at \/ Ends("live") \/ Goes("live", "edit")
    BY <1>1, <1>15 DEF Locate, Placed, AtItsCall, world, tables, schema
  <2> QED
    BY <1>1, <2>1, GoesOn DEF Placed
<1>16. ASSUME NEW o \in Outcomes, ApplyEdit(o)
       PROVE  Placed'
  BY <1>1, <1>2, <1>16 DEF CallTyped, ApplyEdit, Db!Calling, Db!Return, Db!NoCall, Goes,
     Placed, AtItsCall, Underway, world
<1>17. ASSUME NEW o \in Outcomes, StoreEditAsRow(o)
       PROVE  Placed'
  BY <1>1, <1>2, <1>17 DEF CallTyped, StoreEditAsRow, Db!Calling, Db!Return, Db!NoCall,
     Goes, Placed, AtItsCall, Underway, world
<1>18. ASSUME NEW s \in Receipts, NEW o \in Outcomes, HandleReceipt(s, o)
       PROVE  Placed'
  BY <1>1, <1>2, <1>18 DEF HandleReceipt, Placed, AtItsCall, Underway, world, schema
<1> QED
  BY <1>3, <1>4, <1>5, <1>6, <1>7, <1>8, <1>9, <1>10, <1>11, <1>12, <1>13, <1>14, <1>15,
     <1>16, <1>17, <1>18
  DEF Next, Bridge

\* The chat's JIDs, what is on record, and the use of the bounds.
Recorded == /\ form \in Jids /\ known \in BOOLEAN /\ edited \in BOOLEAN
            /\ told \subseteq Receipts \union {"edit"}
            /\ flaws \subseteq {"failed", "early", "overlap", "unnamed", "firstContact"}
            /\ syncs \in 0..MaxSyncs /\ faults \in 0..MaxFaults

LEMMA RecordedStep ==
    ASSUME Recorded, Next
    PROVE  Recorded'
<1>1. /\ MaxSyncs \in Nat /\ MaxFaults \in Nat
      /\ \A o \in Outcomes : Charge(o) => faults' \in 0..MaxFaults
      /\ \A p \in Goroutines : Beside(p) \subseteq {"overlap"}
      /\ Contact \subseteq {"firstContact"}
  BY StoringAssumption DEF Recorded, Charge, Beside, Contact
<1>2. CASE Learn \/ Migrate
  BY <1>2 DEF Recorded, Learn, Migrate, tables, history, bounds, world
<1>3. CASE LiveBegin \/ OutBegin \/ EditBegin
  BY <1>1, <1>3 DEF Recorded, LiveBegin, OutBegin, EditBegin, Goroutines, Uploaders,
                    tables, history, bounds, world
<1>4. ASSUME NEW j \in Jids, SyncBegin(j)
      PROVE  Recorded'
  BY <1>1, <1>4 DEF Recorded, SyncBegin, tables, world
<1>5. CASE Restart
  BY <1>1, <1>5 DEF Recorded, Restart, tables, world
<1>6. CASE \E p \in Goroutines : Calls(p) \/ FallBack(p)
  BY <1>6 DEF Recorded, Calls, FallBack, tables, history, bounds, world
<1>7. ASSUME NEW p \in Goroutines, NEW o \in Outcomes,
             Uploads(p, o) \/ UpsertChat(p, o) \/ InsertMessage(p, o) \/ RecomputeTail(p, o)
      PROVE  Recorded'
  BY <1>1, <1>7 DEF Recorded, Uploads, UpsertChat, InsertMessage, RecomputeTail, Flawed,
     tables, world
<1>8. ASSUME NEW o \in Outcomes, Locate(o) \/ ApplyEdit(o) \/ StoreEditAsRow(o)
      PROVE  Recorded'
  BY <1>1, <1>8 DEF Recorded, Locate, ApplyEdit, StoreEditAsRow, Flawed, tables, world
<1>9. ASSUME NEW s \in Receipts, NEW o \in Outcomes, HandleReceipt(s, o)
      PROVE  Recorded'
  BY <1>1, <1>9 DEF Recorded, HandleReceipt, Flawed, world
<1> QED
  BY <1>2, <1>3, <1>4, <1>5, <1>6, <1>7, <1>8, <1>9 DEF Next, Bridge, Goroutines, Uploaders

LEMMA TypedStep ==
    ASSUME IInv, Next
    PROVE  Typed'
<1>1. Recorded /\ origin \in Origins /\ inbox \subseteq {"message", "edit"} \union Receipts
  BY DEF IInv, Typed, Recorded
<1>2. Recorded' /\ Placed'
  BY <1>1, RecordedStep, PlacedStep
<1>3. origin' \in Origins /\ inbox' \subseteq {"message", "edit"} \union Receipts
  BY <1>1, Grows
<1> QED
  BY <1>2, <1>3, MsgTyped DEF Typed, Recorded, Placed

-----------------------------------------------------------------------------
(* The chat.                                                                *)

\* A chat row is written for the JID at hand; a JID is taken up when it is
\* looked up, or on record.
LEMMA JidSteps ==
    ASSUME IInv, Next
    PROVE  /\ \/ UNCHANGED chats
              \/ \E p \in Goroutines : at[p].step = "chat" /\ chats' = chats \union {at[p].jid}
           /\ \A p \in Goroutines : \/ at'[p].jid \in {at[p].jid, "none"}
                                    \/ "firstContact" \in flaws' \/ at'[p].jid = "lid"
<1> DEFINE Claim == \A p \in Goroutines : \/ at'[p].jid \in {at[p].jid, "none"}
                                          \/ "firstContact" \in flaws' \/ at'[p].jid = "lid"
<1>1. /\ at \in [Goroutines -> [step : {"idle", "upload", "chat", "insert",
                                        "locate", "edit", "text", "tail"},
                                jid : Jids \union {"none"}, aka : SUBSET Jids, url : BOOLEAN]]
      /\ \A j \in Jids : "firstContact" \in Contact \/ Canonical(j) = "lid"
      /\ form \in Jids
  BY DEF IInv, Typed, Contact, Canonical
<1>2. \A p \in Goroutines : \A s : at' = at \/ Ends(p) \/ Goes(p, s) => Claim
  BY <1>1 DEF Ends, Goes, Idle
<1>3. CASE Learn \/ Migrate \/ Restart
  BY <1>1, <1>3 DEF Learn, Migrate, Restart, Idle, tables
<1>4. CASE LiveBegin
  BY <1>1, <1>4 DEF LiveBegin, Idle, tables
<1>5. CASE OutBegin
  BY <1>1, <1>5 DEF OutBegin, Idle, tables
<1>6. CASE EditBegin
  BY <1>1, <1>6 DEF EditBegin, Idle, tables
<1>7. ASSUME NEW j \in Jids, SyncBegin(j)
      PROVE  Claim /\ UNCHANGED chats
  BY <1>1, <1>7 DEF SyncBegin, Idle, tables
<1>8. ASSUME NEW p \in Goroutines, Calls(p) \/ FallBack(p)
      PROVE  UNCHANGED <<at, chats>>
  BY <1>8 DEF Calls, FallBack, tables
<1>9. ASSUME NEW p \in Uploaders, NEW o \in Outcomes, Uploads(p, o)
      PROVE  Claim /\ UNCHANGED chats
  BY <1>1, <1>9 DEF Uploads, tables
<1>10. ASSUME NEW p \in Goroutines, NEW o \in Outcomes, InsertMessage(p, o) \/ RecomputeTail(p, o)
       PROVE  Claim /\ UNCHANGED chats
  <2>1. at' = at \/ Ends(p) \/ Goes(p, "chat") \/ Goes(p, "tail")
    BY <1>10 DEF InsertMessage, RecomputeTail
  <2> QED
    BY <1>2, <1>10, <2>1 DEF InsertMessage, RecomputeTail, tables
<1>11. ASSUME NEW p \in Goroutines, NEW o \in Outcomes, UpsertChat(p, o)
       PROVE  Claim /\ at[p].step = "chat" /\ chats' \in {chats, chats \union {at[p].jid}}
  <2>1. Ends(p) \/ Goes(p, "insert") \/ Goes(p, "upload")
    BY <1>11 DEF UpsertChat
  <2> QED
    BY <1>2, <1>11, <2>1 DEF UpsertChat
<1>12. ASSUME NEW o \in Outcomes, Locate(o) \/ ApplyEdit(o) \/ StoreEditAsRow(o)
       PROVE  Claim /\ UNCHANGED chats
  <2>1. \/ at' = at \/ Ends("live") \/ Goes("live", "edit") \/ Goes("live", "locate")
        \/ Goes("live", "text") \/ Goes("live", "tail")
    BY <1>12 DEF Locate, ApplyEdit, StoreEditAsRow
  <2> QED
    BY <1>2, <1>12, <2>1 DEF Locate, ApplyEdit, StoreEditAsRow, tables, Goroutines, Uploaders
<1>13. ASSUME NEW s \in Receipts, NEW o \in Outcomes, HandleReceipt(s, o)
       PROVE  UNCHANGED <<at, chats>>
  BY <1>13 DEF HandleReceipt
<1> QED
  BY <1>3, <1>4, <1>5, <1>6, <1>7, <1>8, <1>9, <1>10, <1>11, <1>12, <1>13 DEF Next, Bridge

LEMMA ByLidStep ==
    ASSUME IInv, Next
    PROVE  ByLid'
<1> SUFFICES ASSUME "firstContact" \notin flaws'
             PROVE  chats' \subseteq {"lid"} /\ \A p \in Goroutines : at'[p].jid \in {"lid", "none"}
  BY DEF ByLid
<1>1. chats \subseteq {"lid"} /\ \A p \in Goroutines : at[p].jid \in {"lid", "none"}
  BY Grows DEF IInv, ByLid
<1>2. \A p \in Goroutines : at[p].step = "chat" => at[p].jid = "lid"
  BY <1>1 DEF IInv, Underway, Jids
<1> QED
  BY <1>1, <1>2, JidSteps

-----------------------------------------------------------------------------
(* The two texts.                                                           *)

\* A stored message stays, and keeps its first text.
LEMMA MsgStays ==
    ASSUME IInv, Next
    PROVE  /\ msg # NoRow => msg' # NoRow /\ (msg.body = "new" => msg'.body = "new")
           /\ FirstKept'
<1>1. \/ msg = NoRow
      \/ msg \in [jid : chats, url : BOOLEAN, has : SUBSET {"quotes", "location"},
                  status : IF Ours THEN Receipts \union {"sent"} ELSE {"received"},
                  body : {"old", "new"}, original : {"none", "old", "new"}]
  BY DEF IInv, Typed
<1>2. FirstKept
  BY DEF IInv
<1>3. CASE UNCHANGED msg
  BY <1>2, <1>3 DEF FirstKept
<1>4. ASSUME NEW p \in Goroutines, Db!Calling(p, "place"), msg' = Inserted(p)
      PROVE  /\ msg # NoRow => msg' = msg
             /\ FirstKept'
  BY <1>2, <1>4 DEF FirstKept, Inserted
<1>5. ASSUME Db!Calling("live", "edit"), msg' = Rewritten
      PROVE  msg # NoRow /\ msg'.body = "new" /\ FirstKept'
  <2>1. msg # NoRow
    BY <1>5 DEF IInv, AtItsCall, EditKept, Db!Calling, Operation, Goroutines, Uploaders
  <2> QED
    BY <1>1, <1>2, <1>5, <2>1 DEF FirstKept, Rewritten, NoRow
<1>6. ASSUME NEW s \in Receipts \intersect inbox, msg' = Marked(s)
      PROVE  /\ msg # NoRow => msg'.body = msg.body /\ msg'.original = msg.original
             /\ msg = NoRow => msg' = NoRow
  BY <1>1, <1>6 DEF Marked
<1>7. \A m \in {msg, msg'} : m # NoRow <=> m.body # "none"
  BY <1>1, MsgTyped DEF NoRow
<1> QED
  BY <1>1, <1>2, <1>3, <1>4, <1>5, <1>6, <1>7, MsgSteps DEF FirstKept, NoRow

\* The handler goes on to an edit when it found the message, and to the tail
\* when it applied the edit or stored it.
LEMMA EditSteps ==
    ASSUME IInv, Next
    PROVE  /\ at'["live"].step = "edit" => at["live"].step = "edit" \/ msg # NoRow
           /\ at'["live"].step = "tail" =>
                 at["live"].step = "tail" \/ msg'.body = "new" \/ edited'
           /\ "edit" \in told' => "edit" \in told \/ at["live"].step = "tail"
           /\ edited => edited'
<1> DEFINE Claim ==
             /\ at'["live"].step = "edit" => at["live"].step = "edit" \/ msg # NoRow
             /\ at'["live"].step = "tail" =>
                   at["live"].step = "tail" \/ msg'.body = "new" \/ edited'
             /\ "edit" \in told' => "edit" \in told \/ at["live"].step = "tail"
             /\ edited => edited'
<1>1. /\ at \in [Goroutines -> [step : {"idle", "upload", "chat", "insert",
                                        "locate", "edit", "text", "tail"},
                                jid : Jids \union {"none"}, aka : SUBSET Jids, url : BOOLEAN]]
      /\ "live" \in Goroutines
  BY DEF IInv, Typed, Goroutines, Uploaders
<1>2. \A p \in Goroutines, s \in {"upload", "chat", "insert", "tail"} :
          at' = at \/ Ends(p) \/ (Goes(p, s) /\ (p # "live" \/ s # "tail"))
             => at'["live"].step \in {at["live"].step, "idle", "upload", "chat", "insert"}
  BY <1>1 DEF Ends, Goes, Idle
<1>3. CASE Learn \/ Migrate \/ Restart
  BY <1>1, <1>3 DEF Learn, Migrate, Restart, Idle, tables, history
<1>4. CASE LiveBegin \/ EditBegin
  <2>1. at'["live"].step \in {"upload", "locate"}
    BY <1>1, <1>4 DEF LiveBegin, EditBegin, Idle
  <2> QED
    BY <1>4, <2>1 DEF LiveBegin, EditBegin, tables, history
<1>5. ASSUME OutBegin \/ \E j \in Jids : SyncBegin(j)
      PROVE  Claim
  <2>1. at'["live"] = at["live"]
    BY <1>1, <1>5 DEF OutBegin, SyncBegin
  <2>2. UNCHANGED <<told, edited>>
    BY <1>5 DEF OutBegin, SyncBegin, tables
  <2> QED
    BY <2>1, <2>2
<1>6. ASSUME NEW p \in Goroutines, Calls(p) \/ FallBack(p)
      PROVE  Claim
  BY <1>6 DEF Calls, FallBack, tables, history
<1>7. ASSUME NEW p \in Uploaders, NEW o \in Outcomes, Uploads(p, o)
      PROVE  Claim
  BY <1>1, <1>7 DEF Uploads, tables
<1>8. ASSUME NEW p \in Goroutines, NEW o \in Outcomes, UpsertChat(p, o)
      PROVE  Claim
  <2>1. Ends(p) \/ Goes(p, "insert") \/ Goes(p, "upload")
    BY <1>8 DEF UpsertChat
  <2> QED
    BY <1>2, <1>8, <2>1 DEF UpsertChat
<1>9. ASSUME NEW p \in Goroutines, NEW o \in Outcomes, InsertMessage(p, o)
      PROVE  Claim
  <2>1. Ends(p) \/ Goes(p, "chat") \/ (Goes(p, "tail") /\ p # "live")
    BY <1>9 DEF InsertMessage
  <2> QED
    BY <1>2, <1>9, <2>1 DEF InsertMessage
<1>10. ASSUME NEW p \in Goroutines, NEW o \in Outcomes, RecomputeTail(p, o)
       PROVE  Claim
  <2>1. /\ at' = at \/ Ends(p)
        /\ p = "live" => at["live"].step = "tail"
        /\ told' = told \/ (p = "live" /\ told' = told \union {"edit"})
    BY <1>10 DEF RecomputeTail, IInv, AtItsCall, Operation, Db!Calling
  <2> QED
    BY <1>1, <1>2, <1>10, <2>1 DEF RecomputeTail, tables
<1>11. ASSUME NEW o \in Outcomes, Locate(o)
       PROVE  Claim
  <2>1. at' = at \/ Ends("live") \/ (Goes("live", "edit") /\ msg.jid \in at["live"].aka)
    BY <1>11 DEF Locate
  <2>2. msg.jid \in at["live"].aka => msg # NoRow
    BY <1>1 DEF NoRow, Jids
  <2> QED
    BY <1>1, <1>11, <2>1, <2>2 DEF Locate, Goes, Ends, Idle, tables
<1>12. ASSUME NEW o \in Outcomes, ApplyEdit(o)
       PROVE  Claim
  <2>1. /\ Goes("live", "locate") \/ Goes("live", "text") \/ Goes("live", "tail")
        /\ UNCHANGED <<told, edited>>
        /\ Goes("live", "tail") /\ ~Goes("live", "text") => "edits" \notin off /\ o = "done"
    BY <1>1, <1>12 DEF ApplyEdit, Unsupported, Goes
  <2>2. "edits" \notin off => call["live"].use # {}
    BY <1>1, <1>12 DEF ApplyEdit, Db!Calling, IInv, SchemaInv, Uses
  <2>3. "edits" \notin off /\ o = "done" => msg'.body = "new"
    BY <2>2, <1>12 DEF ApplyEdit, Applied, Rewritten, IInv, Typed, NoRow
  <2> QED
    BY <1>1, <2>1, <2>3 DEF Goes
<1>13. ASSUME NEW o \in Outcomes, StoreEditAsRow(o)
       PROVE  Claim
  BY <1>1, <1>13 DEF StoreEditAsRow, Goes, Applied
<1>14. ASSUME NEW s \in Receipts, NEW o \in Outcomes, HandleReceipt(s, o)
       PROVE  Claim
  BY <1>14 DEF HandleReceipt, Receipts
<1> QED
  BY <1>3, <1>4, <1>5, <1>6, <1>7, <1>8, <1>9, <1>10, <1>11, <1>12, <1>13, <1>14 DEF Next,
     Bridge

LEMMA EditKeptStep ==
    ASSUME IInv, Next
    PROVE  EditKept'
<1>1. EditKept /\ (msg.body = "new" => msg # NoRow)
  BY DEF IInv, NoRow
<1>2. at'["live"].step = "edit" => msg # NoRow
  BY <1>1, EditSteps DEF EditKept
<1>3. at'["live"].step = "tail" \/ "edit" \in told'
         => msg.body = "new" \/ edited \/ msg'.body = "new" \/ edited'
  BY <1>1, EditSteps DEF EditKept
<1> QED
  BY <1>1, <1>2, <1>3, MsgStays, EditSteps DEF EditKept

-----------------------------------------------------------------------------
(* The status.                                                              *)

Unflagged == flaws \intersect {"failed", "early"} = {}

\* A receipt is handled when the message is stored, or it is on record that
\* it was early; what it says is then put down, unless that failed.  Nothing
\* else changes the status.
LEMMA ReceiptSteps ==
    ASSUME IInv, Next, Unflagged'
    PROVE  \/ /\ told' \intersect Receipts = told \intersect Receipts
              /\ msg # NoRow => msg'.status = msg.status
              /\ msg = NoRow => msg' = NoRow \/ msg'.status = DefaultStatus
           \/ \E s \in Receipts \intersect inbox :
                 told' = told \union {s} /\ msg # NoRow /\ msg' = Marked(s)
<1> DEFINE Claim == /\ told' \intersect Receipts = told \intersect Receipts
                    /\ msg # NoRow => msg'.status = msg.status
                    /\ msg = NoRow => msg' = NoRow \/ msg'.status = DefaultStatus
<1>1. CASE Learn \/ Migrate \/ Restart
  BY <1>1 DEF Learn, Migrate, Restart, history, tables
<1>2. CASE LiveBegin \/ OutBegin \/ EditBegin \/ \E j \in Jids : SyncBegin(j)
  BY <1>2 DEF LiveBegin, OutBegin, EditBegin, SyncBegin, history, tables
<1>3. CASE \E p \in Goroutines : Calls(p) \/ FallBack(p)
  BY <1>3 DEF Calls, FallBack, history, tables
<1>4. ASSUME NEW p \in Goroutines, NEW o \in Outcomes,
             Uploads(p, o) \/ UpsertChat(p, o) \/ RecomputeTail(p, o)
      PROVE  Claim
  BY <1>4 DEF Uploads, UpsertChat, RecomputeTail, Receipts, tables
<1>5. ASSUME NEW p \in Goroutines, NEW o \in Outcomes, InsertMessage(p, o)
      PROVE  Claim
  BY <1>5 DEF InsertMessage, Inserted
<1>6. ASSUME NEW o \in Outcomes, Locate(o) \/ StoreEditAsRow(o)
      PROVE  Claim
  BY <1>6 DEF Locate, StoreEditAsRow, tables
<1>7. ASSUME NEW o \in Outcomes, ApplyEdit(o)
      PROVE  Claim
  <2>1. msg # NoRow
    BY <1>7 DEF ApplyEdit, Db!Calling, IInv, AtItsCall, EditKept, Operation, Goroutines,
       Uploaders
  <2>2. Rewritten.status = msg.status
    BY <2>1 DEF Rewritten, IInv, Typed
  <2> QED
    BY <1>7, <2>1, <2>2 DEF ApplyEdit
<1>8. ASSUME NEW o \in Outcomes, NEW s \in Receipts, HandleReceipt(s, o)
      PROVE  s \in inbox /\ told' = told \union {s} /\ msg # NoRow /\ msg' = Marked(s)
  <2>1. o = "done" /\ msg # NoRow
    BY <1>8 DEF HandleReceipt, Flawed, Unflagged
  <2> QED
    BY <1>8, <2>1 DEF HandleReceipt, Applied
<1> QED
  BY <1>1, <1>2, <1>3, <1>4, <1>5, <1>6, <1>7, <1>8 DEF Next, Bridge, Goroutines, Uploaders

LEMMA ReceiptsFollowStep ==
    ASSUME IInv, Next
    PROVE  ReceiptsFollow'
<1> SUFFICES ASSUME Ours', Unflagged', msg' = NoRow
             PROVE  told' \intersect Receipts = {}
  BY DEF ReceiptsFollow, Unflagged
<1>1. Ours /\ Unflagged /\ msg = NoRow
  BY Grows, MsgStays DEF Ours, Unflagged
<1>2. told \intersect Receipts = {}
  BY <1>1 DEF IInv, ReceiptsFollow, Unflagged
<1> QED
  BY <1>1, <1>2, ReceiptSteps

\* What was said of a message, being ours.
Said == (told \intersect Receipts) \union {"sent"}

\* The highest of some statuses and one more.
LEMMA HighestOf ==
    ASSUME NEW S \in SUBSET {"sent", "delivered", "read"}, NEW top \in S,
           \A t \in S : Rank(t) <= Rank(top), NEW s \in Receipts,
           NEW new, new = IF Rank(top) < Rank(s) THEN s ELSE top
    PROVE  new \in S \union {s} /\ \A t \in S \union {s} : Rank(t) <= Rank(new)
<1>1. \A t \in {"sent", "delivered", "read"} : Rank(t) \in Nat
  BY DEF Rank
<1>2. s \in {"sent", "delivered", "read"}
  BY DEF Receipts
<1> QED
  BY <1>1, <1>2

LEMMA StatusStep ==
    ASSUME IInv, Next
    PROVE  StatusIsHighest'
<1> SUFFICES ASSUME msg' # NoRow, Ours', Unflagged'
             PROVE  msg'.status \in Said' /\ \A s \in Said' : Rank(s) <= Rank(msg'.status)
  BY DEF StatusIsHighest, Unflagged, Said
<1>1. Ours /\ Unflagged
  BY Grows DEF Ours, Unflagged
<1>2. msg # NoRow => msg.status \in Said /\ \A s \in Said : Rank(s) <= Rank(msg.status)
  BY <1>1 DEF IInv, StatusIsHighest, Unflagged, Said
<1>3. msg = NoRow => Said = {"sent"}
  BY <1>1 DEF IInv, ReceiptsFollow, Unflagged, Said
<1>4. Rank("sent") = 1 /\ Rank("delivered") = 2 /\ Rank("read") = 3
  BY DEF Rank
<1>5. ASSUME NEW s \in Receipts, told' = told \union {s}, msg # NoRow, msg' = Marked(s)
      PROVE  msg'.status \in Said' /\ \A t \in Said' : Rank(t) <= Rank(msg'.status)
  <2>1. Said' = Said \union {s} /\ Said \subseteq {"sent", "delivered", "read"}
    BY <1>5 DEF Said, Receipts
  <2>2. msg'.status = IF Rank(msg.status) < Rank(s) THEN s ELSE msg.status
    BY <1>5 DEF Marked, IInv, Typed
  <2>3. /\ Said \in SUBSET {"sent", "delivered", "read"} /\ msg.status \in Said
        /\ \A t \in Said : Rank(t) <= Rank(msg.status)
    BY <1>2, <1>5, <2>1
  <2>4. \A new : new = (IF Rank(msg.status) < Rank(s) THEN s ELSE msg.status)
                => new \in Said \union {s} /\ \A t \in Said \union {s} : Rank(t) <= Rank(new)
    BY <1>5, <2>3, HighestOf
  <2> QED
    BY <2>1, <2>2, <2>4
<1>6. ASSUME told' \intersect Receipts = told \intersect Receipts,
             msg # NoRow => msg'.status = msg.status,
             msg = NoRow => msg'.status = DefaultStatus
      PROVE  msg'.status \in Said' /\ \A t \in Said' : Rank(t) <= Rank(msg'.status)
  <2>1. Said' = Said
    BY <1>6 DEF Said
  <2>2. DefaultStatus = "sent"
    BY <1>1 DEF DefaultStatus
  <2> QED
    BY <1>2, <1>3, <1>4, <1>6, <2>1, <2>2
<1> QED
  BY <1>5, <1>6, ReceiptSteps

-----------------------------------------------------------------------------
(* The theorems.                                                            *)

LEMMA Initially == Init => IInv
<1> SUFFICES ASSUME Init PROVE IInv
  OBVIOUS
<1> USE StoringAssumption DEF Init, Idle
<1>1. Typed
  <2>1. inbox \subseteq {"message", "edit"} \union Receipts
    OBVIOUS
  <2>2. at \in [Goroutines ->
                  [step : {"idle", "upload", "chat", "insert",
                           "locate", "edit", "text", "tail"},
                   jid : Jids \union {"none"}, aka : SUBSET Jids, url : BOOLEAN]]
    OBVIOUS
  <2>3. chats \subseteq Jids /\ syncs \in 0..MaxSyncs /\ faults \in 0..MaxFaults
    BY DEF Jids
  <2> QED
    BY <2>1, <2>2, <2>3 DEF Typed
<1>2. SchemaInv
  BY DEF SchemaInv, Db!Init, Db!NoCall, Db!TypeOK, Db!Features, Uses, OnlyLacked
<1>3. AtItsCall
  BY DEF AtItsCall, Db!Init, Db!NoCall
<1>4. Underway
  BY DEF Underway, Receipts, Goroutines
<1>5. ByLid
  BY DEF ByLid
<1>6. FirstKept /\ EditKept /\ ReceiptsFollow /\ StatusIsHighest
  BY DEF FirstKept, EditKept, ReceiptsFollow, StatusIsHighest, Goroutines, Uploaders
<1> QED
  BY <1>1, <1>2, <1>3, <1>4, <1>5, <1>6 DEF IInv

LEMMA Stutters ==
    ASSUME IInv, UNCHANGED vars
    PROVE  IInv'
<1> USE DEF IInv, vars, world, tables, history, bounds, schema
<1>1. Typed' /\ SchemaInv' /\ AtItsCall' /\ Underway'
  BY DEF Typed, SchemaInv, Db!TypeOK, Uses, OnlyLacked, AtItsCall, Underway, Ours
<1>2. ByLid' /\ FirstKept' /\ EditKept' /\ ReceiptsFollow' /\ StatusIsHighest'
  BY DEF ByLid, FirstKept, EditKept, ReceiptsFollow, StatusIsHighest, Ours
<1> QED
  BY <1>1, <1>2

\* Every step preserves the invariant.
LEMMA Preserved ==
    ASSUME IInv, [Next]_vars
    PROVE  IInv'
<1>1. CASE Next
  <2>1. Typed' /\ AtItsCall' /\ Underway'
    BY <1>1, TypedStep, PlacedStep DEF Placed
  <2>2. SchemaInv'
    BY <1>1, SchemaStep DEF IInv
  <2>3. ByLid' /\ FirstKept' /\ EditKept' /\ ReceiptsFollow' /\ StatusIsHighest'
    BY <1>1, ByLidStep, MsgStays, EditKeptStep, ReceiptsFollowStep, StatusStep
  <2> QED
    BY <2>1, <2>2, <2>3 DEF IInv
<1> QED
  BY <1>1, Stutters

\* The inductive invariant holds of every run.
THEOREM Invariance == Spec => []IInv
<1>1. IInv /\ [Next]_vars => IInv'
  BY Preserved
<1> QED
  BY <1>1, Initially, PTL DEF Spec

\* store.go:72-74: however many goroutines meet a missing column at once, no
\* feature is switched off whose columns are all there.
THEOREM OnlyLackingIsOff == Spec => []RightFeatureOff
<1>1. IInv => RightFeatureOff
  BY DEF IInv, SchemaInv, OnlyLacked, RightFeatureOff
<1> QED
  BY <1>1, Invariance, PTL

\* store.go:449-452: whoever inserts the message uses every column of it that
\* the database had when the process started.
THEOREM AllColumnsUsed == Spec => StoredInFull
<1>1. ASSUME IInv, Next, msg = NoRow, msg' # NoRow
      PROVE  {"quotes", "location"} \ lacked \subseteq msg'.has
  <2>1. PICK p \in Goroutines : Db!Calling(p, "place") /\ msg' = Inserted(p)
    BY <1>1, MsgSteps DEF Marked, IInv, AtItsCall, EditKept, Db!Calling, Operation,
                          Goroutines, Uploaders
  <2> QED
    BY <1>1, <2>1 DEF Inserted, IInv, SchemaInv, OnlyLacked, Db!Calling
<1>2. IInv /\ [Next]_vars
        => [msg = NoRow /\ msg' # NoRow => {"quotes", "location"} \ lacked \subseteq msg'.has]_vars
  BY <1>1
<1> QED
  BY <1>2, Invariance, PTL DEF Spec, StoredInFull

\* store.go:518: with or without the columns of an edit, and through failures
\* and restarts, the first text is stored with the message, and the new one
\* with it or next to it once the edit is done.
THEOREM TextsStay == Spec => []NeitherTextLost
<1>1. IInv => NeitherTextLost
  BY DEF IInv, FirstKept, EditKept, NeitherTextLost
<1> QED
  BY <1>1, Invariance, PTL

\* store.go:1019: receipts in any order leave the highest status.
THEOREM HighestStays == Spec => []StatusIsHighest
<1>1. IInv => StatusIsHighest
  BY DEF IInv
<1> QED
  BY <1>1, Invariance, PTL

\* wabridge.go:985: a chat first written when its LID was known has one row.
THEOREM ChatHasOneRow == Spec => []OneChatRow
<1>1. IInv => OneChatRow
  <2> SUFFICES ASSUME ByLid, "firstContact" \notin flaws
               PROVE  Cardinality(chats) <= 1
    BY DEF IInv, OneChatRow
  <2>1. chats = {} \/ chats = {"lid"}
    BY DEF ByLid
  <2> QED
    BY <2>1, FS_EmptySet, FS_Singleton
<1> QED
  BY <1>1, Invariance, PTL
=============================================================================
