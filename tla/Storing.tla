------------------------------ MODULE Storing -------------------------------
(***************************************************************************)
(* One message - a shared place with a map preview - on its way into the   *)
(* database, by the event handler, a history sync or the outbound loop,    *)
(* and what comes after it: an edit and receipts.  The preview is uploaded *)
(* (Uploads), the statements fall back on older ones (Schema), and the     *)
(* chat may go by its phone number or its LID.                             *)
(* The values of the chat's tail are in Mirror, the queue in Outbound.     *)
(***************************************************************************)
EXTENDS Integers, FiniteSets

CONSTANTS
    Origins,     \* where the message is from: "theirs", "phone", "bridge"
    Schemas,     \* the sets of features the database may lack at first
    MaxSyncs,    \* bound: history syncs
    MaxFaults    \* bound: calls that fail, below the tries of storeRetry,
                 \* and restarts of the bridge

ASSUME StoringAssumption == /\ Origins \subseteq {"theirs", "phone", "bridge"}
                            /\ Schemas \subseteq SUBSET {"quotes", "location", "edits"}
                            /\ MaxSyncs \in Nat /\ MaxFaults \in 0..2

VARIABLES
    origin, form,  \* where the message is from, and the JID WhatsApp gives the chat
    known,         \* whatsmeow knows the LID of the phone number
    inbox,         \* what is still to be delivered or sent
    at,            \* per goroutine: its step, the chat it writes and its URL
    chats,         \* wa_chats: the JIDs that have a row
    msg,           \* wa_messages: the row of the message
    edited,        \* wa_messages: the edit has a row of its own
    told,          \* history: the receipts that were handled, and the edit
    flaws,         \* history: what failed, or came in an order that matters
    syncs, faults,                   \* use of the bounds
    disk, part, final, up,           \* see Uploads
    lacks, lacked, off, call         \* see Schema

Uploaders == {"live", "sync"}
Goroutines == Uploaders \union {"out"}

Up == INSTANCE Uploads
Db == INSTANCE Schema WITH Callers <- Goroutines

upload == <<disk, part, final, up>>
schema == <<lacks, lacked, off, call>>
history == <<told, flaws>>
bounds == <<syncs, faults>>
world == <<origin, form, known>>
tables == <<chats, msg, edited>>
vars == <<world, inbox, at, tables, history, bounds, upload, schema>>

Jids == {"pn", "lid"}
Receipts == {"delivered", "read"}
Ours == origin # "theirs"

NoRow == [jid |-> "none", url |-> FALSE, has |-> {}, status |-> "none",
          body |-> "none", original |-> "none"]
Idle == [step |-> "idle", jid |-> "none", aka |-> {}, url |-> FALSE]

TypeOK ==
    /\ origin \in Origins /\ form \in Jids /\ known \in BOOLEAN
    /\ inbox \subseteq {"message", "edit"} \union Receipts
    /\ at \in [Goroutines ->
                  [step : {"idle", "upload", "chat", "insert", "locate", "edit", "text", "tail"},
                   jid : Jids \union {"none"}, aka : SUBSET Jids, url : BOOLEAN]]
    /\ chats \subseteq Jids
    /\ msg = NoRow \/ msg \in [jid : chats, url : BOOLEAN, has : SUBSET {"quotes", "location"},
                               status : IF Ours THEN Receipts \union {"sent"} ELSE {"received"},
                               body : {"old", "new"}, original : {"none", "old", "new"}]
    /\ edited \in BOOLEAN /\ told \subseteq Receipts \union {"edit"}
    /\ flaws \subseteq {"failed", "early", "overlap", "unnamed", "firstContact"}
    /\ syncs \in 0..MaxSyncs /\ faults \in 0..MaxFaults
    /\ Up!TypeOK /\ Db!TypeOK

\* A chat stored under its phone number dates from before the LID was known.
\* An edit follows, or receipts: they write different columns.
Init ==
    /\ origin \in Origins /\ form \in Jids /\ known \in BOOLEAN
    /\ inbox \in {{"message", "edit"}} \union (IF Ours THEN {{"message"} \union Receipts} ELSE {})
    /\ at = [p \in Goroutines |-> Idle]
    /\ chats \in {{}, {"pn"}, {"lid"}}
    /\ msg = NoRow /\ edited = FALSE /\ told = {}
    /\ flaws = IF chats = {"pn"} THEN {"firstContact"} ELSE {}
    /\ syncs = 0 /\ faults = 0
    /\ Up!Init /\ lacks \in Schemas /\ Db!Init

-----------------------------------------------------------------------------
(* JIDs, calls and steps.                                                   *)

\* Faulty: the chat keeps the JID it was delivered under.
AsDelivered(j) == j

\* canonicalChatJID: the LID, once it is known.
Canonical(j) == IF known THEN "lid" ELSE j

\* chatAliases.
ChatAliases(j) == IF known THEN Jids ELSE {j}

\* A chat that is written under the JID of today may get another one later.
Contact == IF known THEN {} ELSE {"firstContact"}

Outcomes == {"done", "lost", "unconfirmed"}
Applied(o) == o # "lost"

Charge(o) == IF o = "done" THEN UNCHANGED faults
                           ELSE faults < MaxFaults /\ faults' = faults + 1

Flawed(o, S) == flaws' = flaws \union S \union (IF o = "done" THEN {} ELSE {"failed"})

Goes(p, step) == at' = [at EXCEPT ![p].step = step]
Ends(p) == at' = [at EXCEPT ![p] = Idle]

-----------------------------------------------------------------------------
(* The message.                                                             *)

\* whatsmeow learns the LID of the phone number.
Learn == /\ ~known /\ known' = TRUE
         /\ UNCHANGED <<origin, form, inbox, at, tables, history, bounds, upload, schema>>

\* Two goroutines upload at once.
Beside(p) == IF \E u \in Uploaders \ {p} : Up!Uploading(u) THEN {"overlap"} ELSE {}

\* handleMessage looks the chat up, then uploads, then writes.
LiveBegin ==
    /\ at["live"].step = "idle" /\ "message" \in inbox /\ origin # "bridge"
    /\ at' = [at EXCEPT !["live"] = [Idle EXCEPT !.step = "upload", !.jid = Canonical(form)]]
    /\ Up!Begin("live") /\ UNCHANGED <<disk, part, final>>
    /\ flaws' = flaws \union Contact \union Beside("live")
    /\ UNCHANGED <<world, told, inbox, tables, bounds, schema>>

\* sendOutboundRow, which looked the chat up before it sent the message.
OutBegin ==
    /\ "message" \in inbox /\ origin = "bridge"
    /\ inbox' = inbox \ {"message"}
    /\ at' = [at EXCEPT !["out"] = [Idle EXCEPT !.step = "insert", !.jid = Canonical(form)]]
    /\ flaws' = flaws \union Contact
    /\ UNCHANGED <<world, told, tables, bounds, upload, schema>>

\* handleHistorySync, for a conversation that has the message.
SyncBegin(j) ==
    /\ at["sync"].step = "idle"
    /\ origin = "bridge" => "message" \notin inbox
    /\ syncs < MaxSyncs /\ syncs' = syncs + 1
    /\ at' = [at EXCEPT !["sync"] = [Idle EXCEPT !.step = "chat", !.jid = Canonical(j)]]
    /\ flaws' = flaws \union Contact
    /\ UNCHANGED <<world, told, inbox, tables, faults, upload, schema>>

\* The message is stored without a preview if the upload fails.
Uploads(p, o) ==
    /\ at[p].step = "upload"
    /\ Up!Step(p, o)
    /\ Charge(o)
    /\ at' = IF up'[p].at \in {"url", "error"}
             THEN [at EXCEPT ![p].step = IF p = "live" THEN "chat" ELSE "insert",
                             ![p].url = up'[p].at = "url"]
             ELSE at
    /\ Flawed(o, IF o # "done" /\ Up!At(p, "rename") THEN {"unnamed"} ELSE {})
    /\ UNCHANGED <<world, told, inbox, tables, syncs, schema>>

\* An error ends the event, and the conversation; a send only logs it.
UpsertChat(p, o) ==
    /\ at[p].step = "chat"
    /\ Charge(o) /\ Flawed(o, IF o = "done" /\ p = "sync" THEN Beside(p) ELSE {})
    /\ chats' = IF Applied(o) THEN chats \union {at[p].jid} ELSE chats
    /\ IF o = "done" /\ p # "out"
       THEN Goes(p, IF p = "live" THEN "insert" ELSE "upload") /\ UNCHANGED inbox
       ELSE Ends(p) /\ inbox' = IF p = "live" THEN inbox \ {"message"} ELSE inbox
    /\ IF o = "done" /\ p = "sync" THEN Up!Begin(p) ELSE UNCHANGED up
    /\ UNCHANGED <<world, told, msg, edited, syncs, disk, part, final, schema>>

\* Faulty: every message starts as one that was received.
AlwaysReceived == "received"

DefaultStatus == IF Ours THEN "sent" ELSE "received"

\* INSERT IGNORE: a duplicate or a missing chat inserts nothing.
Inserted(p) ==
    IF msg = NoRow /\ at[p].jid \in chats
    THEN [jid |-> at[p].jid, url |-> at[p].url, has |-> call[p].use,
          status |-> DefaultStatus, body |-> "old", original |-> "none"]
    ELSE msg

\* A history sync that stored nothing looks no tail up.
InsertMessage(p, o) ==
    /\ Db!Calling(p, "place") /\ Db!Known(p)
    /\ Charge(o) /\ Flawed(o, {})
    /\ msg' = IF Applied(o) THEN Inserted(p) ELSE msg
    /\ Db!Return(p)
    /\ IF p = "out" THEN Goes(p, "chat")
       ELSE IF p = "sync" /\ o = "done" THEN Goes(p, "tail") ELSE Ends(p)
    /\ inbox' = IF p = "live" THEN inbox \ {"message"} ELSE inbox
    /\ UNCHANGED <<world, told, chats, edited, syncs, upload>>

-----------------------------------------------------------------------------
(* The edit: applyProtocolAction, in the order of the events.               *)

EditBegin ==
    /\ at["live"].step = "idle" /\ "edit" \in inbox /\ "message" \notin inbox
    /\ at' = [at EXCEPT !["live"] = [Idle EXCEPT !.step = "locate", !.aka = ChatAliases(form)]]
    /\ UNCHANGED <<world, inbox, tables, history, bounds, upload, schema>>

\* An edit of a message that is not stored is ignored; a failed call is made
\* again.
Locate(o) ==
    /\ at["live"].step = "locate"
    /\ Charge(o)
    /\ Flawed(o, IF o = "done" /\ msg.jid \notin at["live"].aka THEN {"early"} ELSE {})
    /\ IF o # "done" THEN UNCHANGED <<at, inbox>>
       ELSE IF msg.jid \in at["live"].aka THEN Goes("live", "edit") /\ UNCHANGED inbox
       ELSE Ends("live") /\ inbox' = inbox \ {"edit"}
    /\ UNCHANGED <<world, told, tables, syncs, upload, schema>>

\* Faulty: original_body takes the body it replaces.
Replaced == [msg EXCEPT !.original = msg.body, !.body = "new"]

\* original_body = COALESCE(original_body, body).
Rewritten == [msg EXCEPT !.original = IF @ = "none" THEN msg.body ELSE @, !.body = "new"]

\* Faulty: an UPDATE that was skipped counts as done.
NeverUnsupported == FALSE

\* ErrEditsUnsupported, when the feature is off by the end of the call.
Unsupported == "edits" \in off

\* With the feature off no statement runs.
ApplyEdit(o) ==
    LET runs == call["live"].use # {} IN
    /\ Db!Calling("live", "edit") /\ Db!Known("live")
    /\ ~runs => o = "done"
    /\ Charge(o) /\ Flawed(o, {})
    /\ msg' = IF runs /\ Applied(o) THEN Rewritten ELSE msg
    /\ Db!Return("live")
    /\ Goes("live", IF o # "done" THEN "locate" ELSE IF Unsupported THEN "text" ELSE "tail")
    /\ UNCHANGED <<world, told, inbox, chats, edited, syncs, upload>>

\* storeEditAsRow: the new text next to the original.
StoreEditAsRow(o) ==
    /\ Db!Calling("live", "text") /\ Db!Known("live")
    /\ Charge(o) /\ Flawed(o, {})
    /\ edited' = (edited \/ Applied(o))
    /\ Db!Return("live")
    /\ IF o = "done" THEN Goes("live", "tail") ELSE UNCHANGED at
    /\ UNCHANGED <<world, told, inbox, chats, msg, syncs, upload>>

\* RecomputeChatTail; recomputeTail makes a failed call again.
RecomputeTail(p, o) ==
    /\ Db!Calling(p, "tail") /\ Db!Known(p)
    /\ Charge(o) /\ Flawed(o, {})
    /\ Db!Return(p)
    /\ IF o = "done" \/ p = "sync" THEN Ends(p) ELSE UNCHANGED at
    /\ IF o = "done" /\ p = "live"
       THEN inbox' = inbox \ {"edit"} /\ told' = told \union {"edit"}
       ELSE UNCHANGED <<inbox, told>>
    /\ UNCHANGED <<world, tables, syncs, upload>>

-----------------------------------------------------------------------------
(* A receipt, which comes when it comes.                                    *)

Rank(s) == CASE s = "received" -> 0 [] s = "sent" -> 1 [] s = "delivered" -> 2 [] s = "read" -> 3

\* Faulty: the receipt that comes last counts.
MarkedAlways(s) == IF msg = NoRow THEN msg ELSE [msg EXCEPT !.status = s]

\* MarkMessagesStatus: only from a lower status.
Marked(s) == IF msg # NoRow /\ Rank(msg.status) < Rank(s) THEN [msg EXCEPT !.status = s] ELSE msg

HandleReceipt(s, o) ==
    /\ at["live"].step = "idle" /\ s \in inbox
    /\ origin = "bridge" => "message" \notin inbox
    /\ Charge(o) /\ Flawed(o, IF msg = NoRow THEN {"early"} ELSE {})
    /\ msg' = IF Applied(o) THEN Marked(s) ELSE msg
    /\ inbox' = inbox \ {s} /\ told' = told \union {s}
    /\ UNCHANGED <<world, at, chats, edited, syncs, upload, schema>>

-----------------------------------------------------------------------------
(* The statements a goroutine is at, and the schema they meet.              *)

Operation == [insert |-> "place", edit |-> "edit", text |-> "text", tail |-> "tail"]

Calls(p) == /\ at[p].step \in DOMAIN Operation
            /\ Db!Calls(p, Operation[at[p].step])
            /\ UNCHANGED <<world, inbox, at, tables, history, bounds, upload>>

FallBack(p) == /\ Db!Refuse(p) \/ Db!SwitchOff(p)
               /\ UNCHANGED <<world, inbox, at, tables, history, bounds, upload>>

Migrate == /\ Db!Migrate
           /\ UNCHANGED <<world, inbox, at, tables, history, bounds, upload>>

-----------------------------------------------------------------------------
\* The event being handled comes again, or is lost.
Restart ==
    LET event == IF at["live"].step = "idle" THEN {}
                 ELSE {IF "message" \in inbox THEN "message" ELSE "edit"} IN
    /\ faults < MaxFaults /\ faults' = faults + 1
    /\ inbox' \in {inbox, inbox \ event}
    /\ at' = [p \in Goroutines |-> Idle]
    /\ flaws' = flaws \union (IF \E p \in Goroutines : at[p].step # "idle"
                                 THEN {"failed"} ELSE {})
    /\ Up!Stop /\ Db!Renew
    /\ UNCHANGED <<world, told, tables, syncs>>

Bridge ==
    \/ LiveBegin \/ OutBegin \/ EditBegin \/ Restart
    \/ \E j \in Jids : SyncBegin(j)
    \/ \E p \in Goroutines : Calls(p) \/ FallBack(p)
    \/ \E o \in Outcomes :
          \/ \E p \in Uploaders : Uploads(p, o)
          \/ \E p \in Goroutines : UpsertChat(p, o) \/ InsertMessage(p, o) \/ RecomputeTail(p, o)
          \/ Locate(o) \/ ApplyEdit(o) \/ StoreEditAsRow(o)
          \/ \E s \in Receipts : HandleReceipt(s, o)

Next == Learn \/ Migrate \/ Bridge

Spec == Init /\ [][Next]_vars

-----------------------------------------------------------------------------
(* Properties.                                                              *)

\* media.go:32, "stores data on the remote at <remote_path>/<sha256>.<ext> and
\* returns its public URL": once no upload is running, a message with a
\* preview has the whole file, though its upload was stopped and made again or
\* two goroutines uploaded it at once (media.go:65).  Left out are a rename
\* that fails, and the two together.
UrlIsServed ==
    msg.url /\ "unnamed" \notin flaws /\ ~{"overlap", "failed"} \subseteq flaws
            /\ (\A u \in Uploaders : ~Up!Uploading(u))
        => final # Up!NoFile /\ disk[final] = Up!Whole

\* store.go:72-74, of goroutines that meet a missing column at once: "a nested
\* Fallback for that feature ... switches the right one off".
RightFeatureOff == off \subseteq lacked

\* store.go:449-452, against a schema without the columns "the pin, its coordinates
\* and its map preview are still stored", with all the columns there are.
StoredInFull ==
    [][msg = NoRow /\ msg' # NoRow => {"quotes", "location"} \ lacked \subseteq msg'.has]_vars

\* store.go:518, "so neither text is lost", whatever the edit met, and though
\* a call was made again or the bridge restarted.
NeitherTextLost ==
    /\ msg # NoRow => "old" \in {msg.body, msg.original}
    /\ "edit" \in told => msg.body = "new" \/ edited

\* store.go:1019, "Receipts from WhatsApp can arrive out of order": the status
\* says the most that was told of a stored message, whoever stored it.
StatusIsHighest ==
    LET said == (told \intersect Receipts) \union {"sent"} IN
    msg # NoRow /\ Ours /\ flaws \intersect {"failed", "early"} = {}
        => msg.status \in said /\ \A s \in said : Rank(s) <= Rank(msg.status)

\* wabridge.go:985, "canonicalChatJID picks one JID per chat, so wa_chats never
\* sprouts a duplicate", unless somebody wrote it before the LID was known.
OneChatRow == "firstContact" \notin flaws => Cardinality(chats) <= 1
=============================================================================
