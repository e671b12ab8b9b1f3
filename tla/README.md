# wabridge in TLA+

`wabridge` is one Go process that keeps a WhatsApp session open and mirrors it
into the MySQL database of a web app, over an SSH tunnel. The web app queues
messages in `wa_outbound`; the bridge sends them and stores what happens in
`wa_chats`, `wa_messages` and `wa_pairing`. It has few data structures and no
locks to speak of. What is hard about it is that everything it does is a row of
separate steps (a WhatsApp call, a SQL statement, another one), that each may
fail, be carried out without an answer, or be the last one before a restart, and
that several goroutines, the web app and the staff's phone do such steps at the
same time. These modules model those steps.

## Components

| component | state | operations | interacts through |
|---|---|---|---|
| new-chat path (`newchat.go`) | `wa_outbound` rows with status `resolve`; in memory `sent`, `lastLookup` | tick: select, lookup, claim an ID, send, stamp, mirror; expiry, pacing | `wa_outbound`, `wa_chats`, `wa_messages`, WhatsApp |
| existing-chat path (`wabridge.go` 1585-2237, `sendlocation.go`) | rows with status `pending`; the batch | tick: select a batch, prepare, send, stamp, mirror; reactions | the same |
| session and supervision (`main.go`, `wabridge.go` 33-323, `pairing.go`) | `whatsmeow.db`, the `wa_pairing` row, `fatalCh` | start, QR loop, reset watcher, LoggedOut and ban events, watchdog, backoff | `wa_pairing`, channels into the select of `runOnce` |
| chat and message mirror (`wabridge.go` 340-804, `store.go`) | `wa_chats`, `wa_messages` | messages, edits, deletes, own reads, history sync, tail recomputation | SQL only; three goroutines |
| reactions, receipts | rows of `wa_messages` | `UpsertReaction`, `MarkMessagesStatus` | the same tables |
| chat identity | whatsmeow's LID map | `canonicalChatJID`, `chatAliases` | every write of a chat |
| schema fallback (`store.go` 45-161) | features switched off | `Fallback`, nested | every statement with a new column |
| check-number (`checknumber.go`) | a request and a result file | CLI asks, bridge answers | the file system |
| typing (`store.go` 256-346, `wabridge.go` 895-917, 1532-1582) | `wa_typing_outbound`, `peer_typing_until` | drain, send, expire | a transaction |
| media (`media.go`) | files over SFTP | upload, thumbnail, read | `.part` files and renames |
| tunnel (`tunnel.go`) | SSH connection | open, forward, close, wait | `runOnce` |
| presence, heartbeat, profile pictures, configuration, log, command line, test database | little or none | tickers, I/O | - |

The properties that make each correct, in words: a cold message goes out at most
once and not late; a queued row ends in a verdict that is true; rows leave in
order; what was sent shows up in the chat; a bridge without a session shows a
fresh QR code and the reason it lost the session; the chat list shows what the
messages say; unread counts neither lose a message nor invent one; a person has one
reaction to a message, the last one; a status never goes back; a conversation has one
chat row; an old schema costs its own columns and nothing else; a URL has its file
behind it; a command prints the answer to its own question. The hazards behind them
are in `PROJECT.json`, each at its line.

## Modules

**ColdMessage** is the abstract promise of a message to somebody new: it is asked
for, taken up once under one token, reaches the customer at most once and never
late, and gets a verdict; "sent" is only said of what arrived.

**NewChat** is the new-chat path. `row` is the table with what was mirrored of
each row, `pc` and `cur` the goroutine with its SELECT snapshot, `sent` and `paced`
the two memories of `newChatState`, `delivered` what the phone of the customer has
shown. One action is the code between two waits: `Select` takes the row and runs
`sendNewChatRow` up to its first wait, `Lookup`, `Claim`, `SendAcked`/`SendFailed`,
`Bump`, `Fail`, `Stamp`, and `Mirror` for each of the three writes of
`finishNewChat`. A statement is `done`, `lost`, or `unconfirmed` (MySQL committed,
the tunnel lost the answer); the same three outcomes are used in every module.
`Restart` drops everything that is only in memory. The environment queues rows,
fails them by hand, and lets hours, backoffs and the pacing gap pass. The
three attempts of `storeRetry` are one statement with the same outcomes.

`StallPoints` names an assumption the code makes and does not enforce: an attempt
ends within the hour between `newChatMaxAge` (23 h) and the 24 h of the web app.
The two WhatsApp calls are bounded by `newChatCallTimeout`; the claim is a statement
on a connection pool without deadlines. With `StallPoints = {}` nothing stalls, and
`KeepsPromise` is checked and proved under that assumption; when the claim may stall
TLC finds a row older than 24 h that goes out.

**Outbound** is the existing-chat path: the snapshot of up to `BatchSize` rows, what
comes between a row and its send (nothing, a permanent obstacle, a transient one), the
send under a fresh ID, and stamp, message and chat; the rows in `Reacts` carry a
reaction, which is stamped and stored by `sendReactionRow`. `chat` says whether
`wa_chats` has the row that the foreign key of `wa_messages` needs. Since nothing is
claimed before the send, this path may repeat a message; `excuses` counts the losses
that explain it.

**Pairing** is the life of the session. `session` and `linked` are the two sides of
the device, `page` is `wa_pairing`, `main` is where `supervise` is, and `qr`, `watcher`,
`losing`, `fatal` are the goroutines of one attempt, each at one of its waits.
`Teardown` is the run of deferred calls when the select of `runOnce` returns.

**Mirror** is one direct chat under the three goroutines that write it: the event
handler (one event at a time), one history sync, and the writes after a send. An
event is numbered by its time. `chat` is the row of the chat list, `row` what is
stored of each event. `RecomputeChatTail` is two actions, because it is two
statements. The history variables say which tail writes were overtaken or failed
(`excused`), which messages should be counted as unread (`unseen`, `again`), and which
of those a read could not see because they were never stored (`missing`).

**Reactions** is one message and the reactions to it, in a direct chat that goes by two
JIDs or in a group whose member does. An event is numbered by its time; `row` has the
reaction row each one made, `home` the chat the message is in, `at` where the event
handler and the history sync are. `UpsertReaction` is three actions, `Select`, `Write`
and `Bump`, because it is three statements. `flaws` records what the properties make
exceptions of: two writers at once (`overlap`), a reaction stored in a chat other than
its message's or under a form of the sender that cannot be traced (`astray`), a removal
that came before what it removes (`tooEarly`), a failure.

**Storing** is one message - a shared place with a map preview - on its way into the
tables, by the event handler, a history sync or the outbound loop, and an edit or
receipts after it. It composes two modules. **Uploads** has the files of the shared
host: the `.part` name, the final name, what is written in each file (an open file stays
the same file when its name is changed), and one action per SFTP call of
`UploadThumbnail` (`Upload` makes the same calls). **Schema** has the statements that
use columns of newer migrations: what the database lacks, what is switched off, and for
each goroutine the features its statement uses; `Calls`, `Refuse`, `SwitchOff` are the
steps of a (nested) `Fallback`. Storing adds the order in which the handlers call them,
the two JIDs of the chat, the edit with its retries and the status ladder. It abstracts
from the tail's value, which is in Mirror.

**CheckNumber** is `wabridge check-number`: the commands, the bridge, and the three
files they share, one action per file operation. `data` is what is written in each file,
so that a file which is renamed while somebody has it open is still that file. `met` and
`unserved` say which commands ran beside another one, or found what it left, or ran
while the bridge did not. `GiveUp` has the one assumption about time: a bridge with
nothing else to do answers within its tick and `newChatCallTimeout` (46 s), and the
command waits 60 s.

`MCNewChat`, `MCOutbound`, `MCPairing`, `MCMirror`, `MCReactions`, `MCStoring`,
`MCCheckNumber` are the instances TLC runs. `NewChatProofs`, `OutboundProofs`,
`PairingProofs`, `MirrorProofs`, `ReactionsProofs`, `StoringProofs`, `PreviewProofs` (the
uploads of Storing) and `CheckNumberProofs` hold the theorems.

## Runs

| run | bounds | shows |
|---|---|---|
| NewChat | 2 rows, 2 IDs, 2 attempts, 1 fault, 1 restart | at most one copy, `sent` is true, mirror after stamp, no stranded row, acknowledged rows are finished, pacing, refinement of ColdMessage, every queued row gets a verdict |
| NewChatUnfinished | 1 row, 1 fault | violated: an unconfirmed stamp leaves writes nobody retries |
| Outbound | 3 rows, one a reaction, LIMIT 2, 2 attempts, 2 faults or restarts | repeats have a cause, `sent` is true, order, no stranded row, what is stamped is in `wa_messages`, every queued row gets a verdict |
| OutboundNewLid | 1 row, no chat row yet | violated: the message is dropped by the foreign key |
| Pairing | 3 faults in all | no stale code, no attempt that waits for nothing, the reason stays, a code is shown in the end |
| PairingReset | 1 fault | violated: a consumed reset may leave the session |
| Mirror | 3 events, 1 sync, 1 fault, 1 restart | tail, unread count, no way back for edits and deletes |
| MirrorSide | 2 events, 1 sync | violated: a history sync turns the side of the tail |
| Reactions | an earlier reaction and 2 new events, 1 sync, 1 fault, 1 restart | one reaction each, the last one counts, the message is stamped for the page |
| ReactionsSync | 1 event, 1 sync | violated: a history sync stores a reaction in another chat than its message |
| Storing | a message of theirs or of the bridge, the database lacking one feature or all, 1 sync, 1 fault or restart | the whole file behind a URL, the right feature off, all columns stored that there are, no text lost, the highest status, one chat row |
| CheckNumber | 3 commands, 1 stop of the bridge | each prints its own answer, one that runs alone gets it |

*Why the bounds are enough.* Two rows give the head-of-line and the order questions,
and with LIMIT 2 the third is the one a batch leaves behind; one attempt below the cap
and one at it give every branch of `markAttempt`. One fault and one restart allow a loss
in the recovery from the other; what they might miss is covered by the proofs, which
hold for any number of both. Three events give a message, an edit or
delete of it and a newer message, or a message of theirs, one more and a read between
them; four events without faults were also run to the end (8.1 million states). Two
reactions after one that is stored give a change, a removal and a revival, with the
second writer anywhere between the statements of the first. In Storing a sync beside the
live event (or the send) gives two uploads of one file and two goroutines at one missing
column; `{"location"}` alone missing is the case in which the inner `Fallback` must hand
the error on, everything missing the one in which both are switched off. The migrations
may be applied at any time, so a database that lacks nothing is among the cases. Three
commands allow one that was killed, one that waits and a new one.

*Deadlock.* Pairing is checked for it: supervision never ends. The other models stop
when all rows have their verdict, all events are handled or all commands are done.

*Fairness.* `WF(Bridge)` in NewChat and Outbound: the tickers of `WatchOutbound` fire
every second and the goroutine is not blocked for good (this assumes a connected
client and that statements end). Backoffs and the gap are comparisons with the
clock, so they end. In Pairing `supervise` loops for ever, a filled channel is taken
by the select, the watchdog is a ticker. `SF(ShowCode)`: a Bridge that keeps being
started is connected long enough for one code now and then; weak fairness would
not do, because the network may break the connection each time before the first
code. Mirror, Reactions, Storing and CheckNumber state no liveness: an event that meets
a failure is dropped by design, so what must happen in the end is stated of the states in
which nothing is under way. Nothing is assumed of the phone, the web app or the
network's recovery.

## What the runs found

* The stamp of a new chat that MySQL committed without an answer leaves the chat, the
  message and `chat_jid` unwritten for good (NewChatUnfinished).
* A row whose chat is stored under another JID is sent, but its message is silently
  dropped (OutboundNewLid); `handleMessage` has the order right.
* A reset request can be used up without ending the session (PairingReset).
* A history sync marks the last message of a chat as theirs (MirrorSide).
* A history sync stores a reaction under the JID the chat has today, apart from its
  message when that was stored under the phone number (ReactionsSync): the page is not
  told, and a person may get a second reaction. The live path looks the message up.

Seen while modelling, without a run of its own:

* A claim that hangs for over an hour (no deadline on the statement) lets a row older
  than 24 h go out; see `StallPoints`.
* `UrlIsServed` makes two exceptions. `media.go:65` takes every failed rename for a
  concurrent upload, so a URL may be stored whose file does not exist. And when two
  uploads overlap and the process stops, the first may have given the file its final
  name while the second had just emptied it; the rename does not replace a file, so the
  next upload of the same bytes does not repair it.
* `writeFileAtomic` uses one `.tmp` name, so of two commands at once one may fail or put
  out half a request; the bridge answers that with an error without an ID, and both
  commands run into their timeout. `LoneIsAnswered` is stated of commands that run alone.
* A read of an older message takes a counted one whose insert failed out of the unread
  count (`missing` in Mirror).
* For a document with a body `buildOutboundMessage` sets no `Caption` in the wrapped
  message (`wabridge.go:2128`); captions are data that Outbound does not have.

## What TailIsNewest leaves out

Nothing orders the three goroutines, so the last write of the tail is not always
the write of the newest message. `TailIsNewest` says that the chat list is right
unless one of these happened since: a statement failed, a restart cut a write off,
the last tail write was older than a message already stored or on its way or showed
it as it was before an edit or a delete, or a history sync inserted no row (it then does not look the tail up again, also not
after a delete it applied). Each exception was needed: TLC finds a wrong
tail without it.

## Proofs

Every safety property of a passing run, invariant or action property, is proved by
TLAPS, for every value of the constants: any number of rows, events, commands, failed
statements, restarts and syncs. The theorems rest on nothing but the named assumptions
on the constants (that bounds are natural numbers, that a row has a positive id, that
"none" is no ID, ...), which TLC evaluates in the runs. `OutboundProofs!SentIsMirrored`
has `ChatKnown` as a hypothesis, without which the run OutboundNewLid violates it.

Hardly any property is inductive. Each proof module starts with the conjuncts that had
to be added, as named formulas, and their conjunction (`IInv`, in PreviewProofs `UInv`);
`IInv` is proved of the initial states and of every action, and the properties follow
from it. Each was model-checked on the run of its module before it was proved. The added
conjuncts say what the code relies on without saying so.

**NewChatProofs.** The customer has seen nothing but the ID on the row
(`IdOnRow`), the ID in the snapshot of an attempt is the one on the row (`InHand`),
what the process remembers as sent was shown under the ID on the row (`Remembered`),
a row in the middle of an attempt is neither sent nor acknowledged (`MidAttempt`),
the mirror comes after the stamp (`Mirroring`), an acknowledged row is remembered
or stamped (`AckedKept`), a selectable row is below the cap (`BelowCap`), the process
knows of its last lookup (`Pacing`), and an attempt ends before the row is too old
(`InTime`, when nothing stalls). From it follow type correctness, `AtMostOnce`,
`SentWasShown`, `MirrorFollowsStamp`, `NoStrandedRow`, the action properties
`PacedInProcess` and `AckedIsFinished`, and, if `StallPoints = {}`, that every step is a
step of ColdMessage or a stutter (`Refines`).

**OutboundProofs.** The batch is what was ready and is not tried yet (`Ordered`), its rows
are pending but for the one whose mirror is being written (`Waiting`), and a row shows no
more copies than losses explain, but for the one about to be stamped (`Owed`,
`ShownFirst`). Nobody claims a row on this path, so everything hangs on the batch being
the only place a row is sent from. `Mirroring` follows a row from its stamp to its message.
From it follow `RepeatsHaveCause`, `SentWasShown`, `NoStrandedRow`, `UiSeesMessage` and the
action property `InOrder`, which holds across batches: a ready row older than one of the
batch is in the batch too, or was tried.

**PairingProofs.** No goroutine of an attempt runs between attempts
(`Quiet`) and codes are shown exactly while there is no session and no end in
sight (`CodesMeanUnpaired`). From it follow type correctness, `NoStaleQR` and
`NoDeadAttempt`; `LossKept` is proved from the type invariant, action by action.

**MirrorProofs.** Two arguments over the same typing. For the count: events are handled
oldest first, so the unread messages are the last ones that were counted
(`CountedInOrder`); what a read leaves in the count is then unread or was never counted.
For the tail: while nothing excuses it and no goroutine that changed rows is about to
write the tail (`Rewritten`), it is of the newest row and shows it as it is, or of the
message that the event handler inserts next (`TailHolds`); what a SELECT found stays the
tail of a row, as rows never go (`FoundReal`). The count is bounded by the events that
left the inbox (`Bounded`). From it follow `TailIsNewest`, `UnreadCounts` and `NoWayBack`.

**ReactionsProofs.** The argument is conditional on the flaws so far, like the properties.
Without an astray reaction every row and every writer is in the message's chat
(`InPlace`); without overlapping writers either, what a writer's SELECT found still holds
when it writes (`SelectHolds`), so a side has one row; without a failure a change that is
not stamped has its stamp coming (`StampComing`), and the row of a side is of the latest
event stored (`LatestShown`). From it follow `OneReaction`, `LastReactionCounts` and
`ChipsRefresh`.

**StoringProofs.** A goroutine inside a statement is at the step of that statement
(`AtItsCall`), a statement uses what its operation wants and is not off (`Uses`), and only
what the database lacked is refused or off (`OnlyLacked`): this is what makes three
goroutines that meet a missing column at once harmless. `ByLid`, `FirstKept`, `EditKept`
and `ReceiptsFollow` follow the chat, the two texts and the receipts. From it follow
`RightFeatureOff`, `NeitherTextLost`, `StatusIsHighest`, `OneChatRow` and the action
property `StoredInFull`.

**PreviewProofs.** The two cases of `UrlIsServed` have an invariant each. Without overlap a
goroutine that writes finds its own file under the `.part` name, though calls fail and
the process stops (`Alone`); without a failure what has the final name is whole or being
written by one who will make it whole, though one upload empties the file of the other
(`WholeInTheEnd`). In both a URL is returned only when the final name exists
(`UrlMeansFinal`).

**CheckNumberProofs.** As long as a command is alone, each of its steps finds what the step
before left (`OnItsWay`), and while it waits its request is in one place: the request
file, the bridge's hands, or the result file (`InOnePlace`). From it follow `OwnAnswer`
and `LoneIsAnswered`.

*What the proofs changed in the model.* `UnreadCounts` did not allow for a message that
`UpsertChat` counted and whose insert then failed: `ClearUnreadUpTo` counts the newer
messages among those stored, so a read of an older message drops it from the count. The
attempt to prove the invariant showed it, and TLC confirms it with five events and a
fault, which is more than the run has. The model now records these messages (`missing`)
and the property excepts them, and no others. `NeitherTextLost` had a hypothesis that
nothing had failed; it turned out not to need it, and is stated and checked without.

*Only model-checked:* liveness (`Drains` of both paths, `ShowsQR`), which needs fairness
and ENABLED, out of this prover's reach; and the five violations, which are single
behaviours. The models recurse over no data (the steps of a command and the operations of
the fallback are finite functions), so nothing else was out of reach.

## Not modelled

Message contents, labels, quotes, coordinates and names are data that no property
here tells apart. The parts without a module are listed in `PROJECT.json` with the
reason:

* *typing*: what the staff type is claimed and sent without a retry, "lossy on purpose"
  (`wabridge.go:1535`); what the customer types is a time stamp that expires. There is no
  promise to state.
* *presence, heartbeat, profile pictures*: tickers that overwrite one value.
* *message classification, thumbnails, PDF*: pure functions from bytes to labels and
  pictures.
* *configuration, log file, command line, test database*: read once, or I/O.

Details of the modelled parts: a redelivery of an event whose handling was complete is
covered only through the history sync, which stores the same rows again; groups are in
Reactions but not in Mirror (where an admin may delete anybody's message); a schema
without `target_message_id` is not in Reactions, as every reaction is then a plain row;
the fallbacks of `wa_pairing` and `wa_outbound` are not in Schema, as they do not nest.

## Plan

All safety properties of the runs are proved. What is left, in order:

1. **Bridge**: NewChat and Outbound in one goroutine with Mirror's tables, to check that
   the paths keep each other's invariants.
2. **Mirror in groups**, where an admin deletes anybody's message.
3. **Reactions, Storing**: abstract specifications of a person's reaction and of a stored
   message, with the refinements proved as for ColdMessage.
4. Hazards in `PROJECT.json` that no property covers yet.
