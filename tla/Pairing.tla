------------------------------ MODULE Pairing ------------------------------
(***************************************************************************)
(* The life of the WhatsApp session: supervise and runOnce (main.go), the  *)
(* QR loop, the reset watcher, the events that end a session and the       *)
(* watchdog (wabridge.go), and the wa_pairing row the web page shows       *)
(* (pairing.go).                                                           *)
(*                                                                         *)
(* One attempt of runOnce is a Bridge with its goroutines: main waits in   *)
(* its select, the QR loop writes codes, the reset watcher polls, the      *)
(* event handler reacts to WhatsApp.  They share the session store and the *)
(* page; what each does between two waits is one action.  When the select  *)
(* returns they are all cut off, wherever they are.                        *)
(***************************************************************************)
EXTENDS Integers

CONSTANT MaxFaults  \* bound: writes, connects and tunnels that fail, in total

ASSUME FaultsAssumption == MaxFaults \in Nat

VARIABLES
    session,  \* whatsmeow.db holds a device (durable)
    linked,   \* WhatsApp still accepts it
    page,     \* the wa_pairing row (durable)
    main,     \* supervise: starting an attempt, in its select, in its backoff
    conn,     \* client.IsConnected()
    qr,       \* the QR loop
    watcher,  \* the reset watcher
    losing,   \* the LoggedOut handler has its write still to do
    fatal,    \* fatalCh holds an error
    missed,   \* history: the last SetPaired did not reach the page
    reset,    \* history: this attempt, or the one before, took a reset
    faults    \* use of the bound

session_vars == <<session, linked>>
attempt == <<conn, qr, watcher, losing, fatal>>
history == <<missed, reset>>
vars == <<session_vars, page, main, attempt, history, faults>>

\* qr: qr_code is not NULL.  reset: reset_requested_at is not NULL.
Page == [status : {"idle", "awaiting_scan", "paired", "error"},
         event : {"none", "qr", "paired", "lost", "reset", "error"},
         qr : BOOLEAN, reset : BOOLEAN]

TypeOK ==
    /\ session \in BOOLEAN /\ linked \in BOOLEAN
    /\ page \in Page
    /\ main \in {"start", "select", "backoff"}
    /\ conn \in BOOLEAN
    /\ qr \in {"off", "fresh", "shown", "scanned", "writing"}
    /\ watcher \in {"poll", "record", "logout"}
    /\ losing \in BOOLEAN /\ fatal \in BOOLEAN
    /\ missed \in BOOLEAN /\ reset \in BOOLEAN
    /\ faults \in 0..MaxFaults

\* Before the first pairing: migrations leave the row idle.
Init ==
    /\ session = FALSE /\ linked = FALSE
    /\ page = [status |-> "idle", event |-> "none", qr |-> FALSE, reset |-> FALSE]
    /\ main = "start" /\ conn = FALSE
    /\ qr = "off" /\ watcher = "poll" /\ losing = FALSE /\ fatal = FALSE
    /\ missed = FALSE /\ reset = FALSE
    /\ faults = 0

-----------------------------------------------------------------------------
(* pairing.go: what each write makes of the row.                            *)

\* Faulty: the reason is overwritten like any other event.
Overwrite(event) == event

\* keepSessionLost.
Keep(event) == IF page.event = "lost" THEN "lost" ELSE event

SetQRCode == [page EXCEPT !.status = "awaiting_scan", !.qr = TRUE,
                          !.event = Keep("qr")]

SetPaired == [page EXCEPT !.status = "paired", !.qr = FALSE, !.event = "paired"]

SetEvent == [page EXCEPT !.status = "error", !.event = Keep("error")]

SetSessionLost == [page EXCEPT !.status = "error", !.event = "lost"]

\* Faulty: the columns are swapped.
ConsumedAsStatus == [page EXCEPT !.reset = FALSE, !.status = "reset"]

Consumed == [page EXCEPT !.reset = FALSE, !.event = "reset"]

\* What a statement, or a call to WhatsApp, may do ("unconfirmed": carried out,
\* the answer was lost).
Outcomes == {"done", "lost", "unconfirmed"}
Applied(o) == o # "lost"

Charge(o) == IF o = "done" THEN UNCHANGED faults
                           ELSE faults < MaxFaults /\ faults' = faults + 1

\* A write whose error is only logged.
Write(o, new) == page' = IF Applied(o) THEN new ELSE page

-----------------------------------------------------------------------------
(* runOnce and supervise.                                                   *)

\* Faulty: the page is asked whether there is a session.
PageSaysPaired == page.status = "paired"

\* client.Store.ID # nil.
Paired == session

\* Faulty: a paired bridge leaves the page as it is.
LeavesPage(o) == UNCHANGED <<page, missed>>

\* An existing session is put on the page, whatever the page said.
MarksPaired(o) == Write(o, SetPaired) /\ missed' = ~Applied(o)

\* Start of a new Bridge, up to its connection.
Start(o) ==
    /\ main = "start"
    /\ Charge(o)
    /\ IF Paired THEN MarksPaired(o) /\ qr' = "off"
                 ELSE UNCHANGED <<page, missed>> /\ qr' = "fresh"
    /\ main' = "select" /\ conn' = TRUE
    /\ UNCHANGED <<session_vars, watcher, losing, fatal, reset>>

\* The tunnel, MySQL or WhatsApp is not there.
StartFails ==
    /\ main = "start"
    /\ Charge("lost")
    /\ main' = "backoff"
    /\ UNCHANGED <<session_vars, page, attempt, history>>

\* The select returns: the deferred calls disconnect the client, close the
\* database and the tunnel and cancel the context, so that no goroutine of the
\* attempt gets anything done any more.
Teardown ==
    /\ main' = "backoff"
    /\ conn' = FALSE /\ qr' = "off" /\ watcher' = "poll"
    /\ losing' = FALSE /\ fatal' = FALSE

TunnelDies ==
    /\ main = "select"
    /\ Charge("lost")
    /\ Teardown
    /\ UNCHANGED <<session_vars, page, history>>

TakeFatal ==
    /\ main = "select" /\ fatal
    /\ Teardown
    /\ UNCHANGED <<session_vars, page, history, faults>>

\* WatchConnection: disconnected for five minutes.
Watchdog ==
    /\ main = "select" /\ ~conn
    /\ Teardown
    /\ UNCHANGED <<session_vars, page, history, faults>>

\* The backoff is over, and supervise starts a new attempt.  The reset flag
\* tells of the attempt that just ended.
Retry ==
    /\ main = "backoff"
    /\ main' = "start"
    /\ UNCHANGED <<session_vars, page, attempt, history, faults>>

-----------------------------------------------------------------------------
(* runQRLoop.                                                               *)

\* The first code comes soon after the connection, the others as it rotates.
ShowCode(o) ==
    /\ main = "select" /\ conn /\ qr \in {"fresh", "shown"}
    /\ Charge(o)
    /\ Write(o, SetQRCode)
    /\ qr' = "shown"
    /\ UNCHANGED <<session_vars, main, conn, watcher, losing, fatal, history>>

\* The phone scans a code; whatsmeow stores the device and closes the channel.
Scan ==
    /\ main = "select" /\ qr = "shown" /\ conn
    /\ session' = TRUE /\ linked' = TRUE
    /\ qr' = "scanned" /\ reset' = FALSE
    /\ UNCHANGED <<page, main, conn, watcher, losing, fatal, missed, faults>>

\* The loop gets to the success, and looks whether there is a device.
SeeSuccess ==
    /\ main = "select" /\ qr = "scanned"
    /\ qr' = IF session THEN "writing" ELSE "off"
    /\ UNCHANGED <<session_vars, page, main, conn, watcher, losing, fatal, history, faults>>

WriteSuccess(o) ==
    /\ main = "select" /\ qr = "writing"
    /\ Charge(o)
    /\ Write(o, SetPaired) /\ missed' = ~Applied(o)
    /\ qr' = "off"
    /\ UNCHANGED <<session_vars, main, conn, watcher, losing, fatal, reset>>

\* The codes run out, or pairing fails: the client is disconnected.
QRTimeout(o) ==
    /\ main = "select" /\ qr = "shown"
    /\ Charge(o)
    /\ Write(o, SetEvent)
    /\ qr' = "off" /\ conn' = FALSE /\ fatal' = TRUE
    /\ UNCHANGED <<session_vars, main, watcher, losing, history>>

-----------------------------------------------------------------------------
(* WatchResetRequests.                                                      *)

\* An error of the commit, also of one that took place, is only logged.
ConsumeReset(o) ==
    /\ main = "select" /\ watcher = "poll" /\ page.reset
    /\ Charge(o)
    /\ Write(o, Consumed)
    /\ watcher' = IF o = "done" THEN "record" ELSE "poll"
    /\ reset' = (reset \/ o = "done")
    /\ UNCHANGED <<session_vars, main, conn, qr, losing, fatal, missed>>

RecordReset(o) ==
    /\ main = "select" /\ watcher = "record"
    /\ Charge(o)
    /\ Write(o, SetSessionLost)
    /\ watcher' = "logout"
    /\ UNCHANGED <<session_vars, main, conn, qr, losing, fatal, history>>

\* A Logout that is not answered leaves the device where it is; the watcher
\* returns and ends the attempt either way.
Logout(o) ==
    /\ main = "select" /\ watcher = "logout"
    /\ Charge(o)
    /\ session' = (session /\ o # "done")
    /\ linked' = (linked /\ ~Applied(o))
    /\ Teardown
    /\ UNCHANGED <<page, history>>

-----------------------------------------------------------------------------
(* The web app, the phone and the network.                                  *)

RequestReset ==
    /\ ~page.reset
    /\ page' = [page EXCEPT !.reset = TRUE]
    /\ UNCHANGED <<session_vars, main, attempt, history, faults>>

RemoveDevice ==
    /\ linked
    /\ linked' = FALSE
    /\ UNCHANGED <<session, page, main, attempt, history, faults>>

Drop ==
    /\ main = "select" /\ conn
    /\ conn' = FALSE
    /\ UNCHANGED <<session_vars, page, main, qr, watcher, losing, fatal, history, faults>>

\* whatsmeow reconnects by itself, a paired client only.
Reconnect ==
    /\ main = "select" /\ ~conn /\ session /\ linked
    /\ conn' = TRUE
    /\ UNCHANGED <<session_vars, page, main, qr, watcher, losing, fatal, history, faults>>

-----------------------------------------------------------------------------
(* handleEvent.                                                             *)

\* LoggedOut: whatsmeow has deleted the device before the handler runs.
LoggedOut ==
    /\ main = "select" /\ session /\ ~linked
    /\ session' = FALSE /\ conn' = FALSE
    /\ losing' = TRUE
    /\ UNCHANGED <<linked, page, main, qr, watcher, fatal, history, faults>>

\* Faulty: the error is not sent.
NotSignalled == fatal

\* signalFatal: the channel keeps one error, which is enough.
Signalled == TRUE

RecordLoss(o) ==
    /\ main = "select" /\ losing
    /\ Charge(o)
    /\ Write(o, SetSessionLost)
    /\ losing' = FALSE /\ fatal' = Signalled
    /\ UNCHANGED <<session_vars, main, conn, qr, watcher, history>>

\* TemporaryBan and ClientOutdated: recorded, and nothing else.
Ban(o) ==
    /\ main = "select" /\ session /\ linked /\ conn
    /\ Charge(o)
    /\ Write(o, SetSessionLost)
    /\ conn' = FALSE
    /\ UNCHANGED <<session_vars, main, qr, watcher, losing, fatal, history>>

-----------------------------------------------------------------------------
Bridge ==
    \/ StartFails \/ TakeFatal \/ Watchdog \/ Retry \/ SeeSuccess \/ LoggedOut
    \/ \E o \in Outcomes :
          \/ Start(o) \/ ShowCode(o) \/ WriteSuccess(o)
          \/ ConsumeReset(o) \/ RecordReset(o) \/ Logout(o) \/ RecordLoss(o)

Environment ==
    \/ RequestReset \/ RemoveDevice \/ Drop \/ Reconnect \/ TunnelDies \/ Scan
    \/ \E o \in Outcomes : QRTimeout(o) \/ Ban(o)

Next == Bridge \/ Environment

Spec == Init /\ [][Next]_vars
\* Supervision goes on, statements are carried out, and a Bridge that keeps
\* being started is one day connected long enough for the first code.
Fairness ==
    /\ WF_vars(Retry) /\ WF_vars(TakeFatal)
    /\ WF_vars(\E o \in Outcomes : Start(o))
    /\ WF_vars(\E o \in Outcomes : RecordLoss(o))
    /\ WF_vars(Watchdog)
    /\ SF_vars(\E o \in Outcomes : ShowCode(o))

FairSpec == Spec /\ Fairness

-----------------------------------------------------------------------------
(* Properties.                                                              *)

\* wabridge.go:121, "so the UI doesn't show stale QR codes from a previous
\* pairing attempt": the page of a paired bridge holds a code only while the
\* success is still on its way, or its write failed.
NoStaleQR ==
    main = "select" /\ session /\ page.qr => qr \in {"scanned", "writing"} \/ missed

\* An attempt without a session shows codes or is about to end by itself: it
\* never waits for the five minutes of the watchdog (wabridge.go:149), in
\* whatever order a scan, a LoggedOut, a reset and a timeout come.
NoDeadAttempt == main = "select" /\ ~session => qr # "off" \/ losing \/ fatal

\* pairing.go:79, "the reason stays visible until someone re-links": QR codes
\* and timeouts never take the reason off the page; a pairing and a reset do.
LossKept ==
    [][page.event = "lost" /\ page'.event # "lost"
          => page'.status = "paired" \/ (page.reset /\ ~page'.reset)]_vars

\* A bridge without a session comes to show a code, whatever the page says and
\* however often writes, tunnels and connections failed before.
ShowsQR == ~session ~> (session \/ page.status = "awaiting_scan")

\* pairing.go:107, "when it returns true, log out the current session and
\* restart the QR-pair flow": the attempt after a reset finds no session.
ResetEndsSession == main = "start" /\ reset => ~session
=============================================================================
