--------------------------- MODULE OutboundProofs ---------------------------
(***************************************************************************)
(* The safety of the existing-chat path, for any set of rows (an unbounded *)
(* one too), any LIMIT, attempt cap and number of faults.                  *)
(*                                                                         *)
(* The argument: the rows of the batch are the first ones that were ready, *)
(* minus those tried (Ordered); each is still pending, but for the current *)
(* one between its stamp and the end of its mirroring (Waiting); a row not *)
(* yet 'sent' was shown only as often as a loss explains, but for the one  *)
(* about to be stamped (Owed).                                             *)
(***************************************************************************)
EXTENDS Outbound, FiniteSetTheorems, WellFoundedInduction, TLAPS

\* The goroutine is at a step while it has rows to do, each below the cap.
Busy == /\ pc # "idle" <=> DOMAIN batch # {}
        /\ \A r \in DOMAIN batch : batch[r] < MaxAttempts

\* A row of the batch is pending until the stamp of its own turn.
Waiting ==
    \A r \in DOMAIN batch :
        \/ row[r].status = "pending"
        \/ r = cur /\ pc \in {"message", "chat"} /\ row[r].status = "sent"

\* A row that is not 'sent' shows no copy that a loss does not explain, but
\* for the one the stamp is about to answer for.
Owed ==
    \A r \in Rows :
        row[r].status # "sent" /\ ~(pc = "stamp" /\ r = cur)
            => row[r].shown <= excuses[r]

\* What is about to be stamped was shown.
ShownFirst == pc = "stamp" => row[cur].shown > 0

\* A row that may still be selected is below the cap.
BelowCap == \A r \in Rows : row[r].status \in {"none", "pending"}
                                => row[r].attempts < MaxAttempts

\* What the SELECT skipped for a row of the batch is in the batch or tried.
Ordered ==
    /\ DOMAIN batch \subseteq ready
    /\ \A r \in DOMAIN batch, s \in ready :
           s < r => s \in DOMAIN batch \/ s \in tried
    /\ pc \notin {"idle", "prepare"} => cur \in tried

\* With a chat row, a sent row whose message was written is in wa_messages.
Mirroring ==
    ChatKnown =>
        /\ chat
        /\ UiSeesMessage
        /\ pc = "chat" /\ row[cur].status = "sent" /\ cur \notin excused
               => cur \in mirrored

IInv == /\ TypeOK
        /\ Busy
        /\ Waiting
        /\ RepeatsHaveCause
        /\ Owed
        /\ SentWasShown
        /\ ShownFirst
        /\ BelowCap
        /\ Ordered
        /\ Mirroring

-----------------------------------------------------------------------------
(* The order of a batch.                                                    *)

\* A set of row ids has a first one.
LEMMA FirstExists ==
    ASSUME NEW S \in SUBSET Nat, S # {}
    PROVE  \E r \in S : \A s \in S : ~Before(s, r)
<1>1. PICK r \in S : \A s \in S : <<s, r>> \notin OpToRel(<, Nat)
  BY NatLessThanWellFounded, WFMin
<1>2. \A s \in S : ~(s < r)
  BY <1>1 DEF OpToRel
<1> QED
  BY <1>2 DEF Before

\* The row the loop is at is the first of the rows to do.
LEMMA CurIsFirst ==
    ASSUME TypeOK, DOMAIN batch # {}
    PROVE  /\ cur \in DOMAIN batch /\ cur \in Rows
           /\ \A s \in DOMAIN batch : ~Before(s, cur)
<1>1. DOMAIN batch \in SUBSET Nat
  BY OutboundAssumption DEF TypeOK
<1>2. \E r \in DOMAIN batch : \A s \in DOMAIN batch : ~Before(s, r)
  BY <1>1, FirstExists
<1> QED
  BY <1>2 DEF cur, TypeOK

\* The LIMIT leaves at least one of the rows that were ready.
LEMMA FirstOfSome ==
    ASSUME NEW S \in SUBSET Rows, S # {}
    PROVE  FirstOf(S) # {}
<1>1. S \in SUBSET Nat
  BY OutboundAssumption
<1>2. PICK r \in S : \A s \in S : ~Before(s, r)
  BY <1>1, FirstExists
<1>3. {s \in S : Before(s, r)} = {}
  BY <1>2
<1>4. Cardinality({s \in S : Before(s, r)}) < BatchSize
  BY <1>3, FS_EmptySet, OutboundAssumption
<1> QED
  BY <1>4 DEF FirstOf

\* The LIMIT leaves no row out for a later one.
LEMMA FirstOfPrefix ==
    ASSUME NEW S \in SUBSET Rows, NEW r \in FirstOf(S), NEW s \in S, s < r
    PROVE  s \in FirstOf(S)
<1>1. r \in Nat /\ s \in Nat /\ S \subseteq Nat
  BY OutboundAssumption DEF FirstOf
<1> DEFINE BelowS == {y \in S : Before(y, s)}
           BelowR == {y \in S : Before(y, r)}
<1>2. BelowS \subseteq BelowR
  <2>1. \A y \in S : Before(y, s) => Before(y, r)
    BY <1>1 DEF Before
  <2> QED
    BY <2>1
<1>3. BelowR \subseteq 0..r
  <2>1. \A y \in S : Before(y, r) => y \in 0..r
    BY <1>1 DEF Before
  <2> QED
    BY <2>1
<1>4. IsFiniteSet(0..r)
  BY <1>1, FS_Interval
<1>5. IsFiniteSet(BelowR) /\ Cardinality(BelowR) \in Nat
  BY <1>3, <1>4, FS_Subset, FS_CardinalityType
<1>6. Cardinality(BelowS) <= Cardinality(BelowR) /\ IsFiniteSet(BelowS)
  BY <1>2, <1>5, FS_Subset
<1>7. Cardinality(BelowS) \in Nat
  BY <1>6, FS_CardinalityType
<1>8. Cardinality(BelowR) < BatchSize
  BY DEF FirstOf
<1>9. Cardinality(BelowS) < BatchSize
  BY <1>5, <1>6, <1>7, <1>8, OutboundAssumption
<1> QED
  BY <1>9 DEF FirstOf

\* A step within a row's turn stays at the row.
LEMMA StaysAtRow ==
    ASSUME NEW step, GoTo(step)
    PROVE  cur' = cur /\ batch' = batch /\ pc' = step
  BY DEF GoTo, cur

\* The end of a row's turn takes that row, and no other, off the batch.
LEMMA RowDone ==
    ASSUME IInv, pc # "idle", NextRow
    PROVE  /\ DOMAIN batch' = DOMAIN batch \ {cur}
           /\ \A r \in DOMAIN batch' : batch'[r] = batch[r]
           /\ batch' \in [DOMAIN batch' -> 0..MaxAttempts]
           /\ pc' \in {"idle", "prepare"}
           /\ pc' # "idle" <=> DOMAIN batch' # {}
  BY DEF NextRow, IInv, TypeOK

\* A statement uses the bound on faults at most once.
LEMMA ChargeType ==
    ASSUME TypeOK, NEW o, Charge(o)
    PROVE  faults' \in 0..MaxFaults
  BY OutboundAssumption DEF TypeOK, Charge

\* The UPDATE of a verdict writes one row and leaves what the customer saw.
LEMMA VerdictWrites ==
    ASSUME TypeOK, NEW r \in Rows, NEW n \in 0..MaxAttempts,
           NEW new \in {Failed(r, n), Attempted(r, n)},
           row[r].status = "pending"
    PROVE  /\ new \in [Rows -> Row]
           /\ \A s \in Rows \ {r} : new[s] = row[s]
           /\ new[r].shown = row[r].shown
           /\ \/ new[r].status = "failed"
              \/ new[r].status = "pending" /\ new[r].attempts < MaxAttempts
<1> DEFINE old == row[r]
<1>1. row \in [Rows -> Row] /\ old \in Row /\ old.status = "pending"
  BY DEF TypeOK
<1>2. CASE new = Failed(r, n)
  <2>1. new = [row EXCEPT ![r] = [old EXCEPT !.status = "failed", !.attempts = n]]
    BY <1>1, <1>2 DEF Failed
  <2> QED
    BY <1>1, <2>1 DEF Row
<1>3. CASE new = [row EXCEPT ![r].attempts = n, ![r].due = FALSE] /\ n < MaxAttempts
  <2>1. new = [row EXCEPT ![r] = [old EXCEPT !.attempts = n, !.due = FALSE]]
    BY <1>1, <1>3
  <2> QED
    BY <1>1, <1>3, <2>1 DEF Row
<1> QED
  BY <1>2, <1>3, OutboundAssumption DEF Attempted

\* A send adds a copy at the customer's, a stamp a status, each to one row.
LEMMA SendWrites ==
    ASSUME TypeOK, NEW r \in Rows
    PROVE  /\ Show(r) \in [Rows -> Row] /\ Stamped(r) \in [Rows -> Row]
           /\ \A s \in Rows \ {r} : Show(r)[s] = row[s] /\ Stamped(r)[s] = row[s]
           /\ Show(r)[r] = [row[r] EXCEPT !.shown = row[r].shown + 1]
           /\ Stamped(r)[r] = [row[r] EXCEPT !.status = "sent"]
<1>1. row \in [Rows -> Row] /\ row[r] \in Row /\ row[r].shown \in Nat
  BY DEF TypeOK, Row
<1>2. Show(r) = [row EXCEPT ![r] = [row[r] EXCEPT !.shown = row[r].shown + 1]]
  BY <1>1 DEF Show
<1>3. Stamped(r) = [row EXCEPT ![r] = [row[r] EXCEPT !.status = "sent"]]
  BY <1>1 DEF Stamped
<1>4. /\ [row[r] EXCEPT !.shown = row[r].shown + 1] \in Row
      /\ [row[r] EXCEPT !.status = "sent"] \in Row
  BY <1>1 DEF Row
<1> QED
  BY <1>1, <1>2, <1>3, <1>4

-----------------------------------------------------------------------------
(* The invariant, one lemma for the steps that close a row's turn and one   *)
(* for all.                                                                 *)

\* A row that did not make it: failed for good, or an attempt more.
LEMMA VerdictKeeps ==
    ASSUME IInv, NEW o \in Outcomes, Bump(o) \/ Fail(o)
    PROVE  IInv'
<1> DEFINE c == cur
<1>1. pc \in {"bump", "fail"} /\ NextRow /\ Charge(o)
  BY DEF Bump, Fail
<1>2. /\ c \in DOMAIN batch /\ c \in Rows /\ DOMAIN batch # {}
      /\ batch[c] \in 0..MaxAttempts /\ batch[c] < MaxAttempts
  BY <1>1, CurIsFirst DEF IInv, TypeOK, Busy
<1>3. /\ DOMAIN batch' = DOMAIN batch \ {c}
      /\ \A r \in DOMAIN batch' : batch'[r] = batch[r]
      /\ batch' \in [DOMAIN batch' -> 0..MaxAttempts]
      /\ pc' \in {"idle", "prepare"}
      /\ pc' # "idle" <=> DOMAIN batch' # {}
  BY <1>1, RowDone
<1>4. UNCHANGED <<chat, mirrored, ready, tried, excuses, excused>>
  BY DEF Bump, Fail, history
<1>5. row[c].status = "pending"
  BY <1>1, <1>2 DEF IInv, Waiting
<1>6. /\ row' \in [Rows -> Row]
      /\ \A s \in Rows \ {c} : row'[s] = row[s]
      /\ row'[c].shown = row[c].shown
      /\ \/ row'[c].status = "failed"
         \/ row'[c].status = "pending" /\ row'[c].attempts < MaxAttempts
  <2>1. row \in [Rows -> Row] /\ row[c].attempts < MaxAttempts
    BY <1>2, <1>5 DEF IInv, TypeOK, BelowCap
  <2>2. batch[c] + 1 \in 0..MaxAttempts /\ MaxAttempts \in 0..MaxAttempts
    BY <1>2, OutboundAssumption
  <2>3. row' = row \/ row' \in {Failed(c, MaxAttempts), Attempted(c, batch[c] + 1)}
    BY DEF Bump, Fail
  <2>4. CASE row' = row
    BY <1>2, <1>5, <2>1, <2>4
  <2>5. CASE row' = Failed(c, MaxAttempts)
    BY <1>2, <1>5, <2>2, <2>5, VerdictWrites DEF IInv
  <2>6. CASE row' = Attempted(c, batch[c] + 1)
    BY <1>2, <1>5, <2>2, <2>6, VerdictWrites DEF IInv
  <2> QED
    BY <2>3, <2>4, <2>5, <2>6
<1> HIDE DEF c
<1>7. TypeOK'
  BY <1>1, <1>3, <1>4, <1>6, ChargeType DEF IInv, TypeOK, Steps
<1>8. Busy' /\ Waiting'
  BY <1>1, <1>3, <1>6 DEF IInv, Busy, Waiting, c, TypeOK
<1>9. RepeatsHaveCause' /\ SentWasShown' /\ ShownFirst' /\ BelowCap'
  BY <1>3, <1>4, <1>6 DEF IInv, RepeatsHaveCause, SentWasShown, ShownFirst, BelowCap
<1>10. Owed'
  <2>1. \A r \in Rows : row'[r].status # "sent" => row[r].status # "sent"
    BY <1>5, <1>6
  <2>2. \A r \in Rows : row[r].status # "sent" => row[r].shown <= excuses[r]
    BY <1>1 DEF IInv, Owed
  <2> QED
    BY <2>1, <2>2, <1>4, <1>6 DEF Owed
<1>11. Ordered'
  BY <1>1, <1>3, <1>4 DEF IInv, Ordered, c
<1>12. Mirroring'
  BY <1>3, <1>4, <1>6 DEF IInv, Mirroring, UiSeesMessage, c
<1> QED
  BY <1>7, <1>8, <1>9, <1>10, <1>11, <1>12 DEF IInv

\* The web app queues a row, or the clock ends a backoff.
LEMMA EnvironmentKeeps ==
    ASSUME IInv, Environment
    PROVE  IInv'
<1>1. PICK r \in Rows : Queue(r) \/ BackoffElapses(r)
  BY DEF Environment
<1>2. /\ batch' = batch /\ pc' = pc /\ cur' = cur
      /\ UNCHANGED <<chat, mirrored, ready, tried, excuses, excused, faults>>
  BY <1>1 DEF Queue, BackoffElapses, history, cur
<1>3. /\ row' \in [Rows -> Row]
      /\ \A s \in Rows : /\ row'[s].shown = row[s].shown
                         /\ row'[s].attempts = row[s].attempts
                         /\ \/ row'[s].status = row[s].status
                            \/ row[s].status = "none" /\ row'[s].status = "pending"
  <2>1. row \in [Rows -> Row] /\ row[r] \in Row
    BY DEF IInv, TypeOK
  <2>2. CASE Queue(r)
    BY <2>1, <2>2 DEF Queue, Row
  <2>3. CASE BackoffElapses(r)
    BY <2>1, <2>3 DEF BackoffElapses, Row
  <2> QED
    BY <1>1, <2>2, <2>3
<1>4. TypeOK'
  BY <1>2, <1>3 DEF IInv, TypeOK
<1>5. Busy' /\ Ordered'
  BY <1>2 DEF IInv, Busy, Ordered
<1>6. DOMAIN batch \subseteq Rows
  BY DEF IInv, TypeOK
<1>7. Waiting'
  BY <1>2, <1>3, <1>6 DEF IInv, Waiting
<1>8. RepeatsHaveCause' /\ SentWasShown' /\ BelowCap' /\ Owed'
  BY <1>2, <1>3 DEF IInv, RepeatsHaveCause, SentWasShown, BelowCap, Owed
<1>9. pc # "idle" => cur \in Rows
  BY CurIsFirst DEF IInv, Busy
<1>10. ShownFirst' /\ Mirroring'
  BY <1>2, <1>3, <1>9 DEF IInv, ShownFirst, Mirroring, UiSeesMessage
<1> QED
  BY <1>4, <1>5, <1>7, <1>8, <1>10 DEF IInv

\* A new batch holds rows that are pending, from the first one on.
LEMMA SelectKeeps ==
    ASSUME IInv, Select
    PROVE  IInv'
<1> DEFINE S == {r \in Rows : Ready(r)}
<1>1. /\ S \in SUBSET Rows /\ S # {}
      /\ batch' = [r \in FirstOf(S) |-> row[r].attempts]
      /\ pc' = "prepare" /\ pc = "idle" /\ ready' = S
      /\ UNCHANGED <<row, chat, mirrored, tried, excuses, excused, faults>>
  BY DEF Select
<1>2. \A r \in S : row[r].status = "pending" /\ row[r].attempts < MaxAttempts
  BY DEF Ready
<1> HIDE DEF S
<1>3. /\ FirstOf(S) # {} /\ FirstOf(S) \subseteq S /\ DOMAIN batch' = FirstOf(S)
      /\ \A r \in FirstOf(S), s \in S : s < r => s \in FirstOf(S)
  <2>1. FirstOf(S) # {} /\ \A r \in FirstOf(S), s \in S : s < r => s \in FirstOf(S)
    BY <1>1, FirstOfSome, FirstOfPrefix
  <2> QED
    BY <1>1, <2>1 DEF FirstOf
<1>4. TypeOK'
  <2>1. \A r \in Rows : row[r].attempts \in 0..MaxAttempts
    BY DEF IInv, TypeOK, Row
  <2> QED
    BY <1>1, <1>3, <2>1 DEF IInv, TypeOK, Steps
<1>5. Busy' /\ Waiting'
  BY <1>1, <1>2, <1>3 DEF Busy, Waiting
<1>6. RepeatsHaveCause' /\ SentWasShown' /\ ShownFirst' /\ BelowCap'
  BY <1>1 DEF IInv, RepeatsHaveCause, SentWasShown, ShownFirst, BelowCap
<1>7. Owed'
  BY <1>1 DEF IInv, Owed
<1>8. Ordered'
  BY <1>1, <1>3 DEF Ordered
<1>9. Mirroring'
  <2>1. DOMAIN batch = {}
    BY <1>1 DEF IInv, Busy
  <2> QED
    BY <1>1, <2>1 DEF IInv, Mirroring, UiSeesMessage
<1> QED
  BY <1>4, <1>5, <1>6, <1>7, <1>8, <1>9 DEF IInv

\* Preparing a row only marks it as tried.
LEMMA PrepareKeeps ==
    ASSUME IInv, NEW answer \in Obstacles, Prepare(answer)
    PROVE  IInv'
<1>1. /\ pc = "prepare" /\ pc' \in {"send", "fail", "bump"}
      /\ batch' = batch /\ cur' = cur /\ tried' = tried \union {cur}
      /\ UNCHANGED <<row, chat, mirrored, ready, excuses, excused, faults>>
  BY StaysAtRow DEF Prepare, Obstacles
<1>2. cur \in Rows /\ DOMAIN batch # {}
  BY <1>1, CurIsFirst DEF IInv, Busy
<1>3. TypeOK'
  BY <1>1, <1>2 DEF IInv, TypeOK, Steps
<1>4. Busy' /\ Waiting' /\ RepeatsHaveCause' /\ SentWasShown' /\ ShownFirst' /\ BelowCap'
  BY <1>1, <1>2 DEF IInv, Busy, Waiting, RepeatsHaveCause, SentWasShown, ShownFirst, BelowCap
<1>5. Owed' /\ Mirroring'
  BY <1>1 DEF IInv, Owed, Mirroring, UiSeesMessage
<1>6. Ordered'
  BY <1>1 DEF IInv, Ordered
<1> QED
  BY <1>3, <1>4, <1>5, <1>6 DEF IInv

\* A send shows a copy: one the stamp answers for, or one a lost answer
\* explains.
LEMMA SendKeeps ==
    ASSUME IInv, SendAcked \/ \E reached \in BOOLEAN : SendFailed(reached)
    PROVE  IInv'
<1> DEFINE c == cur
<1>1. /\ pc = "send" /\ batch' = batch /\ cur' = cur /\ pc' \in {"stamp", "bump"}
      /\ UNCHANGED <<chat, mirrored, ready, tried, excused, faults>>
  BY StaysAtRow DEF SendAcked, SendFailed, history, WriteAfterError
<1>2. c \in Rows /\ c \in DOMAIN batch /\ DOMAIN batch # {}
  BY <1>1, CurIsFirst DEF IInv, Busy
<1>3. row[c].status = "pending"
  BY <1>1, <1>2 DEF IInv, Waiting
<1>4. /\ row \in [Rows -> Row] /\ excuses \in [Rows -> Nat] /\ row[c].shown \in Nat
      /\ excuses[c] \in Nat
  BY <1>2 DEF IInv, TypeOK, Row
<1>5. row[c].shown <= excuses[c]
  BY <1>1, <1>2, <1>3 DEF IInv, Owed
<1>6. /\ row' \in [Rows -> Row] /\ excuses' \in [Rows -> Nat]
      /\ \A s \in Rows \ {c} : row'[s] = row[s] /\ excuses'[s] = excuses[s]
      /\ row'[c].status = row[c].status /\ row'[c].attempts = row[c].attempts
      /\ row'[c].shown <= 1 + excuses'[c]
      /\ pc' = "stamp" => row'[c].shown > 0
      /\ pc' # "stamp" => row'[c].shown <= excuses'[c]
  <2>1. Show(c) \in [Rows -> Row] /\ \A s \in Rows \ {c} : Show(c)[s] = row[s]
    BY <1>2, SendWrites DEF IInv
  <2>2. /\ Show(c)[c].shown = row[c].shown + 1
        /\ Show(c)[c].status = row[c].status /\ Show(c)[c].attempts = row[c].attempts
    <3>1. Show(c)[c] = [row[c] EXCEPT !.shown = row[c].shown + 1] /\ row[c] \in Row
      BY <1>2, <1>4, SendWrites DEF IInv
    <3> QED
      BY <3>1 DEF Row
  <2> HIDE DEF c
  <2>3. CASE SendAcked
    <3>1. row' = Show(c) /\ pc' = "stamp" /\ excuses' = excuses
      BY <2>3 DEF SendAcked, GoTo, history, c
    <3> QED
      BY <1>2, <1>4, <1>5, <2>1, <2>2, <3>1
  <2>4. CASE SendFailed(TRUE)
    <3>1. /\ row' = Show(c) /\ pc' = "bump"
          /\ excuses' = [excuses EXCEPT ![c] = excuses[c] + 1]
      BY <2>4 DEF SendFailed, GoTo, WriteAfterError, c
    <3>2. /\ excuses' \in [Rows -> Nat] /\ excuses'[c] = excuses[c] + 1
          /\ \A s \in Rows \ {c} : excuses'[s] = excuses[s]
      BY <1>2, <1>4, <3>1
    <3> QED
      BY <1>2, <1>4, <1>5, <2>1, <2>2, <3>1, <3>2
  <2>5. CASE SendFailed(FALSE)
    <3>1. row' = row /\ excuses' = excuses /\ pc' = "bump"
      BY <2>5 DEF SendFailed, GoTo, WriteAfterError
    <3> QED
      BY <1>2, <1>4, <1>5, <3>1
  <2> QED
    BY <2>3, <2>4, <2>5
<1>7. TypeOK'
  BY <1>1, <1>6 DEF IInv, TypeOK, Steps
<1>8. Busy' /\ Waiting' /\ ShownFirst' /\ Ordered'
  BY <1>1, <1>2, <1>3, <1>6, <1>4 DEF IInv, Busy, Waiting, ShownFirst, Ordered, TypeOK
<1>9. RepeatsHaveCause' /\ SentWasShown' /\ BelowCap'
  BY <1>2, <1>3, <1>6 DEF IInv, RepeatsHaveCause, SentWasShown, BelowCap
<1>10. Owed'
  BY <1>1, <1>6 DEF IInv, Owed
<1>11. Mirroring'
  BY <1>1, <1>2, <1>3, <1>6 DEF IInv, Mirroring, UiSeesMessage
<1> QED
  BY <1>7, <1>8, <1>9, <1>10, <1>11 DEF IInv

\* A stamp that takes effect answers for the copy, one that does not is an
\* excuse for it.
LEMMA StampKeeps ==
    ASSUME IInv, NEW o \in Outcomes, Stamp(o)
    PROVE  IInv'
<1> DEFINE c == cur
<1>1. /\ pc = "stamp" /\ batch' = batch /\ cur' = cur /\ pc' = "message"
      /\ Charge(o)
      /\ UNCHANGED <<chat, mirrored, ready, tried, excused>>
  BY StaysAtRow DEF Stamp
<1>2. c \in Rows /\ c \in DOMAIN batch /\ DOMAIN batch # {}
  BY <1>1, CurIsFirst DEF IInv, Busy
<1>3. row[c].status = "pending" /\ row[c].shown > 0 /\ row[c].shown <= 1 + excuses[c]
  BY <1>1, <1>2 DEF IInv, Waiting, ShownFirst, RepeatsHaveCause
<1>4. /\ row \in [Rows -> Row] /\ excuses \in [Rows -> Nat]
      /\ row[c].shown \in Nat /\ excuses[c] \in Nat
  BY <1>2 DEF IInv, TypeOK, Row
<1>5. /\ row' \in [Rows -> Row] /\ excuses' \in [Rows -> Nat]
      /\ \A s \in Rows \ {c} : row'[s] = row[s] /\ excuses'[s] = excuses[s]
      /\ row'[c].shown = row[c].shown /\ row'[c].attempts = row[c].attempts
      /\ \/ row'[c].status = "sent" /\ excuses'[c] = excuses[c]
         \/ row'[c].status = "pending" /\ excuses'[c] = excuses[c] + 1
  <2>1. CASE Applied(o)
    <3>1. row' = Stamped(c) /\ excuses' = excuses
      BY <2>1 DEF Stamp
    <3>2. /\ Stamped(c) \in [Rows -> Row]
          /\ \A s \in Rows \ {c} : Stamped(c)[s] = row[s]
      BY <1>2, SendWrites DEF IInv
    <3>3. Stamped(c)[c] = [row[c] EXCEPT !.status = "sent"] /\ row[c] \in Row
      BY <1>2, <1>4, SendWrites DEF IInv
    <3>4. /\ Stamped(c)[c].status = "sent" /\ Stamped(c)[c].shown = row[c].shown
          /\ Stamped(c)[c].attempts = row[c].attempts
      BY <3>3 DEF Row
    <3> QED
      BY <1>4, <3>1, <3>2, <3>4
  <2>2. CASE ~Applied(o)
    <3>1. row' = row /\ excuses' = [excuses EXCEPT ![c] = excuses[c] + 1]
      BY <2>2 DEF Stamp
    <3> QED
      BY <1>2, <1>3, <1>4, <3>1
  <2> QED
    BY <2>1, <2>2
<1>6. TypeOK'
  BY <1>1, <1>5, ChargeType DEF IInv, TypeOK, Steps
<1>7. Busy' /\ Waiting' /\ ShownFirst' /\ Ordered'
  BY <1>1, <1>2, <1>5 DEF IInv, Busy, Waiting, ShownFirst, Ordered, TypeOK
<1>8. RepeatsHaveCause'
  <2>1. row'[c].shown <= 1 + excuses'[c]
    BY <1>3, <1>4, <1>5
  <2> QED
    BY <1>5, <2>1 DEF IInv, RepeatsHaveCause
<1>9. SentWasShown' /\ BelowCap'
  BY <1>3, <1>5 DEF IInv, SentWasShown, BelowCap
<1>10. Owed'
  <2>1. row'[c].status # "sent" => row'[c].shown <= excuses'[c]
    BY <1>3, <1>4, <1>5
  <2> QED
    BY <1>1, <1>5, <2>1 DEF IInv, Owed
<1>11. Mirroring'
  BY <1>1, <1>2, <1>5 DEF IInv, Mirroring, UiSeesMessage
<1> QED
  BY <1>6, <1>7, <1>8, <1>9, <1>10, <1>11 DEF IInv

\* The message of a stamped row is written, or the row met a fault.
LEMMA MessageKeeps ==
    ASSUME IInv, NEW o \in Outcomes, MirrorMessage(o)
    PROVE  IInv'
<1> DEFINE c == cur
<1>1. /\ pc = "message" /\ Charge(o)
      /\ mirrored' = IF Applied(o) THEN Written(c) ELSE mirrored
      /\ excused' = IF o = "done" THEN excused ELSE excused \union {c}
      /\ UNCHANGED <<row, chat, ready, tried, excuses>>
  BY DEF MirrorMessage
<1>2. c \in Rows /\ c \in DOMAIN batch /\ DOMAIN batch # {}
  BY <1>1, CurIsFirst DEF IInv, Busy
<1>3. \/ NextRow
      \/ pc' = "chat" /\ batch' = batch /\ cur' = cur
  BY StaysAtRow DEF MirrorMessage
<1>4. /\ batch' \in [DOMAIN batch' -> 0..MaxAttempts]
      /\ \A r \in DOMAIN batch' : batch'[r] = batch[r]
      /\ pc' # "idle" <=> DOMAIN batch' # {}
      /\ \/ DOMAIN batch' = DOMAIN batch \ {c} /\ pc' \in {"idle", "prepare"}
         \/ DOMAIN batch' = DOMAIN batch /\ pc' = "chat" /\ cur' = cur
  <2>1. CASE NextRow
    BY <1>1, <2>1, RowDone
  <2>2. CASE pc' = "chat" /\ batch' = batch /\ cur' = cur
    BY <1>2, <2>2 DEF IInv, TypeOK
  <2> QED
    BY <1>3, <2>1, <2>2
<1>5. /\ mirrored' \subseteq Rows /\ mirrored \subseteq mirrored'
      /\ excused' \subseteq Rows /\ excused \subseteq excused'
      /\ chat => c \in mirrored' \/ c \in excused'
  BY <1>1, <1>2 DEF Outcomes, Applied, Written, IInv, TypeOK
<1>6. TypeOK'
  BY <1>1, <1>4, <1>5, ChargeType DEF IInv, TypeOK, Steps
<1>7. Busy' /\ Waiting'
  BY <1>1, <1>4 DEF IInv, Busy, Waiting
<1>8. RepeatsHaveCause' /\ SentWasShown' /\ ShownFirst' /\ BelowCap'
  BY <1>1, <1>4 DEF IInv, RepeatsHaveCause, SentWasShown, ShownFirst, BelowCap
<1>9. Owed'
  BY <1>1 DEF IInv, Owed
<1>10. Ordered'
  BY <1>1, <1>4 DEF IInv, Ordered
<1>11. Mirroring'
  BY <1>1, <1>4, <1>5 DEF IInv, Mirroring, UiSeesMessage
<1> QED
  BY <1>6, <1>7, <1>8, <1>9, <1>10, <1>11 DEF IInv

\* The chat of a row that is mirrored ends its turn.
LEMMA ChatKeeps ==
    ASSUME IInv, NEW o \in Outcomes, MirrorChat(o)
    PROVE  IInv'
<1> DEFINE c == cur
<1>1. /\ pc = "chat" /\ Charge(o) /\ NextRow /\ chat' \in BOOLEAN /\ (chat => chat')
      /\ UNCHANGED <<row, mirrored, ready, tried, excuses, excused>>
  BY DEF MirrorChat, history, IInv, TypeOK
<1>2. c \in Rows /\ c \in DOMAIN batch /\ DOMAIN batch # {}
  BY <1>1, CurIsFirst DEF IInv, Busy
<1>3. /\ DOMAIN batch' = DOMAIN batch \ {c}
      /\ \A r \in DOMAIN batch' : batch'[r] = batch[r]
      /\ batch' \in [DOMAIN batch' -> 0..MaxAttempts]
      /\ pc' \in {"idle", "prepare"}
      /\ pc' # "idle" <=> DOMAIN batch' # {}
  BY <1>1, RowDone
<1>4. TypeOK'
  BY <1>1, <1>3, ChargeType DEF IInv, TypeOK, Steps
<1>5. Busy' /\ Waiting'
  BY <1>3, <1>1 DEF IInv, Busy, Waiting
<1>6. RepeatsHaveCause' /\ SentWasShown' /\ ShownFirst' /\ BelowCap'
  BY <1>1, <1>3 DEF IInv, RepeatsHaveCause, SentWasShown, ShownFirst, BelowCap
<1>7. Owed'
  BY <1>1 DEF IInv, Owed
<1>8. Ordered'
  BY <1>1, <1>3 DEF IInv, Ordered
<1>9. Mirroring'
  BY <1>1, <1>2, <1>3 DEF IInv, Mirroring, UiSeesMessage
<1> QED
  BY <1>4, <1>5, <1>6, <1>7, <1>8, <1>9 DEF IInv

\* A restart is an excuse for a copy not stamped and a message not written.
LEMMA RestartKeeps ==
    ASSUME IInv, Restart
    PROVE  IInv'
<1> DEFINE c == cur
<1>1. /\ pc' = "idle" /\ batch' = Nothing /\ DOMAIN batch' = {}
      /\ faults < MaxFaults /\ faults' = faults + 1
      /\ excuses' = IF pc = "stamp" THEN [excuses EXCEPT ![c] = excuses[c] + 1] ELSE excuses
      /\ excused' = IF pc \in {"stamp", "message"} THEN excused \union {c} ELSE excused
      /\ UNCHANGED <<row, chat, mirrored, ready, tried>>
  BY DEF Restart, Nothing
<1>2. pc # "idle" => c \in Rows /\ c \in DOMAIN batch
  BY CurIsFirst DEF IInv, Busy
<1>3. /\ row \in [Rows -> Row] /\ excuses \in [Rows -> Nat]
      /\ \A r \in Rows : row[r].shown \in Nat /\ excuses[r] \in Nat
  BY DEF IInv, TypeOK, Row
<1>4. /\ excuses' \in [Rows -> Nat]
      /\ \A r \in Rows : excuses[r] <= excuses'[r]
      /\ pc = "stamp" => excuses'[c] = excuses[c] + 1
  BY <1>1, <1>2, <1>3
<1>5. TypeOK'
  <2>1. faults' \in 0..MaxFaults
    BY <1>1, OutboundAssumption DEF IInv, TypeOK
  <2>2. batch' \in [DOMAIN batch' -> 0..MaxAttempts]
    BY <1>1 DEF Nothing
  <2> QED
    BY <1>1, <1>2, <1>4, <2>1, <2>2 DEF IInv, TypeOK, Steps
<1>6. Busy' /\ Waiting' /\ SentWasShown' /\ ShownFirst' /\ BelowCap'
  BY <1>1 DEF IInv, Busy, Waiting, SentWasShown, ShownFirst, BelowCap
<1>7. RepeatsHaveCause' /\ Owed'
  <2>1. SUFFICES ASSUME NEW r \in Rows
                 PROVE  /\ row[r].shown <= 1 + excuses'[r]
                        /\ row[r].status # "sent" => row[r].shown <= excuses'[r]
    BY <1>1 DEF RepeatsHaveCause, Owed
  <2>2. /\ excuses'[r] \in Nat /\ excuses[r] \in Nat /\ row[r].shown \in Nat
        /\ row[r].shown <= 1 + excuses[r]
    BY <1>3, <1>4 DEF IInv, RepeatsHaveCause
  <2>3. CASE pc = "stamp" /\ r = c
    BY <1>4, <2>2, <2>3
  <2>4. CASE ~(pc = "stamp" /\ r = c)
    BY <1>4, <2>2, <2>4 DEF IInv, Owed
  <2> QED
    BY <2>3, <2>4
<1>8. Ordered'
  BY <1>1 DEF IInv, Ordered
<1>9. Mirroring'
  BY <1>1, <1>2 DEF IInv, Mirroring, UiSeesMessage, Waiting
<1> QED
  BY <1>5, <1>6, <1>7, <1>8, <1>9 DEF IInv

\* Every step of the goroutine and of its environment keeps the invariant.
LEMMA Inductive == IInv /\ [Next]_vars => IInv'
<1> SUFFICES ASSUME IInv, [Next]_vars PROVE IInv'
  OBVIOUS
<1>1. CASE UNCHANGED vars
  <2>1. cur' = cur
    BY <1>1 DEF vars, cur
  <2> QED
    BY <1>1, <2>1 DEF vars, history, IInv, TypeOK, Busy, Waiting,
       RepeatsHaveCause, Owed, SentWasShown, ShownFirst, BelowCap, Ordered,
       Mirroring, UiSeesMessage
<1> QED
  BY <1>1, EnvironmentKeeps, SelectKeeps, PrepareKeeps, SendKeeps, VerdictKeeps,
     StampKeeps, MessageKeeps, ChatKeeps, RestartKeeps DEF Next, Bridge

\* The initial state satisfies the invariant.
LEMMA Starts == Init => IInv
<1> SUFFICES ASSUME Init PROVE IInv
  OBVIOUS
<1>1. TypeOK
  BY OutboundAssumption DEF Init, TypeOK, Fresh, Row, Nothing, Steps
<1>2. DOMAIN batch = {} /\ pc = "idle"
  BY DEF Init, Nothing
<1> QED
  BY <1>1, <1>2, OutboundAssumption DEF Init, Fresh, IInv, Busy, Waiting,
     RepeatsHaveCause, Owed, SentWasShown, ShownFirst, BelowCap, Ordered,
     Mirroring, UiSeesMessage

-----------------------------------------------------------------------------
(* What holds of every behaviour.                                           *)

\* The invariant holds in every reachable state.
THEOREM Invariance == Spec => []IInv
  BY Inductive, Starts, PTL DEF Spec

\* The rows, the batch and the histories keep their types.
THEOREM TypeCorrect == Spec => []TypeOK
<1>1. IInv => TypeOK
  BY DEF IInv
<1> QED
  BY <1>1, Invariance, PTL

\* Every copy a customer sees beyond the first has a lost answer, a lost stamp
\* or a restart of its own.
THEOREM NoCauseNoRepeat == Spec => []RepeatsHaveCause
<1>1. IInv => RepeatsHaveCause
  BY DEF IInv
<1> QED
  BY <1>1, Invariance, PTL

\* The path stamps 'sent' only what a customer was shown.
THEOREM SentIsTrue == Spec => []SentWasShown
<1>1. IInv => SentWasShown
  BY DEF IInv
<1> QED
  BY <1>1, Invariance, PTL

\* A row that is pending is one the SELECT may still return.
THEOREM NoneStranded == Spec => []NoStrandedRow
<1>1. IInv => NoStrandedRow
  BY DEF IInv, BelowCap, NoStrandedRow
<1> QED
  BY <1>1, Invariance, PTL

\* With a chat row under the canonical JID, the web app sees every sent row
\* that met no fault.
THEOREM SentIsMirrored ==
    ASSUME ChatKnown
    PROVE  Spec => []UiSeesMessage
<1>1. IInv => UiSeesMessage
  BY ChatKnown DEF IInv, Mirroring
<1> QED
  BY <1>1, Invariance, PTL

\* Nothing but the send of its turn shows a copy of a row.
LEMMA OnlySendShows ==
    ASSUME IInv, [Next]_vars, NEW r \in Rows, ~(pc = "send" /\ r = cur)
    PROVE  row'[r].shown = row[r].shown
<1>1. row \in [Rows -> Row] /\ row[r] \in Row
  BY DEF IInv, TypeOK
<1>2. CASE Environment
  BY <1>1, <1>2 DEF Environment, Queue, BackoffElapses, Row
<1>3. CASE SendAcked \/ \E reached \in BOOLEAN : SendFailed(reached)
  <2>1. pc = "send" /\ row' \in {row, Show(cur)}
    BY <1>3 DEF SendAcked, SendFailed
  <2> QED
    BY <1>1, <2>1 DEF Show
<1>4. ASSUME NEW o \in Outcomes, Bump(o) \/ Fail(o) \/ Stamp(o)
      PROVE  row'[r].shown = row[r].shown
  <2>1. PICK n : row' \in {row, Failed(cur, n), Attempted(cur, n), Stamped(cur)}
    BY <1>4 DEF Bump, Fail, Stamp
  <2> QED
    BY <1>1, <2>1 DEF Failed, Attempted, Stamped, Row
<1>5. CASE row' = row
  BY <1>5
<1> QED
  BY <1>2, <1>3, <1>4, <1>5 DEF Next, Bridge, Select, Prepare, MirrorMessage,
     MirrorChat, Restart, vars

\* A send passes over no earlier row of the same SELECT that was not tried.
LEMMA SendsInOrder ==
    ASSUME IInv, [Next]_vars, NEW r \in Rows, NEW s \in Rows,
           row[r].shown = 0, row'[r].shown > 0, s < r, {r, s} \subseteq ready
    PROVE  s \in tried
<1>1. CASE pc = "send" /\ r = cur
  <2>1. DOMAIN batch # {}
    BY <1>1 DEF IInv, Busy
  <2>2. cur \in DOMAIN batch /\ \A q \in DOMAIN batch : ~Before(q, cur)
    BY <2>1, CurIsFirst DEF IInv
  <2>3. s \notin DOMAIN batch
    BY <1>1, <2>2 DEF Before
  <2> QED
    BY <1>1, <2>2, <2>3 DEF IInv, Ordered
<1>2. CASE ~(pc = "send" /\ r = cur)
  BY <1>2, OnlySendShows
<1> QED
  BY <1>1, <1>2

\* Rows go out in the order they were queued.
THEOREM OrderKept == Spec => InOrder
<1>1. IInv /\ [Next]_vars
      => [\A r, s \in Rows :
            /\ row[r].shown = 0 /\ row'[r].shown > 0
            /\ s < r /\ {r, s} \subseteq ready
            => s \in tried]_vars
  BY SendsInOrder
<1> QED
  BY <1>1, Invariance, PTL DEF Spec, InOrder
=============================================================================
