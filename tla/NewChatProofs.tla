--------------------------- MODULE NewChatProofs ---------------------------
(***************************************************************************)
(* The safety of the new-chat path, for any rows, IDs, caps and bounds.    *)
(*                                                                         *)
(* The argument: a row carries at most one ID (IdOnRow), the step that     *)
(* sends uses the one on the row (InHand), the memory of a send holds that *)
(* ID too (Remembered), and a row in the middle of an attempt is neither   *)
(* sent nor acknowledged (MidAttempt).                                     *)
(***************************************************************************)
EXTENDS NewChat, FiniteSetTheorems, TLAPS

\* A step that has a row has one that was selected.
Busy == pc # "idle" => /\ cur.id \in Rows
                       /\ cur.attempts < MaxAttempts
                       /\ row[cur.id].status # "none"

\* The customer has seen nothing but the ID on the row.
IdOnRow == \A r \in Rows : delivered[r] \subseteq {row[r].waID}

\* The ID in the snapshot of an attempt is the one on the row.
InHand == /\ pc \in {"lookup", "send"} /\ cur.waID # NoID
                => row[cur.id].waID = cur.waID
          /\ pc = "send" => cur.waID # NoID

\* A send the process remembers was shown under the ID on the row.
Remembered == /\ \A r \in Rows : sent[r] # NoID => /\ row[r].waID = sent[r]
                                                   /\ delivered[r] = {sent[r]}
              /\ pc = "stamp" => sent[cur.id] # NoID

\* A row between SELECT and verdict is neither sent nor acknowledged.
MidAttempt == pc \in {"lookup", "claim", "send", "bump", "fail"}
                  => /\ row[cur.id].status \in {"resolve", "failed"}
                     /\ cur.id \notin acked

\* The mirror is written for a sent row, the chat first.
Mirroring == /\ pc \in {"chat", "message", "link"} => row[cur.id].status = "sent"
             /\ pc \in {"message", "link"} => "chat" \in row[cur.id].mirrored
             /\ \A r \in Rows : row[r].mirrored # {} => /\ row[r].status = "sent"
                                                        /\ "chat" \in row[r].mirrored

\* An acknowledged row is still remembered, or stamped.
AckedKept == \A r \in acked : sent[r] # NoID \/ row[r].status = "sent"

\* A row that may still be selected is below the cap.
BelowCap == \A r \in Rows : row[r].status \in {"none", "resolve"}
                                => row[r].attempts < MaxAttempts

\* The process remembers its own recent lookup.
Pacing == recent = "here" => paced

\* An attempt does not outlast the hour before the row counts as undelivered.
InTime == StallPoints = {} /\ pc \in {"lookup", "claim", "send"}
              => row[cur.id].age < 2

IInv == /\ TypeOK
        /\ Busy
        /\ IdOnRow
        /\ InHand
        /\ Remembered
        /\ SentWasShown
        /\ MidAttempt
        /\ Mirroring
        /\ AckedKept
        /\ BelowCap
        /\ Pacing
        /\ InTime

-----------------------------------------------------------------------------
\* Every step of the bridge and of its environment keeps the invariant.
LEMMA Inductive == IInv /\ [Next]_vars => IInv'
<1> SUFFICES ASSUME IInv, [Next]_vars PROVE IInv'
  OBVIOUS
<1> USE RowsAssumption, IdsAssumption, AttemptsAssumption, BoundsAssumption
<1> USE DEF IInv, history, bounds
<1>1. ASSUME NEW r \in Rows, Queue(r) PROVE IInv'
  <2> USE <1>1 DEF Queue, Row, IDs
  <2>1. TypeOK'
    BY DEF TypeOK, Busy
  <2>2. (IdOnRow /\ InHand /\ Remembered /\ SentWasShown)'
    BY DEF TypeOK, Busy, IdOnRow, InHand, Remembered, SentWasShown
  <2>3. (Busy /\ MidAttempt /\ Mirroring /\ AckedKept /\ BelowCap /\ Pacing /\ InTime)'
    BY DEF TypeOK, Busy, MidAttempt, Mirroring, AckedKept, BelowCap, Pacing,
        InTime
  <2> QED
    BY <2>1, <2>2, <2>3
<1>2. ASSUME NEW r \in Rows, FailByHand(r) PROVE IInv'
  <2> USE <1>2 DEF FailByHand, Row, IDs
  <2>1. row[r] \in Row
    BY DEF TypeOK
  <2>2. [row[r] EXCEPT !.status = "failed"] \in Row
    BY <2>1
  <2>3. TypeOK'
    BY <2>2 DEF TypeOK
  <2>4. (IdOnRow /\ InHand /\ Remembered /\ SentWasShown)'
    BY DEF TypeOK, Busy, IdOnRow, InHand, Remembered, SentWasShown
  <2>5. (Busy /\ MidAttempt /\ Mirroring /\ AckedKept /\ BelowCap /\ Pacing /\ InTime)'
    BY DEF TypeOK, Busy, MidAttempt, Mirroring, AckedKept, BelowCap, Pacing,
        InTime
  <2> QED
    BY <2>3, <2>4, <2>5
<1>3. ASSUME NEW r \in Rows, Age(r) PROVE IInv'
  <2> USE <1>3 DEF Age, Row, IDs, Pinned
  <2>1. row[r] \in Row
    BY DEF TypeOK
  <2>2. [row[r] EXCEPT !.age = @ + 1] \in Row
    BY <2>1
  <2>3. TypeOK'
    BY <2>2 DEF TypeOK
  <2>4. (IdOnRow /\ InHand /\ Remembered /\ SentWasShown)'
    BY DEF TypeOK, Busy, IdOnRow, InHand, Remembered, SentWasShown
  <2>5. (Busy /\ MidAttempt /\ Mirroring /\ AckedKept /\ BelowCap /\ Pacing /\ InTime)'
    BY DEF TypeOK, Busy, MidAttempt, Mirroring, AckedKept, BelowCap, Pacing,
        InTime
  <2> QED
    BY <2>3, <2>4, <2>5
<1>4. ASSUME NEW r \in Rows, BackoffElapses(r) PROVE IInv'
  <2> USE <1>4 DEF BackoffElapses, Row, IDs
  <2>1. row[r] \in Row
    BY DEF TypeOK
  <2>2. [row[r] EXCEPT !.due = TRUE] \in Row
    BY <2>1
  <2>3. TypeOK'
    BY <2>2 DEF TypeOK
  <2>4. (IdOnRow /\ InHand /\ Remembered /\ SentWasShown)'
    BY DEF TypeOK, Busy, IdOnRow, InHand, Remembered, SentWasShown
  <2>5. (Busy /\ MidAttempt /\ Mirroring /\ AckedKept /\ BelowCap /\ Pacing /\ InTime)'
    BY DEF TypeOK, Busy, MidAttempt, Mirroring, AckedKept, BelowCap, Pacing,
        InTime
  <2> QED
    BY <2>3, <2>4, <2>5
<1>5. ASSUME GapElapses PROVE IInv'
  <2> USE <1>5 DEF GapElapses
  <2>1. TypeOK'
    BY DEF TypeOK, Busy
  <2>2. (IdOnRow /\ InHand /\ Remembered /\ SentWasShown)'
    BY DEF TypeOK, Busy, IdOnRow, InHand, Remembered, SentWasShown
  <2>3. (Busy /\ MidAttempt /\ Mirroring /\ AckedKept /\ BelowCap /\ Pacing /\ InTime)'
    BY DEF TypeOK, Busy, MidAttempt, Mirroring, AckedKept, BelowCap, Pacing,
        InTime
  <2> QED
    BY <2>1, <2>2, <2>3
<1>6. ASSUME NEW r \in Rows, Select(r) PROVE IInv'
  <2> USE <1>6 DEF Select, Ready, Route, Paces, Row, IDs, Steps
  <2>1. TypeOK'
    BY DEF TypeOK, Busy
  <2>2. (IdOnRow /\ InHand /\ Remembered /\ SentWasShown)'
    BY DEF TypeOK, Busy, IdOnRow, InHand, Remembered, SentWasShown
  <2>3. (Busy /\ MidAttempt /\ Mirroring /\ AckedKept /\ BelowCap /\ Pacing /\ InTime)'
    BY DEF TypeOK, Busy, MidAttempt, Mirroring, AckedKept, BelowCap, Pacing,
        InTime
  <2> QED
    BY <2>1, <2>2, <2>3
<1>7. ASSUME NEW answer \in {"error", "refused", "hit"}, Lookup(answer) PROVE IInv'
  <2> USE <1>7 DEF Lookup, GoTo, Steps
  <2>1. TypeOK'
    BY DEF TypeOK, Busy
  <2>2. (IdOnRow /\ InHand /\ Remembered /\ SentWasShown)'
    BY DEF TypeOK, Busy, IdOnRow, InHand, Remembered, SentWasShown
  <2>3. (Busy /\ MidAttempt /\ Mirroring /\ AckedKept /\ BelowCap /\ Pacing /\ InTime)'
    BY DEF TypeOK, Busy, MidAttempt, Mirroring, AckedKept, BelowCap, Pacing,
        InTime
  <2> QED
    BY <2>1, <2>2, <2>3
<1>8. ASSUME NEW id \in Ids, NEW o \in Outcomes, Claim(id, o) PROVE IInv'
  <2> USE <1>8 DEF Claim, Claimed, Claimable, Used, Charge, BackToTicker,
      Nothing, Steps, Row, IDs, Outcomes, Applied
  <2>1. TypeOK'
    BY DEF TypeOK, Busy
  <2>2. (IdOnRow /\ InHand /\ Remembered /\ SentWasShown)'
    BY DEF TypeOK, Busy, IdOnRow, InHand, Remembered, SentWasShown
  <2>3. (Busy /\ MidAttempt /\ Mirroring /\ AckedKept /\ BelowCap /\ Pacing /\ InTime)'
    BY DEF TypeOK, Busy, MidAttempt, Mirroring, AckedKept, BelowCap, Pacing,
        InTime
  <2> QED
    BY <2>1, <2>2, <2>3
<1>9. ASSUME SendAcked PROVE IInv'
  <2> USE <1>9 DEF SendAcked, Show, FirstWrite, GoTo, Steps, IDs
  <2>1. TypeOK'
    BY DEF TypeOK, Busy, InHand
  <2>2. (IdOnRow /\ InHand /\ Remembered /\ SentWasShown)'
    BY DEF TypeOK, Busy, IdOnRow, InHand, Remembered, SentWasShown
  <2>3. AckedKept'
    BY DEF TypeOK, Busy, InHand, AckedKept
  <2>4. (Busy /\ MidAttempt /\ Mirroring /\ BelowCap /\ Pacing /\ InTime)'
    BY DEF TypeOK, Busy, IdOnRow, InHand, Remembered, SentWasShown,
        MidAttempt, Mirroring, AckedKept, BelowCap, Pacing, InTime
  <2> QED
    BY <2>1, <2>2, <2>3, <2>4
<1>10. ASSUME NEW reached \in BOOLEAN, SendFailed(reached) PROVE IInv'
  <2> USE <1>10 DEF SendFailed, Show, WriteAfterError, GoTo, Steps, IDs
  <2>1. TypeOK'
    BY DEF TypeOK, Busy, InHand
  <2>2. (IdOnRow /\ InHand /\ Remembered /\ SentWasShown)'
    BY DEF TypeOK, Busy, IdOnRow, InHand, Remembered, SentWasShown
  <2>3. (Busy /\ MidAttempt /\ Mirroring /\ AckedKept /\ BelowCap /\ Pacing /\ InTime)'
    BY DEF TypeOK, Busy, MidAttempt, Mirroring, AckedKept, BelowCap, Pacing,
        InTime
  <2> QED
    BY <2>1, <2>2, <2>3
<1>11. ASSUME NEW o \in Outcomes, Bump(o) PROVE IInv'
  <2> USE <1>11 DEF Bump, Charge, Applied, CapReached, Failed, BackToTicker,
      Nothing, Steps, Row, IDs
  <2>1. row' \in [Rows -> Row]
    BY DEF TypeOK, Busy
  <2>2. TypeOK'
    BY <2>1 DEF TypeOK, Busy
  <2>3. (IdOnRow /\ InHand /\ Remembered /\ SentWasShown)'
    BY DEF TypeOK, Busy, IdOnRow, InHand, Remembered, SentWasShown
  <2>4. (Busy /\ MidAttempt /\ Mirroring /\ AckedKept /\ BelowCap /\ Pacing /\ InTime)'
    BY DEF TypeOK, Busy, MidAttempt, Mirroring, AckedKept, BelowCap, Pacing,
        InTime
  <2> QED
    BY <2>2, <2>3, <2>4
<1>12. ASSUME NEW o \in Outcomes, Fail(o) PROVE IInv'
  <2> USE <1>12 DEF Fail, Charge, Applied, Failed, BackToTicker, Nothing,
      Steps, Row, IDs
  <2>1. TypeOK'
    BY DEF TypeOK, Busy
  <2>2. (IdOnRow /\ InHand /\ Remembered /\ SentWasShown)'
    BY DEF TypeOK, Busy, IdOnRow, InHand, Remembered, SentWasShown
  <2>3. (Busy /\ MidAttempt /\ Mirroring /\ AckedKept /\ BelowCap /\ Pacing /\ InTime)'
    BY DEF TypeOK, Busy, MidAttempt, Mirroring, AckedKept, BelowCap, Pacing,
        InTime
  <2> QED
    BY <2>1, <2>2, <2>3
<1>13. ASSUME NEW o \in Outcomes, Stamp(o) PROVE IInv'
  <2> USE <1>13 DEF Stamp, Charge, Applied, GoTo, BackToTicker, Nothing,
      Steps, Row, IDs
  <2>1. row' \in [Rows -> Row]
    BY DEF TypeOK, Busy, Remembered
  <2>2. sent' \in [Rows -> IDs] /\ cur' \in [id : Rows \union {0}, attempts : 0..MaxAttempts, waID : IDs]
    BY DEF TypeOK
  <2>3. TypeOK'
    <3>1. pc' \in Steps /\ faults' \in 0..MaxFaults /\ restarts' \in 0..MaxRestarts
      BY DEF TypeOK
    <3>2. TypeOK /\ UNCHANGED <<delivered, paced, acked, recent, byHand>>
      BY DEF history
    <3> HIDE <1>13 DEF Stamp, IInv, Row, Steps, IDs
    <3> QED
      BY <2>1, <2>2, <3>1, <3>2 DEF TypeOK
  <2>4. (IdOnRow /\ InHand /\ Remembered /\ SentWasShown)'
    BY DEF TypeOK, Busy, IdOnRow, InHand, Remembered, SentWasShown
  <2>5. (Busy /\ MidAttempt /\ Mirroring /\ AckedKept /\ BelowCap /\ Pacing /\ InTime)'
    BY DEF TypeOK, Busy, MidAttempt, Mirroring, AckedKept, BelowCap, Pacing,
        InTime
  <2> QED
    BY <2>3, <2>4, <2>5
<1>14. ASSUME NEW w \in Writes, NEW o \in Outcomes, Mirror(w, o) PROVE IInv'
  <2> USE <1>14 DEF Mirror, Writes, Charge, Applied, GoTo, BackToTicker,
      Nothing, Steps, Row, IDs
  <2>1. row[cur.id] \in Row
    BY DEF TypeOK, Busy
  <2>2. [row[cur.id] EXCEPT !.mirrored = @ \union {w.step}] \in Row
    BY <2>1
  <2>3. TypeOK'
    BY <2>2 DEF TypeOK, Busy
  <2>4. (IdOnRow /\ InHand /\ Remembered /\ SentWasShown)'
    BY DEF TypeOK, Busy, IdOnRow, InHand, Remembered, SentWasShown
  <2>5. (Busy /\ MidAttempt /\ Mirroring /\ AckedKept /\ BelowCap /\ Pacing /\ InTime)'
    BY DEF TypeOK, Busy, MidAttempt, Mirroring, AckedKept, BelowCap, Pacing,
        InTime
  <2> QED
    BY <2>3, <2>4, <2>5
<1>15. ASSUME Restart PROVE IInv'
  <2> USE <1>15 DEF Restart, BackToTicker, Nothing, Steps, IDs
  <2>1. cur' \in [id : Rows \union {0}, attempts : 0..MaxAttempts, waID : IDs]
    OBVIOUS
  <2>2. sent' \in [Rows -> IDs] /\ restarts' \in 0..MaxRestarts
    BY DEF TypeOK
  <2>3. TypeOK'
    BY <2>1, <2>2 DEF TypeOK
  <2>4. (IdOnRow /\ InHand /\ Remembered /\ SentWasShown)'
    BY DEF TypeOK, Busy, IdOnRow, InHand, Remembered, SentWasShown
  <2>5. (Busy /\ MidAttempt /\ Mirroring /\ AckedKept /\ BelowCap /\ Pacing /\ InTime)'
    BY DEF TypeOK, Busy, MidAttempt, Mirroring, AckedKept, BelowCap, Pacing,
        InTime
  <2> QED
    BY <2>3, <2>4, <2>5
<1>16. CASE UNCHANGED vars
  BY <1>16 DEF vars, TypeOK, Busy, IdOnRow, InHand, Remembered, SentWasShown,
      MidAttempt, Mirroring, AckedKept, BelowCap, Pacing, InTime
<1> QED
  BY <1>1, <1>2, <1>3, <1>4, <1>5, <1>6, <1>7, <1>8, <1>9, <1>10, <1>11,
      <1>12, <1>13, <1>14, <1>15, <1>16 DEF Next, Environment, Bridge

\* The initial states satisfy the invariant.
LEMMA Starts == Init => IInv
<1> SUFFICES ASSUME Init PROVE IInv
  OBVIOUS
<1> USE RowsAssumption, IdsAssumption, AttemptsAssumption, BoundsAssumption
<1>1. PICK input \in [Rows -> {"ok", "invalid"}] :
          row = [r \in Rows |-> Fresh(input[r])]
  BY DEF Init
<1>2. \A r \in Rows : /\ row[r] \in Row
                      /\ row[r] = Fresh(input[r])
  BY <1>1 DEF Fresh, Row, IDs
<1>3. row \in [Rows -> Row]
  BY <1>1, <1>2
<1>4. cur \in [id : Rows \union {0}, attempts : 0..MaxAttempts, waID : IDs]
  BY DEF Init, Nothing, IDs
<1>5. delivered \in [Rows -> SUBSET Ids] /\ sent \in [Rows -> IDs]
  BY DEF Init, IDs
<1>6. faults \in 0..MaxFaults /\ restarts \in 0..MaxRestarts
  BY DEF Init
<1>7. /\ pc \in Steps /\ paced \in BOOLEAN /\ recent \in {"none", "here", "before"}
      /\ acked \subseteq Rows /\ byHand \subseteq Rows
  BY DEF Init, Steps
<1>8. TypeOK
  BY <1>3, <1>4, <1>5, <1>6, <1>7 DEF TypeOK
<1> QED
  BY <1>2, <1>8 DEF Init, Fresh, IInv, Busy, IdOnRow, InHand, Remembered,
      SentWasShown, MidAttempt, Mirroring, AckedKept, BelowCap, Pacing, InTime

\* The invariant holds in every reachable state.
THEOREM Invariance == Spec => []IInv
  BY Starts, Inductive, PTL DEF Spec

\* The state of the new-chat path always has its type.
THEOREM TypeCorrect == Spec => []TypeOK
<1>1. IInv => TypeOK
  BY DEF IInv
<1> QED
  BY <1>1, Invariance, PTL

\* A customer never sees two messages of one row.
THEOREM NeverTwice == Spec => []AtMostOnce
<1>1. ASSUME IInv, NEW r \in Rows PROVE Cardinality(delivered[r]) <= 1
  <2>1. CASE delivered[r] = {}
    BY <2>1, FS_EmptySet
  <2>2. CASE delivered[r] = {row[r].waID}
    <3>1. Cardinality(delivered[r]) = 1
      BY <2>2, FS_Singleton
    <3> QED
      BY <3>1
  <2> QED
    BY <1>1, <2>1, <2>2 DEF IInv, IdOnRow
<1>2. IInv => AtMostOnce
  BY <1>1 DEF AtMostOnce
<1> QED
  BY <1>2, Invariance, PTL

\* A row stamped 'sent' was shown to the customer under the ID on the row.
THEOREM SentIsTrue == Spec => []SentWasShown
<1>1. IInv => SentWasShown
  BY DEF IInv
<1> QED
  BY <1>1, Invariance, PTL

\* Chat, message and chat_jid are written for stamped rows, the chat first.
THEOREM MirrorIsLast == Spec => []MirrorFollowsStamp
<1>1. IInv => MirrorFollowsStamp
  BY DEF IInv, Mirroring, MirrorFollowsStamp, SentWasShown
<1> QED
  BY <1>1, Invariance, PTL

\* No waiting row is ever past the SELECT.
THEOREM NoneStranded == Spec => []NoStrandedRow
<1>1. IInv => NoStrandedRow
  BY DEF IInv, BelowCap, NoStrandedRow
<1> QED
  BY <1>1, Invariance, PTL

-----------------------------------------------------------------------------
\* Lookups begin in Select, and only there.
LEMMA OnlySelectLooksUp ==
    ASSUME [Next]_vars, pc # "lookup", pc' = "lookup"
    PROVE  \E r \in Rows : Select(r)
<1>1. CASE Environment \/ UNCHANGED vars
  BY <1>1 DEF Environment, Queue, FailByHand, Age, BackoffElapses, GapElapses, vars
<1>2. CASE Restart
  BY <1>2 DEF Restart, BackToTicker
<1>3. CASE Bridge
  <2>1. ASSUME NEW answer \in {"error", "refused", "hit"}, Lookup(answer) PROVE FALSE
    BY <2>1 DEF Lookup
  <2>2. ASSUME NEW id \in Ids, NEW o \in Outcomes, Claim(id, o) PROVE FALSE
    BY <2>2 DEF Claim, BackToTicker
  <2>3. ~SendAcked
    BY DEF SendAcked, GoTo, FirstWrite
  <2>4. ASSUME NEW reached \in BOOLEAN, SendFailed(reached) PROVE FALSE
    BY <2>4 DEF SendFailed, GoTo, WriteAfterError
  <2>5. ASSUME NEW o \in Outcomes, Bump(o) \/ Fail(o) \/ Stamp(o) PROVE FALSE
    BY <2>5 DEF Bump, Fail, Stamp, GoTo, BackToTicker
  <2>6. ASSUME NEW w \in Writes, NEW o \in Outcomes, Mirror(w, o) PROVE FALSE
    BY <2>6 DEF Mirror, Writes, GoTo, BackToTicker
  <2> QED
    BY <1>3, <2>1, <2>2, <2>3, <2>4, <2>5, <2>6 DEF Bridge
<1> QED
  BY <1>1, <1>2, <1>3 DEF Next

\* Lookups of one process are newChatMinGap apart.
THEOREM LookupsPaced == Spec => PacedInProcess
<1>1. ASSUME IInv, [Next]_vars, pc # "lookup", pc' = "lookup"
      PROVE  recent # "here"
  BY <1>1, OnlySelectLooksUp DEF IInv, Pacing, Select
<1>2. IInv /\ [Next]_vars => [pc # "lookup" /\ pc' = "lookup" => recent # "here"]_vars
  BY <1>1
<1> QED
  BY <1>2, Invariance, PTL DEF Spec, PacedInProcess

\* A step does not begin to send, nor fail, a row this process saw sent.
LEMMA AckedStep ==
    ASSUME IInv, [Next]_vars, NEW r \in acked \intersect acked'
    PROVE  /\ ~(pc # "send" /\ pc' = "send" /\ cur'.id = r)
           /\ row'[r].status = "failed" /\ row[r].status # "failed" => r \in byHand'
<1> DEFINE Finished == /\ ~(pc # "send" /\ pc' = "send" /\ cur'.id = r)
                       /\ row'[r].status = "failed" /\ row[r].status # "failed"
                            => r \in byHand'
<1> USE DEF IInv, history, bounds
<1>0. r \in Rows /\ r \in acked
  BY DEF TypeOK
<1>1. ASSUME NEW q \in Rows, Queue(q) \/ FailByHand(q) \/ Age(q) \/ BackoffElapses(q)
      PROVE  Finished
  <2>1. CASE Queue(q)
    BY <1>0, <2>1 DEF Queue, TypeOK
  <2>2. CASE FailByHand(q)
    BY <1>0, <2>2 DEF FailByHand, TypeOK
  <2>3. CASE Age(q) \/ BackoffElapses(q)
    <3>1. pc' = pc
      BY <2>3 DEF Age, BackoffElapses
    <3>2. row'[r].status = row[r].status
      <4>1. CASE q = r
        BY <1>0, <2>3, <4>1 DEF Age, BackoffElapses, TypeOK, Row
      <4>2. CASE q # r
        BY <1>0, <2>3, <4>2 DEF Age, BackoffElapses, TypeOK
      <4> QED
        BY <4>1, <4>2
    <3> QED
      BY <3>1, <3>2
  <2> QED
    BY <1>1, <2>1, <2>2, <2>3
<1>2. CASE GapElapses \/ UNCHANGED vars
  BY <1>2 DEF GapElapses, vars
<1>3. ASSUME NEW q \in Rows, Select(q) PROVE Finished
  BY <1>3 DEF Select, Route
<1>4. ASSUME NEW answer \in {"error", "refused", "hit"}, Lookup(answer) PROVE Finished
  BY <1>0, <1>4 DEF Lookup, GoTo, MidAttempt
<1>5. ASSUME NEW id \in Ids, NEW o \in Outcomes, Claim(id, o) PROVE Finished
  BY <1>0, <1>5 DEF Claim, BackToTicker, MidAttempt, TypeOK, Busy
<1>6. CASE SendAcked \/ \E reached \in BOOLEAN : SendFailed(reached)
  BY <1>6 DEF SendAcked, SendFailed, GoTo, FirstWrite, WriteAfterError
<1>7. ASSUME NEW o \in Outcomes, Bump(o) \/ Fail(o) PROVE Finished
  BY <1>0, <1>7 DEF Bump, Fail, Failed, BackToTicker, MidAttempt, TypeOK, Busy
<1>8. ASSUME NEW o \in Outcomes, Stamp(o) PROVE Finished
  BY <1>0, <1>8 DEF Stamp, GoTo, BackToTicker, TypeOK, Busy
<1>9. ASSUME NEW w \in Writes, NEW o \in Outcomes, Mirror(w, o) PROVE Finished
  BY <1>0, <1>9 DEF Mirror, Writes, GoTo, BackToTicker, TypeOK, Busy
<1>10. CASE Restart
  BY <1>10 DEF Restart
<1> QED
  BY <1>1, <1>2, <1>3, <1>4, <1>5, <1>6, <1>7, <1>8, <1>9, <1>10
     DEF Next, Environment, Bridge

\* A process that saw a send succeed neither repeats it nor fails the row.
THEOREM AckedNeverAgain == Spec => AckedIsFinished
<1>1. IInv /\ [Next]_vars =>
        [\A r \in acked \intersect acked' :
            /\ ~(pc # "send" /\ pc' = "send" /\ cur'.id = r)
            /\ row'[r].status = "failed" /\ row[r].status # "failed" => r \in byHand'
        ]_vars
  BY AckedStep
<1> QED
  BY <1>1, Invariance, PTL DEF Spec, AckedIsFinished

-----------------------------------------------------------------------------
(* The bridge implements ColdMessage.                                       *)

\* A step that writes v to row r changes that entry of each mapped variable.
LEMMA OneRow ==
    ASSUME NEW r \in Rows, NEW v, row \in [Rows -> Row], row' = [row EXCEPT ![r] = v]
    PROVE  /\ Verdict' = [Verdict EXCEPT ![r] = v.status]
           /\ Old' = [Old EXCEPT ![r] = (v.age = 2)]
           /\ Token' = [Token EXCEPT ![r] = v.waID]
  BY DEF Verdict, Old, Token

\* A field that v leaves alone stays as it is in the mapped variable.
LEMMA SameEntry ==
    ASSUME NEW r \in Rows
    PROVE  /\ Verdict = [Verdict EXCEPT ![r] = row[r].status]
           /\ Old = [Old EXCEPT ![r] = (row[r].age = 2)]
           /\ Token = [Token EXCEPT ![r] = row[r].waID]
           /\ Verdict[r] = row[r].status
           /\ Old[r] = (row[r].age = 2)
           /\ Token[r] = row[r].waID
  BY DEF Verdict, Old, Token

\* A step that changes no row and shows nothing is a stutter.
LEMMA Stutters ==
    ASSUME row' = row, delivered' = delivered
    PROVE  UNCHANGED Promise!vars
  BY DEF Promise!vars, Verdict, Old, Token

\* A write to a row that keeps status, age and ID is a stutter too.
LEMMA StuttersOnRow ==
    ASSUME row \in [Rows -> Row], delivered' = delivered, NEW r \in Rows, NEW v,
           row' = [row EXCEPT ![r] = v],
           v.status = row[r].status, v.age = row[r].age, v.waID = row[r].waID
    PROVE  UNCHANGED Promise!vars
<1>1. /\ Verdict' = [Verdict EXCEPT ![r] = v.status]
      /\ Old' = [Old EXCEPT ![r] = (v.age = 2)]
      /\ Token' = [Token EXCEPT ![r] = v.waID]
  BY OneRow
<1>2. Verdict' = Verdict /\ Old' = Old /\ Token' = Token
  BY <1>1, SameEntry
<1> QED
  BY <1>2 DEF Promise!vars

\* A failed verdict for a row that is not sent is one ColdMessage allows.
LEMMA FailsOnly ==
    ASSUME row \in [Rows -> Row], delivered' = delivered, NEW r \in Rows, NEW v,
           row' = [row EXCEPT ![r] = v], row[r].status \in {"resolve", "failed"},
           v.status = "failed", v.age = row[r].age, v.waID = row[r].waID
    PROVE  [Promise!Next]_(Promise!vars)
<1>1. CASE row[r].status = "failed"
  BY <1>1, StuttersOnRow
<1>2. CASE row[r].status = "resolve"
  <2>1. /\ Verdict' = [Verdict EXCEPT ![r] = v.status]
        /\ Old' = [Old EXCEPT ![r] = (v.age = 2)]
        /\ Token' = [Token EXCEPT ![r] = v.waID]
    BY OneRow
  <2>2. Old' = Old /\ Token' = Token
    BY <2>1, SameEntry
  <2>3. Promise!ReportFailed(r)
    BY <1>2, <2>1, <2>2, SameEntry DEF Promise!ReportFailed
  <2> QED
    BY <2>3 DEF Promise!Next
<1> QED
  BY <1>1, <1>2

\* Every step of the bridge is a step of ColdMessage, or none of its business.
LEMMA StepKeepsPromise ==
    ASSUME IInv, [Next]_vars, StallPoints = {}
    PROVE  [Promise!Next]_(Promise!vars)
<1> DEFINE Simulated == [Promise!Next]_(Promise!vars)
<1> USE DEF IInv, history, bounds
<1>0. row \in [Rows -> Row]
  BY DEF TypeOK
<1>1. ASSUME NEW r \in Rows, Queue(r) PROVE Simulated
  <2> DEFINE v == [row[r] EXCEPT !.status = "resolve"]
  <2>1. /\ row' = [row EXCEPT ![r] = v] /\ v.status = "resolve"
        /\ v.age = row[r].age /\ v.waID = row[r].waID
    BY <1>1, <1>0 DEF Queue, Row
  <2>2. /\ Verdict' = [Verdict EXCEPT ![r] = v.status]
        /\ Old' = [Old EXCEPT ![r] = (v.age = 2)]
        /\ Token' = [Token EXCEPT ![r] = v.waID]
    <3> HIDE DEF v
    <3> QED
      BY <1>0, <2>1, OneRow
  <2>3. Old' = Old /\ Token' = Token
    BY <2>1, <2>2, SameEntry
  <2>4. Promise!Ask(r)
    BY <1>1, <2>1, <2>2, <2>3, SameEntry DEF Queue, Promise!Ask
  <2> QED
    BY <2>4 DEF Promise!Next
<1>2. ASSUME NEW r \in Rows, FailByHand(r) PROVE Simulated
  <2> DEFINE v == [row[r] EXCEPT !.status = "failed"]
  <2>1. /\ row' = [row EXCEPT ![r] = v] /\ v.status = "failed"
        /\ v.age = row[r].age /\ v.waID = row[r].waID
    BY <1>2, <1>0 DEF FailByHand, Row
  <2> QED
    BY <1>2, <1>0, <2>1, FailsOnly DEF FailByHand
<1>3. ASSUME NEW r \in Rows, Age(r) PROVE Simulated
  <2> DEFINE v == [row[r] EXCEPT !.age = @ + 1]
  <2>1. /\ row' = [row EXCEPT ![r] = v] /\ v.age = row[r].age + 1
        /\ v.status = row[r].status /\ v.waID = row[r].waID
    BY <1>3, <1>0 DEF Age, Row
  <2>2. /\ Verdict' = [Verdict EXCEPT ![r] = v.status]
        /\ Old' = [Old EXCEPT ![r] = (v.age = 2)]
        /\ Token' = [Token EXCEPT ![r] = v.waID]
    <3> HIDE DEF v
    <3> QED
      BY <1>0, <2>1, OneRow
  <2>3. Verdict' = Verdict /\ Token' = Token
    BY <2>1, <2>2, SameEntry
  <2>4. CASE row[r].age = 1
    <3>1. (v.age = 2) = TRUE
      BY <2>1, <2>4
    <3>2. Old' = [Old EXCEPT ![r] = TRUE]
      BY <2>2, <3>1
    <3>3. Promise!Outdate(r)
      BY <1>3, <2>3, <3>2, SameEntry DEF Age, Promise!Outdate
    <3> QED
      BY <3>3 DEF Promise!Next
  <2>5. CASE row[r].age = 0
    <3>1. (v.age = 2) = (row[r].age = 2)
      BY <2>1, <2>5
    <3>2. Old' = Old
      BY <2>2, <3>1, SameEntry
    <3> QED
      BY <1>3, <2>3, <3>2 DEF Age, Promise!vars
  <2> QED
    BY <1>3, <1>0, <2>4, <2>5 DEF Age, Row
<1>4. ASSUME NEW r \in Rows, BackoffElapses(r) PROVE Simulated
  <2> DEFINE v == [row[r] EXCEPT !.due = TRUE]
  <2>1. /\ row' = [row EXCEPT ![r] = v] /\ v.status = row[r].status
        /\ v.age = row[r].age /\ v.waID = row[r].waID
    BY <1>4, <1>0 DEF BackoffElapses, Row
  <2> QED
    BY <1>4, <1>0, <2>1, StuttersOnRow DEF BackoffElapses
<1>5. CASE GapElapses \/ Restart \/ UNCHANGED vars
  BY <1>5, Stutters DEF GapElapses, Restart, vars
<1>6. ASSUME NEW r \in Rows, Select(r) PROVE Simulated
  BY <1>6, Stutters DEF Select
<1>7. ASSUME NEW answer \in {"error", "refused", "hit"}, Lookup(answer) PROVE Simulated
  BY <1>7, Stutters DEF Lookup
<1>8. ASSUME NEW id \in Ids, NEW o \in Outcomes, Claim(id, o) PROVE Simulated
  <2> DEFINE r == cur.id
             v == [row[r] EXCEPT !.waID = id]
  <2>1. r \in Rows /\ delivered' = delivered
    BY <1>8 DEF Claim, Busy
  <2>2. CASE row' = row
    BY <2>1, <2>2, Stutters
  <2>3. CASE row' # row
    <3>1. /\ row' = [row EXCEPT ![r] = v] /\ v.status = row[r].status
          /\ v.age = row[r].age /\ v.waID = id /\ Claimable(r)
      BY <1>8, <1>0, <2>1, <2>3 DEF Claim, Row
    <3>2. /\ Verdict' = [Verdict EXCEPT ![r] = v.status]
          /\ Old' = [Old EXCEPT ![r] = (v.age = 2)]
          /\ Token' = [Token EXCEPT ![r] = v.waID]
      <4> HIDE DEF v, r
      <4> QED
        BY <1>0, <2>1, <3>1, OneRow
    <3>3. Verdict' = Verdict /\ Old' = Old
      BY <2>1, <3>1, <3>2, SameEntry
    <3>4. Promise!Take(r, id)
      BY <2>1, <3>1, <3>2, <3>3, SameEntry DEF Claimable, Promise!Take
    <3> QED
      BY <2>1, <3>4 DEF Promise!Next
  <2> QED
    BY <2>2, <2>3
<1>9. ASSUME pc = "send", row' = row, Show \/ delivered' = delivered PROVE Simulated
  <2> DEFINE r == cur.id
  <2>1. r \in Rows /\ row[r].waID = cur.waID /\ cur.waID # NoID /\ row[r].age # 2
    BY <1>9 DEF Busy, InHand, InTime
  <2>2. CASE delivered' = delivered
    BY <1>9, <2>2, Stutters
  <2>3. CASE Show /\ delivered' # delivered
    <3>6. delivered \in [Rows -> SUBSET Ids] /\ delivered[r] \subseteq {cur.waID}
      BY <2>1 DEF IdOnRow, TypeOK
    <3>1. delivered[r] = {}
      BY <2>1, <2>3, <3>6 DEF Show
    <3>5. delivered' = [delivered EXCEPT ![r] = {cur.waID}]
      BY <2>3, <3>1 DEF Show
    <3>2. Verdict' = Verdict /\ Old' = Old /\ Token' = Token
      BY <1>9 DEF Verdict, Old, Token
    <3>3. row[r].status \in {"resolve", "failed"}
      BY <1>9 DEF MidAttempt
    <3>4. Promise!Reach(r)
      BY <2>1, <3>1, <3>2, <3>3, <3>5, SameEntry DEF Promise!Reach
    <3> QED
      BY <2>1, <3>4 DEF Promise!Next
  <2> QED
    BY <1>9, <2>2, <2>3
<1>10. CASE SendAcked \/ \E reached \in BOOLEAN : SendFailed(reached)
  BY <1>9, <1>10 DEF SendAcked, SendFailed
<1>11. ASSUME NEW n \in Nat, pc \in {"bump", "fail"}, delivered' = delivered,
              row' = Failed(cur.id, n)
       PROVE  Simulated
  <2> DEFINE r == cur.id
             v == [row[r] EXCEPT !.status = "failed", !.attempts = n]
  <2>1. r \in Rows /\ row[r].status \in {"resolve", "failed"}
    BY <1>11 DEF Busy, MidAttempt
  <2>2. /\ row' = [row EXCEPT ![r] = v] /\ v.status = "failed"
        /\ v.age = row[r].age /\ v.waID = row[r].waID
    <3>1. row' = [row EXCEPT ![r] = v]
      BY <1>11 DEF Failed
    <3> QED
      BY <1>0, <2>1, <3>1 DEF Row
  <2> HIDE DEF v, r
  <2> QED
    BY <1>11, <1>0, <2>1, <2>2, FailsOnly
<1>12. ASSUME NEW o \in Outcomes, Fail(o) PROVE Simulated
  BY <1>11, <1>12, Stutters, AttemptsAssumption DEF Fail
<1>13. ASSUME NEW o \in Outcomes, Bump(o) PROVE Simulated
  <2> DEFINE r == cur.id
             n == cur.attempts + 1
             v == [row[r] EXCEPT !.attempts = n, !.due = FALSE]
  <2>1. r \in Rows /\ n \in Nat /\ pc = "bump" /\ delivered' = delivered
    BY <1>13 DEF Bump, Busy, TypeOK
  <2>2. CASE row' = row
    BY <2>1, <2>2, Stutters
  <2>3. CASE row' = Failed(r, n)
    BY <1>11, <2>1, <2>3
  <2>4. CASE row' = [row EXCEPT ![r].attempts = n, ![r].due = FALSE]
    <3>1. /\ row' = [row EXCEPT ![r] = v] /\ v.status = row[r].status
          /\ v.age = row[r].age /\ v.waID = row[r].waID
      <4>1. row[r] \in Row
        BY <1>0, <2>1
      <4>2. row' = [row EXCEPT ![r] = v]
        BY <2>4
      <4> QED
        BY <4>1, <4>2 DEF Row
    <3> HIDE DEF v, r
    <3> QED
      BY <1>0, <2>1, <3>1, StuttersOnRow
  <2> QED
    BY <1>13, <2>2, <2>3, <2>4 DEF Bump
<1>14. ASSUME NEW o \in Outcomes, Stamp(o) PROVE Simulated
  <2> DEFINE r == cur.id
             v == [row[r] EXCEPT !.status = "sent", !.waID = sent[r]]
  <2>1. /\ r \in Rows /\ delivered' = delivered /\ delivered[r] # {}
        /\ row[r].waID = sent[r] /\ row[r].status \in {"resolve", "sent", "failed"}
    BY <1>14, <1>0 DEF Stamp, Busy, Remembered, Row
  <2>2. CASE row' = row
    BY <2>1, <2>2, Stutters
  <2>3. CASE row' = [row EXCEPT ![r].status = "sent", ![r].waID = sent[r]]
    <3>1. /\ row' = [row EXCEPT ![r] = v] /\ v.status = "sent"
          /\ v.age = row[r].age /\ v.waID = row[r].waID
      <4>1. row[r] \in Row
        BY <1>0, <2>1
      <4>2. row' = [row EXCEPT ![r] = v]
        BY <2>3
      <4> QED
        BY <2>1, <4>1, <4>2 DEF Row
    <3>2. CASE row[r].status = "sent"
      <4> HIDE DEF v, r
      <4> QED
        BY <1>0, <2>1, <3>1, <3>2, StuttersOnRow
    <3>3. CASE row[r].status \in {"resolve", "failed"}
      <4>1. /\ Verdict' = [Verdict EXCEPT ![r] = v.status]
            /\ Old' = [Old EXCEPT ![r] = (v.age = 2)]
            /\ Token' = [Token EXCEPT ![r] = v.waID]
        <5> HIDE DEF v, r
        <5> QED
          BY <1>0, <2>1, <3>1, OneRow
      <4>2. Old' = Old /\ Token' = Token
        BY <2>1, <3>1, <4>1, SameEntry
      <4>3. Promise!ReportSent(r)
        BY <2>1, <3>1, <3>3, <4>1, <4>2, SameEntry DEF Promise!ReportSent
      <4> QED
        BY <2>1, <4>3 DEF Promise!Next
    <3> QED
      BY <2>1, <3>2, <3>3
  <2> QED
    BY <1>14, <2>2, <2>3 DEF Stamp
<1>15. ASSUME NEW w \in Writes, NEW o \in Outcomes, Mirror(w, o) PROVE Simulated
  <2> DEFINE r == cur.id
             v == [row[r] EXCEPT !.mirrored = @ \union {w.step}]
  <2>1. r \in Rows /\ delivered' = delivered
    BY <1>15 DEF Mirror, Writes, Busy
  <2>2. CASE row' = row
    BY <2>1, <2>2, Stutters
  <2>3. CASE row' # row
    <3>1. /\ row' = [row EXCEPT ![r] = v] /\ v.status = row[r].status
          /\ v.age = row[r].age /\ v.waID = row[r].waID
      BY <1>15, <1>0, <2>1, <2>3 DEF Mirror, Row
    <3> HIDE DEF v, r
    <3> QED
      BY <1>0, <2>1, <3>1, StuttersOnRow
  <2> QED
    BY <2>2, <2>3
<1> QED
  BY <1>1, <1>2, <1>3, <1>4, <1>5, <1>6, <1>7, <1>8, <1>10, <1>12, <1>13,
      <1>14, <1>15 DEF Next, Environment, Bridge

\* If every step of an attempt ends within the hour the age limit leaves, the
\* bridge keeps the promise of ColdMessage.
THEOREM Refines == StallPoints = {} => (Spec => KeepsPromise)
<1> SUFFICES ASSUME StallPoints = {} PROVE Spec => KeepsPromise
  OBVIOUS
<1>1. Init => Promise!Init
  <2> SUFFICES ASSUME Init PROVE Promise!Init
    OBVIOUS
  <2>1. PICK input \in [Rows -> {"ok", "invalid"}] :
            row = [r \in Rows |-> Fresh(input[r])]
    BY DEF Init
  <2>2. /\ Verdict = [r \in Rows |-> "none"]
        /\ Token = [r \in Rows |-> NoID]
    BY <2>1 DEF Fresh, Verdict, Token
  <2>3. Old = [r \in Rows |-> FALSE]
    <3>1. \A r \in Rows : (row[r].age = 2) = FALSE
      BY <2>1 DEF Fresh
    <3> QED
      BY <3>1 DEF Old
  <2> QED
    BY <2>2, <2>3 DEF Init, Promise!Init
<1>2. IInv /\ [Next]_vars => [Promise!Next]_(Promise!vars)
  BY StepKeepsPromise
<1> QED
  BY <1>1, <1>2, Invariance, PTL DEF Spec, KeepsPromise, Promise!Spec
=============================================================================
