--------------------------- MODULE PairingProofs ---------------------------
(***************************************************************************)
(* Pairing for every number of failures: the type invariant, no stale QR   *)
(* code on the page of a paired bridge, no attempt that waits for the      *)
(* watchdog, and the reason of a lost session kept by the QR loop.         *)
(***************************************************************************)
EXTENDS Pairing, TLAPS

\* Between two attempts no goroutine of either runs.
Quiet == main # "select" => qr = "off" /\ ~losing /\ ~fatal

\* Codes are shown exactly while there is no session and no end in sight.
CodesMeanUnpaired ==
    main = "select" =>
        /\ session => qr \notin {"fresh", "shown"}
        /\ ~session /\ qr \notin {"fresh", "shown"} => losing \/ fatal

IInv == TypeOK /\ Quiet /\ CodesMeanUnpaired /\ NoStaleQR

\* The writes of pairing.go leave a row of the page's type.
LEMMA PageType ==
    ASSUME TypeOK
    PROVE  /\ SetQRCode \in Page /\ SetPaired \in Page /\ SetEvent \in Page
           /\ SetSessionLost \in Page /\ Consumed \in Page
  BY DEF TypeOK, Page, SetQRCode, SetPaired, SetEvent, SetSessionLost,
         Consumed, Keep

\* A statement uses the bound on faults at most once.
LEMMA ChargeType ==
    ASSUME TypeOK, NEW o, Charge(o)
    PROVE  faults' \in 0..MaxFaults
  BY FaultsAssumption DEF TypeOK, Charge

\* Every step of the bridge and of its environment keeps the invariant.
LEMMA Inductive == IInv /\ [Next]_vars => IInv'
<1> SUFFICES ASSUME IInv, [Next]_vars PROVE IInv'
  OBVIOUS
<1> USE DEF IInv, TypeOK, Quiet, CodesMeanUnpaired, NoStaleQR, history,
           session_vars, attempt, Teardown
<1>1. CASE StartFails
  BY <1>1, ChargeType DEF StartFails
<1>2. CASE TakeFatal
  BY <1>2 DEF TakeFatal
<1>3. CASE Watchdog
  BY <1>3 DEF Watchdog
<1>4. CASE Retry
  BY <1>4 DEF Retry
<1>5. CASE SeeSuccess
  BY <1>5 DEF SeeSuccess
<1>6. CASE LoggedOut
  BY <1>6 DEF LoggedOut
<1>7. ASSUME NEW o \in Outcomes, Start(o) PROVE IInv'
  <2>1. faults' \in 0..MaxFaults
    BY <1>7, ChargeType DEF Start
  <2>2. page' \in Page
    BY <1>7, PageType DEF Start, MarksPaired, Write
  <2>3. session /\ page'.qr => missed'
    BY <1>7 DEF Start, Paired, MarksPaired, Write, SetPaired, Page
  <2> QED
    BY <1>7, <2>1, <2>2, <2>3 DEF Start, Paired, MarksPaired, Applied
<1>8. ASSUME NEW o \in Outcomes, ShowCode(o) PROVE IInv'
  BY <1>8, PageType, ChargeType DEF ShowCode, Write
<1>9. ASSUME NEW o \in Outcomes, WriteSuccess(o) PROVE IInv'
  <2>1. page' \in Page /\ faults' \in 0..MaxFaults
    BY <1>9, PageType, ChargeType DEF WriteSuccess, Write
  <2>2. page'.qr => missed'
    BY <1>9 DEF WriteSuccess, Write, SetPaired, Page
  <2> QED
    BY <1>9, <2>1, <2>2 DEF WriteSuccess, Applied
<1>10. ASSUME NEW o \in Outcomes, ConsumeReset(o) PROVE IInv'
  <2>1. page' \in Page /\ faults' \in 0..MaxFaults
    BY <1>10, PageType, ChargeType DEF ConsumeReset, Write
  <2>2. page'.qr = page.qr
    BY <1>10 DEF ConsumeReset, Write, Consumed, Page
  <2> QED
    BY <1>10, <2>1, <2>2 DEF ConsumeReset
<1>11. ASSUME NEW o \in Outcomes, RecordReset(o) PROVE IInv'
  <2>1. page' \in Page /\ faults' \in 0..MaxFaults
    BY <1>11, PageType, ChargeType DEF RecordReset, Write
  <2>2. page'.qr = page.qr
    BY <1>11 DEF RecordReset, Write, SetSessionLost, Page
  <2> QED
    BY <1>11, <2>1, <2>2 DEF RecordReset
<1>12. ASSUME NEW o \in Outcomes, Logout(o) PROVE IInv'
  BY <1>12, ChargeType DEF Logout
<1>13. ASSUME NEW o \in Outcomes, RecordLoss(o) PROVE IInv'
  <2>1. page' \in Page /\ faults' \in 0..MaxFaults
    BY <1>13, PageType, ChargeType DEF RecordLoss, Write
  <2>2. page'.qr = page.qr
    BY <1>13 DEF RecordLoss, Write, SetSessionLost, Page
  <2> QED
    BY <1>13, <2>1, <2>2 DEF RecordLoss, Signalled
<1>14. CASE RequestReset
  BY <1>14 DEF RequestReset, Page
<1>15. CASE RemoveDevice
  BY <1>15 DEF RemoveDevice
<1>16. CASE Drop
  BY <1>16 DEF Drop
<1>17. CASE Reconnect
  BY <1>17 DEF Reconnect
<1>18. CASE TunnelDies
  BY <1>18, ChargeType DEF TunnelDies
<1>19. CASE Scan
  BY <1>19 DEF Scan
<1>20. ASSUME NEW o \in Outcomes, QRTimeout(o) PROVE IInv'
  BY <1>20, PageType, ChargeType DEF QRTimeout, Write
<1>21. ASSUME NEW o \in Outcomes, Ban(o) PROVE IInv'
  <2>1. page' \in Page /\ faults' \in 0..MaxFaults
    BY <1>21, PageType, ChargeType DEF Ban, Write
  <2>2. page'.qr = page.qr
    BY <1>21 DEF Ban, Write, SetSessionLost, Page
  <2> QED
    BY <1>21, <2>1, <2>2 DEF Ban
<1>22. CASE UNCHANGED vars
  BY <1>22 DEF vars
<1> QED
  BY <1>1, <1>2, <1>3, <1>4, <1>5, <1>6, <1>7, <1>8, <1>9, <1>10, <1>11,
      <1>12, <1>13, <1>14, <1>15, <1>16, <1>17, <1>18, <1>19, <1>20, <1>21,
      <1>22 DEF Next, Bridge, Environment

\* The initial state satisfies the invariant.
LEMMA Starts == Init => IInv
<1> SUFFICES ASSUME Init PROVE IInv
  OBVIOUS
<1>1. page \in Page
  BY DEF Init, Page
<1>2. faults \in 0..MaxFaults
  BY FaultsAssumption DEF Init
<1>3. TypeOK
  BY <1>1, <1>2 DEF Init, TypeOK
<1> QED
  BY <1>3 DEF Init, IInv, Quiet, CodesMeanUnpaired, NoStaleQR

\* The invariant holds in every reachable state.
THEOREM Invariance == Spec => []IInv
  BY Inductive, Starts, PTL DEF Spec

\* The session, the page and the goroutines keep their types.
THEOREM TypeCorrect == Spec => []TypeOK
<1>1. IInv => TypeOK
  BY DEF IInv
<1> QED
  BY <1>1, Invariance, PTL

\* A paired bridge shows a code only until the success is written.
THEOREM PageIsFresh == Spec => []NoStaleQR
<1>1. IInv => NoStaleQR
  BY DEF IInv
<1> QED
  BY <1>1, Invariance, PTL

\* Without a session, an attempt shows codes or is about to end by itself.
THEOREM AlwaysOnTheWay == Spec => []NoDeadAttempt
<1>1. IInv => NoDeadAttempt
  BY DEF IInv, CodesMeanUnpaired, NoDeadAttempt
<1> QED
  BY <1>1, Invariance, PTL

\* No step but a pairing or a reset takes the reason of a loss off the page.
LEMMA KeepsReason ==
    ASSUME IInv, [Next]_vars, page.event = "lost", page'.event # "lost"
    PROVE  page'.status = "paired" \/ (page.reset /\ ~page'.reset)
<1> USE DEF Write, Page, IInv, TypeOK
<1>1. ASSUME NEW o \in Outcomes, Start(o)
      PROVE  page' = page \/ page'.status = "paired"
  BY <1>1 DEF Start, MarksPaired, SetPaired
<1>2. ASSUME NEW o \in Outcomes, ShowCode(o) PROVE FALSE
  BY <1>2 DEF ShowCode, SetQRCode, Keep
<1>3. ASSUME NEW o \in Outcomes, WriteSuccess(o)
      PROVE  page' = page \/ page'.status = "paired"
  BY <1>3 DEF WriteSuccess, SetPaired
<1>4. ASSUME NEW o \in Outcomes, ConsumeReset(o)
      PROVE  page.reset /\ ~page'.reset
  BY <1>4 DEF ConsumeReset, Consumed
<1>5. ASSUME NEW o \in Outcomes, RecordReset(o) \/ RecordLoss(o) \/ Ban(o)
      PROVE  FALSE
  BY <1>5 DEF RecordReset, RecordLoss, Ban, SetSessionLost
<1>6. ASSUME NEW o \in Outcomes, QRTimeout(o) PROVE FALSE
  BY <1>6 DEF QRTimeout, SetEvent, Keep
<1>7. ASSUME RequestReset PROVE FALSE
  BY <1>7 DEF RequestReset
<1>8. ASSUME \/ StartFails \/ TakeFatal \/ Watchdog \/ Retry \/ SeeSuccess
             \/ LoggedOut \/ RemoveDevice \/ Drop \/ Reconnect \/ TunnelDies
             \/ Scan \/ UNCHANGED vars \/ (\E o \in Outcomes : Logout(o))
      PROVE  FALSE
  BY <1>8 DEF StartFails, TakeFatal, Watchdog, Retry, SeeSuccess, LoggedOut,
      RemoveDevice, Drop, Reconnect, TunnelDies, Scan, vars, Logout
<1> QED
  BY <1>1, <1>2, <1>3, <1>4, <1>5, <1>6, <1>7, <1>8
     DEF Next, Bridge, Environment

\* QR codes and timeouts never take the reason of a loss off the page.
THEOREM ReasonStays == Spec => LossKept
<1>1. IInv /\ [Next]_vars
      => [page.event = "lost" /\ page'.event # "lost"
             => page'.status = "paired" \/ (page.reset /\ ~page'.reset)]_vars
  BY KeepsReason
<1> QED
  BY <1>1, Invariance, PTL DEF Spec, LossKept
=============================================================================
