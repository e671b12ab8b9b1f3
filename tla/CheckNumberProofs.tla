------------------------- MODULE CheckNumberProofs -------------------------
(***************************************************************************)
(* The request and result files of check-number, for any number of         *)
(* commands and of stops of the bridge.                                    *)
(*                                                                         *)
(* The argument: as long as a command is alone (Lone), nobody but it and   *)
(* the bridge touches the files, so each of its steps finds what the step  *)
(* before left (OnItsWay), and while it waits its request is in exactly    *)
(* one place: the request file, the bridge's hands or the result file.     *)
(***************************************************************************)
EXTENDS CheckNumber, TLAPS

\* The file of a command that made none has no name yet.
Unnamed == \A c \in Callers :
              call[c].at \in {"idle", "clear", "open"} => tmp # c /\ req # c

\* A command that writes has a file open.
HasFile == \A c \in Callers : call[c].at = "write" => call[c].open \in Callers

\* A command that met no other, nor a stopped bridge, so far.
Lone(c) == Active(c) /\ c \notin met \union unserved

\* Before the wait the bridge is idle, and the files hold what the last step
\* of the command left in them.
OnItsWay(c) ==
    /\ bridge.at = "idle" /\ req = "none"
    /\ call[c].at # "clear"  => res = "none"
    /\ call[c].at = "write"  => tmp # "none" /\ call[c].open = tmp /\ data[tmp] = "bad"
    /\ call[c].at = "rename" => tmp # "none" /\ data[tmp] = c

\* In the wait, the request is on file, with the bridge, or answered.
InOnePlace(c) ==
    \/ bridge.at = "idle" /\ req # "none" /\ data[req] = c
    \/ bridge.at = "read" /\ bridge.id = c
    \/ bridge.at \in {"lookup", "answer"} /\ bridge.id = c /\ req = "none"
    \/ bridge.at = "idle" /\ req = "none" /\ res = c

\* Nobody is in the way of a command.
Undisturbed(c) ==
    /\ Others(c) = {}
    /\ bridge.at # "stopped"
    /\ call[c].at \in {"clear", "open", "write", "rename"} => OnItsWay(c)
    /\ call[c].at = "wait" => InOnePlace(c)

\* A command alone makes progress at each of its steps.
Unhindered == \A c \in Callers : Lone(c) => Undisturbed(c)

IInv == /\ TypeOK
        /\ Unnamed
        /\ HasFile
        /\ OwnAnswer
        /\ Unhindered
        /\ LoneIsAnswered

-----------------------------------------------------------------------------
\* The steps of RequestCheckNumber, in their order.
LEMMA StepOrder ==
    /\ After("clear") = "open" /\ After("open") = "write"
    /\ After("write") = "rename" /\ After("rename") = "wait"
    /\ Steps[1] = "clear"
<1>1. /\ DOMAIN Steps = 1..5
      /\ Steps[1] = "clear" /\ Steps[2] = "open" /\ Steps[3] = "write"
      /\ Steps[4] = "rename" /\ Steps[5] = "wait"
  BY DEF Steps
<1>2. /\ (CHOOSE i \in DOMAIN Steps : Steps[i] = "clear") = 1
      /\ (CHOOSE i \in DOMAIN Steps : Steps[i] = "open") = 2
      /\ (CHOOSE i \in DOMAIN Steps : Steps[i] = "write") = 3
      /\ (CHOOSE i \in DOMAIN Steps : Steps[i] = "rename") = 4
  <2>1. \A i \in 1..5 : i = 1 \/ i = 2 \/ i = 3 \/ i = 4 \/ i = 5
    OBVIOUS
  <2> QED
    BY <1>1, <2>1
<1> QED
  BY <1>1, <1>2 DEF After

Basic == TypeOK /\ Unnamed /\ HasFile /\ OwnAnswer

\* A step that moves a command on moves that one only.
LEMMA OneCommand ==
    ASSUME TypeOK, NEW c \in Callers, NEW step,
           Goes(c, step) \/ (Proceeds(c) /\ step = After(call[c].at))
    PROVE  /\ call' = [call EXCEPT ![c].at = step]
           /\ call'[c].at = step /\ call'[c].open = call[c].open
           /\ \A d \in Callers \ {c} : call'[d] = call[d]
  BY DEF TypeOK, Goes, Proceeds

\* The steps of a command keep the files typed and their names apart.
LEMMA CommandKeepsBasic ==
    ASSUME Basic, NEW c \in Callers,
           \/ Begin(c) \/ Clear(c) \/ Open(c) \/ Write(c) \/ Rename(c)
           \/ Poll(c) \/ Take(c) \/ GiveUp(c) \/ Kill(c)
    PROVE  Basic'
<1> USE DEF Basic, TypeOK, Unnamed, HasFile, OwnAnswer, Names, files, history, At
<1>1. ASSUME NEW step, Goes(c, step) \/ (Proceeds(c) /\ step = After(call[c].at)),
             step \in {"clear", "open", "write", "rename", "wait", "take"} \union Finished
      PROVE  /\ call' \in [Callers -> [at : {"idle", "clear", "open", "write", "rename", "wait", "take"}
                                  \union Finished,
                             open : Names]]
             /\ call'[c].at = step /\ call'[c].open = call[c].open
             /\ \A d \in Callers \ {c} : call'[d] = call[d]
  BY <1>1, OneCommand
<1>2. CASE Begin(c)
  <2>1. Goes(c, "clear")
    BY <1>2, StepOrder DEF Begin
  <2>2. met' \subseteq Callers /\ unserved' \subseteq Callers
    BY <1>2 DEF Begin, Others
  <2> QED
    BY <1>1, <1>2, <2>1, <2>2 DEF Begin
<1>3. CASE Clear(c)
  BY <1>1, <1>3, StepOrder DEF Clear
<1>4. CASE Open(c)
  <2> DEFINE f == IF tmp = "none" THEN c ELSE tmp
  <2>1. /\ call' = [call EXCEPT ![c] = [at |-> "write", open |-> f]]
        /\ call[c].at = "open" /\ tmp' = f /\ data' = [data EXCEPT ![f] = "bad"]
        /\ UNCHANGED <<req, res, bridge, got, met, unserved, stops>>
    BY <1>4, StepOrder DEF Open
  <2>2. f \in Callers /\ f # req
    BY <2>1, CheckNumberAssumption
  <2>3. /\ call'[c] = [at |-> "write", open |-> f]
        /\ \A d \in Callers \ {c} : call'[d] = call[d]
    BY <2>1
  <2> HIDE DEF f
  <2>4. TypeOK'
    BY <2>1, <2>2
  <2>5. Unnamed'
    <3>1. f \in {c, tmp}
      BY DEF f
    <3> QED
      BY <2>1, <2>3, <3>1
  <2> QED
    BY <2>1, <2>2, <2>3, <2>4, <2>5
<1>5. CASE Write(c)
  <2>1. /\ Proceeds(c) /\ call[c].at = "write" /\ call[c].open \in Callers
        /\ UNCHANGED <<tmp, req, res, bridge, got, met, unserved, stops>>
    BY <1>5 DEF Write
  <2>2. data' \in [Callers -> Callers \union {"bad"}]
    <3>1. PICK id \in {c, "bad"} : data' = [data EXCEPT ![call[c].open] = id]
      BY <1>5 DEF Write
    <3> QED
      BY <2>1, <3>1
  <2> QED
    BY <1>1, <2>1, <2>2, StepOrder
<1>6. CASE Rename(c)
  <2>1. CASE tmp = "none"
    BY <1>1, <1>6, <2>1 DEF Rename, Finished
  <2>2. CASE tmp # "none"
    BY <1>1, <1>6, <2>2, StepOrder, CheckNumberAssumption DEF Rename, Left
  <2> QED
    BY <2>1, <2>2
<1>7. CASE Poll(c)
  BY <1>1, <1>7 DEF Poll, Mine
<1>8. CASE Take(c)
  BY <1>1, <1>8 DEF Take, Finished
<1>9. CASE GiveUp(c)
  BY <1>1, <1>9, CheckNumberAssumption DEF GiveUp, Finished
<1>10. CASE Kill(c)
  BY <1>1, <1>10 DEF Kill, Finished
<1> QED
  BY <1>2, <1>3, <1>4, <1>5, <1>6, <1>7, <1>8, <1>9, <1>10

\* So do the steps of the bridge.
LEMMA BridgeKeepsBasic ==
    ASSUME Basic, Tick \/ Remove \/ Lookup \/ Answer \/ Stop \/ Start
    PROVE  Basic'
<1> USE DEF Basic, TypeOK, Unnamed, HasFile, OwnAnswer, Names, files, history
<1>1. CASE Tick
  BY <1>1 DEF Tick
<1>2. CASE Remove
  BY <1>2, CheckNumberAssumption DEF Remove
<1>3. CASE Lookup
  BY <1>3 DEF Lookup
<1>4. CASE Answer
  BY <1>4 DEF Answer
<1>5. CASE Stop
  BY <1>5, CheckNumberAssumption DEF Stop
<1>6. CASE Start
  BY <1>6 DEF Start
<1> QED
  BY <1>1, <1>2, <1>3, <1>4, <1>5, <1>6

\* The steps that another command may take end a command's being alone.
LEMMA OthersEndIt ==
    ASSUME IInv, NEW c \in Callers, NEW d \in Callers \ {c}, Lone(d)',
           \/ Begin(c) \/ Clear(c) \/ Open(c) \/ Write(c) \/ Rename(c)
           \/ Poll(c) \/ Take(c) \/ GiveUp(c) \/ Kill(c)
    PROVE  FALSE
<1>1. call'[d] = call[d]
  BY DEF IInv, TypeOK, Begin, Clear, Open, Write, Rename, Poll, Take, GiveUp,
     Kill, Goes, Proceeds
<1>2. Lone(d)
  BY <1>1 DEF Lone, Active, Begin, Clear, Open, Write, Rename, Poll, Take,
     GiveUp, Kill, history
<1>3. ~Active(c)
  BY <1>2 DEF IInv, Unhindered, Undisturbed, Others
<1>4. Begin(c)
  BY <1>3 DEF Active, At, Finished, Clear, Open, Write, Rename, Poll, Take, GiveUp, Kill
<1>5. d \in Others(c)
  BY <1>2 DEF Lone, Others
<1> QED
  BY <1>4, <1>5 DEF Begin, Lone

\* A step of a command alone leaves what its next step needs.
LEMMA OwnSteps ==
    ASSUME IInv, NEW c \in Callers, Lone(c)',
           \/ Begin(c) \/ Clear(c) \/ Open(c) \/ Write(c) \/ Rename(c)
           \/ Poll(c) \/ Take(c) \/ GiveUp(c) \/ Kill(c)
    PROVE  Undisturbed(c)'
<1> USE DEF Undisturbed, OnItsWay, InOnePlace, At
<1>1. call \in [Callers -> [at : {"idle", "clear", "open", "write", "rename", "wait", "take"}
                                  \union Finished, open : Names]]
  BY DEF IInv, TypeOK
<1>2. Active(c) \/ Begin(c)
  BY DEF Active, Finished, Clear, Open, Write, Rename, Poll, Take, GiveUp, Kill
<1>3. Active(c) => Undisturbed(c) /\ Lone(c)
  BY DEF Lone, IInv, Unhindered, Begin, Clear, Open, Write, Rename, Poll, Take,
     GiveUp, Kill, history
<1>4. \A d \in Callers \ {c} : call'[d] = call[d]
  BY <1>1 DEF Begin, Clear, Open, Write, Rename, Poll, Take, GiveUp, Kill, Goes, Proceeds
<1>5. Others(c)' = {}
  <2>1. CASE Active(c)
    BY <1>3, <1>4, <2>1 DEF Others, Active
  <2>2. CASE Begin(c)
    <3>1. Others(c) = {}
      BY <2>2 DEF Begin, Lone
    <3> QED
      BY <1>4, <3>1 DEF Others, Active
  <2> QED
    BY <1>2, <2>1, <2>2
<1>6. call'[c].at \notin Finished
  BY DEF Lone, Active
<1>7. CASE Begin(c)
  <2>1. call'[c].at = "clear"
    BY <1>1, <1>7, StepOrder DEF Begin, Goes
  <2>2. /\ req = "none" /\ bridge.at \in {"stopped", "idle"} /\ bridge.at # "stopped"
        /\ UNCHANGED <<req, bridge>>
    BY <1>7 DEF Begin, Lone, files
  <2> QED
    BY <1>5, <2>1, <2>2
<1>8. CASE Clear(c)
  <2>1. call'[c].at = "open" /\ call[c].at = "clear"
    BY <1>1, <1>8, StepOrder DEF Clear, Proceeds
  <2> QED
    BY <1>3, <1>5, <1>8, <2>1 DEF Clear, Active, Finished
<1>9. CASE Open(c)
  <2>1. /\ call[c].at = "open" /\ call'[c] = [at |-> "write", open |-> tmp']
        /\ UNCHANGED <<req, res, bridge>>
    BY <1>1, <1>9, StepOrder DEF Open
  <2>2. tmp' \in Callers /\ data' = [data EXCEPT ![tmp'] = "bad"]
    BY <1>9 DEF Open, IInv, TypeOK, Names
  <2>3. tmp' # "none" /\ data'[tmp'] = "bad"
    BY <2>2, CheckNumberAssumption DEF IInv, TypeOK
  <2> QED
    BY <1>3, <1>5, <2>1, <2>3 DEF Active, Finished
<1>10. CASE Write(c)
  <2>1. /\ call[c].at = "write" /\ call'[c].at = "rename"
        /\ UNCHANGED <<tmp, req, res, bridge>>
    BY <1>1, <1>10, StepOrder DEF Write, Proceeds
  <2>2. Undisturbed(c) /\ tmp # "none" /\ call[c].open = tmp /\ data[tmp] = "bad"
    BY <1>3, <2>1 DEF Active, Finished
  <2>3. data' = [data EXCEPT ![tmp] = c] /\ tmp \in Callers
    BY <1>10, <2>2 DEF Write, IInv, TypeOK, Names
  <2>4. data'[tmp] = c
    BY <2>3 DEF IInv, TypeOK
  <2> QED
    BY <1>5, <2>1, <2>2, <2>4
<1>11. CASE Rename(c)
  <2>1. call[c].at = "rename"
    BY <1>11 DEF Rename
  <2>2. Undisturbed(c) /\ tmp # "none" /\ data[tmp] = c
    BY <1>3, <2>1 DEF Active, Finished
  <2>3. call'[c].at = "wait" /\ req' = tmp /\ UNCHANGED <<data, bridge>>
    BY <1>1, <1>11, <2>1, <2>2, StepOrder DEF Rename, Proceeds
  <2> QED
    BY <1>5, <2>1, <2>2, <2>3
<1>12. CASE Poll(c)
  <2>1. call[c].at = "wait" /\ call'[c].at = "take" /\ bridge' = bridge
    BY <1>1, <1>12 DEF Poll, Goes
  <2> QED
    BY <1>3, <1>5, <2>1 DEF Active, Finished
<1>13. CASE Take(c) \/ GiveUp(c) \/ Kill(c)
  <2>1. call'[c].at \in Finished
    BY <1>1, <1>13 DEF Take, GiveUp, Kill, Goes, Finished
  <2> QED
    BY <1>6, <2>1
<1> QED
  BY <1>7, <1>8, <1>9, <1>10, <1>11, <1>12, <1>13

\* The bridge hands the request of a command alone on, and drops it never.
LEMMA BridgeSteps ==
    ASSUME IInv, NEW c \in Callers, Lone(c)',
           Tick \/ Remove \/ Lookup \/ Answer \/ Stop \/ Start
    PROVE  Undisturbed(c)'
<1> USE DEF Undisturbed, OnItsWay, InOnePlace
<1>1. call' = call /\ met' = met /\ unserved \subseteq unserved'
  BY DEF Tick, Remove, Lookup, Answer, Stop, Start, history
<1>2. Active(c) /\ Lone(c) /\ Undisturbed(c) /\ Others(c)' = {}
  BY <1>1 DEF Lone, Active, Others, IInv, Unhindered
<1>3. /\ bridge.at \in {"stopped", "idle", "read", "lookup", "answer"}
      /\ bridge = [at |-> bridge.at, id |-> bridge.id]
  BY DEF IInv, TypeOK
<1>4. CASE Tick
  BY <1>1, <1>2, <1>4 DEF Tick, files
<1>5. CASE Remove
  BY <1>1, <1>2, <1>3, <1>5, CheckNumberAssumption DEF Remove
<1>6. CASE Lookup
  BY <1>1, <1>2, <1>3, <1>6 DEF Lookup, files
<1>7. CASE Answer
  BY <1>1, <1>2, <1>7 DEF Answer
<1>8. CASE Stop
  BY <1>1, <1>2, <1>8 DEF Stop, Lone, Active
<1>9. CASE Start
  BY <1>2, <1>9 DEF Start
<1> QED
  BY <1>4, <1>5, <1>6, <1>7, <1>8, <1>9

\* Only a command that met another, or a stopped bridge, ends without an
\* answer.
LEMMA EndsAnswered ==
    ASSUME IInv, [Next]_vars
    PROVE  LoneIsAnswered'
<1>1. SUFFICES ASSUME NEW c \in Callers, call'[c].at \in {"gaveUp", "failed"},
                      c \notin met' \union unserved'
               PROVE  FALSE
  BY DEF LoneIsAnswered
<1>2. call \in [Callers -> [at : {"idle", "clear", "open", "write", "rename", "wait", "take"}
                                  \union Finished, open : Names]]
  BY DEF IInv, TypeOK
<1>3. met \subseteq met' /\ unserved \subseteq unserved'
  BY DEF Next, vars, history, Begin, Clear, Open, Write, Rename, Poll, Take,
     GiveUp, Kill, Tick, Remove, Lookup, Answer, Stop, Start
<1>4. call[c].at \notin {"gaveUp", "failed"}
  BY <1>1, <1>3 DEF IInv, LoneIsAnswered
<1>5. GiveUp(c) \/ (Rename(c) /\ tmp = "none")
  <2>1. PICK d \in Callers :
           \/ Begin(d) \/ Clear(d) \/ Open(d) \/ Write(d) \/ Rename(d)
           \/ Poll(d) \/ Take(d) \/ GiveUp(d) \/ Kill(d)
    BY <1>1, <1>4 DEF Next, vars, Tick, Remove, Lookup, Answer, Stop, Start
  <2>2. d = c
    BY <1>1, <1>2, <1>4, <2>1 DEF Begin, Clear, Open, Write, Rename, Poll, Take,
       GiveUp, Kill, Goes, Proceeds
  <2>3. ~Proceeds(c) \/ ~(call[c].at \in {"clear", "open", "write", "rename"})
    BY <1>1, <1>2, StepOrder DEF Proceeds
  <2>4. ~Begin(c) /\ ~Poll(c) /\ ~Take(c) /\ ~Kill(c) /\ ~Open(c)
    BY <1>1, <1>2, StepOrder DEF Begin, Open, Poll, Take, Kill, Goes
  <2> QED
    BY <2>1, <2>2, <2>3, <2>4 DEF Clear, Write, Rename, At
<1>6. Lone(c)
  BY <1>1, <1>3, <1>5 DEF Lone, Active, At, Finished, GiveUp, Rename
<1>7. Undisturbed(c)
  BY <1>6 DEF IInv, Unhindered, Undisturbed
<1>8. CASE GiveUp(c)
  <2>1. Served(c)
    BY <1>7, <1>8 DEF Undisturbed, InOnePlace, Served, GiveUp, At
  <2> QED
    BY <1>6, <1>8, <2>1 DEF GiveUp, Lone
<1>9. CASE Rename(c) /\ tmp = "none"
  BY <1>7, <1>9 DEF Undisturbed, OnItsWay, Rename, At
<1> QED
  BY <1>5, <1>8, <1>9

\* Every step of a command and of the bridge keeps the invariant.
LEMMA Inductive == IInv /\ [Next]_vars => IInv'
<1> SUFFICES ASSUME IInv, [Next]_vars PROVE IInv'
  OBVIOUS
<1>1. Basic'
  <2>1. Basic
    BY DEF IInv, Basic
  <2>2. CASE UNCHANGED vars
    BY <2>1, <2>2 DEF Basic, TypeOK, Unnamed, HasFile, OwnAnswer, vars, files, history
  <2> QED
    BY <2>1, <2>2, CommandKeepsBasic, BridgeKeepsBasic DEF Next
<1>2. ASSUME NEW c \in Callers, Lone(c)' PROVE Undisturbed(c)'
  <2>1. CASE UNCHANGED vars
    BY <1>2, <2>1 DEF IInv, Unhindered, Undisturbed, Lone, Active, Others,
       OnItsWay, InOnePlace, vars, files, history
  <2>2. CASE Tick \/ Remove \/ Lookup \/ Answer \/ Stop \/ Start
    BY <1>2, <2>2, BridgeSteps
  <2>3. ASSUME NEW d \in Callers,
               \/ Begin(d) \/ Clear(d) \/ Open(d) \/ Write(d) \/ Rename(d)
               \/ Poll(d) \/ Take(d) \/ GiveUp(d) \/ Kill(d)
        PROVE  Undisturbed(c)'
    <3>1. CASE d = c
      BY <1>2, <2>3, <3>1, OwnSteps
    <3>2. CASE d # c
      BY <1>2, <2>3, <3>2, OthersEndIt
    <3> QED
      BY <3>1, <3>2
  <2> QED
    BY <2>1, <2>2, <2>3 DEF Next
<1>3. Unhindered'
  BY <1>2 DEF Unhindered, Undisturbed
<1>4. LoneIsAnswered'
  BY EndsAnswered
<1> QED
  BY <1>1, <1>3, <1>4 DEF IInv, Basic

\* The initial state satisfies the invariant.
LEMMA Starts == Init => IInv
<1> SUFFICES ASSUME Init PROVE IInv
  OBVIOUS
<1>1. TypeOK
  BY CheckNumberAssumption DEF Init, TypeOK, Names
<1> QED
  BY <1>1, CheckNumberAssumption DEF Init, IInv, Unnamed, HasFile, OwnAnswer,
     Unhindered, Lone, Active, LoneIsAnswered

-----------------------------------------------------------------------------
\* The invariant holds in every reachable state.
THEOREM Invariance == Spec => []IInv
  BY Inductive, Starts, PTL DEF Spec

\* The commands, the bridge and the three file names keep their types, and no
\* file ever has two of the names.
THEOREM TypeCorrect == Spec => []TypeOK
<1>1. IInv => TypeOK
  BY DEF IInv
<1> QED
  BY <1>1, Invariance, PTL

\* A command prints no answer but its own, however many share the files.
THEOREM AnswersAreOwn == Spec => []OwnAnswer
<1>1. IInv => OwnAnswer
  BY DEF IInv
<1> QED
  BY <1>1, Invariance, PTL

\* A command that runs alone beside a running bridge neither fails nor gives
\* up, whatever files killed commands have left.
THEOREM AloneIsServed == Spec => []LoneIsAnswered
<1>1. IInv => LoneIsAnswered
  BY DEF IInv
<1> QED
  BY <1>1, Invariance, PTL
=============================================================================
