---------------------------- MODULE CheckNumber -----------------------------
(***************************************************************************)
(* `wabridge check-number` (checknumber.go): a command drops a request     *)
(* file next to config.yaml, the running bridge answers with a result      *)
(* file, and the command prints it.  The three file names are shared by    *)
(* all who run the command; a command may be killed at any step.           *)
(***************************************************************************)
EXTENDS Integers, Sequences

CONSTANTS
    Callers,  \* the commands, each with the ID of its request
    MaxStops  \* bound: stops of the bridge

ASSUME CheckNumberAssumption == MaxStops \in Nat /\ Callers \intersect {"none", "bad"} = {}

VARIABLES
    call,     \* per command: the step it is at, and the file it has open
    data,     \* the ID in each request file; "bad" is not JSON
    tmp,      \* the file named check-number.req.tmp
    req,      \* the file named check-number.req
    res,      \* the ID of the result in check-number.res
    bridge,   \* the bridge: its step and the ID it answers
    got,      \* per command: the ID of the result it printed
    met,      \* history: commands that ran beside another, or what it left
    unserved, \* history: commands in whose time the bridge stood still
    stops     \* use of the bound

files == <<data, tmp, req, res>>
history == <<met, unserved>>
vars == <<call, files, bridge, got, history, stops>>

\* A command makes one file at most: each has its own.
Names == Callers \union {"none"}

\* Faulty: the old result is removed when the request is out.
ClearsLast == <<"open", "write", "rename", "clear", "wait">>

\* RequestCheckNumber up to its wait.
Steps == <<"clear", "open", "write", "rename", "wait">>

Finished == {"answered", "gaveUp", "failed", "killed"}

TypeOK ==
    /\ call \in [Callers -> [at : {"idle", "clear", "open", "write", "rename", "wait", "take"}
                                  \union Finished,
                             open : Names]]
    /\ data \in [Callers -> Callers \union {"bad"}]
    /\ tmp \in Names /\ req \in Names /\ (tmp = req => tmp = "none")
    /\ res \in Callers \union {"none", "bad"}
    /\ bridge \in [at : {"stopped", "idle", "read", "lookup", "answer"},
                   id : Callers \union {"none", "bad"}]
    /\ got \in [Callers -> Callers \union {"none", "bad"}]
    /\ met \subseteq Callers /\ unserved \subseteq Callers
    /\ stops \in 0..MaxStops

Init ==
    /\ call = [c \in Callers |-> [at |-> "idle", open |-> "none"]]
    /\ data = [c \in Callers |-> "bad"]
    /\ tmp = "none" /\ req = "none" /\ res = "none"
    /\ bridge = [at |-> "idle", id |-> "none"]
    /\ got = [c \in Callers |-> "none"]
    /\ met = {} /\ unserved = {} /\ stops = 0

-----------------------------------------------------------------------------
(* The command.                                                             *)

Active(c) == call[c].at \notin Finished \union {"idle"}
Others(c) == {d \in Callers \ {c} : Active(d)}

At(c, step) == call[c].at = step
Goes(c, step) == call' = [call EXCEPT ![c].at = step]

\* What comes after a step of RequestCheckNumber.
After(step) == Steps[(CHOOSE i \in DOMAIN Steps : Steps[i] = step) + 1]
Proceeds(c) == call' = [call EXCEPT ![c].at = After(@)]

Begin(c) ==
    /\ At(c, "idle") /\ Goes(c, Steps[1])
    /\ met' = IF Others(c) # {} \/ req # "none" \/ bridge.at \notin {"stopped", "idle"}
              THEN met \union {c} \union Others(c) ELSE met
    /\ unserved' = IF bridge.at = "stopped" THEN unserved \union {c} ELSE unserved
    /\ UNCHANGED <<files, bridge, got, stops>>

Clear(c) == /\ At(c, "clear") /\ Proceeds(c)
            /\ res' = "none"
            /\ UNCHANGED <<data, tmp, req, bridge, got, history, stops>>

\* writeFileAtomic: WriteFile empties a file of that name, or makes one.
Open(c) ==
    LET f == IF tmp = "none" THEN c ELSE tmp IN
    /\ At(c, "open")
    /\ call' = [call EXCEPT ![c] = [at |-> After("open"), open |-> f]]
    /\ tmp' = f /\ data' = [data EXCEPT ![f] = "bad"]
    /\ UNCHANGED <<req, res, bridge, got, history, stops>>

\* Over another's request, a shorter one leaves the end of it.
Write(c) ==
    LET f == call[c].open IN
    /\ At(c, "write") /\ Proceeds(c)
    /\ \E id \in IF data[f] = "bad" THEN {c} ELSE {c, "bad"} : data' = [data EXCEPT ![f] = id]
    /\ UNCHANGED <<tmp, req, res, bridge, got, history, stops>>

\* Faulty: the request gets a second name.
Linked == tmp

\* What has the temporary name after the rename.
Left == "none"

\* Somebody else may have renamed the file.
Rename(c) ==
    /\ At(c, "rename")
    /\ IF tmp = "none" THEN Goes(c, "failed") /\ UNCHANGED <<tmp, req>>
       ELSE Proceeds(c) /\ req' = tmp /\ tmp' = Left
    /\ UNCHANGED <<data, res, bridge, got, history, stops>>

\* Faulty: the first result is taken.
Any(c) == res # "none"

\* The result of another request is passed over.
Mine(c) == res = c

Poll(c) == /\ At(c, "wait") /\ Mine(c)
           /\ Goes(c, "take") /\ got' = [got EXCEPT ![c] = res]
           /\ UNCHANGED <<files, bridge, history, stops>>

Take(c) == /\ At(c, "take") /\ Goes(c, "answered")
           /\ res' = "none"
           /\ UNCHANGED <<data, tmp, req, bridge, got, history, stops>>

\* The bridge has the request of this command, or its answer is there.
Served(c) == (req # "none" /\ data[req] = c) \/ bridge.id = c \/ res = c

\* A bridge with nothing else to do answers within a tick and
\* newChatCallTimeout, 46 s: before the 60 s are over.
GiveUp(c) == /\ At(c, "wait")
             /\ Served(c) => c \in met \union unserved
             /\ Goes(c, "gaveUp")
             /\ req' = "none"
             /\ UNCHANGED <<data, tmp, res, bridge, got, history, stops>>

Kill(c) == /\ Active(c) /\ Goes(c, "killed")
           /\ UNCHANGED <<files, bridge, got, history, stops>>

-----------------------------------------------------------------------------
(* The bridge: answerCheckRequest.                                          *)

Tick == /\ bridge.at = "idle" /\ req # "none"
        /\ bridge' = [at |-> "read", id |-> data[req]]
        /\ UNCHANGED <<call, files, got, history, stops>>

\* By its name: it may be another request by now.
Remove == /\ bridge.at = "read"
          /\ bridge' = [bridge EXCEPT !.at = IF bridge.id = "bad" THEN "answer" ELSE "lookup"]
          /\ req' = "none"
          /\ UNCHANGED <<call, data, tmp, res, got, history, stops>>

\* checkNumber: an answer, or an error, also when the context is cancelled.
Lookup == /\ bridge.at = "lookup"
          /\ bridge' = [bridge EXCEPT !.at = "answer"]
          /\ UNCHANGED <<call, files, got, history, stops>>

\* The result is renamed into place, whatever is there.
Answer == /\ bridge.at = "answer"
          /\ bridge' = [at |-> "idle", id |-> "none"]
          /\ res' = bridge.id
          /\ UNCHANGED <<call, data, tmp, req, got, history, stops>>

Stop == /\ bridge.at # "stopped" /\ stops < MaxStops /\ stops' = stops + 1
        /\ bridge' = [at |-> "stopped", id |-> "none"]
        /\ unserved' = unserved \union {c \in Callers : Active(c)}
        /\ UNCHANGED <<call, files, got, met>>

Start == /\ bridge.at = "stopped"
         /\ bridge' = [at |-> "idle", id |-> "none"]
         /\ UNCHANGED <<call, files, got, history, stops>>

Next ==
    \/ \E c \in Callers :
          \/ Begin(c) \/ Clear(c) \/ Open(c) \/ Write(c) \/ Rename(c)
          \/ Poll(c) \/ Take(c) \/ GiveUp(c) \/ Kill(c)
    \/ Tick \/ Remove \/ Lookup \/ Answer \/ Stop \/ Start

Spec == Init /\ [][Next]_vars

-----------------------------------------------------------------------------
(* Properties.                                                              *)

\* checknumber.go:174: whatever others leave or ask meanwhile, a command
\* prints no answer but the one to its own request.
OwnAnswer == \A c \in Callers : got[c] \in {"none", c}

\* checknumber.go:182, "it must be running (service or `wabridge run`) and
\* connected": a command that runs alone, also after others were killed, gets
\* its answer from a bridge that runs.
LoneIsAnswered ==
    \A c \in Callers : call[c].at \in {"gaveUp", "failed"} => c \in met \union unserved
=============================================================================
