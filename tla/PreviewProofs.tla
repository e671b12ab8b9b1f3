--------------------------- MODULE PreviewProofs ----------------------------
(***************************************************************************)
(* The uploads of a preview, for any number of history syncs: types, and   *)
(* the file behind the URL of a stored message.                            *)
(*                                                                         *)
(* The argument has two cases, as the property has.  While no two          *)
(* goroutines upload at once, one that writes finds its file under the     *)
(* .part name (Alone), though calls fail and the process stops.  While no  *)
(* call fails, the file under the .part name, and then under the final     *)
(* one, is whole or being written by one that will make it whole           *)
(* (WholeInTheEnd), though one upload empties the file of the other.  In   *)
(* both a URL is returned only when the final name exists (UrlMeansFinal). *)
(***************************************************************************)
EXTENDS StoringProofs

\* A goroutine uploads in its step for that.
Busy == \A u \in Uploaders : Up!Uploading(u) => at[u].step = "upload"

\* A goroutine has a file open while it writes, and no more than the whole to
\* send; it returns the URL unless a call failed.
Writing ==
    \A u \in Uploaders :
        /\ up[u].open # Up!NoFile => up[u].at \in {"write", "close", "remove"}
        /\ up[u].at = "write" => up[u].open # Up!NoFile /\ up[u].sent \in 0..1
        /\ up[u].at \in {"stat", "create"} => up[u].sent = 0

\* A file has one name.
OneName == part # Up!NoFile => part # final

\* What a writer sent since it emptied the file is in the file.
Sent(u, f) == up[u].open = f /\ 1..up[u].sent \subseteq disk[f]

\* Without overlap a goroutine uploads alone, and finds the file it wrote.
Alone ==
    flaws \intersect {"unnamed", "overlap"} = {} =>
        /\ \A u, v \in Uploaders : Up!Uploading(u) /\ Up!Uploading(v) => u = v
        /\ final # Up!NoFile => disk[final] = Up!Whole
        /\ \A u \in Uploaders :
              /\ up[u].at = "write" => part # Up!NoFile /\ Sent(u, part)
              /\ up[u].at \in {"close", "rename"}
                     => part # Up!NoFile /\ disk[part] = Up!Whole

\* A file is whole, or one who writes it will make it whole.
Good(f) == disk[f] = Up!Whole \/ \E u \in Uploaders : up[u].at = "write" /\ Sent(u, f)

\* Without a failure what gets the final name is whole in the end, and nobody
\* removes the other name before.
WholeInTheEnd ==
    flaws \intersect {"unnamed", "failed"} = {} =>
        /\ final # Up!NoFile => Good(final)
        /\ final = Up!NoFile =>
              \A u \in Uploaders :
                  /\ up[u].at # "remove"
                  /\ up[u].at \in {"write", "close", "rename"} => part # Up!NoFile /\ Good(part)

Clean == "unnamed" \notin flaws /\ ~{"overlap", "failed"} \subseteq flaws

\* A URL is that of a file with the final name.
UrlMeansFinal ==
    Clean =>
        /\ \A u \in Uploaders :
              up[u].at = "url" \/ (up[u].at = "remove" /\ up[u].then = "url")
                  => final # Up!NoFile
        /\ \A p \in Goroutines : at[p].url => final # Up!NoFile
        /\ msg.url => final # Up!NoFile

FilesInv == Up!TypeOK /\ Writing /\ OneName

UInv == /\ FilesInv
        /\ Busy
        /\ Alone
        /\ WholeInTheEnd
        /\ UrlMeansFinal


-----------------------------------------------------------------------------
(* The upload state.                                                        *)

\* There is a file for one that creates it, and it is not the named one.
LEMMA OpenedIs ==
    ASSUME FilesInv, NEW u \in Uploaders, up[u].at = "create"
    PROVE  /\ Up!Opened \in Up!Files /\ Up!Opened # final
           /\ part # Up!NoFile => Up!Opened = part
<1>1. CASE part # Up!NoFile
  BY <1>1 DEF FilesInv, OneName, Up!TypeOK, Up!Opened
<1>2. CASE part = Up!NoFile
  <2>1. up[u].open \notin Up!Files
    BY DEF FilesInv, Writing, Up!TypeOK, Up!Files, Up!NoFile, Uploaders
  <2>2. PICK v \in Uploaders : \A w \in Uploaders : w = u \/ w = v
    BY DEF Uploaders
  <2>3. \E f \in Up!Files : f # final /\ f # up[v].open
    BY DEF Up!Files, Uploaders
  <2>4. \E f \in Up!Files : f # final /\ \A w \in Uploaders : up[w].open # f
    BY <2>1, <2>2, <2>3
  <2> QED
    BY <1>2, <2>4 DEF Up!Opened
<1> QED
  BY <1>1, <1>2

\* What a call makes of the state of its goroutine.
LEMMA CallEffects ==
    ASSUME FilesInv, NEW u \in Uploaders, NEW o \in Outcomes, Up!Step(u, o)
    PROVE  /\ Up!Uploading(u)
           /\ \A v \in Uploaders \ {u} : up'[v] = up[v]
           /\ up'[u].at \in {"create", "rename", "url", "error", "idle"} => up'[u].open = Up!NoFile
           /\ up'[u].at = "write" =>
                 \/ /\ up[u].at = "create" /\ o = "done" /\ up'[u].open = Up!Opened
                    /\ up'[u].sent = 0 /\ part' = Up!Opened
                 \/ /\ up[u].at = "write" /\ o = "done" /\ up'[u].open = up[u].open
                    /\ up[u].sent = 0 /\ up'[u].sent = 1
           /\ up'[u].at = "close" => up[u].at = "write" /\ up[u].sent = 1 /\ o = "done"
           /\ up'[u].at = "rename" => up[u].at = "close" /\ o = "done"
           /\ up'[u].at = "create" => up'[u].sent = 0
           /\ up'[u].at # "stat"
           /\ up'[u].at = "url" => \/ up[u].at = "stat" /\ Up!AlreadyThere
                                   \/ up[u].at = "remove" /\ up[u].then = "url"
                                   \/ up[u].at = "rename" /\ final' # Up!NoFile
           /\ up'[u].at = "remove" /\ up'[u].then = "url" =>
                 up[u].at = "rename" /\ (o = "done" => part = Up!NoFile \/ final' # Up!NoFile)
<1> DEFINE CallType ==
             [at : {"idle", "stat", "create", "write", "close", "rename", "remove", "url", "error"},
              open : Up!Files \union {Up!NoFile}, sent : 0..2, then : {"url", "error"}]
<1>1. /\ up \in [Uploaders -> CallType]
      /\ part \in Up!Files \union {Up!NoFile} /\ Up!NoFile \notin Up!Files
  BY DEF FilesInv, Up!TypeOK, Up!Files, Up!NoFile, Uploaders
<1>2. /\ up[u].open # Up!NoFile => up[u].at \in {"write", "close", "remove"}
      /\ up[u].at = "write" => up[u].open # Up!NoFile /\ up[u].sent \in 0..1
      /\ up[u].at \in {"stat", "create"} => up[u].sent = 0
  BY DEF FilesInv, Writing
<1>3. CASE Up!Stat(u, o)
  <2>1. up[u].at = "stat" /\ UNCHANGED <<disk, part, final>>
    BY <1>3 DEF Up!Stat, Up!At, Up!files
  <2>2. \/ Up!AlreadyThere /\ up' = [up EXCEPT ![u] = [Up!Idle EXCEPT !.at = "url"]]
        \/ up' = [up EXCEPT ![u].at = "create"]
    BY <1>3 DEF Up!Stat, Up!Ends, Up!Goes
  <2> QED
    BY <1>1, <1>2, <2>1, <2>2 DEF Up!Idle, Up!Uploading
<1>4. CASE Up!Create(u, o)
  <2>1. up[u].at = "create"
    BY <1>4 DEF Up!Create, Up!At
  <2>2. \/ up' = [up EXCEPT ![u] = [Up!Idle EXCEPT !.at = "error"]]
        \/ /\ o = "done" /\ part' = Up!Opened
           /\ up' = [up EXCEPT ![u].at = "write", ![u].open = part']
    BY <1>4 DEF Up!Create, Up!Ends, Up!Applied
  <2> QED
    BY <1>1, <1>2, <2>1, <2>2 DEF Up!Idle, Up!Uploading
<1>5. CASE Up!Write(u, o)
  <2>1. up[u].at = "write" /\ up[u].sent \in 0..1
    BY <1>2, <1>5 DEF Up!Write, Up!At
  <2>2. /\ \A v \in Uploaders \ {u} : up'[v] = up[v]
        /\ up'[u].open = up[u].open /\ up'[u].sent = up[u].sent + 1
        /\ up'[u].at = Up!AfterWrite(up[u].sent + 1, o)
        /\ o # "done" => up'[u].then = "error"
    BY <1>1, <1>5 DEF Up!Write
  <2> QED
    BY <2>1, <2>2 DEF Up!AfterWrite, Up!Uploading
<1>6. CASE Up!Close(u, o)
  <2>1. /\ up[u].at = "close"
        /\ \A v \in Uploaders \ {u} : up'[v] = up[v]
        /\ \/ o = "done" /\ up'[u].at = "rename" /\ up'[u].open = Up!NoFile
           \/ up'[u].at = "remove" /\ up'[u].then = "error"
    BY <1>1, <1>6 DEF Up!Close, Up!At
  <2> QED
    BY <2>1 DEF Up!Uploading
<1>7. CASE Up!Rename(u, o)
  <2>1. up[u].at = "rename"
    BY <1>7 DEF Up!Rename, Up!At
  <2>2. \/ up' = [up EXCEPT ![u] = [Up!Idle EXCEPT !.at = "url"]] /\ final' # Up!NoFile
        \/ /\ up' = [up EXCEPT ![u].at = "remove"]
           /\ o = "done" => part = Up!NoFile \/ final' # Up!NoFile
    BY <1>7 DEF Up!Rename, Up!Ends, Up!Goes, Up!Applied
  <2> QED
    BY <1>1, <1>2, <2>1, <2>2 DEF Up!Idle, Up!Uploading
<1>8. CASE Up!Remove(u, o)
  <2>1. up[u].at = "remove" /\ up' = [up EXCEPT ![u] = [Up!Idle EXCEPT !.at = up[u].then]]
    BY <1>8 DEF Up!Remove, Up!At, Up!Ends
  <2> QED
    BY <1>1, <2>1 DEF Up!Idle, Up!Uploading
<1> QED
  BY <1>3, <1>4, <1>5, <1>6, <1>7, <1>8 DEF Up!Step

\* What a call does to the files: a goroutine that creates empties one that
\* is not the named one, and nobody takes anything else out of a file.
LEMMA FileEffects ==
    ASSUME FilesInv, NEW u \in Uploaders, NEW o \in Outcomes, Up!Step(u, o)
    PROVE  /\ disk' \in [Up!Files -> SUBSET Up!Chunks]
           /\ \A f \in Up!Files : \/ disk[f] \subseteq disk'[f]
                                  \/ up[u].at = "create" /\ f = Up!Opened /\ part' = f
           /\ up[u].at \notin {"create", "write"} => disk' = disk
           /\ up[u].at = "write" /\ o = "done" => up[u].sent + 1 \in disk'[up[u].open]
           /\ \/ part' = part /\ final' = final
              \/ up[u].at = "create" /\ part' = Up!Opened /\ final' = final
              \/ /\ up[u].at = "rename" /\ final = Up!NoFile /\ part # Up!NoFile
                 /\ final' = part /\ part' = Up!NoFile
              \/ up[u].at = "remove" /\ part' = Up!NoFile /\ final' = final
<1>1. /\ disk \in [Up!Files -> SUBSET Up!Chunks]
      /\ up[u].at = "write" => up[u].open \in Up!Files /\ up[u].sent + 1 \in Up!Chunks
      /\ up[u].at = "create" => Up!Opened \in Up!Files
  BY OpenedIs DEF FilesInv, Up!TypeOK, Writing, Up!Chunks
<1>2. CASE Up!Stat(u, o) \/ Up!Close(u, o)
  BY <1>1, <1>2 DEF Up!Stat, Up!Close, Up!At, Up!files
<1>3. CASE Up!Create(u, o)
  BY <1>1, <1>3 DEF Up!Create, Up!At
<1>4. CASE Up!Write(u, o)
  <2>1. /\ up[u].at = "write" /\ UNCHANGED <<part, final>>
        /\ \/ disk' = disk /\ o = "lost"
           \/ disk' = [disk EXCEPT ![up[u].open] = @ \union {up[u].sent + 1}]
    BY <1>4 DEF Up!Write, Up!At, Up!Applied
  <2> QED
    BY <1>1, <2>1
<1>5. CASE Up!Rename(u, o) \/ Up!Remove(u, o)
  BY <1>1, <1>5 DEF Up!Rename, Up!Remove, Up!At
<1> QED
  BY <1>2, <1>3, <1>4, <1>5 DEF Up!Step

-----------------------------------------------------------------------------
(* The steps of the system that touch it.                                   *)

\* A call that failed is on record.
OnRecord(u, o) == /\ flaws \subseteq flaws'
                  /\ o # "done" => "failed" \in flaws'
                  /\ o # "done" /\ up[u].at = "rename" => "unnamed" \in flaws'

\* What a step does to the upload state, and has on record.
LEMMA UploadSteps ==
    ASSUME IInv, Next
    PROVE  \/ UNCHANGED upload
           \/ \E u \in Uploaders :
                 /\ Up!Begin(u) /\ UNCHANGED <<disk, part, final>>
                 /\ at[u].step \in {"idle", "chat"} /\ at'[u].step = "upload"
                 /\ Beside(u) \subseteq flaws'
           \/ \E u \in Uploaders, o \in Outcomes : Up!Step(u, o) /\ OnRecord(u, o)
           \/ /\ Up!Stop
              /\ (\E p \in Goroutines : at[p].step # "idle") => "failed" \in flaws'
<1>0. at \in [Goroutines -> [step : {"idle", "upload", "chat", "insert",
                                     "locate", "edit", "text", "tail"},
                             jid : Jids \union {"none"}, aka : SUBSET Jids, url : BOOLEAN]]
  BY DEF IInv, Typed
<1>1. CASE Learn \/ Migrate \/ OutBegin \/ EditBegin \/ \E j \in Jids : SyncBegin(j)
  BY <1>1 DEF Learn, Migrate, OutBegin, EditBegin, SyncBegin
<1>2. CASE LiveBegin
  <2>1. at'["live"].step = "upload" /\ "live" \in Uploaders
    BY <1>0, <1>2 DEF LiveBegin, Idle, Goroutines, Uploaders
  <2> QED
    BY <1>2, <2>1 DEF LiveBegin
<1>3. CASE Restart
  BY <1>3 DEF Restart
<1>4. CASE \E p \in Goroutines : Calls(p) \/ FallBack(p)
  BY <1>4 DEF Calls, FallBack
<1>5. ASSUME NEW u \in Uploaders, NEW o \in Outcomes, Uploads(u, o)
      PROVE  Up!Step(u, o) /\ OnRecord(u, o)
  BY <1>5 DEF Uploads, Flawed, OnRecord, Up!At
<1>6. ASSUME NEW p \in Goroutines, NEW o \in Outcomes, UpsertChat(p, o)
      PROVE  \/ UNCHANGED upload
             \/ \E u \in Uploaders :
                   /\ Up!Begin(u) /\ UNCHANGED <<disk, part, final>>
                   /\ at[u].step \in {"idle", "chat"} /\ at'[u].step = "upload"
                   /\ Beside(u) \subseteq flaws'
  <2>1. CASE o = "done" /\ p = "sync"
    <3>1. at'["sync"].step = "upload" /\ "sync" \in Uploaders
      BY <1>0, <1>6, <2>1 DEF UpsertChat, Goes, Goroutines, Uploaders
    <3> QED
      BY <1>6, <2>1, <3>1 DEF UpsertChat, Flawed
  <2>2. CASE ~(o = "done" /\ p = "sync")
    BY <1>6, <2>2 DEF UpsertChat, upload
  <2> QED
    BY <2>1, <2>2
<1>7. ASSUME NEW p \in Goroutines, NEW o \in Outcomes,
             InsertMessage(p, o) \/ RecomputeTail(p, o)
      PROVE  UNCHANGED upload
  BY <1>7 DEF InsertMessage, RecomputeTail
<1>8. ASSUME NEW o \in Outcomes,
             \/ Locate(o) \/ ApplyEdit(o) \/ StoreEditAsRow(o)
             \/ \E s \in Receipts : HandleReceipt(s, o)
      PROVE  UNCHANGED upload
  BY <1>8 DEF Locate, ApplyEdit, StoreEditAsRow, HandleReceipt
<1> QED
  BY <1>1, <1>2, <1>3, <1>4, <1>5, <1>6, <1>7, <1>8 DEF Next, Bridge

\* A goroutine that begins makes its call anew; the others go on.
LEMMA BeginFields ==
    ASSUME Up!TypeOK, NEW u \in Uploaders, Up!Begin(u)
    PROVE  /\ \A v \in Uploaders \ {u} : up'[v] = up[v]
           /\ up'[u] = [at |-> "stat", open |-> Up!NoFile, sent |-> 0, then |-> "url"]
BY DEF Up!Begin, Up!TypeOK, Up!Idle

\* A process that stops ends all calls.
LEMMA StopFields ==
    ASSUME Up!Stop
    PROVE  /\ UNCHANGED <<disk, part, final>>
           /\ \A u \in Uploaders : /\ up'[u] = [at |-> "idle", open |-> Up!NoFile, sent |-> 0, then |-> "url"]
                                   /\ ~Up!Uploading(u)'
BY DEF Up!Stop, Up!Idle, Up!files, Up!Uploading

LEMMA FilesStep ==
    ASSUME IInv, FilesInv, Next
    PROVE  FilesInv'
<1>1. CASE UNCHANGED upload
  BY <1>1 DEF FilesInv, upload, Up!TypeOK, Writing, OneName
<1>2. ASSUME NEW u \in Uploaders, Up!Begin(u), UNCHANGED <<disk, part, final>>
      PROVE  FilesInv'
  <2>1. Up!TypeOK'
    BY <1>2 DEF FilesInv, Up!TypeOK, Up!Begin, Up!Idle
  <2>2. Writing' /\ OneName'
    BY <1>2, BeginFields DEF FilesInv, Writing, OneName
  <2> QED
    BY <2>1, <2>2 DEF FilesInv
<1>3. CASE Up!Stop
  <2>1. Up!TypeOK'
    BY <1>3 DEF FilesInv, Up!TypeOK, Up!Stop, Up!Idle, Up!files
  <2>2. Writing' /\ OneName'
    BY <1>3, StopFields DEF FilesInv, Writing, OneName
  <2> QED
    BY <2>1, <2>2 DEF FilesInv
<1>4. ASSUME NEW u \in Uploaders, NEW o \in Outcomes, Up!Step(u, o)
      PROVE  FilesInv'
  <2> DEFINE CallType ==
               [at : {"idle", "stat", "create", "write", "close", "rename", "remove", "url", "error"},
                open : Up!Files \union {Up!NoFile}, sent : 0..2, then : {"url", "error"}]
  <2>1. up' \in [Uploaders -> CallType]
    <3>1. /\ up \in [Uploaders -> CallType] /\ up[u] \in CallType
          /\ up[u].at = "write" => up[u].sent + 1 \in 0..2
      BY <1>4 DEF FilesInv, Up!TypeOK, Writing
    <3>2. ASSUME NEW r \in CallType, up' = [up EXCEPT ![u] = r]
          PROVE  up' \in [Uploaders -> CallType]
      BY <3>1, <3>2
    <3>3. \A how \in {"idle", "url", "error"} : [Up!Idle EXCEPT !.at = how] \in CallType
      BY DEF Up!Idle
    <3>4. CASE Up!Stat(u, o) \/ Up!Rename(u, o) \/ Up!Remove(u, o)
      <4>1. \/ \E how \in {"url", "error"} : up' = [up EXCEPT ![u] = [Up!Idle EXCEPT !.at = how]]
            \/ \E how \in {"create", "remove"} : up' = [up EXCEPT ![u] = [up[u] EXCEPT !.at = how]]
        BY <3>1, <3>4 DEF Up!Stat, Up!Rename, Up!Remove, Up!Ends, Up!Goes
      <4>2. \A how \in {"create", "remove"} : [up[u] EXCEPT !.at = how] \in CallType
        BY <3>1
      <4> QED
        BY <3>2, <3>3, <4>1, <4>2
    <3>5. CASE Up!Create(u, o)
      <4>1. \/ up' = [up EXCEPT ![u] = [Up!Idle EXCEPT !.at = "error"]]
            \/ up' = [up EXCEPT ![u] = [up[u] EXCEPT !.at = "write", !.open = Up!Opened]]
        BY <3>5 DEF Up!Create, Up!Applied, Up!Ends
      <4>2. Up!Opened \in Up!Files
        BY <1>4, <3>5, OpenedIs DEF Up!Create, Up!At
      <4>3. [up[u] EXCEPT !.at = "write", !.open = Up!Opened] \in CallType
        BY <3>1, <4>2
      <4> QED
        BY <3>2, <3>3, <4>1, <4>3
    <3>6. CASE Up!Write(u, o)
      <4> DEFINE next == Up!AfterWrite(up[u].sent + 1, o)
                 how == IF o = "done" THEN "url" ELSE "error"
                 r == [up[u] EXCEPT !.sent = up[u].sent + 1, !.at = next, !.then = how]
      <4>1. up[u].at = "write" /\ up' = [up EXCEPT ![u] = r]
        BY <3>6 DEF Up!Write, Up!At
      <4>2. next \in {"remove", "close", "write"} /\ how \in {"url", "error"}
        BY DEF Up!AfterWrite
      <4> HIDE DEF next, how
      <4>3. r \in CallType
        BY <3>1, <4>1, <4>2
      <4> QED
        BY <3>2, <4>1, <4>3
    <3>7. CASE Up!Close(u, o)
      <4>1. \/ up' = [up EXCEPT ![u] = [up[u] EXCEPT !.at = "rename", !.open = Up!NoFile]]
            \/ up' = [up EXCEPT ![u] = [up[u] EXCEPT !.at = "remove", !.then = "error",
                                                       !.open = Up!NoFile]]
        BY <3>7 DEF Up!Close
      <4>2. /\ [up[u] EXCEPT !.at = "rename", !.open = Up!NoFile] \in CallType
            /\ [up[u] EXCEPT !.at = "remove", !.then = "error", !.open = Up!NoFile] \in CallType
        BY <3>1
      <4> QED
        BY <3>2, <4>1, <4>2
    <3> QED
      BY <1>4, <3>4, <3>5, <3>6, <3>7 DEF Up!Step
  <2>2. up[u].at = "create" => Up!Opened \in Up!Files /\ Up!Opened # final
    BY <1>4, OpenedIs
  <2>3. Up!NoFile \notin Up!Files
    BY DEF Up!NoFile, Up!Files, Uploaders
  <2>4. Up!TypeOK'
    BY <1>4, <2>1, <2>2, FileEffects DEF FilesInv, Up!TypeOK
  <2>5. OneName'
    BY <1>4, <2>2, FileEffects DEF FilesInv, OneName
  <2>6. Writing'
    BY <1>4, <2>1, <2>2, <2>3, CallEffects DEF FilesInv, Writing
  <2> QED
    BY <2>4, <2>5, <2>6 DEF FilesInv
<1> QED
  BY <1>1, <1>2, <1>3, <1>4, UploadSteps

-----------------------------------------------------------------------------
(* What the files hold.                                                     *)

\* The bytes are two packets.
LEMMA WholeIs ==
    /\ Up!Whole = {1, 2} /\ Up!Chunks = {1, 2}
    /\ 1..0 = {} /\ 1..1 = {1} /\ 1..2 = {1, 2}
BY DEF Up!Whole, Up!Chunks

\* One that writes, and has sent both packets, has made the file whole.
LEMMA SentGrows ==
    ASSUME FilesInv, NEW u \in Uploaders, NEW f \in Up!Files, NEW o \in Outcomes,
           Up!Step(u, o), up[u].at = "write", o = "done", Sent(u, f)
    PROVE  \/ up'[u].at = "write" /\ Sent(u, f)'
           \/ up'[u].at = "close" /\ disk'[f] = Up!Whole
<1>1. /\ up[u].sent \in 0..1 /\ up[u].open = f /\ 1..up[u].sent \subseteq disk[f]
      /\ disk[f] \subseteq disk'[f] /\ up[u].sent + 1 \in disk'[f] /\ disk'[f] \subseteq {1, 2}
  BY FileEffects, WholeIs DEF FilesInv, Writing, Sent
<1>2. up'[u].open = f /\ up'[u].sent = up[u].sent + 1
      /\ up'[u].at = IF up[u].sent = 1 THEN "close" ELSE "write"
  BY <1>1 DEF Up!Step, Up!Stat, Up!Create, Up!Write, Up!Close, Up!Rename, Up!Remove, Up!At,
              Up!AfterWrite, FilesInv, Up!TypeOK
<1>3. 1..(up[u].sent + 1) \subseteq disk'[f]
  BY <1>1
<1> QED
  BY <1>1, <1>2, <1>3, WholeIs DEF Sent

LEMMA AloneStep ==
    ASSUME IInv, FilesInv, Busy, Alone, Next
    PROVE  Alone'
<1> SUFFICES ASSUME "unnamed" \notin flaws', "overlap" \notin flaws'
             PROVE  /\ \A u, v \in Uploaders : Up!Uploading(u)' /\ Up!Uploading(v)' => u = v
                    /\ final' # Up!NoFile => disk'[final'] = Up!Whole
                    /\ \A u \in Uploaders :
                          /\ up'[u].at = "write" => part' # Up!NoFile /\ Sent(u, part)'
                          /\ up'[u].at \in {"close", "rename"}
                                 => part' # Up!NoFile /\ disk'[part'] = Up!Whole
  BY DEF Alone
<1>1. /\ \A u, v \in Uploaders : Up!Uploading(u) /\ Up!Uploading(v) => u = v
      /\ final # Up!NoFile => disk[final] = Up!Whole
      /\ \A u \in Uploaders :
            /\ up[u].at = "write" => part # Up!NoFile /\ Sent(u, part)
            /\ up[u].at \in {"close", "rename"} => part # Up!NoFile /\ disk[part] = Up!Whole
  BY Grows DEF Alone
<1>2. CASE UNCHANGED upload
  BY <1>1, <1>2 DEF upload, Sent, Up!Uploading
<1>3. CASE Up!Stop
  BY <1>1, <1>3, StopFields DEF Up!Uploading
<1>4. ASSUME NEW u \in Uploaders, Up!Begin(u), UNCHANGED <<disk, part, final>>,
             Beside(u) \subseteq flaws'
      PROVE  Alone'
  <2>1. \A v \in Uploaders \ {u} : ~Up!Uploading(v)
    BY <1>4 DEF Beside
  <2>2. Up!TypeOK
    BY DEF FilesInv
  <2>3. up'[u].at = "stat" /\ \A v \in Uploaders \ {u} : up'[v] = up[v]
    BY <1>4, <2>2, BeginFields
  <2>4. \A v \in Uploaders \ {u} : ~Up!Uploading(v)' /\ up'[v].at \notin {"write", "close", "rename"}
    BY <2>1, <2>3 DEF Up!Uploading
  <2> QED
    BY <1>1, <1>4, <2>3, <2>4 DEF Alone
<1>5. ASSUME NEW u \in Uploaders, NEW o \in Outcomes, Up!Step(u, o), OnRecord(u, o)
      PROVE  Alone'
  <2>1. /\ \A v \in Uploaders \ {u} : ~Up!Uploading(v) /\ up'[v] = up[v]
        /\ Up!Uploading(u)
    BY <1>1, <1>5, CallEffects
  <2>2. \A v \in Uploaders \ {u} : ~Up!Uploading(v)' /\ up'[v].at \notin {"write", "close", "rename"}
    BY <2>1 DEF Up!Uploading
  <2>3. /\ part \in Up!Files \union {Up!NoFile} /\ final \in Up!Files \union {Up!NoFile}
        /\ part # Up!NoFile => part # final
        /\ disk \in [Up!Files -> SUBSET Up!Chunks]
    BY DEF FilesInv, Up!TypeOK, OneName
  <2>4. final' # Up!NoFile => disk'[final'] = Up!Whole
    <3>1. CASE up[u].at = "rename"
      BY <1>1, <1>5, <3>1, FileEffects
    <3>2. CASE up[u].at # "rename" /\ final # Up!NoFile
      <4>1. final' = final /\ disk[final] \subseteq disk'[final] /\ disk'[final] \subseteq Up!Chunks
        BY <1>5, <2>3, <3>2, FileEffects, OpenedIs
      <4> QED
        BY <1>1, <3>2, <4>1, WholeIs
    <3>3. CASE up[u].at # "rename" /\ final = Up!NoFile
      BY <1>5, <3>3, FileEffects
    <3> QED
      BY <3>1, <3>2, <3>3
  <2>5. ASSUME up'[u].at = "write"
        PROVE  part' # Up!NoFile /\ Sent(u, part)'
    <3>1. CASE up[u].at = "create"
      <4>1. /\ part' = Up!Opened /\ up'[u].open = part' /\ up'[u].sent = 0 /\ part' \in Up!Files
        BY <1>5, <2>5, <3>1, CallEffects, OpenedIs
      <4> QED
        BY <4>1, WholeIs DEF Sent, Up!NoFile, Up!Files, Uploaders
    <3>2. CASE up[u].at = "write"
      <4>1. o = "done" /\ part' = part /\ part \in Up!Files /\ Sent(u, part)
        BY <1>1, <1>5, <2>3, <2>5, <3>2, CallEffects, FileEffects
      <4>2. PICK f : f = part
        OBVIOUS
      <4>3. Sent(u, f)'
        BY <1>5, <2>5, <3>2, <4>1, <4>2, SentGrows
      <4> QED
        BY <1>1, <3>2, <4>1, <4>2, <4>3 DEF Sent
    <3> QED
      BY <1>5, <2>5, <3>1, <3>2, CallEffects
  <2>6. ASSUME up'[u].at \in {"close", "rename"}
        PROVE  part' # Up!NoFile /\ disk'[part'] = Up!Whole
    <3>1. CASE up[u].at = "write"
      <4>1. part' = part /\ up'[u].at = "close" /\ o = "done"
        BY <1>5, <2>6, <3>1, CallEffects, FileEffects
      <4> QED
        BY <1>1, <1>5, <2>3, <3>1, <4>1, SentGrows
    <3>2. CASE up[u].at = "close"
      BY <1>1, <1>5, <3>2, FileEffects
    <3> QED
      BY <1>5, <2>6, <3>1, <3>2, CallEffects
  <2> QED
    BY <2>1, <2>2, <2>4, <2>5, <2>6 DEF Alone
<1> QED
  BY <1>2, <1>3, <1>4, <1>5, UploadSteps DEF Alone

\* A call that does not fail leaves a file whole, or with a writer that will
\* make it whole.
LEMMA GoodStays ==
    ASSUME FilesInv, NEW u \in Uploaders, NEW f \in Up!Files, Up!Step(u, "done"), Good(f)
    PROVE  Good(f)'
<1>0. "done" \in Outcomes
  BY DEF Outcomes
<1>1. CASE up[u].at = "create" /\ f = Up!Opened
  <2>1. up'[u].at = "write"
    BY <1>1 DEF Up!Step, Up!Stat, Up!Create, Up!Write, Up!Close, Up!Rename, Up!Remove, Up!At,
                FilesInv, Up!TypeOK
  <2>2. up'[u].open = f /\ up'[u].sent = 0
    BY <1>0, <1>1, <2>1, CallEffects
  <2> QED
    BY <2>1, <2>2, WholeIs DEF Good, Sent
<1>2. CASE ~(up[u].at = "create" /\ f = Up!Opened)
  <2>1. disk[f] \subseteq disk'[f] /\ disk'[f] \subseteq Up!Chunks
    BY <1>0, <1>2, FileEffects
  <2>2. CASE disk[f] = Up!Whole
    BY <2>1, <2>2, WholeIs DEF Good
  <2>3. ASSUME NEW w \in Uploaders \ {u}, up[w].at = "write", Sent(w, f)
        PROVE  Good(f)'
    BY <1>0, <2>1, <2>3, CallEffects DEF Good, Sent
  <2>4. ASSUME up[u].at = "write", Sent(u, f)
        PROVE  Good(f)'
    BY <1>0, <2>4, SentGrows DEF Good
  <2> QED
    BY <2>2, <2>3, <2>4 DEF Good
<1> QED
  BY <1>1, <1>2

LEMMA WholeStep ==
    ASSUME IInv, FilesInv, Busy, WholeInTheEnd, Next
    PROVE  WholeInTheEnd'
<1> DEFINE Promise == /\ final # Up!NoFile => Good(final)
                      /\ final = Up!NoFile =>
                            \A u \in Uploaders :
                               /\ up[u].at # "remove"
                               /\ up[u].at \in {"write", "close", "rename"}
                                     => part # Up!NoFile /\ Good(part)
<1> SUFFICES ASSUME "unnamed" \notin flaws', "failed" \notin flaws'
             PROVE  Promise'
  BY DEF WholeInTheEnd
<1>1. Promise
  BY Grows DEF WholeInTheEnd
<1>2. /\ part \in Up!Files \union {Up!NoFile} /\ final \in Up!Files \union {Up!NoFile}
      /\ Up!NoFile \notin Up!Files
  BY DEF FilesInv, Up!TypeOK, Up!NoFile, Up!Files, Uploaders
<1>3. CASE UNCHANGED upload
  BY <1>1, <1>3 DEF upload, Good, Sent
<1>4. ASSUME Up!Stop, \A p \in Goroutines : at[p].step = "idle"
      PROVE  Promise'
  <2>1. \A u \in Uploaders : up[u].at # "write"
    BY <1>4 DEF Busy, Up!Uploading, Goroutines
  <2> QED
    BY <1>1, <1>4, <2>1, StopFields DEF Good
<1>5. ASSUME NEW u \in Uploaders, Up!Begin(u), UNCHANGED <<disk, part, final>>,
             at[u].step # "upload"
      PROVE  Promise'
  <2>1. /\ Up!TypeOK /\ up[u].at \notin {"write", "close", "rename"}
    BY <1>5 DEF Busy, Up!Uploading, FilesInv
  <2>2. /\ up'[u].at = "stat" /\ \A v \in Uploaders \ {u} : up'[v] = up[v]
    BY <1>5, <2>1, BeginFields
  <2>3. \A f : Good(f) => Good(f)'
    BY <1>5, <2>1, <2>2 DEF Good, Sent
  <2> QED
    BY <1>1, <1>5, <2>2, <2>3
<1>6. ASSUME NEW u \in Uploaders, Up!Step(u, "done")
      PROVE  Promise'
  <2>1. "done" \in Outcomes
    BY DEF Outcomes
  <2>2. \A f \in Up!Files : Good(f) => \A g : g = f => Good(g)'
    BY <1>6, GoodStays
  <2>3. CASE final # Up!NoFile
    <3>1. final' = final
      BY <1>6, <2>1, <2>3, FileEffects
    <3> QED
      BY <1>1, <1>2, <2>2, <2>3, <3>1 DEF Good, Sent
  <2>4. CASE final = Up!NoFile /\ up[u].at = "rename"
    <3>1. Good(part) /\ part # Up!NoFile
      BY <1>1, <2>4
    <3>2. final' = part
      BY <1>6, <2>1, <2>4, <3>1, FileEffects, CallEffects DEF Up!Step, Up!Stat, Up!Create,
         Up!Write,
         Up!Close, Up!Rename, Up!Remove, Up!At, Up!Applied
    <3> QED
      BY <1>2, <2>2, <3>1, <3>2 DEF Good, Sent
  <2>5. CASE final = Up!NoFile /\ up[u].at \notin {"rename", "remove"}
    <3>1. final' = final
      BY <1>6, <2>1, <2>5, FileEffects
    <3>2. ASSUME NEW v \in Uploaders, up'[v].at \in {"write", "close", "rename"}
          PROVE  part' # Up!NoFile /\ Good(part)'
      <4>1. CASE up[u].at = "create"
        <5>1. part' = Up!Opened /\ Up!Opened \in Up!Files
          BY <1>6, <2>1, <4>1, OpenedIs DEF Up!Step, Up!Stat, Up!Create, Up!Write, Up!Close,
             Up!Rename, Up!Remove, Up!At, Up!Applied
        <5>2. up'[u].at = "write"
          BY <1>6, <4>1 DEF Up!Step, Up!Stat, Up!Create, Up!Write, Up!Close, Up!Rename,
             Up!Remove,
             Up!At, FilesInv, Up!TypeOK
        <5>3. up'[u].open = Up!Opened /\ up'[u].sent = 0
          BY <1>6, <2>1, <4>1, <5>2, CallEffects
        <5> QED
          BY <1>2, <5>1, <5>2, <5>3, WholeIs DEF Good, Sent
      <4>2. CASE up[u].at # "create"
        <5>1. part' = part
          BY <1>6, <2>1, <2>5, <4>2, FileEffects
        <5>2. \E w \in Uploaders : up[w].at \in {"write", "close", "rename"}
          BY <1>6, <2>1, <3>2, <4>2, CallEffects
        <5>3. part # Up!NoFile /\ Good(part)
          BY <1>1, <2>5, <5>2
        <5> QED
          BY <1>2, <2>2, <5>1, <5>3 DEF Good, Sent
      <4> QED
        BY <4>1, <4>2
    <3>3. \A v \in Uploaders : up'[v].at # "remove"
      <4>1. up'[u].at # "remove"
        BY <1>6, <2>5 DEF Up!Step, Up!Stat, Up!Create, Up!Write, Up!Close, Up!Rename, Up!Remove,
           Up!At, Up!AfterWrite, Up!Ends, Up!Goes, Up!Idle, FilesInv, Up!TypeOK
      <4> QED
        BY <1>1, <1>6, <2>1, <2>5, <4>1, CallEffects
    <3> QED
      BY <2>5, <3>1, <3>2, <3>3
  <2>6. ~(final = Up!NoFile /\ up[u].at = "remove")
    BY <1>1
  <2> QED
    BY <2>3, <2>4, <2>5, <2>6
<1> QED
  BY <1>3, <1>4, <1>5, <1>6, UploadSteps DEF OnRecord

-----------------------------------------------------------------------------
(* The step of a goroutine, and its URL.                                    *)

\* A goroutine is in its step for the upload until the call returns, which
\* says whether there is a URL; a message takes the URL of who inserts it.
LEMMA UrlSteps ==
    ASSUME IInv, Next
    PROVE  /\ \A u \in Uploaders :
                 at[u].step = "upload" /\ at'[u].step # "upload"
                    => up'[u].at \in {"url", "error"} \/ Up!Stop
           /\ \A p \in Goroutines : at'[p].url => at[p].url \/ (p \in Uploaders /\ up'[p].at = "url")
           /\ msg'.url => msg.url \/ \E p \in Goroutines : at[p].url
<1> DEFINE Keeps == \A u \in Uploaders : at[u].step = "upload" => at'[u].step = "upload"
           NoUrl == \A p \in Goroutines : at'[p].url => at[p].url
<1>1. /\ at \in [Goroutines -> [step : {"idle", "upload", "chat", "insert",
                                        "locate", "edit", "text", "tail"},
                                jid : Jids \union {"none"}, aka : SUBSET Jids, url : BOOLEAN]]
      /\ Uploaders \subseteq Goroutines /\ "live" \in Uploaders /\ "sync" \in Uploaders
  BY DEF IInv, Typed, Goroutines, Uploaders
<1>2. \A p \in Goroutines, s \in {"upload", "chat", "insert", "edit", "text", "tail", "locate"} :
          at[p].step # "upload" /\ (at' = at \/ Ends(p) \/ Goes(p, s)) => Keeps /\ NoUrl
  BY <1>1 DEF Ends, Goes, Idle
<1>3. msg'.url => msg.url \/ \E p \in Goroutines : at[p].url
  <2>1. \/ msg = NoRow
        \/ msg \in [jid : chats, url : BOOLEAN, has : SUBSET {"quotes", "location"},
                    status : IF Ours THEN Receipts \union {"sent"} ELSE {"received"},
                    body : {"old", "new"}, original : {"none", "old", "new"}]
    BY DEF IInv, Typed
  <2>2. ASSUME NEW p \in Goroutines, msg' = Inserted(p), msg'.url
        PROVE  msg.url \/ at[p].url
    BY <2>2 DEF Inserted
  <2>3. Rewritten.url = msg.url \/ msg = NoRow
    BY <2>1 DEF Rewritten
  <2>4. Db!Calling("live", "edit") => msg # NoRow
    BY DEF IInv, AtItsCall, EditKept, Db!Calling, Operation, Goroutines, Uploaders
  <2>5. \A s \in Receipts : Marked(s).url = msg.url
    BY <2>1 DEF Marked
  <2> QED
    BY <2>2, <2>3, <2>4, <2>5, MsgSteps
<1>4. CASE Learn \/ Migrate
  BY <1>3, <1>4 DEF Learn, Migrate
<1>5. CASE LiveBegin
  BY <1>1, <1>3, <1>5 DEF LiveBegin, Idle
<1>6. CASE OutBegin
  <2>1. \A u \in Uploaders : u # "out"
    BY DEF Uploaders
  <2> QED
    BY <1>1, <1>3, <1>6, <2>1 DEF OutBegin, Idle
<1>7. CASE EditBegin
  BY <1>1, <1>3, <1>7 DEF EditBegin, Idle
<1>8. ASSUME NEW j \in Jids, SyncBegin(j)
      PROVE  Keeps /\ NoUrl
  BY <1>1, <1>8 DEF SyncBegin, Idle
<1>9. CASE Restart
  BY <1>1, <1>3, <1>9 DEF Restart, Idle
<1>10. ASSUME NEW p \in Goroutines, Calls(p) \/ FallBack(p)
       PROVE  Keeps /\ NoUrl
  BY <1>10 DEF Calls, FallBack
<1>11. ASSUME NEW p \in Uploaders, NEW o \in Outcomes, Uploads(p, o)
       PROVE  /\ \A u \in Uploaders : at[u].step = "upload" /\ at'[u].step # "upload"
                                         => up'[u].at \in {"url", "error"}
              /\ \A q \in Goroutines : at'[q].url => at[q].url \/ (q = p /\ up'[p].at = "url")
  <2>1. CASE up'[p].at \in {"url", "error"}
    <3>1. \E step : at' = [at EXCEPT ![p] = [at[p] EXCEPT !.step = step, !.url = up'[p].at = "url"]]
      BY <1>11, <2>1 DEF Uploads
    <3> QED
      BY <1>1, <2>1, <3>1
  <2>2. CASE up'[p].at \notin {"url", "error"}
    BY <1>11, <2>2 DEF Uploads
  <2> QED
    BY <2>1, <2>2
<1>12. ASSUME NEW p \in Goroutines, NEW o \in Outcomes, UpsertChat(p, o)
       PROVE  Keeps /\ NoUrl
  <2>1. at[p].step # "upload" /\ (Ends(p) \/ Goes(p, "insert") \/ Goes(p, "upload"))
    BY <1>12 DEF UpsertChat
  <2> QED
    BY <1>2, <2>1
<1>13. ASSUME NEW p \in Goroutines, NEW o \in Outcomes, InsertMessage(p, o) \/ RecomputeTail(p, o)
       PROVE  Keeps /\ NoUrl
  <2>1. at[p].step # "upload"
    BY <1>13 DEF InsertMessage, RecomputeTail, Db!Calling, IInv, AtItsCall, Operation
  <2>2. at' = at \/ Ends(p) \/ Goes(p, "chat") \/ Goes(p, "tail")
    BY <1>13 DEF InsertMessage, RecomputeTail
  <2> QED
    BY <1>2, <2>1, <2>2
<1>14. ASSUME NEW o \in Outcomes, Locate(o) \/ ApplyEdit(o) \/ StoreEditAsRow(o)
       PROVE  Keeps /\ NoUrl
  <2>1. at["live"].step # "upload"
    BY <1>1, <1>14 DEF Locate, ApplyEdit, StoreEditAsRow, Db!Calling, IInv, AtItsCall, Operation
  <2>2. \/ at' = at \/ Ends("live") \/ Goes("live", "edit") \/ Goes("live", "locate")
        \/ Goes("live", "text") \/ Goes("live", "tail")
    BY <1>14 DEF Locate, ApplyEdit, StoreEditAsRow
  <2> QED
    BY <1>1, <1>2, <2>1, <2>2
<1>15. ASSUME NEW s \in Receipts, NEW o \in Outcomes, HandleReceipt(s, o)
       PROVE  Keeps /\ NoUrl
  BY <1>15 DEF HandleReceipt
<1> HIDE DEF Keeps, NoUrl
<1>16. Keeps /\ NoUrl => /\ \A u \in Uploaders : at[u].step = "upload" => at'[u].step = "upload"
                         /\ \A p \in Goroutines : at'[p].url => at[p].url
  BY DEF Keeps, NoUrl
<1> QED
  BY <1>3, <1>4, <1>5, <1>6, <1>7, <1>8, <1>9, <1>10, <1>11, <1>12, <1>13, <1>14, <1>15, <1>16
  DEF Next, Bridge

LEMMA BusyStep ==
    ASSUME IInv, UInv, Next
    PROVE  Busy'
<1> SUFFICES ASSUME NEW u \in Uploaders, Up!Uploading(u)'
             PROVE  at'[u].step = "upload"
  BY DEF Busy
<1>1. up'[u].at \notin {"idle", "url", "error"} /\ ~Up!Stop
  BY StopFields DEF Up!Uploading
<1>2. CASE Up!Uploading(u)
  BY <1>1, <1>2, UrlSteps DEF UInv, Busy
<1>3. CASE ~Up!Uploading(u)
  <2>1. ~UNCHANGED upload
    BY <1>1, <1>3 DEF Up!Uploading, upload
  <2>2. ASSUME NEW v \in Uploaders, NEW o \in Outcomes, Up!Step(v, o)
        PROVE  FALSE
    BY <1>1, <1>3, <2>2, CallEffects DEF Up!Uploading, UInv
  <2>3. PICK v \in Uploaders : Up!Begin(v) /\ at'[v].step = "upload"
    BY <1>1, <2>1, <2>2, UploadSteps
  <2>4. v = u
    BY <1>1, <1>3, <2>3, BeginFields DEF Up!Uploading, UInv, FilesInv
  <2> QED
    BY <2>3, <2>4
<1> QED
  BY <1>2, <1>3

\* The name, once given, stays.
LEMMA FinalStays ==
    ASSUME IInv, FilesInv, Next, final # Up!NoFile
    PROVE  final' = final
<1>1. ASSUME NEW u \in Uploaders, NEW o \in Outcomes, Up!Step(u, o)
      PROVE  final' = final
  BY <1>1, FileEffects
<1> QED
  BY <1>1, UploadSteps, StopFields DEF upload

LEMMA UrlMeansFinalStep ==
    ASSUME IInv, UInv, Next
    PROVE  UrlMeansFinal'
<1> SUFFICES ASSUME Clean', final' = Up!NoFile
             PROVE  /\ \A u \in Uploaders :
                          up'[u].at # "url" /\ ~(up'[u].at = "remove" /\ up'[u].then = "url")
                    /\ \A p \in Goroutines : ~at'[p].url
                    /\ ~msg'.url
  BY DEF UrlMeansFinal, Up!NoFile
<1>1. Clean /\ final = Up!NoFile /\ flaws \subseteq flaws'
  BY Grows, FinalStays DEF Clean, UInv
<1>2. /\ \A u \in Uploaders : up[u].at # "url" /\ ~(up[u].at = "remove" /\ up[u].then = "url")
      /\ \A p \in Goroutines : ~at[p].url
      /\ ~msg.url
  BY <1>1 DEF UInv, UrlMeansFinal
<1>3. \A u \in Uploaders : up'[u].at # "url" /\ ~(up'[u].at = "remove" /\ up'[u].then = "url")
  <2>1. CASE UNCHANGED upload
    BY <1>2, <2>1 DEF upload
  <2>2. CASE Up!Stop
    BY <2>2, StopFields
  <2>3. ASSUME NEW v \in Uploaders, Up!Begin(v)
        PROVE  \A u \in Uploaders : up'[u].at # "url" /\ ~(up'[u].at = "remove" /\ up'[u].then = "url")
    BY <1>2, <2>3, BeginFields DEF UInv, FilesInv
  <2>4. ASSUME NEW v \in Uploaders, NEW o \in Outcomes, Up!Step(v, o), OnRecord(v, o)
        PROVE  \A u \in Uploaders : up'[u].at # "url" /\ ~(up'[u].at = "remove" /\ up'[u].then = "url")
    <3>1. up'[v].at # "url"
      BY <1>1, <1>2, <2>4, CallEffects DEF UInv, Up!AlreadyThere
    <3>2. ASSUME up'[v].at = "remove", up'[v].then = "url"
          PROVE  FALSE
      <4>1. /\ up[v].at = "rename"
            /\ o = "done" => part = Up!NoFile \/ final' # Up!NoFile
        BY <2>4, <3>2, CallEffects DEF UInv
      <4>2. o = "done"
        BY <2>4, <4>1 DEF OnRecord, Clean
      <4>3. part # Up!NoFile
        BY <1>1, <4>1 DEF UInv, Alone, WholeInTheEnd, Clean
      <4> QED
        BY <4>1, <4>2, <4>3
    <3> QED
      BY <1>2, <2>4, <3>1, <3>2, CallEffects DEF UInv
  <2> QED
    BY <2>1, <2>2, <2>3, <2>4, UploadSteps
<1> QED
  BY <1>2, <1>3, UrlSteps

-----------------------------------------------------------------------------
(* The theorems.                                                            *)

LEMMA UploadsInitially == Init => UInv
<1> SUFFICES ASSUME Init PROVE UInv
  OBVIOUS
<1> USE DEF Init, Up!Init
<1>1. Up!TypeOK
  BY DEF Up!TypeOK, Up!Idle, Up!Files, Up!Chunks, Up!NoFile
<1>2. /\ \A u \in Uploaders : up[u].at = "idle" /\ up[u].open = Up!NoFile
      /\ \A p \in Goroutines : at[p].url = FALSE
      /\ final = Up!NoFile /\ msg.url = FALSE
  BY DEF Up!Idle, Idle, NoRow
<1>3. Writing /\ OneName /\ Busy
  BY <1>2 DEF Writing, OneName, Busy, Up!Uploading
<1>4. Alone /\ WholeInTheEnd /\ UrlMeansFinal
  BY <1>2 DEF Alone, WholeInTheEnd, UrlMeansFinal, Up!Uploading
<1> QED
  BY <1>1, <1>3, <1>4 DEF UInv, FilesInv

LEMMA UploadsStutter ==
    ASSUME UInv, UNCHANGED vars
    PROVE  UInv'
<1> USE DEF UInv, vars, upload, tables, history
<1>1. FilesInv' /\ Busy'
  BY DEF FilesInv, Up!TypeOK, Writing, OneName, Busy, Up!Uploading
<1>2. Alone' /\ WholeInTheEnd' /\ UrlMeansFinal'
  BY DEF Alone, WholeInTheEnd, UrlMeansFinal, Clean, Good, Sent, Up!Uploading
<1> QED
  BY <1>1, <1>2

\* What the upload relies on holds of every run.
THEOREM UploadInvariance == Spec => []UInv
<1>1. IInv /\ UInv /\ [Next]_vars => UInv'
  <2>1. ASSUME IInv, UInv, Next
        PROVE  UInv'
    BY <2>1, FilesStep, BusyStep, AloneStep, WholeStep, UrlMeansFinalStep DEF UInv
  <2> QED
    BY <2>1, UploadsStutter
<1> QED
  BY <1>1, UploadsInitially, Invariance, PTL DEF Spec

\* Every variable keeps its type.
THEOREM TypeCorrect == Spec => []TypeOK
<1>1. IInv /\ UInv => TypeOK
  BY DEF IInv, Typed, SchemaInv, UInv, FilesInv, TypeOK
<1> QED
  BY <1>1, Invariance, UploadInvariance, PTL

\* media.go:32: a message stored with a preview has the whole file behind its
\* URL once no upload is running: through failures and restarts while nobody
\* else uploads the same, and through uploads of the same while none fails.
THEOREM PreviewIsServed == Spec => []UrlIsServed
<1>1. UInv => UrlIsServed
  <2> SUFFICES ASSUME UInv, msg.url, Clean, \A u \in Uploaders : ~Up!Uploading(u)
               PROVE  final # Up!NoFile /\ disk[final] = Up!Whole
    BY DEF UrlIsServed, Clean
  <2>1. final # Up!NoFile
    BY DEF UInv, UrlMeansFinal
  <2>2. \A u \in Uploaders : up[u].at # "write"
    BY DEF Up!Uploading
  <2> QED
    BY <2>1, <2>2 DEF UInv, Alone, WholeInTheEnd, Good, Clean
<1> QED
  BY <1>1, UploadInvariance, PTL
=============================================================================
