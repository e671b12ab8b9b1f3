------------------------------ MODULE Uploads -------------------------------
(***************************************************************************)
(* Uploads of the same bytes to the shared host (Upload, UploadThumbnail): *)
(* they are written to one .part name, which is then renamed to the hash   *)
(* of the bytes.  The host's rename does not replace a file, and an open   *)
(* file stays the same file when its name is changed or removed.           *)
(* Whoever uses this module bounds the calls that fail.                    *)
(***************************************************************************)
EXTENDS Integers

CONSTANT Uploaders  \* the goroutines that upload, by name

VARIABLES
    disk,     \* what is written in each file
    part,     \* the file named <sha>.part
    final,    \* the file named <sha>
    up        \* per goroutine: the call it is at, and the file it has open

files == <<disk, part, final>>

\* Enough files for one that has the final name and one that each writes.
Files == Uploaders \union {"left"}
NoFile == "none"

\* The bytes, in the order in which they are sent.
Chunks == 1..2
Whole == Chunks

TypeOK ==
    /\ disk \in [Files -> SUBSET Chunks]
    /\ part \in Files \union {NoFile} /\ final \in Files \union {NoFile}
    /\ up \in [Uploaders ->
                  [at : {"idle", "stat", "create", "write", "close", "rename", "remove",
                         "url", "error"},
                   open : Files \union {NoFile}, sent : 0..2, then : {"url", "error"}]]

Idle == [at |-> "idle", open |-> NoFile, sent |-> 0, then |-> "url"]

\* An earlier process may have stopped while it wrote.
Init ==
    /\ part \in {NoFile, "left"} /\ final = NoFile
    /\ disk = [f \in Files |-> IF f = "left" THEN {1} ELSE {}]
    /\ up = [u \in Uploaders |-> Idle]

Applied(o) == o # "lost"

At(u, call) == up[u].at = call
Goes(u, call) == up' = [up EXCEPT ![u].at = call]
Ends(u, how) == up' = [up EXCEPT ![u] = [Idle EXCEPT !.at = how]]

\* The directory is there (ensureRemoteDir).
Begin(u) == up' = [up EXCEPT ![u] = [Idle EXCEPT !.at = "stat"]]

\* "Skip upload if it's already there": a file of the same size.
AlreadyThere == final # NoFile /\ 2 \in disk[final]

Stat(u, o) ==
    /\ At(u, "stat")
    /\ IF o = "done" /\ AlreadyThere THEN Ends(u, "url") ELSE Goes(u, "create")
    /\ UNCHANGED files

\* Create empties a file of that name, or makes one.
Opened == IF part # NoFile THEN part
          ELSE CHOOSE f \in Files : f # final /\ \A u \in Uploaders : up[u].open # f

Create(u, o) ==
    /\ At(u, "create")
    /\ IF Applied(o)
       THEN disk' = [disk EXCEPT ![Opened] = {}] /\ part' = Opened
       ELSE UNCHANGED <<disk, part>>
    /\ IF o = "done" THEN up' = [up EXCEPT ![u].at = "write", ![u].open = part']
                     ELSE Ends(u, "error")
    /\ UNCHANGED final

\* Faulty: what was written is renamed.
CloseAnyway(c, o) == IF c = 2 \/ o # "done" THEN "close" ELSE "write"

\* After an error the .part name is removed.
AfterWrite(c, o) == IF o # "done" THEN "remove" ELSE IF c = 2 THEN "close" ELSE "write"

\* One packet of the bytes.
Write(u, o) ==
    LET c == up[u].sent + 1 IN
    /\ At(u, "write")
    /\ disk' = IF Applied(o) THEN [disk EXCEPT ![up[u].open] = @ \union {c}] ELSE disk
    /\ up' = [up EXCEPT ![u].sent = c, ![u].at = AfterWrite(c, o),
                        ![u].then = IF o = "done" THEN "url" ELSE "error"]
    /\ UNCHANGED <<part, final>>

Close(u, o) ==
    /\ At(u, "close")
    /\ up' = IF o = "done" THEN [up EXCEPT ![u].at = "rename", ![u].open = NoFile]
             ELSE [up EXCEPT ![u].at = "remove", ![u].then = "error", ![u].open = NoFile]
    /\ UNCHANGED files

\* The .part name may be gone, or be another goroutine's by now.  An upload
\* whose rename fails returns its URL all the same.
Rename(u, o) ==
    LET renames == Applied(o) /\ part # NoFile /\ final = NoFile IN
    /\ At(u, "rename")
    /\ IF renames THEN final' = part /\ part' = NoFile ELSE UNCHANGED <<part, final>>
    /\ IF renames /\ o = "done" THEN Ends(u, "url") ELSE Goes(u, "remove")
    /\ UNCHANGED disk

Remove(u, o) ==
    /\ At(u, "remove")
    /\ part' = IF Applied(o) THEN NoFile ELSE part
    /\ Ends(u, up[u].then)
    /\ UNCHANGED <<disk, final>>

Step(u, o) == Stat(u, o) \/ Create(u, o) \/ Write(u, o) \/ Close(u, o)
              \/ Rename(u, o) \/ Remove(u, o)

\* The process ends; its open files are closed by the host.
Stop == up' = [u \in Uploaders |-> Idle] /\ UNCHANGED files

Uploading(u) == up[u].at \notin {"idle", "url", "error"}
=============================================================================
