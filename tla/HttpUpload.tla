----------------------------- MODULE HttpUpload -----------------------------
(***************************************************************************)
(* The file service of socket_server/http_file.py on port 9001, for one    *)
(* destination path: POST /files streams a multipart body into             *)
(* `<path>.part` and renames it over the path, GET /files?path= streams    *)
(* the file back.  Every request has a thread of its own and there is no   *)
(* lock: the file system is what the requests share, so it is modelled by  *)
(* names and inodes.  A name is NoInode when no file has it.               *)
(*                                                                         *)
(* A file is the sequence of its chunks and a chunk is known by the upload *)
(* that wrote it.  One step is one field header, one chunk written or      *)
(* read, or one system call on a name.                                     *)
(***************************************************************************)
EXTENDS Naturals, Sequences

CONSTANTS
  Uploads,        \* POST requests, each made once
  Gets,           \* GET requests, each made once
  Layouts,        \* orders of the fields a client may send
  MaxSize,        \* chunks in the longest upload
  Old, Hole, NoInode

\* "badpath" is a path that _normalize refuses, one with a null byte in it.
Fields == {"path", "badpath", "file", "other"}

\* Where a chunk can be: the file that was there first, what an upload created
\* for its body, and what it created when it copied to another disk.
Body == {<<u, "body">> : u \in Uploads}
Copy == {<<u, "copy">> : u \in Uploads}
Inodes == {Old} \cup Body \cup Copy

ASSUME LayoutsAssumption  == Layouts \subseteq Seq(Fields)
ASSUME SizeAssumption     == MaxSize \in Nat \ {0}
ASSUME SentinelAssumption == /\ Uploads \cap {Old, Hole, NoInode} = {}
                             /\ Old # Hole /\ Old # NoInode
                             /\ {Old, NoInode} \cap (Body \cup Copy) = {}

VARIABLES
  part,    \* inode named <path>.part
  dest,    \* inode named <path>
  temps,   \* uploads whose temporary file exists
  data,    \* inode -> chunks
  upc, layout, field, size, path, fh, at, made, answer,  \* per upload
  gpc, glen, gino, gbody,                                    \* per GET
  unflushed, \* uploads whose last bytes were dropped when their file was closed
  shared,    \* files that several uploads have had in hand at one time
  crashed    \* the server was restarted since the start

fsVars  == <<part, dest, temps, data>>
upVars  == <<upc, layout, field, size, path, fh, at, made, answer>>
getVars == <<gpc, glen, gino, gbody>>
vars    == <<fsVars, upVars, getVars, unflushed, shared, crashed>>

Chunk == Uploads \cup {Old, Hole}

\* What the variables hold.
TypeOK ==
  /\ {part, dest} \subseteq Inodes \cup {NoInode}
  /\ temps \subseteq Uploads
  /\ data \in [Inodes -> Seq(Chunk)]
  /\ upc \in [Uploads -> {"idle", "fields", "value", "publish", "copying", "done"}]
  /\ layout \in [Uploads -> Layouts \cup {<<>>}]
  /\ field \in [Uploads -> Nat]
  /\ size \in [Uploads -> 0..MaxSize]
  /\ path \in [Uploads -> {"none", "good", "bad"}]
  /\ fh \in [Uploads -> Inodes \cup {NoInode}]
  /\ at \in [Uploads -> Nat]
  /\ made \in [Uploads -> {"none", "part", "temp"}]
  /\ answer \in [Uploads -> {"none", "ok", "bad request", "server error", "hung up"}]
  /\ gpc \in [Gets -> {"idle", "open", "send", "done"}]
  /\ glen \in [Gets -> Nat]
  /\ gino \in [Gets -> Inodes \cup {NoInode}]
  /\ gbody \in [Gets -> Seq(Chunk)]
  /\ unflushed \subseteq Uploads
  /\ shared \subseteq Inodes
  /\ crashed \in BOOLEAN

Init ==
  /\ part = NoInode
  /\ dest \in {NoInode, Old}
  /\ temps = {}
  /\ data = [i \in Inodes |-> IF i = Old THEN <<Old>> ELSE <<>>]
  /\ upc = [u \in Uploads |-> "idle"]
  /\ layout = [u \in Uploads |-> <<>>]
  /\ field = [u \in Uploads |-> 1]
  /\ size = [u \in Uploads |-> 0]
  /\ path = [u \in Uploads |-> "none"]
  /\ fh = [u \in Uploads |-> NoInode]
  /\ at = [u \in Uploads |-> 0]
  /\ made = [u \in Uploads |-> "none"]
  /\ answer = [u \in Uploads |-> "none"]
  /\ gpc = [g \in Gets |-> "idle"]
  /\ glen = [g \in Gets |-> 0]
  /\ gino = [g \in Gets |-> NoInode]
  /\ gbody = [g \in Gets |-> <<>>]
  /\ unflushed = {}
  /\ shared = {}
  /\ crashed = FALSE

-----------------------------------------------------------------------------
(* parse_multipart_stream and the open_file callback of do_POST *)

Running(u) == upc[u] \notin {"idle", "done"}

PostBegin(u) ==
  /\ upc[u] = "idle"
  /\ \E l \in Layouts, n \in 1..MaxSize :
       layout' = [layout EXCEPT ![u] = l] /\ size' = [size EXCEPT ![u] = n]
  /\ upc' = [upc EXCEPT ![u] = "fields"]
  /\ UNCHANGED <<fsVars, field, path, fh, at, made, answer, getVars, unflushed, shared, crashed>>

Field(u, name) ==
  upc[u] = "fields" /\ field[u] <= Len(layout[u]) /\ layout[u][field[u]] = name

\* The last path field counts.
PathField(u) ==
  /\ \/ Field(u, "path") /\ path' = [path EXCEPT ![u] = "good"]
     \/ Field(u, "badpath") /\ path' = [path EXCEPT ![u] = "bad"]
  /\ field' = [field EXCEPT ![u] = @ + 1]
  /\ UNCHANGED <<fsVars, upc, layout, size, fh, at, made, answer, getVars, unflushed, shared, crashed>>

OtherField(u) ==
  /\ Field(u, "other")
  /\ field' = [field EXCEPT ![u] = @ + 1]
  /\ UNCHANGED <<fsVars, upc, layout, size, path, fh, at, made, answer, getVars, unflushed, shared, crashed>>

\* Fault: the destination itself is written.
OpenDest(u) ==
  /\ Field(u, "file") /\ fh[u] = NoInode /\ path[u] = "good"
  /\ LET i == IF dest = NoInode THEN <<u, "body">> ELSE dest IN
       /\ dest' = i
       /\ data' = [data EXCEPT ![i] = <<>>]
       /\ fh' = [fh EXCEPT ![u] = i]
  /\ upc' = [upc EXCEPT ![u] = "value"]
  /\ UNCHANGED <<part, temps, layout, field, size, path, at, made, answer, getVars, unflushed, shared, crashed>>

\* open(part, "wb"): the file named so, whoever made it, is emptied.  Nothing keeps
\* an upload from the file of another, nor from its name.
OpenPart(u) ==
  /\ Field(u, "file") /\ fh[u] = NoInode /\ path[u] = "good"
  /\ LET i == IF part = NoInode THEN <<u, "body">> ELSE part IN
       /\ part' = i
       /\ data' = [data EXCEPT ![i] = <<>>]
       /\ fh' = [fh EXCEPT ![u] = i]
       /\ shared' = IF \E w \in Uploads \ {u} : Running(w) /\ made[w] = "part"
                    THEN shared \cup {i} ELSE shared \ {i}
  /\ made' = [made EXCEPT ![u] = "part"]
  /\ upc' = [upc EXCEPT ![u] = "value"]
  /\ UNCHANGED <<dest, temps, layout, field, size, path, at, answer, getVars, unflushed, crashed>>

\* The path has not arrived: a temporary file with a name of its own.
OpenTemp(u) ==
  /\ Field(u, "file") /\ fh[u] = NoInode /\ path[u] = "none"
  /\ temps' = temps \cup {u}
  /\ fh' = [fh EXCEPT ![u] = <<u, "body">>]
  /\ made' = [made EXCEPT ![u] = "temp"]
  /\ upc' = [upc EXCEPT ![u] = "value"]
  /\ UNCHANGED <<part, dest, data, layout, field, size, path, at, answer, getVars, unflushed, shared, crashed>>

\* s with chunk c at position k; a gap left by a truncation reads as a hole.
WriteAt(s, k, c) ==
  [j \in 1..(IF k > Len(s) THEN k ELSE Len(s)) |->
     IF j = k THEN c ELSE IF j <= Len(s) THEN s[j] ELSE Hole]

\* The end of the file stays in the file object's buffer until it is closed.
Buffered(u) == at[u] > 0 /\ at[u] = size[u]

Flush(u) == data' = [data EXCEPT ![fh[u]] = WriteAt(@, size[u], u)]

WriteChunk(u) ==
  /\ upc[u] = "value" /\ at[u] < size[u]
  /\ data' = IF at[u] + 1 = size[u] THEN data
             ELSE [data EXCEPT ![fh[u]] = WriteAt(@, at[u] + 1, u)]
  /\ at' = [at EXCEPT ![u] = @ + 1]
  /\ UNCHANGED <<part, dest, temps, upc, layout, field, size, path, fh, made, answer,
                 getVars, unflushed, shared, crashed>>

ValueEnds(u) ==
  /\ upc[u] = "value" /\ at[u] = size[u]
  /\ upc' = [upc EXCEPT ![u] = "fields"]
  /\ field' = [field EXCEPT ![u] = @ + 1]
  /\ UNCHANGED <<fsVars, layout, size, path, fh, at, made, answer, getVars, unflushed, shared, crashed>>

-----------------------------------------------------------------------------
(* The rest of do_POST *)

Finish(u, code) ==
  /\ upc' = [upc EXCEPT ![u] = "done"]
  /\ answer' = [answer EXCEPT ![u] = code]
  /\ fh' = [fh EXCEPT ![u] = NoInode]

\* Fault: a failed upload cleans nothing up.
DiscardNothing(u) == UNCHANGED <<part, temps>>

\* _discard_upload unlinks by name, whichever inode has that name by now.
Discard(u) ==
  /\ part' = IF made[u] = "part" THEN NoInode ELSE part
  /\ temps' = IF made[u] = "temp" THEN temps \ {u} ELSE temps

\* The client hangs up or sends nonsense, the disk is full, or the path that came
\* before the file is a bad one.
PostFails(u) ==
  /\ upc[u] \in {"fields", "value"}
  /\ \/ UNCHANGED data
     \/ Buffered(u) /\ Flush(u)
  /\ Discard(u)
  /\ \E code \in {"bad request", "server error"} : Finish(u, code)
  /\ UNCHANGED <<dest, layout, field, size, path, at, made, getVars, unflushed, shared, crashed>>

\* The closing boundary: the handle is closed, and a disk that is full by then
\* goes unnoticed; without a path nothing is kept.
BodyEnds(u) ==
  /\ upc[u] = "fields" /\ field[u] > Len(layout[u])
  /\ \/ ~Buffered(u) /\ UNCHANGED <<data, unflushed>>
     \/ Buffered(u) /\ Flush(u) /\ UNCHANGED unflushed
     \/ Buffered(u) /\ unflushed' = unflushed \cup {u} /\ UNCHANGED data
  /\ IF path[u] # "none"
     THEN /\ upc' = [upc EXCEPT ![u] = "publish"]
          /\ fh' = [fh EXCEPT ![u] = NoInode]
          /\ UNCHANGED <<part, temps, answer>>
     ELSE Discard(u) /\ Finish(u, "bad request")
  /\ UNCHANGED <<dest, layout, field, size, path, at, made, getVars, shared, crashed>>

\* Fault: the rename's error is not noticed.
PublishUnchecked(u) ==
  /\ upc[u] = "publish" /\ made[u] = "part" /\ path[u] = "good"
  /\ \/ part # NoInode /\ dest' = part /\ part' = NoInode /\ UNCHANGED temps
     \/ Discard(u) /\ UNCHANGED dest
  /\ Finish(u, "ok")
  /\ UNCHANGED <<data, layout, field, size, path, at, made, getVars, unflushed, shared, crashed>>

\* os.replace(part, dest), which fails when someone else took the name away or
\* when the disk says so: what has the name is then unlinked.
PublishPart(u) ==
  /\ upc[u] = "publish" /\ made[u] = "part" /\ path[u] = "good"
  /\ \/ part # NoInode /\ dest' = part /\ part' = NoInode /\ Finish(u, "ok") /\ UNCHANGED temps
     \/ Discard(u) /\ Finish(u, "server error") /\ UNCHANGED dest
  /\ UNCHANGED <<data, layout, field, size, path, at, made, getVars, unflushed, shared, crashed>>

\* shutil.move on one disk is a rename.
PublishTemp(u) ==
  /\ upc[u] = "publish" /\ made[u] = "temp" /\ path[u] = "good"
  /\ \/ dest' = <<u, "body">> /\ temps' = temps \ {u} /\ Finish(u, "ok") /\ UNCHANGED part
     \/ Discard(u) /\ Finish(u, "server error") /\ UNCHANGED dest
  /\ UNCHANGED <<data, layout, field, size, path, at, made, getVars, unflushed, shared, crashed>>

\* Across disks it opens the destination, emptied or new, and copies into it.
CopyBegin(u) ==
  /\ upc[u] = "publish" /\ made[u] = "temp" /\ path[u] = "good"
  /\ LET i == IF dest = NoInode THEN <<u, "copy">> ELSE dest IN
       /\ dest' = i
       /\ data' = [data EXCEPT ![i] = <<>>]
       /\ fh' = [fh EXCEPT ![u] = i]
       /\ shared' = IF \E w \in Uploads \ {u} : fh[w] = i THEN shared \cup {i} ELSE shared
  /\ at' = [at EXCEPT ![u] = 0]
  /\ upc' = [upc EXCEPT ![u] = "copying"]
  /\ UNCHANGED <<part, temps, layout, field, size, path, made, answer, getVars, unflushed, crashed>>

CopyChunk(u) ==
  /\ upc[u] = "copying" /\ at[u] < Len(data[<<u, "body">>])
  /\ data' = [data EXCEPT ![fh[u]] = WriteAt(@, at[u] + 1, data[<<u, "body">>][at[u] + 1])]
  /\ at' = [at EXCEPT ![u] = @ + 1]
  /\ UNCHANGED <<part, dest, temps, upc, layout, field, size, path, fh, made, answer,
                 getVars, unflushed, shared, crashed>>

CopyEnds(u) ==
  /\ upc[u] = "copying"
  /\ temps' = temps \ {u}
  /\ Finish(u, IF at[u] = Len(data[<<u, "body">>]) THEN "ok" ELSE "server error")
  /\ UNCHANGED <<part, dest, data, layout, field, size, path, at, made, getVars, unflushed, shared, crashed>>

\* What no handler catches closes the connection without an answer and cleans
\* nothing up: _normalize of a bad path, a ValueError by then outside of the try,
\* and os.replace(None, dest), a TypeError, for a path and no file.
PublishRaises(u) ==
  /\ upc[u] = "publish" /\ (made[u] = "none" \/ path[u] = "bad")
  /\ Finish(u, "hung up")
  /\ UNCHANGED <<fsVars, layout, field, size, path, at, made, getVars, unflushed, shared, crashed>>

-----------------------------------------------------------------------------
(* do_GET *)

\* Fault: a missing file is announced with length -1.
GetStatMissing(g) ==
  /\ gpc[g] = "idle"
  /\ gpc' = [gpc EXCEPT ![g] = IF dest = NoInode THEN "done" ELSE "open"]
  /\ glen' = [glen EXCEPT ![g] = IF dest = NoInode THEN 0 - 1 ELSE Len(data[dest])]
  /\ UNCHANGED <<fsVars, upVars, gino, gbody, unflushed, shared, crashed>>

\* os.path.isfile and os.path.getsize.
GetStat(g) ==
  /\ gpc[g] = "idle"
  /\ IF dest = NoInode
     THEN gpc' = [gpc EXCEPT ![g] = "done"] /\ UNCHANGED glen
     ELSE /\ gpc' = [gpc EXCEPT ![g] = "open"]
          /\ glen' = [glen EXCEPT ![g] = Len(data[dest])]
  /\ UNCHANGED <<fsVars, upVars, gino, gbody, unflushed, shared, crashed>>

GetOpen(g) ==
  /\ gpc[g] = "open"
  /\ gino' = [gino EXCEPT ![g] = dest]
  /\ gpc' = [gpc EXCEPT ![g] = "send"]
  /\ UNCHANGED <<fsVars, upVars, glen, gbody, unflushed, shared, crashed>>

GetChunk(g) ==
  /\ gpc[g] = "send"
  /\ Len(gbody[g]) < glen[g] /\ Len(gbody[g]) < Len(data[gino[g]])
  /\ gbody' = [gbody EXCEPT ![g] = Append(@, data[gino[g]][Len(@) + 1])]
  /\ UNCHANGED <<fsVars, upVars, gpc, glen, gino, unflushed, shared, crashed>>

\* Everything that was announced is sent, the file ends early, or the client
\* hangs up.
GetEnd(g) ==
  /\ gpc[g] = "send"
  /\ gpc' = [gpc EXCEPT ![g] = "done"]
  /\ UNCHANGED <<fsVars, upVars, glen, gino, gbody, unflushed, shared, crashed>>

\* The server is restarted: requests are cut where they are, files stay.
Restart ==
  /\ crashed' = TRUE
  /\ upc' = [u \in Uploads |-> IF Running(u) THEN "done" ELSE upc[u]]
  /\ answer' = [u \in Uploads |-> IF Running(u) THEN "hung up" ELSE answer[u]]
  /\ fh' = [u \in Uploads |-> NoInode]
  /\ gpc' = [g \in Gets |-> IF gpc[g] = "idle" THEN "idle" ELSE "done"]
  /\ UNCHANGED <<fsVars, layout, field, size, path, at, made, glen, gino, gbody, unflushed, shared>>

-----------------------------------------------------------------------------
PostStep(u) ==
  \/ PathField(u) \/ OtherField(u) \/ OpenPart(u) \/ OpenTemp(u) \/ WriteChunk(u)
  \/ ValueEnds(u) \/ PostFails(u) \/ BodyEnds(u) \/ PublishPart(u) \/ PublishTemp(u)
  \/ CopyBegin(u) \/ CopyChunk(u) \/ CopyEnds(u) \/ PublishRaises(u)

Next ==
  \/ \E u \in Uploads : PostBegin(u) \/ PostStep(u)
  \/ \E g \in Gets : GetStat(g) \/ GetOpen(g) \/ GetChunk(g) \/ GetEnd(g)
  \/ Restart

Spec == Init /\ [][Next]_vars

-----------------------------------------------------------------------------
(* Properties *)

Whole(s) == s = <<Old>> \/ \E u \in Uploads : size[u] > 0 /\ s = [j \in 1..size[u] |-> u]

\* The path names what a copy from another disk has written so far, or has left
\* there when it was cut.
Torn(u) ==
  made[u] = "temp" /\ answer[u] # "ok" /\ data[dest] = [j \in 1..Len(data[dest]) |-> u]

\* What the path names is all of one upload, or the file that was there, unless
\* uploads that overlapped had that file in hand together.  Only a move across
\* disks, of a body whose file field came before its path, writes the destination
\* in place, and only a last flush that failed leaves it short.
DestIsWhole ==
  dest # NoInode =>
     \/ Whole(data[dest])
     \/ \E u \in Uploads : Torn(u)
     \/ \E u \in unflushed : data[dest] = [j \in 1..size[u] - 1 |-> u]
     \/ dest \in shared

\* "Written to <path>.part and renamed when complete, an interruption leaves no
\* half file", without the excuse of the last flush.
NoHalfFile == dest # NoInode => Whole(data[dest]) \/ \E u \in Uploads : Torn(u)

\* An upload whose file field came before a bad path.
Abandoned(u) == upc[u] = "done" /\ path[u] = "bad" /\ answer[u] = "hung up"

\* Once all requests are over, however they overlapped and whatever they took from
\* each other, a temporary file is left only if the server went down under an
\* upload, or by an upload with a bad path that came after its file.
NothingLeftBehind ==
  (\A u \in Uploads : ~Running(u)) /\ ~crashed =>
    /\ part # NoInode => \E u \in Uploads : made[u] = "part" /\ Abandoned(u)
    /\ \A u \in temps : Abandoned(u)

\* An upload that is answered ok leaves its own bytes, all that its file object got
\* rid of, under the path, unless it shared the file with another upload, or
\* another was renamed over its copy meanwhile.
OkIsPublished ==
  [][\A u \in Uploads : answer'[u] = "ok" /\ answer[u] # "ok" =>
       /\ dest' # NoInode
       /\ \/ data'[dest'] = [j \in 1..(IF u \in unflushed THEN size[u] - 1 ELSE size[u]) |-> u]
          \/ dest' \in shared
          \/ upc[u] = "copying" /\ dest # fh[u]]_vars

\* A download serves one file: whatever is uploaded meanwhile, the bytes sent are
\* the beginning of one version, never a mixture, unless a move across disks
\* rewrote the file in place or uploads that overlapped shared it.
GetIsOneVersion ==
  \A g \in Gets : \A j, k \in 1..Len(gbody[g]) :
     \/ gbody[g][j] = gbody[g][k]
     \/ \E u \in Uploads : made[u] = "temp" /\ u \in {gbody[g][j], gbody[g][k]}
     \/ gino[g] \in shared

=============================================================================
