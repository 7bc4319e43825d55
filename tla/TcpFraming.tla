----------------------------- MODULE TcpFraming -----------------------------
(***************************************************************************)
(* One connection to the command port: MyTCPHandler.handle of              *)
(* socket_server/protocol.py cuts the byte stream into frames and runs the *)
(* four-step file upload (datatypes 21, 22, 23, 24), every other datatype  *)
(* goes to on_data.  A frame is a length and a payload; while a file is    *)
(* awaited its payload is file content without a datatype.                 *)
(*                                                                         *)
(* The client is the documented one: it waits for each answer before its   *)
(* next request, but it may split a file over several frames, which the    *)
(* handler takes and does not answer.  TCP delivers the stream in pieces   *)
(* of any size.  The stream is a sequence of units: a length takes two     *)
(* (so that it can be split), everything else one.                         *)
(***************************************************************************)
EXTENDS Naturals, Sequences

CONSTANTS
  Paths,     \* files a client may upload
  Bytes,     \* what a byte of a file may be
  MaxSize    \* bytes in the longest file

ASSUME SizeAssumption == MaxSize \in Nat \ {0}

VARIABLES
  open,      \* the connection's handler runs
  why,       \* what ended it: "live" as long as nothing did
  wire,      \* units on the way to the server
  pending,   \* data_len: announced length of the current frame, 0 for none
  total,     \* datatotal: what came of it
  bin,       \* bin_recv_flag: file content is awaited
  filepath, length, content,  \* of the handler
  dropped,   \* a piece ran past the end of a frame: the whole was thrown away
  answers,   \* answers on the way to the client
  disk,      \* path -> what the file holds
  step,      \* last step of the upload that was answered
  waiting,   \* answer the client waits for, "none", or "sending" more content
  path, file, left  \* the upload: where to, what, how much is not yet sent

serverVars == <<open, why, pending, total, bin, filepath, length, content, dropped, disk>>
clientVars == <<step, waiting, path, file, left>>
vars == <<serverVars, wire, answers, clientVars>>

Byte(b)  == <<"byte", b>>
Marker   == <<"byte", "^$">>      \* the content that stands for an empty file
Type(d)  == <<"type", d>>
Header(n) == <<<<"len", n>>, <<"pad", 0>>>>
Framed(payload) == Header(Len(payload)) \o payload

\* What a path held before, and what a failed write leaves.
OldFile    == <<<<"old", 0>>>>
PartOfFile == <<<<"part", 0>>>>

Files == UNION {[1..n -> {Byte(b) : b \in Bytes}] : n \in 0..MaxSize}
\* An empty file is sent as the marker.
Content(f) == IF f = <<>> THEN <<Marker>> ELSE f

\* A command that do() knows, or one whose datatype it does not handle: 121, 122 and 123
\* are documented, but their branches are comments.
Commands == {"cmd", "unknown"}

\* Lengths that four bytes which are no length may spell: any, up to one that is longer
\* than a file with all its headers; a negative one does what zero does.
Garbage == 0..(3 * MaxSize + 1)

\* What the variables hold: less than a whole frame is kept between two reads.
TypeOK ==
  /\ open \in BOOLEAN
  /\ why \in {"live", "short", "overrun", "disk", "command", "client"}
  /\ pending \in Nat
  /\ Len(total) <= pending
  /\ pending = 0 => total = <<>>
  /\ bin \in BOOLEAN
  /\ filepath \in Paths \cup {"tmp"}
  /\ length \in 0..MaxSize
  /\ bin => Len(content) < length
  /\ DOMAIN disk = Paths
  /\ step \in {"none", "21", "22", "23"}
  /\ waiting \in {"none", "sending", "21", "22", "23", "24"} \cup Commands
  /\ path \in Paths \cup {"tmp"}
  /\ left \in Nat
  /\ dropped \in BOOLEAN

Init ==
  /\ open = TRUE /\ why = "live"
  /\ wire = <<>> /\ answers = <<>>
  /\ pending = 0 /\ total = <<>>
  /\ bin = FALSE /\ filepath = "tmp" /\ length = 0 /\ content = <<>>
  /\ disk = [p \in Paths |-> OldFile]
  /\ dropped = FALSE
  /\ step = "none" /\ waiting = "none" /\ path = "tmp" /\ file = <<>> /\ left = 0

-----------------------------------------------------------------------------
(* The client *)

Send(payload) ==
  /\ open
  /\ wire' = wire \o Framed(payload)
  /\ UNCHANGED <<serverVars, answers>>

SendCommand ==
  /\ waiting = "none" /\ step # "22"
  /\ \E c \in Commands :
       /\ Send(<<Type(c)>>)
       /\ waiting' = c
  /\ UNCHANGED <<step, path, file, left>>

SendPath ==
  /\ waiting = "none" /\ step # "22"
  /\ \E p \in Paths, f \in Files :
       /\ path' = p /\ file' = f /\ left' = Len(Content(f))
       /\ Send(<<Type("21"), <<"path", p>>>>)
  /\ waiting' = "21"
  /\ UNCHANGED step

SendSize ==
  /\ waiting = "none" /\ step = "21"
  /\ Send(<<Type("22"), <<"size", left>>>>)
  /\ waiting' = "22"
  /\ UNCHANGED <<step, path, file, left>>

\* Some or all of what is left of the file.
SendContent ==
  /\ (waiting = "none" /\ step = "22") \/ waiting = "sending"
  /\ \E n \in 1..left :
       LET from == Len(Content(file)) - left + 1 IN
         /\ Send(SubSeq(Content(file), from, from + n - 1))
         /\ left' = left - n
         /\ waiting' = IF n = left THEN "23" ELSE "sending"
  /\ UNCHANGED <<step, path, file>>

SendWrite ==
  /\ waiting = "none" /\ step = "23"
  /\ Send(<<Type("24")>>)
  /\ waiting' = "24"
  /\ UNCHANGED <<step, path, file, left>>

\* An answer that is not the one awaited is taken for it all the same.
Receive ==
  /\ answers # <<>>
  /\ answers' = Tail(answers)
  /\ waiting' = "none"
  /\ step' = CASE waiting \in {"21", "22", "23"} -> waiting
               [] waiting = "24" -> "none"
               [] OTHER -> step
  /\ UNCHANGED <<serverVars, wire, path, file, left>>

\* The client goes away, in the middle of whatever it was doing.  An answer being sent
\* fails then, on_data's also at its second try, and the handler ends at the next recv.
Leave ==
  /\ open
  /\ open' = FALSE /\ why' = "client"
  /\ UNCHANGED <<wire, pending, total, bin, filepath, length, content, dropped, disk, answers,
                 clientVars>>

\* A new connection: a handler of its own, the files are the same.
Reconnect ==
  /\ ~open
  /\ open' = TRUE /\ why' = "live"
  /\ wire' = <<>> /\ answers' = <<>>
  /\ pending' = 0 /\ total' = <<>>
  /\ bin' = FALSE /\ filepath' = "tmp" /\ length' = 0 /\ content' = <<>>
  /\ step' = "none" /\ waiting' = "none" /\ path' = "tmp" /\ file' = <<>> /\ left' = 0
  /\ dropped' = FALSE
  /\ UNCHANGED disk

-----------------------------------------------------------------------------
(* A whole frame *)

Hangup(reason) == open' = FALSE /\ why' = reason

StayOpen == UNCHANGED <<open, why>>

Reply(d) == answers' = Append(answers, d)

TakePath(data) ==
  /\ data[1] = Type("21") /\ Len(data) = 2
  /\ filepath' = data[2][2]
  /\ Reply("21")
  /\ StayOpen /\ UNCHANGED <<bin, length, content, disk>>

TakeSize(data) ==
  /\ data[1] = Type("22") /\ Len(data) = 2
  /\ length' = data[2][2] /\ content' = <<>> /\ bin' = TRUE
  /\ Reply("22")
  /\ StayOpen /\ UNCHANGED <<filepath, disk>>

\* Fault: every piece is answered.
TakeContentEagerly(data) ==
  /\ content' = content \o data
  /\ bin' = (Len(content') < length)
  /\ Reply("23") /\ StayOpen
  /\ UNCHANGED <<filepath, length, disk>>

\* Fault: the file is complete and content still awaited.
TakeContentAlways(data) ==
  /\ content' = content \o data
  /\ IF Len(content') > length THEN Hangup("overrun") ELSE StayOpen
  /\ IF Len(content') = length THEN Reply("23") ELSE UNCHANGED answers
  /\ UNCHANGED <<bin, filepath, length, disk>>

\* Complete, more to come, or too much, which ends the connection.
TakeContent(data) ==
  /\ content' = content \o data
  /\ bin' = (Len(content') < length)
  /\ IF Len(content') = length THEN Reply("23") ELSE UNCHANGED answers
  /\ IF Len(content') > length THEN Hangup("overrun") ELSE StayOpen
  /\ UNCHANGED <<filepath, length, disk>>

\* Fault: the marker is written.
WriteAsIs(data) ==
  /\ data = <<Type("24")>>
  /\ disk' = [p \in Paths |-> IF p = filepath THEN content ELSE disk[p]]
  /\ content' = <<>> /\ Reply("24") /\ StayOpen
  /\ UNCHANGED <<bin, filepath, length>>

\* The file is written in place; a disk error ends the connection and may leave
\* less than the whole.
WriteFile(data) ==
  /\ data = <<Type("24")>>
  /\ \/ /\ disk' = [p \in Paths |-> IF p # filepath THEN disk[p]
                                    ELSE IF content = <<Marker>> THEN <<>> ELSE content]
        /\ content' = <<>> /\ Reply("24") /\ StayOpen
     \/ /\ \E d \in {disk, [p \in Paths |-> IF p = filepath THEN PartOfFile ELSE disk[p]]} : disk' = d
        /\ Hangup("disk") /\ UNCHANGED <<content, answers>>
  /\ UNCHANGED <<bin, filepath, length>>

\* on_data answers, or raises, which ends the connection; for a datatype that nothing
\* handles it returns None, which sends nothing and keeps the connection.
RunCommand(data) ==
  /\ \/ data = <<Type("cmd")>> /\ Reply("cmd") /\ StayOpen
     \/ data = <<Type("cmd")>> /\ Hangup("command") /\ UNCHANGED answers
     \/ data = <<Type("unknown")>> /\ StayOpen /\ UNCHANGED answers
  /\ UNCHANGED <<bin, filepath, length, content, disk>>

\* Too short to hold a datatype: dropped.
TakeNothing(data) ==
  /\ data = <<>>
  /\ StayOpen /\ UNCHANGED <<bin, filepath, length, content, disk, answers>>

\* File content read as a datatype may be any command, or none and raise; that it may
\* spell a step of an upload is left out.
TakeGarbage(data) ==
  /\ data # <<>> /\ data[1][1] # "type"
  /\ \/ StayOpen /\ (UNCHANGED answers \/ Reply("garbage"))
     \/ Hangup("command") /\ UNCHANGED answers
  /\ UNCHANGED <<bin, filepath, length, content, disk>>

Dispatch(data) ==
  IF bin THEN TakeContent(data)
  ELSE \/ data # <<>> /\ (\/ TakePath(data) \/ TakeSize(data) \/ WriteFile(data)
                          \/ RunCommand(data) \/ TakeGarbage(data))
       \/ TakeNothing(data)

-----------------------------------------------------------------------------
(* recv *)

Keep == UNCHANGED <<open, why, bin, filepath, length, content, disk, answers>>

\* With t received of an announced n: go on, a whole frame, or more than one
\* frame's worth, all of which is dropped.
Frame(n, t) ==
  IF Len(t) < n THEN pending' = n /\ total' = t /\ Keep /\ UNCHANGED dropped
  ELSE /\ pending' = 0 /\ total' = <<>>
       /\ IF Len(t) = n THEN Dispatch(t) /\ UNCHANGED dropped ELSE Keep /\ dropped' = TRUE

\* The number in the first four bytes of a piece.
Announced(got) ==
  IF got[1][1] = "len" /\ got[2] = <<"pad", 0>> THEN {got[1][2]} ELSE Garbage

\* A piece of the stream.  The first piece of a frame has its length or ends the
\* connection.
Recv(k) ==
  /\ open /\ k <= Len(wire)
  /\ wire' = SubSeq(wire, k + 1, Len(wire))
  /\ LET got == SubSeq(wire, 1, k) IN
       IF pending # 0 THEN Frame(pending, total \o got)
       ELSE IF k < 2
       THEN /\ Hangup("short")
            /\ UNCHANGED <<pending, total, bin, filepath, length, content, dropped, disk, answers>>
       ELSE \E n \in Announced(got) : Frame(n, SubSeq(got, 3, k))
  /\ UNCHANGED clientVars

-----------------------------------------------------------------------------
ServerStep == \E k \in 1..Len(wire) : Recv(k)

Next ==
  \/ SendCommand \/ SendPath \/ SendSize \/ SendContent \/ SendWrite
  \/ Receive \/ Leave \/ Reconnect
  \/ ServerStep

Spec == Init /\ [][Next]_vars

\* Both ends of a connection read what arrives, and a client that began to send a
\* file goes on.
FairSpec ==
  Spec /\ WF_vars(ServerStep) /\ WF_vars(Receive) /\ WF_vars(waiting = "sending" /\ SendContent)

-----------------------------------------------------------------------------
(* Properties *)

\* However the stream is cut, every answer is the answer to the request the client waits
\* for: no frame is run twice, none is taken for another, and file content is never run as
\* a command.  But once the handler has thrown away a piece that ran on into another
\* frame it reads lengths where there are none, and anything may follow.
AnswersMatch == answers # <<>> => answers = <<waiting>> \/ dropped

\* An upload that is answered "24 ok" is on the disk, byte for byte, in however many
\* frames it was sent and wherever they were cut, if nothing was thrown away.  A file that
\* holds only the marker is taken for an empty one.
UploadIsFaithful ==
  answers = <<"24">> => disk[path] = file \/ file = <<Marker>> \/ dropped

\* A client gets its answer, unless the connection ends for a length that came in
\* two pieces, a disk error, a command that raises or its own leaving; unless it asked for
\* a datatype that nothing handles, which leaves it waiting on an open connection; or
\* unless frames sent without a pause were read as one: then they are thrown away and
\* both sides may wait for ever.
Answered ==
  waiting # "none" ~>
     \/ waiting \in {"none", "unknown"}
     \/ why \in {"short", "disk", "command", "client"}
     \/ dropped

=============================================================================
