----------------------------- MODULE CaptureChild -----------------------------
(***************************************************************************)
(* One capture process of socket_server/capture.py from the inside: the    *)
(* packet socket with its queue in the kernel, the receive thread          *)
(* (AFPacketCapture._recv_loop) and the main thread                        *)
(* (_capture_process_main), which watches, stops and sorts.  It implements *)
(* Recorder.  CaptureRegistry has the same process from the outside.       *)
(*                                                                         *)
(* A frame is its place on the wire, its timestamp and the clock that      *)
(* stamped it; VLAN tags and record headers are left out, and the file     *)
(* does not tell the clock.  Every frame has its own clock: the            *)
(* interface's, if hardware stamps were asked for and it gave one, else    *)
(* the system's, if the kernel gave one, else the monotonic one, which     *)
(* _decode_ts_ns reads itself.  The three need not agree.                  *)
(***************************************************************************)
EXTENDS Naturals, Sequences, FiniteSets

CONSTANTS
  MaxFrames,    \* bound on the frames sent on the wire
  QueueMax,     \* room in the socket's receive queue
  HwAhead,      \* how far the interface's clock is ahead of the monotonic one
  SwAhead       \* how far the system's clock is

ASSUME FramesAssumption == MaxFrames \in Nat /\ QueueMax \in Nat \ {0}
ASSUME ClocksAssumption == HwAhead \in Nat /\ SwAhead \in Nat

VARIABLES
  main,     \* where the main thread stands
  recv,     \* where the receive thread stands
  stopEvt,  \* stop_evt, set by the parent
  stopped,  \* cap._stopped, set by cap.stop()
  fault,    \* what befell the capture: the interface went down, the disk filled
  mode,     \* the stamps asked of the kernel: hardware and software, or software alone
  single,   \* the interface delivers in wire order: the single-queue set-up worked
  sent,     \* frames sent on the wire
  flight,   \* those of them in the interface's queues
  queue,    \* the socket's receive queue
  taken,    \* frames that entered it
  due,      \* those of them that had when stop_evt was set
  buffer,   \* written, not flushed
  disk,     \* what is in the file
  snap      \* what the sort read

vars == <<main, recv, stopEvt, stopped, fault, mode, single, sent, flight, queue, taken,
          due, buffer, disk, snap>>
wireVars == <<mode, single, sent, flight>>

Absent == 0
Clock == {"hw", "sw", "mono"}
Frame == [at : 1..MaxFrames, clock : Clock, ts : Nat]

Running == {"boot", "probe", "watch", "join", "close", "read", "write", "swap"}
Exited  == {"exit0", "exit1", "failed", "killed"}

\* What the variables hold: a queue within its room, frames taken that were sent.
TypeOK ==
  /\ main \in Running \cup Exited
  /\ recv \in {"none", "check", "recv", "drain", "ended"}
  /\ fault \in {"none", "net", "disk"}
  /\ stopEvt \in BOOLEAN /\ stopped \in BOOLEAN /\ single \in BOOLEAN
  /\ mode \in {"hw", "sw"}
  /\ sent \in 0..MaxFrames
  /\ flight \subseteq 1..sent
  /\ queue \in Seq(Frame) /\ Len(queue) <= QueueMax
  /\ taken \subseteq 1..sent /\ due \subseteq taken
  /\ buffer \in Seq(Frame) /\ disk \in Seq(Frame) /\ snap \in Seq(Frame)

Init ==
  /\ main = "boot" /\ recv = "none"
  /\ stopEvt = FALSE /\ stopped = FALSE /\ fault = "none"
  /\ mode \in {"hw", "sw"} /\ single \in BOOLEAN
  /\ sent = 0 /\ flight = {}
  /\ queue = <<>> /\ taken = {} /\ due = {}
  /\ buffer = <<>> /\ disk = <<>> /\ snap = <<>>

-----------------------------------------------------------------------------
(* The wire and the kernel *)

Bound == main \in {"probe", "watch", "join", "close"}

Transmit ==
  /\ sent < MaxFrames
  /\ sent' = sent + 1
  /\ flight' = flight \cup {sent + 1}
  /\ UNCHANGED <<main, recv, stopEvt, stopped, fault, mode, single, queue, taken, due, buffer, disk, snap>>

\* What _decode_ts_ns can find with a frame: a hardware stamp, of the frame's turn
\* on the wire; a software one, of its turn at delivery; or none.
Stamp(w) ==
  {[at |-> w, clock |-> "sw", ts |-> SwAhead + Cardinality(taken) + 1],
   [at |-> w, clock |-> "mono", ts |-> Absent]}
    \cup IF mode = "hw" THEN {[at |-> w, clock |-> "hw", ts |-> HwAhead + w]} ELSE {}

\* Several receive queues deliver in any order.
Deliver(w) ==
  /\ w \in flight /\ single => \A x \in flight : w <= x
  /\ flight' = flight \ {w}
  /\ IF Bound /\ Len(queue) < QueueMax
     THEN /\ \E f \in Stamp(w) : queue' = Append(queue, f)
          /\ taken' = taken \cup {w}
     ELSE UNCHANGED <<queue, taken>>
  /\ UNCHANGED <<main, recv, stopEvt, stopped, fault, mode, single, sent, due, buffer, disk, snap>>

\* The parent sets stop_evt, perhaps before the child looks at it.
Stop ==
  /\ ~stopEvt
  /\ stopEvt' = TRUE
  /\ due' = IF main \in Running \ {"boot", "probe"} THEN taken ELSE due
  /\ UNCHANGED <<main, recv, stopped, fault, wireVars, queue, taken, buffer, disk, snap>>

-----------------------------------------------------------------------------
(* The receive thread *)

RecvUnchanged == UNCHANGED <<main, stopEvt, stopped, wireVars, taken, due, snap>>

\* Fault: a thread that is told to stop leaves what is queued.
CheckStopped ==
  /\ recv = "check"
  /\ recv' = IF stopped THEN "ended" ELSE "recv"
  /\ RecvUnchanged /\ UNCHANGED <<fault, queue, buffer, disk>>

Check ==
  /\ recv = "check"
  /\ recv' = IF stopped THEN "drain" ELSE "recv"
  /\ RecvUnchanged /\ UNCHANGED <<fault, queue, buffer, disk>>

\* _decode_ts_ns: the monotonic clock, now, for a frame without a stamp.
Decoded(f) == IF f.ts = Absent THEN [f EXCEPT !.ts = Len(buffer) + Len(disk) + 1] ELSE f

\* A frame is read and written; the write may flush what is buffered.
ReadFrame ==
  /\ recv \in {"recv", "drain"} /\ queue # <<>>
  /\ queue' = Tail(queue)
  /\ LET b == Append(buffer, Decoded(Head(queue))) IN
       \/ buffer' = b /\ UNCHANGED disk
       \/ buffer' = <<>> /\ disk' = disk \o b
  /\ recv' = IF recv = "recv" THEN "check" ELSE "drain"
  /\ RecvUnchanged /\ UNCHANGED fault

\* No frame for a second: the loop looks at _stopped again, the drain is over.
ReadTimesOut ==
  /\ recv \in {"recv", "drain"} /\ queue = <<>>
  /\ recv' = IF recv = "recv" THEN "check" ELSE "ended"
  /\ RecvUnchanged /\ UNCHANGED <<fault, queue, buffer, disk>>

\* ENETDOWN or ENODEV.
NetDown ==
  /\ recv \in {"recv", "drain"}
  /\ recv' = "ended" /\ fault' = "net"
  /\ RecvUnchanged /\ UNCHANGED <<queue, buffer, disk>>

\* ENOSPC.  The loop keeps the exception, the drain drops it; neither tells.
WriteFails ==
  /\ recv \in {"recv", "drain"} /\ queue # <<>>
  /\ queue' = Tail(queue)
  /\ recv' = "ended" /\ fault' = "disk"
  /\ RecvUnchanged /\ UNCHANGED <<buffer, disk>>

-----------------------------------------------------------------------------
(* The main thread *)

MainUnchanged == UNCHANGED <<stopEvt, wireVars, taken, due>>

\* cap.start(): socket, filter, bind, file, thread.
Start ==
  /\ main = "boot"
  /\ main' = "probe" /\ recv' = "check"
  /\ MainUnchanged /\ UNCHANGED <<fault, stopped, queue, buffer, disk, snap>>

StartFails ==
  /\ main = "boot"
  /\ main' = "failed"
  /\ MainUnchanged /\ UNCHANGED <<recv, fault, stopped, queue, buffer, disk, snap>>

\* Half a second later the thread is looked at: ready, or cap.stop() and error.
Probe ==
  /\ main = "probe"
  /\ IF recv = "ended"
     THEN main' = "failed" /\ stopped' = TRUE /\ disk' = disk \o buffer /\ buffer' = <<>>
     ELSE main' = "watch" /\ UNCHANGED <<stopped, disk, buffer>>
  /\ MainUnchanged /\ UNCHANGED <<recv, fault, queue, snap>>

\* stop_evt is set, or the thread is found dead: cap.stop() begins.
Watch ==
  /\ main = "watch"
  /\ stopEvt \/ recv = "ended"
  /\ main' = "join" /\ stopped' = TRUE
  /\ MainUnchanged /\ UNCHANGED <<recv, fault, queue, buffer, disk, snap>>

Joined ==
  /\ main = "join" /\ recv = "ended"
  /\ main' = "close"
  /\ MainUnchanged /\ UNCHANGED <<recv, fault, stopped, queue, buffer, disk, snap>>

\* Fault: the result of cap.stop() is ignored and the file sorted.
JoinIgnored ==
  /\ main = "join" /\ recv # "ended"
  /\ main' = "read"
  /\ MainUnchanged /\ UNCHANGED <<recv, fault, stopped, queue, buffer, disk, snap>>

\* Fault: the join has no time limit.
JoinForever == main = "join" /\ FALSE /\ UNCHANGED vars

\* Ten seconds: the file is neither flushed nor sorted, the exit code is 1, and
\* what was buffered goes with the process.
JoinTimesOut ==
  /\ main = "join" /\ recv # "ended"
  /\ main' = "exit1"
  /\ buffer' = <<>>
  /\ MainUnchanged /\ UNCHANGED <<recv, fault, stopped, queue, disk, snap>>

\* Socket and file are closed; a flush that fails is dropped.
Close ==
  /\ main = "close"
  /\ main' = "read"
  /\ queue' = <<>> /\ buffer' = <<>>
  /\ \/ disk' = disk \o buffer /\ UNCHANGED fault
     \/ buffer # <<>> /\ fault' = "disk" /\ UNCHANGED disk
  /\ MainUnchanged /\ UNCHANGED <<recv, stopped, snap>>

\* The order of the sort: by timestamp, records of one timestamp as they lie in the file.
Before(s, i, j) == s[i].ts < s[j].ts \/ (s[i].ts = s[j].ts /\ i < j)

\* How many records go before the one at i.
Rank(s, i) == Cardinality({j \in DOMAIN s : Before(s, j, i)})

Sorted(s) == [k \in DOMAIN s |-> s[CHOOSE i \in DOMAIN s : Rank(s, i) = k - 1]]

SortRead ==
  /\ main = "read"
  /\ snap' = disk
  /\ main' = "write"
  /\ MainUnchanged /\ UNCHANGED <<recv, fault, stopped, queue, buffer, disk>>

\* Fault: the file itself is opened for writing.
SortInPlace ==
  /\ main = "write"
  /\ main' = "swap"
  /\ disk' = <<>>
  /\ snap' = Sorted(snap)
  /\ MainUnchanged /\ UNCHANGED <<recv, fault, stopped, queue, buffer>>

\* Fault: the records are written as they were read.
SortNothing ==
  /\ main = "write"
  /\ main' = "swap"
  /\ MainUnchanged /\ UNCHANGED <<recv, fault, stopped, queue, buffer, disk, snap>>

\* `path`.sorted is written.
SortWrite ==
  /\ main = "write"
  /\ main' = "swap"
  /\ snap' = Sorted(snap)
  /\ MainUnchanged /\ UNCHANGED <<recv, fault, stopped, queue, buffer, disk>>

SortSwap ==
  /\ main = "swap"
  /\ main' = "exit0"
  /\ disk' = snap
  /\ MainUnchanged /\ UNCHANGED <<recv, fault, stopped, queue, buffer, snap>>

SortFails ==
  /\ main \in {"read", "write", "swap"}
  /\ main' = "exit1"
  /\ MainUnchanged /\ UNCHANGED <<recv, fault, stopped, queue, buffer, disk, snap>>

\* SIGTERM from the parent, or worse.
Killed ==
  /\ main \in Running
  /\ main' = "killed"
  /\ buffer' = <<>>
  /\ MainUnchanged /\ UNCHANGED <<recv, fault, stopped, queue, disk, snap>>

-----------------------------------------------------------------------------
KernelStep == Transmit \/ \E w \in flight : Deliver(w)

RecvStep ==
  /\ main \in Running
  /\ Check \/ ReadFrame \/ ReadTimesOut \/ NetDown \/ WriteFails

MainStep ==
  \/ Start \/ StartFails \/ Probe \/ Watch \/ Joined \/ JoinTimesOut \/ Close
  \/ SortRead \/ SortWrite \/ SortSwap \/ SortFails

\* A finished process is no deadlock.
Finished == main \in Exited /\ stopEvt /\ sent = MaxFrames /\ flight = {} /\ UNCHANGED vars

Next == KernelStep \/ Stop \/ RecvStep \/ MainStep \/ Killed \/ Finished

Spec == Init /\ [][Next]_vars

\* The main thread is scheduled; nothing is assumed of the receive thread, which
\* a busy interface keeps in its drain.
FairSpec == Spec /\ WF_vars(MainStep)

-----------------------------------------------------------------------------
(* Properties *)

Places(s) == {s[i].at : i \in DOMAIN s}

\* A capture that exits with zero has in its file every frame the kernel had
\* taken when it was told to stop, whatever is still queued then; only an
\* interface that goes down or a full disk is an excuse.
ExitZeroIsComplete == main = "exit0" /\ fault = "none" => due \subseteq Places(disk)

\* "A non-zero exit code tells the parent that this pcap may be incomplete": zero
\* is left to captures whose file is complete, as far as the interface was there.
ExitCodeTells == main = "exit0" /\ fault # "net" => due \subseteq Places(disk)

\* "In wire order": whatever clocks are mixed in a file, its frames of one clock
\* stand in the order of the wire, those of the interface's clock always, those of
\* another if the single receive queue was set up.  Frames of different clocks are
\* sorted by what those clocks said, which need not be that order.
FileInWireOrder ==
  main = "exit0" =>
    \A i, j \in DOMAIN disk :
      /\ i < j /\ disk[i].clock = disk[j].clock
      /\ disk[i].clock = "hw" \/ single
      => disk[i].at < disk[j].at

\* Sorting never takes a frame away: wherever it fails or is killed, the file has
\* all the records it had when it was closed.
SortKeepsFrames ==
  [][ (main \in {"read", "write", "swap"})
      => (Len(disk') = Len(disk) /\ Places(disk') = Places(disk)) ]_vars

\* A capture that is told to stop ends, even if its receive thread never does.
StopEnds == stopEvt ~> main \in Exited

-----------------------------------------------------------------------------
(* Refinement *)

Phase ==
  CASE main \in {"boot", "probe"} -> "new"
    [] main \in Running \ {"boot", "probe"} -> IF stopEvt THEN "stopping" ELSE "on"
    [] main = "exit0" -> "kept"
    [] OTHER -> "lost"

R == INSTANCE Recorder WITH
       Place <- 1..MaxFrames, phase <- Phase, got <- taken, broken <- fault # "none",
       file <- IF main = "exit0" THEN disk ELSE <<>>

\* The process keeps the promise of Recorder, all of it.
ImplementsRecorder == R!Spec

=============================================================================
