--------------------------- MODULE CaptureRegistry ---------------------------
(***************************************************************************)
(* The packet-capture service of socket_server/capture.py as its callers   *)
(* see it: tcpdump_start (datatype 5), tcpdump_stop (datatype 6) and       *)
(* tcpdump_isrun, which no datatype reaches, run by the handler threads of *)
(* a ThreadingTCPServer over the shared dictionary _captures: path ->      *)
(* (process, stop event).  A capture is a forked child process that        *)
(* records frames into the file `path` until it is told to stop, then      *)
(* sorts that file.                                                        *)
(*                                                                         *)
(* A handler thread is a program counter; a step is what the code does     *)
(* between two points at which another thread or a child can act: one      *)
(* `with _captures_lock`, one file operation, one fork, one wait.  Waits   *)
(* with a time limit end either because what they wait for happened or by  *)
(* the limit, at any time: the model keeps no clock.                       *)
(***************************************************************************)
EXTENDS Naturals

CONSTANTS
  Threads,       \* handler threads, one per TCP connection with a call running
  Paths,         \* pcap paths, the keys of _captures
  Procs,         \* child processes that may ever be forked (bounds the model)
  NoProc,        \* Python's None for an entry
  NoPath,        \* the path of a process that was not forked yet
  SerialPerPath  \* TRUE: clients overlap no two start/stop calls on one path

ASSUME NoProcAssumption == NoProc \notin Procs
ASSUME NoPathAssumption == NoPath \notin Paths
ASSUME SerialAssumption == SerialPerPath \in BOOLEAN

VARIABLES
  captures,  \* _captures: path -> child or NoProc
  pc,        \* where each handler thread stands
  op,        \* the call it runs
  arg,       \* that call's path
  entry,     \* local `old` / `entry`: the child read from _captures
  mine,      \* local `proc`: the child this tcpdump_start forked
  res,       \* the answer about to be sent
  child,     \* state of each child process
  home,      \* the path a child was forked for
  stopEvt,   \* children whose stop_evt is set
  term,      \* children with a SIGTERM pending
  pipe,      \* children whose ready message is in their pipe
  exists,    \* paths that name a file
  named,     \* path -> children holding open the inode the path names
  content,   \* path -> children that recorded into the named file
  snap,      \* child -> what its sort read from the file
  lossy,     \* children that lost frames they had, or should have, recorded
  faulty     \* those that lost them to a disk or interface error that the code lets pass

threadVars == <<pc, op, arg, entry, mine, res>>
childVars  == <<child, home, stopEvt, term, pipe>>
lossVars   == <<lossy, faulty>>
fileVars   == <<exists, named, content, snap, lossVars>>
vars       == <<captures, threadVars, childVars, fileVars>>

Labels == {"idle", "s_remove", "s_get", "s_pop", "s_spawn", "s_wait",
           "s_register", "s_abort", "e_check", "e_join", "e_killed",
           "t_get", "t_pop", "i_get", "i_alive", "done"}
Ops    == {"none", "start", "stop", "isrun"}

\* The life of a child: single-queue set-up and cap.start(), half a second of
\* probation, recording, receive thread gone but not noticed yet, cap.stop(),
\* the two halves of the sort, and dead with exit code zero or another.
Alive  == {"booting", "opened", "ready", "deaf", "closing", "reading", "sorting"}
Dead   == {"exit0", "exit1"}

\* What the variables hold.
TypeOK ==
  /\ captures \in [Paths -> Procs \cup {NoProc}]
  /\ pc \in [Threads -> Labels]
  /\ op \in [Threads -> Ops]
  /\ arg \in [Threads -> Paths \cup {NoPath}]
  /\ entry \in [Threads -> Procs \cup {NoProc}]
  /\ mine \in [Threads -> Procs \cup {NoProc}]
  /\ res \in [Threads -> BOOLEAN]
  /\ child \in [Procs -> {"unborn"} \cup Alive \cup Dead]
  /\ home \in [Procs -> Paths \cup {NoPath}]
  /\ stopEvt \in SUBSET Procs
  /\ term \in SUBSET Procs
  /\ pipe \in SUBSET Procs
  /\ exists \in SUBSET Paths
  /\ named \in [Paths -> SUBSET Procs]
  /\ content \in [Paths -> SUBSET Procs]
  /\ snap \in [Procs -> SUBSET Procs]
  /\ lossy \in SUBSET Procs /\ faulty \in SUBSET lossy

Init ==
  /\ captures = [q \in Paths |-> NoProc]
  /\ pc = [t \in Threads |-> "idle"]
  /\ op = [t \in Threads |-> "none"]
  /\ arg = [t \in Threads |-> NoPath]
  /\ entry = [t \in Threads |-> NoProc]
  /\ mine = [t \in Threads |-> NoProc]
  /\ res = [t \in Threads |-> FALSE]
  /\ child = [p \in Procs |-> "unborn"]
  /\ home = [p \in Procs |-> NoPath]
  /\ stopEvt = {}
  /\ term = {}
  /\ pipe = {}
  /\ exists = {}
  /\ named = [q \in Paths |-> {}]
  /\ content = [q \in Paths |-> {}]
  /\ snap = [p \in Procs |-> {}]
  /\ lossy = {} /\ faulty = {}

-----------------------------------------------------------------------------
(* Calls and answers *)

Goto(t, label) == pc' = [pc EXCEPT ![t] = label]

Answer(t, value) ==
  /\ Goto(t, "done")
  /\ res' = [res EXCEPT ![t] = value]

\* A start or stop call on path q that has not been answered.
Busy(t, q) == pc[t] # "idle" /\ op[t] \in {"start", "stop"} /\ arg[t] = q

Begin(t, o, q, label) ==
  /\ pc[t] = "idle"
  /\ o \in {"start", "stop"} /\ SerialPerPath => \A u \in Threads : ~Busy(u, q)
  /\ op' = [op EXCEPT ![t] = o]
  /\ arg' = [arg EXCEPT ![t] = q]
  /\ Goto(t, label)
  /\ UNCHANGED <<captures, entry, mine, res, childVars, fileVars>>

BeginStart(t, q) == Begin(t, "start", q, "s_remove")
BeginStop(t, q)  == Begin(t, "stop", q, "t_get")
BeginIsrun(t, q) == Begin(t, "isrun", q, "i_get")

\* The answer goes out and the handler's locals with it.
Reply(t) ==
  /\ pc[t] = "done"
  /\ Goto(t, "idle")
  /\ op' = [op EXCEPT ![t] = "none"]
  /\ arg' = [arg EXCEPT ![t] = NoPath]
  /\ entry' = [entry EXCEPT ![t] = NoProc]
  /\ mine' = [mine EXCEPT ![t] = NoProc]
  /\ res' = [res EXCEPT ![t] = FALSE]
  /\ UNCHANGED <<captures, childVars, fileVars>>

-----------------------------------------------------------------------------
(* tcpdump_start *)

\* No interface given and no default route: nothing was touched.
StartNoRoute(t) ==
  /\ pc[t] = "s_remove"
  /\ Answer(t, FALSE)
  /\ UNCHANGED <<captures, op, arg, entry, mine, childVars, fileVars>>

\* The old file goes first.  A child still writing it keeps an unnamed inode.
\* A failed removal is only logged.
StartRemove(t) ==
  /\ pc[t] = "s_remove"
  /\ Goto(t, "s_get")
  /\ \/ /\ exists' = exists \ {arg[t]}
        /\ named' = [named EXCEPT ![arg[t]] = {}]
        /\ content' = [content EXCEPT ![arg[t]] = {}]
     \/ arg[t] \in exists /\ UNCHANGED <<exists, named, content>>
  /\ UNCHANGED <<captures, op, arg, entry, mine, res, childVars, snap, lossVars>>

\* Fault: the old capture is not looked for.
StartIgnoresOld(t) ==
  /\ pc[t] = "s_get"
  /\ Goto(t, "s_spawn")
  /\ UNCHANGED <<captures, op, arg, entry, mine, res, childVars, fileVars>>

StartGet(t) ==
  /\ pc[t] = "s_get"
  /\ entry' = [entry EXCEPT ![t] = captures[arg[t]]]
  /\ Goto(t, IF captures[arg[t]] = NoProc THEN "s_spawn" ELSE "e_check")
  /\ UNCHANGED <<captures, op, arg, mine, res, childVars, fileVars>>

\* Whatever stopping the old capture came to, its entry is dropped.
StartPop(t) ==
  /\ pc[t] = "s_pop"
  /\ captures' = [captures EXCEPT ![arg[t]] = NoProc]
  /\ entry' = [entry EXCEPT ![t] = NoProc]
  /\ Goto(t, "s_spawn")
  /\ UNCHANGED <<op, arg, mine, res, childVars, fileVars>>

StartSpawn(t) ==
  /\ pc[t] = "s_spawn"
  /\ \E p \in Procs :
       /\ child[p] = "unborn"
       /\ child' = [child EXCEPT ![p] = "booting"]
       /\ home' = [home EXCEPT ![p] = arg[t]]
       /\ mine' = [mine EXCEPT ![t] = p]
  /\ Goto(t, "s_wait")
  /\ UNCHANGED <<captures, op, arg, entry, res, stopEvt, term, pipe, fileVars>>

SpawnFails(t) ==
  /\ pc[t] = "s_spawn"
  /\ Answer(t, FALSE)
  /\ UNCHANGED <<captures, op, arg, entry, mine, childVars, fileVars>>

WaitReady(t) ==
  /\ pc[t] = "s_wait"
  /\ mine[t] \in pipe
  /\ pipe' = pipe \ {mine[t]}
  /\ Goto(t, "s_register")
  /\ UNCHANGED <<captures, op, arg, entry, mine, res, child, home, stopEvt, term, fileVars>>

\* Fault: a start that saw no ready message leaves its child alone.
WaitForgets(t) ==
  /\ pc[t] = "s_wait"
  /\ mine[t] \notin pipe
  /\ Answer(t, FALSE)
  /\ UNCHANGED <<captures, op, arg, entry, mine, childVars, fileVars>>

\* An error message, the end of file a dead child leaves, or ten seconds of
\* silence: the child is told to stop.
WaitFails(t) ==
  /\ pc[t] = "s_wait"
  /\ mine[t] \notin pipe
  /\ stopEvt' = stopEvt \cup {mine[t]}
  /\ Goto(t, "s_abort")
  /\ UNCHANGED <<captures, op, arg, entry, mine, res, child, home, term, pipe, fileVars>>

AbortJoined(t) ==
  /\ pc[t] = "s_abort"
  /\ child[mine[t]] \in Dead
  /\ Answer(t, FALSE)
  /\ UNCHANGED <<captures, op, arg, entry, mine, childVars, fileVars>>

\* Fault: five seconds are up, and no signal is sent.
AbortNoKill(t) ==
  /\ pc[t] = "s_abort"
  /\ child[mine[t]] \in Alive
  /\ Answer(t, FALSE)
  /\ UNCHANGED <<captures, op, arg, entry, mine, childVars, fileVars>>

\* Five seconds are up: SIGTERM.  The result of the last join is not looked at.
AbortTimesOut(t) ==
  /\ pc[t] = "s_abort"
  /\ child[mine[t]] \in Alive
  /\ term' = term \cup {mine[t]}
  /\ Answer(t, FALSE)
  /\ UNCHANGED <<captures, op, arg, entry, mine, child, home, stopEvt, pipe, fileVars>>

Register(t) ==
  /\ pc[t] = "s_register"
  /\ captures' = [captures EXCEPT ![arg[t]] = mine[t]]
  /\ Answer(t, TRUE)
  /\ UNCHANGED <<op, arg, entry, mine, childVars, fileVars>>

-----------------------------------------------------------------------------
(* _stop_capture_entry, called by tcpdump_start and tcpdump_stop *)

\* Back to the caller: tcpdump_start drops the result, tcpdump_stop keeps the
\* entry when it is False.
Return(t, ok) ==
  IF op[t] = "start" THEN Goto(t, "s_pop") /\ UNCHANGED res
  ELSE IF ok THEN Goto(t, "t_pop") /\ UNCHANGED res
  ELSE Answer(t, FALSE)

EntryDead(t) ==
  /\ pc[t] = "e_check"
  /\ child[entry[t]] \in Dead
  /\ Return(t, TRUE)
  /\ UNCHANGED <<captures, op, arg, entry, mine, childVars, fileVars>>

EntrySignal(t) ==
  /\ pc[t] = "e_check"
  /\ child[entry[t]] \in Alive
  /\ stopEvt' = stopEvt \cup {entry[t]}
  /\ Goto(t, "e_join")
  /\ UNCHANGED <<captures, op, arg, entry, mine, res, child, home, term, pipe, fileVars>>

EntryJoined(t) ==
  /\ pc[t] \in {"e_join", "e_killed"}
  /\ child[entry[t]] \in Dead
  /\ Return(t, TRUE)
  /\ UNCHANGED <<captures, op, arg, entry, mine, childVars, fileVars>>

\* Fault: thirty seconds are up, and no signal is sent.
EntryNoKill(t) ==
  /\ pc[t] = "e_join"
  /\ child[entry[t]] \in Alive
  /\ Goto(t, "e_killed")
  /\ UNCHANGED <<captures, op, arg, entry, mine, res, childVars, fileVars>>

\* Fault: a join without a time limit.
EntryWaitsOn(t) == FALSE /\ UNCHANGED vars

\* Thirty seconds are up: SIGTERM.
EntryKill(t) ==
  /\ pc[t] = "e_join"
  /\ child[entry[t]] \in Alive
  /\ term' = term \cup {entry[t]}
  /\ Goto(t, "e_killed")
  /\ UNCHANGED <<captures, op, arg, entry, mine, res, child, home, stopEvt, pipe, fileVars>>

\* Five more seconds, and the child is still there (in an uninterruptible wait).
EntryStuck(t) ==
  /\ pc[t] = "e_killed"
  /\ child[entry[t]] \in Alive
  /\ Return(t, FALSE)
  /\ UNCHANGED <<captures, op, arg, entry, mine, childVars, fileVars>>

-----------------------------------------------------------------------------
(* tcpdump_stop and tcpdump_isrun *)

StopGet(t) ==
  /\ pc[t] = "t_get"
  /\ entry' = [entry EXCEPT ![t] = captures[arg[t]]]
  /\ IF captures[arg[t]] = NoProc THEN Answer(t, TRUE)
                                  ELSE Goto(t, "e_check") /\ UNCHANGED res
  /\ UNCHANGED <<captures, op, arg, mine, childVars, fileVars>>

\* Fault: the exit code is not looked at.
StopPopAnyCode(t) ==
  /\ pc[t] = "t_pop"
  /\ captures' = [captures EXCEPT ![arg[t]] = NoProc]
  /\ Answer(t, TRUE)
  /\ UNCHANGED <<op, arg, entry, mine, childVars, fileVars>>

\* The entry is dropped by path, then the exit code decides the answer.
StopPop(t) ==
  /\ pc[t] = "t_pop"
  /\ captures' = [captures EXCEPT ![arg[t]] = NoProc]
  /\ Answer(t, child[entry[t]] = "exit0")
  /\ UNCHANGED <<op, arg, entry, mine, childVars, fileVars>>

IsrunGet(t) ==
  /\ pc[t] = "i_get"
  /\ entry' = [entry EXCEPT ![t] = captures[arg[t]]]
  /\ Goto(t, "i_alive")
  /\ UNCHANGED <<captures, op, arg, mine, res, childVars, fileVars>>

\* Fault: the entry itself is answered.
IsrunEntry(t) ==
  /\ pc[t] = "i_alive"
  /\ Goto(t, "done")
  /\ res' = [res EXCEPT ![t] = entry[t]]
  /\ UNCHANGED <<captures, op, arg, entry, mine, childVars, fileVars>>

IsrunAlive(t) ==
  /\ pc[t] = "i_alive"
  /\ Answer(t, entry[t] # NoProc /\ child[entry[t]] \in Alive)
  /\ UNCHANGED <<captures, op, arg, entry, mine, childVars, fileVars>>

-----------------------------------------------------------------------------
(* _capture_process_main: the child.  A child with a pending SIGTERM runs no  *)
(* further instruction of its own.                                            *)

Become(p, s) == child' = [child EXCEPT ![p] = s]

\* The process is gone: its descriptors, pending signal and locals with it, and
\* nobody looks at its stop event again.
Exit(p, code) ==
  /\ Become(p, code)
  /\ named' = [q \in Paths |-> named[q] \ {p}]
  /\ stopEvt' = stopEvt \ {p}
  /\ term' = term \ {p}
  /\ snap' = [snap EXCEPT ![p] = {}]

\* What a process that still holds the file open has not flushed is lost:
\* multiprocessing ends a child with os._exit, and a signal does no better.
Lose(p) ==
  /\ lossy' = IF p \in named[home[p]] THEN lossy \cup {p} ELSE lossy
  /\ UNCHANGED faulty

\* A disk or interface error takes frames of p, and nothing but the log tells.
Fault(p) == lossy' = lossy \cup {p} /\ faulty' = faulty \cup {p}

\* cap.start() raises before it opens the file, or the receive thread is gone
\* after the half second of probation.  The parent reads an error or an end of
\* file, which it treats alike.
BootFails(p) ==
  /\ child[p] \in {"booting", "opened"} /\ p \notin term
  /\ Exit(p, "exit0")
  /\ UNCHANGED <<captures, threadVars, home, pipe, exists, content, lossVars>>

\* open(path, "wb") creates the file, or truncates the one the path names and
\* shares its inode with whoever still writes there and now loses its frames.
BootOpens(p) ==
  /\ child[p] = "booting" /\ p \notin term
  /\ exists' = exists \cup {home[p]}
  /\ named' = [named EXCEPT ![home[p]] = @ \cup {p}]
  /\ content' = [content EXCEPT ![home[p]] = (named[home[p]] \ term) \cup {p}]
  /\ lossy' = lossy \cup named[home[p]]
  /\ Become(p, "opened")
  /\ UNCHANGED <<captures, threadVars, home, stopEvt, term, pipe, snap, faulty>>

SendReady(p) ==
  /\ child[p] = "opened" /\ p \notin term
  /\ pipe' = pipe \cup {p}
  /\ Become(p, "ready")
  /\ UNCHANGED <<captures, threadVars, home, stopEvt, term, fileVars>>

\* An interface that goes down or away, or a write that fails, ends the receive thread,
\* not the process.
RecvThreadDies(p) ==
  /\ child[p] = "ready" /\ p \notin term
  /\ Become(p, "deaf")
  /\ Fault(p)
  /\ UNCHANGED <<captures, threadVars, home, stopEvt, term, pipe, exists, named, content, snap>>

StopSeen(p) ==
  /\ child[p] = "ready" /\ p \in stopEvt \ term
  /\ Become(p, "closing")
  /\ UNCHANGED <<captures, threadVars, home, stopEvt, term, pipe, fileVars>>

\* cap.stop() closed the file: a deaf child gets here by itself, a closing one once its
\* receive thread has drained and ended.  An error of the drain or of the last flush is
\* swallowed: the child goes on to sort what there is, and exits with zero.
Flushed(p) ==
  /\ child[p] \in {"deaf", "closing"} /\ p \notin term
  /\ IF home[p] \in exists
     THEN /\ Become(p, "reading")
          /\ named' = [q \in Paths |-> named[q] \ {p}]
          /\ UNCHANGED <<stopEvt, term, snap>>
     ELSE Exit(p, "exit0")
  /\ Fault(p) \/ UNCHANGED lossVars
  /\ UNCHANGED <<captures, threadVars, home, pipe, exists, content>>

\* The receive thread outlives cap.stop()'s ten seconds: nothing is flushed.
FlushTimesOut(p) ==
  /\ child[p] = "closing" /\ p \notin term
  /\ Exit(p, "exit1")
  /\ Lose(p)
  /\ UNCHANGED <<captures, threadVars, home, pipe, exists, content>>

SortRead(p) ==
  /\ child[p] = "reading" /\ p \notin term
  /\ home[p] \in exists
  /\ snap' = [snap EXCEPT ![p] = content[home[p]]]
  /\ Become(p, "sorting")
  /\ UNCHANGED <<captures, threadVars, home, stopEvt, term, pipe, exists, named, content,
                 lossVars>>

\* os.replace puts a new inode, which nobody holds open, under the path.
SortReplace(p) ==
  /\ child[p] = "sorting" /\ p \notin term
  /\ exists' = exists \cup {home[p]}
  /\ content' = [content EXCEPT ![home[p]] = snap[p]]
  /\ named' = [named EXCEPT ![home[p]] = {}]
  /\ Become(p, "exit0")
  /\ stopEvt' = stopEvt \ {p}
  /\ snap' = [snap EXCEPT ![p] = {}]
  /\ UNCHANGED <<captures, threadVars, home, term, pipe, lossVars>>

SortFails(p) ==
  /\ child[p] \in {"reading", "sorting"} /\ p \notin term
  /\ Exit(p, "exit1")
  /\ UNCHANGED <<captures, threadVars, home, pipe, exists, content, lossVars>>

\* A pending SIGTERM is delivered at last.
Die(p) ==
  /\ child[p] \in Alive /\ p \in term
  /\ Exit(p, "exit1")
  /\ Lose(p)
  /\ UNCHANGED <<captures, threadVars, home, pipe, exists, content>>

\* Killed from outside, by the kernel or an operator.
Crash(p) ==
  /\ child[p] \in Alive /\ p \notin term
  /\ Exit(p, "exit1")
  /\ Lose(p)
  /\ UNCHANGED <<captures, threadVars, home, pipe, exists, content>>

\* The unit of supervisor.py sets no KillMode: systemd kills the children with
\* the server and starts a new one with an empty _captures.
ServerRestart ==
  /\ captures' = [q \in Paths |-> NoProc]
  /\ pc' = [t \in Threads |-> "idle"]
  /\ op' = [t \in Threads |-> "none"]
  /\ arg' = [t \in Threads |-> NoPath]
  /\ entry' = [t \in Threads |-> NoProc]
  /\ mine' = [t \in Threads |-> NoProc]
  /\ res' = [t \in Threads |-> FALSE]
  /\ child' = [p \in Procs |-> IF child[p] \in Alive THEN "exit1" ELSE child[p]]
  /\ stopEvt' = {}
  /\ term' = {}
  /\ pipe' = {}
  /\ named' = [q \in Paths |-> {}]
  /\ lossy' = lossy \cup UNION {named[q] : q \in Paths}
  /\ snap' = [p \in Procs |-> {}]
  /\ UNCHANGED <<home, exists, content, faulty>>

-----------------------------------------------------------------------------
EntryStep(t) == EntryDead(t) \/ EntrySignal(t) \/ EntryJoined(t) \/ EntryKill(t) \/ EntryStuck(t)

StartStep(t) ==
  \/ StartNoRoute(t) \/ StartRemove(t) \/ StartGet(t) \/ StartPop(t)
  \/ StartSpawn(t) \/ SpawnFails(t) \/ WaitReady(t) \/ WaitFails(t)
  \/ AbortJoined(t) \/ AbortTimesOut(t) \/ Register(t)

\* What a handler thread does once it has its call.
ThreadStep(t) ==
  \/ StartStep(t) \/ EntryStep(t) \/ StopGet(t) \/ StopPop(t)
  \/ IsrunGet(t) \/ IsrunAlive(t) \/ Reply(t)

ClientStep(t) == \E q \in Paths : BeginStart(t, q) \/ BeginStop(t, q) \/ BeginIsrun(t, q)

ChildStep(p) ==
  \/ BootFails(p) \/ BootOpens(p) \/ SendReady(p)
  \/ RecvThreadDies(p) \/ StopSeen(p) \/ Flushed(p) \/ FlushTimesOut(p)
  \/ SortRead(p) \/ SortReplace(p) \/ SortFails(p) \/ Die(p) \/ Crash(p)

Next ==
  \/ \E t \in Threads : ClientStep(t) \/ ThreadStep(t)
  \/ \E p \in Procs : ChildStep(p)
  \/ ServerRestart

Spec == Init /\ [][Next]_vars

\* Threads are scheduled and every wait of theirs has a limit.  A process with a
\* pending SIGTERM dies some day.  Nothing is assumed of a child left alone.
Fairness ==
  /\ \A t \in Threads : WF_vars(ThreadStep(t))
  /\ \A p \in Procs : WF_vars(Die(p))

FairSpec == Spec /\ Fairness

-----------------------------------------------------------------------------
(* Properties *)

\* A child that records, or is about to, and that nobody has told to stop.
Recording(p) == child[p] \in {"booting", "opened", "ready"} /\ p \notin stopEvt \cup term

\* A start call that forked p and has not registered it or given it up.
Raising(t, p) == op[t] = "start" /\ mine[t] = p /\ pc[t] \in {"s_wait", "s_register"}

\* No capture runs unattended: a recording child is the registered one of its
\* path, where a stop call finds it, or the start call that forked it still
\* holds it.  An orphan would fill the disk until the server restarts.
NoOrphan ==
  \A p \in Procs : Recording(p) =>
     \/ captures[home[p]] = p
     \/ \E t \in Threads : Raising(t, p)

\* "Same path already capturing: stop the old one first": two children never
\* record for one path, where they would truncate and replace each other's file.
OneRecorder ==
  \A p, r \in Procs : Recording(p) /\ Recording(r) /\ home[p] = home[r] => p = r

\* The file named by the path is the recorder's own: neither unlinked under it,
\* nor replaced by a former child's sort, nor shared with another writer.  Only a
\* start call that is about to stop the recorder takes the file away first.
RecorderOwnsFile ==
  \A p \in Procs :
     /\ Recording(p) /\ child[p] # "booting"
     /\ \A t \in Threads : op[t] = "start" /\ arg[t] = home[p] => mine[t] = p \/ pc[t] = "s_remove"
     => home[p] \in exists /\ named[home[p]] \ term = {p} /\ content[home[p]] = {p}

\* A stop call that answers True leaves nothing recording on its path and, when it found a
\* capture, a file into which this capture recorded and no other.  All of its frames are
\* in it, unless a disk or interface error took some: the code lets that pass and exits
\* with zero, so here True does not mean complete (see ExitCodeTells in CaptureChild).
StopTrueIsFinal ==
  \A t \in Threads : pc[t] = "done" /\ op[t] = "stop" /\ res[t] =>
     /\ ~ \E p \in Procs : Recording(p) /\ home[p] = arg[t]
     /\ entry[t] # NoProc => /\ arg[t] \in exists /\ content[arg[t]] = {entry[t]}
                             /\ entry[t] \in lossy => entry[t] \in faulty

\* Every call is answered, however the children behave.
CallsReturn == \A t \in Threads : pc[t] # "idle" ~> pc[t] = "idle"

\* A child that was told to stop is dead in the end even if it never looks at
\* its stop event: either it obeys or the call that set the event kills it.
ToldToStopDies == \A p \in Procs : p \in stopEvt /\ child[p] \in Alive ~> child[p] \in Dead

=============================================================================
