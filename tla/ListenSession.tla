---------------------------- MODULE ListenSession ----------------------------
(***************************************************************************)
(* The listener of socket_server/socket_listen.py and its datatypes 171    *)
(* (start), 172 (clean), 173 and 174 (save, fetch) and 175 (stop) of       *)
(* handlers.py.  Handler threads share the global `ss` without a lock.  A  *)
(* session (a SocketServerListen) forks one listening process per address  *)
(* family, each with a copy of _stop_flag; these put what their            *)
(* connections receive into the session's queue, and one thread per        *)
(* start_server call, running cachedata, moves it from there to the        *)
(* session's data.                                                         *)
(*                                                                         *)
(* A multiprocessing.Queue counts a chunk when it is put, but a feeder     *)
(* thread of the process that put it writes it to the pipe, and dies with  *)
(* the process: qsize() goes on counting what the pipe never gets.         *)
(*                                                                         *)
(* There is one port, and `ss -lptn` shows whoever listens on it.  A chunk *)
(* is what one recv returned: its connection and its number.               *)
(***************************************************************************)
EXTENDS Naturals, Sequences, SequencesExt

CONSTANTS
  Threads,    \* handler threads
  Sessions,   \* SocketServerListen objects that may be created
  Families,   \* addresses a session listens on
  Procs,      \* listening processes that may be forked
  Consumers,  \* cachedata threads that may be started
  Conns,      \* connections to the port
  MaxChunks,  \* chunks one connection sends
  None,
  Serial      \* TRUE: clients overlap no two start, clean or stop calls

ASSUME NoneAssumption     == None \notin Sessions \cup Procs
ASSUME FamiliesAssumption == Families # {}
ASSUME ChunksAssumption   == MaxChunks \in Nat
ASSUME SerialAssumption   == Serial \in BOOLEAN

VARIABLES
  ss,         \* the global: a session or None
  flag, procs, q, data,          \* per session; procs is _processes, q the queue's pipe
  raced,      \* sessions last cleared while a consumer was to write back what it had read
  proc, owner, family, copied,   \* per process; copied is its _stop_flag
  cons, feeds, hand, old,        \* per cachedata thread: tmp_q_get, self.data as read
  conn, sent, fed, got,          \* per connection: the process that accepted it, and how
                                 \* many chunks were put, are in the pipe and were taken
  pc, op, me, todo, ok, before   \* per handler thread

sessVars == <<flag, procs, q, data, raced>>
procVars == <<proc, owner, family, copied>>
consVars == <<cons, feeds, hand, old>>
connVars == <<conn, sent, fed, got>>
callVars == <<op, me, todo, ok, before>>
vars == <<ss, sessVars, procVars, consVars, connVars, pc, callVars>>

Chunk == Conns \X (1..MaxChunks)

Labels == {"idle", "listening?", "silent?", "none?", "create", "enter", "fork", "consume", "report",
           "check", "clean", "wait", "sleep", "clear", "read",
           "stop", "kill", "forget", "killport", "poll", "release", "done"}

\* What the variables hold.
TypeOK ==
  /\ ss \in Sessions \cup {None}
  /\ flag \in [Sessions -> BOOLEAN]
  /\ procs \in [Sessions -> SUBSET Procs]
  /\ q \in [Sessions -> Seq(Chunk)] /\ data \in [Sessions -> Seq(Chunk)]
  /\ raced \subseteq Sessions
  /\ proc \in [Procs -> {"unborn", "forked", "listening", "killed", "dead"}]
  /\ owner \in [Procs -> Sessions \cup {None}]
  /\ family \in [Procs -> Families]
  /\ copied \in [Procs -> BOOLEAN]
  /\ cons \in [Consumers -> {"unborn", "get", "load", "store", "dead"}]
  /\ feeds \in [Consumers -> Sessions \cup {None}]
  /\ hand \in [Consumers -> Seq(Chunk)] /\ old \in [Consumers -> Seq(Chunk)]
  /\ conn \in [Conns -> Procs \cup {None}]
  /\ sent \in [Conns -> 0..MaxChunks]
  /\ fed \in [Conns -> 0..MaxChunks] /\ got \in [Conns -> 0..MaxChunks]
  /\ pc \in [Threads -> Labels]
  /\ op \in [Threads -> {"none", "start", "clean", "read", "stop"}]
  /\ me \in [Threads -> Sessions \cup {None}]
  /\ todo \in [Threads -> SUBSET Families]
  /\ ok \in [Threads -> BOOLEAN]
  /\ before \in [Threads -> [Conns -> 0..MaxChunks]]

Init ==
  /\ ss = None
  /\ flag = [s \in Sessions |-> TRUE]
  /\ procs = [s \in Sessions |-> {}]
  /\ q = [s \in Sessions |-> <<>>] /\ data = [s \in Sessions |-> <<>>]
  /\ raced = {}
  /\ proc = [p \in Procs |-> "unborn"]
  /\ owner = [p \in Procs |-> None]
  /\ family = [p \in Procs |-> CHOOSE f \in Families : TRUE]
  /\ copied = [p \in Procs |-> TRUE]
  /\ cons = [k \in Consumers |-> "unborn"]
  /\ feeds = [k \in Consumers |-> None]
  /\ hand = [k \in Consumers |-> <<>>] /\ old = [k \in Consumers |-> <<>>]
  /\ conn = [c \in Conns |-> None]
  /\ sent = [c \in Conns |-> 0]
  /\ fed = [c \in Conns |-> 0] /\ got = [c \in Conns |-> 0]
  /\ pc = [t \in Threads |-> "idle"]
  /\ op = [t \in Threads |-> "none"]
  /\ me = [t \in Threads |-> None]
  /\ todo = [t \in Threads |-> {}]
  /\ ok = [t \in Threads |-> FALSE]
  /\ before = [t \in Threads |-> [c \in Conns |-> 0]]

-----------------------------------------------------------------------------
(* Calls and answers *)

Goto(t, label) == pc' = [pc EXCEPT ![t] = label]

Answer(t, value) == Goto(t, "done") /\ ok' = [ok EXCEPT ![t] = value]

\* An AttributeError of None: the connection is closed without an answer.
Raise(t) == Answer(t, FALSE)

Call(t, o, label) ==
  /\ pc[t] = "idle"
  /\ Serial /\ o # "read" => \A u \in Threads : op[u] \in {"none", "read"}
  /\ op' = [op EXCEPT ![t] = o]
  /\ before' = [before EXCEPT ![t] = IF o = "clean" THEN sent ELSE @]
  /\ Goto(t, label)
  /\ UNCHANGED <<ss, sessVars, procVars, consVars, connVars, me, todo, ok>>

Begin(t) ==
  \/ Call(t, "start", "listening?") \/ Call(t, "clean", "check")
  \/ Call(t, "read", "check") \/ Call(t, "stop", "stop")

Reply(t) ==
  /\ pc[t] = "done"
  /\ Goto(t, "idle")
  /\ op' = [op EXCEPT ![t] = "none"]
  /\ me' = [me EXCEPT ![t] = None]
  /\ todo' = [todo EXCEPT ![t] = {}]
  /\ ok' = [ok EXCEPT ![t] = FALSE]
  /\ before' = [before EXCEPT ![t] = [c \in Conns |-> 0]]
  /\ UNCHANGED <<ss, sessVars, procVars, consVars, connVars>>

\* pid(): the processes that listen on the port, a dying one until it is gone.
Pids == {p \in Procs : proc[p] \in {"listening", "killed"}}

-----------------------------------------------------------------------------
(* Datatype 171.  Its three tests run `ss` anew each and know nothing of each *)
(* other's outcome.                                                           *)

TestListening(t) ==
  /\ pc[t] = "listening?"
  /\ Goto(t, IF ss # None /\ Pids # {} THEN "report" ELSE "silent?")
  /\ UNCHANGED <<ss, sessVars, procVars, consVars, connVars, callVars>>

TestSilent(t) ==
  /\ pc[t] = "silent?"
  /\ Goto(t, IF ss # None /\ Pids = {} THEN "enter" ELSE "none?")
  /\ UNCHANGED <<ss, sessVars, procVars, consVars, connVars, callVars>>

TestNone(t) ==
  /\ pc[t] = "none?"
  /\ Goto(t, IF ss = None THEN "create" ELSE "report")
  /\ UNCHANGED <<ss, sessVars, procVars, consVars, connVars, callVars>>

\* A session that nobody holds and that never received anything: its name can be
\* used (again).  Names of one kind are interchangeable, so that it does not matter
\* which unused one is taken, here and for processes and consumers.
Unheld(s) ==
  /\ s # ss /\ procs[s] = {}
  /\ \A p \in Procs, k \in Consumers, u \in Threads : s \notin {owner[p], feeds[k], me[u]}

\* A new session takes the place of whatever `ss` is by now.
Create(t) ==
  /\ pc[t] = "create"
  /\ \E s \in Sessions :
       /\ Unheld(s) /\ s = CHOOSE r \in Sessions : Unheld(r)
       /\ ss' = s
       /\ flag' = [flag EXCEPT ![s] = TRUE]
  /\ Goto(t, "enter")
  /\ UNCHANGED <<procs, q, data, raced, procVars, consVars, connVars, callVars>>

\* Parameters that __init__ does not take, or no semaphore for the queue.
CreateFails(t) ==
  /\ pc[t] = "create"
  /\ Raise(t)
  /\ UNCHANGED <<ss, sessVars, procVars, consVars, connVars, op, me, todo, before>>

\* ss.start_server()
Enter(t) ==
  /\ pc[t] = "enter"
  /\ IF ss = None
     THEN Raise(t) /\ UNCHANGED <<me, todo>>
     ELSE /\ me' = [me EXCEPT ![t] = ss]
          /\ todo' = [todo EXCEPT ![t] = Families]
          /\ Goto(t, "fork") /\ UNCHANGED ok
  /\ UNCHANGED <<ss, sessVars, procVars, consVars, connVars, op, before>>

\* Fault: a restarted session forgets the processes of its first start.
ForkAlone(t) ==
  /\ pc[t] = "fork"
  /\ \E f \in todo[t], p \in Procs :
       /\ proc[p] = "unborn" /\ p = CHOOSE r \in Procs : proc[r] = "unborn"
       /\ proc' = [proc EXCEPT ![p] = "forked"]
       /\ owner' = [owner EXCEPT ![p] = me[t]]
       /\ family' = [family EXCEPT ![p] = f]
       /\ copied' = [copied EXCEPT ![p] = flag[me[t]]]
       /\ procs' = [procs EXCEPT ![me[t]] = {p}]
       /\ todo' = [todo EXCEPT ![t] = @ \ {f}]
       /\ Goto(t, IF todo[t] = {f} THEN "consume" ELSE "fork")
  /\ UNCHANGED <<ss, flag, q, data, raced, consVars, connVars, op, me, ok, before>>

Fork(t) ==
  /\ pc[t] = "fork"
  /\ \E f \in todo[t], p \in Procs :
       /\ proc[p] = "unborn" /\ p = CHOOSE r \in Procs : proc[r] = "unborn"
       /\ proc' = [proc EXCEPT ![p] = "forked"]
       /\ owner' = [owner EXCEPT ![p] = me[t]]
       /\ family' = [family EXCEPT ![p] = f]
       /\ copied' = [copied EXCEPT ![p] = flag[me[t]]]
       /\ procs' = [procs EXCEPT ![me[t]] = @ \cup {p}]
       /\ todo' = [todo EXCEPT ![t] = @ \ {f}]
       /\ Goto(t, IF todo[t] = {f} THEN "consume" ELSE "fork")
  /\ UNCHANGED <<ss, flag, q, data, raced, consVars, connVars, op, me, ok, before>>

\* The consumer of this start; that of an earlier one is still there.
Consume(t) ==
  /\ pc[t] = "consume"
  /\ \E k \in Consumers :
       /\ cons[k] = "unborn" /\ k = CHOOSE j \in Consumers : cons[j] = "unborn"
       /\ cons' = [cons EXCEPT ![k] = "get"]
       /\ feeds' = [feeds EXCEPT ![k] = me[t]]
  /\ Goto(t, "report")
  /\ UNCHANGED <<ss, sessVars, procVars, hand, old, connVars, callVars>>

\* No process or thread can be made: logged, and the handler goes on.
StartFails(t) ==
  /\ pc[t] \in {"fork", "consume"}
  /\ Goto(t, "report")
  /\ UNCHANGED <<ss, sessVars, procVars, consVars, connVars, callVars>>

\* Five seconds later: ss.pid()
Report(t) ==
  /\ pc[t] = "report"
  /\ IF ss = None THEN Raise(t) ELSE Answer(t, Pids # {})
  /\ UNCHANGED <<ss, sessVars, procVars, consVars, connVars, op, me, todo, before>>

-----------------------------------------------------------------------------
(* Datatypes 172, 173 and 174 *)

\* ss and ss.pid(); datatype 174 looks at ss only.
Check(t) ==
  /\ pc[t] = "check"
  /\ \/ ss # None /\ (Pids # {} \/ op[t] = "read") /\ UNCHANGED ok
        /\ Goto(t, IF op[t] = "clean" THEN "clean" ELSE "read")
     \/ (ss = None \/ Pids = {}) /\ Answer(t, FALSE)
  /\ UNCHANGED <<ss, sessVars, procVars, consVars, connVars, op, me, todo, before>>

\* data_writefile, or the answer to datatype 174, is made of ss.data as it is.
Read(t) ==
  /\ pc[t] = "read"
  /\ IF ss = None THEN Raise(t) ELSE Answer(t, TRUE)
  /\ UNCHANGED <<ss, sessVars, procVars, consVars, connVars, op, me, todo, before>>

\* A session's connections, and whether its queue's qsize() is not 0.
Of(s) == {c \in Conns : conn[c] # None /\ owner[conn[c]] = s}

Queued(s) == \E c \in Of(s) : got[c] < sent[c]

\* ss.cleandata()
Clean(t) ==
  /\ pc[t] = "clean"
  /\ IF ss = None THEN Raise(t) /\ UNCHANGED me
     ELSE me' = [me EXCEPT ![t] = ss] /\ Goto(t, "wait") /\ UNCHANGED ok
  /\ UNCHANGED <<ss, sessVars, procVars, consVars, connVars, op, todo, before>>

\* Fault: the queue is not waited for.
CleanAtOnce(t) ==
  /\ pc[t] = "wait"
  /\ Goto(t, "sleep")
  /\ UNCHANGED <<ss, sessVars, procVars, consVars, connVars, callVars>>

CleanWait(t) ==
  /\ pc[t] = "wait" /\ ~ Queued(me[t])
  /\ Goto(t, "sleep")
  /\ UNCHANGED <<ss, sessVars, procVars, consVars, connVars, callVars>>

\* A second is longer than a consumer needs for the chunk it has taken: by then
\* none has one of before the call in hand.
CleanSleep(t) ==
  /\ pc[t] = "sleep"
  /\ \A k \in Consumers : feeds[k] = me[t] =>
       \A e \in Range(hand[k]) : e[2] > before[t][e[1]]
  /\ Goto(t, "clear")
  /\ UNCHANGED <<ss, sessVars, procVars, consVars, connVars, callVars>>

\* Nothing keeps a consumer from writing back what it has read before.
CleanClear(t) ==
  /\ pc[t] = "clear"
  /\ data' = [data EXCEPT ![me[t]] = <<>>]
  /\ raced' = IF \E k \in Consumers : feeds[k] = me[t] /\ cons[k] = "store"
              THEN raced \cup {me[t]} ELSE raced \ {me[t]}
  /\ Answer(t, TRUE)
  /\ UNCHANGED <<ss, flag, procs, q, procVars, consVars, connVars, op, me, todo, before>>

-----------------------------------------------------------------------------
(* Datatype 175 *)

Stop(t) ==
  /\ pc[t] = "stop"
  /\ IF ss = None
     THEN Answer(t, FALSE) /\ UNCHANGED <<flag, me>>
     ELSE /\ flag' = [flag EXCEPT ![ss] = FALSE]
          /\ me' = [me EXCEPT ![t] = ss]
          /\ Goto(t, "kill") /\ UNCHANGED ok
  /\ UNCHANGED <<ss, procs, q, data, raced, procVars, consVars, connVars, op, todo, before>>

\* SIGTERM or SIGKILL: a process that does not listen yet never will.
Killed(set) ==
  [p \in Procs |-> IF p \notin set THEN proc[p]
                   ELSE CASE proc[p] = "forked" -> "dead"
                          [] proc[p] = "listening" -> "killed"
                          [] OTHER -> proc[p]]

\* For every process of the session: terminate, three seconds, kill.
Kill(t) ==
  /\ pc[t] = "kill"
  /\ proc' = Killed(procs[me[t]])
  /\ Goto(t, "forget")
  /\ UNCHANGED <<ss, sessVars, owner, family, copied, consVars, connVars, callVars>>

Forget(t) ==
  /\ pc[t] = "forget"
  /\ procs' = [procs EXCEPT ![me[t]] = {}]
  /\ Goto(t, "killport")
  /\ UNCHANGED <<ss, flag, q, data, raced, procVars, consVars, connVars, callVars>>

\* kill -9 of whoever listens on the port.
KillPort(t) ==
  /\ pc[t] = "killport"
  /\ proc' = Killed(Pids)
  /\ Goto(t, "poll")
  /\ UNCHANGED <<ss, sessVars, owner, family, copied, consVars, connVars, callVars>>

\* Fault: the port is polled until it is free.
PollForEver(t) ==
  /\ pc[t] = "poll"
  /\ ss = None \/ Pids = {}
  /\ IF ss = None THEN Raise(t)
     ELSE ok' = [ok EXCEPT ![t] = TRUE] /\ Goto(t, "release")
  /\ UNCHANGED <<ss, sessVars, procVars, consVars, connVars, op, me, todo, before>>

\* Three looks at the port, half a second apart, each through the global.
Poll(t) ==
  /\ pc[t] = "poll"
  /\ IF ss = None THEN Raise(t)
     ELSE ok' = [ok EXCEPT ![t] = (Pids = {})] /\ Goto(t, "release")
  /\ UNCHANGED <<ss, sessVars, procVars, consVars, connVars, op, me, todo, before>>

Release(t) ==
  /\ pc[t] = "release"
  /\ ss' = None
  /\ Answer(t, ok[t])
  /\ UNCHANGED <<sessVars, procVars, consVars, connVars, op, me, todo, before>>

-----------------------------------------------------------------------------
(* The listening processes and their connections *)

\* A copy of the flag that is already False ends the accept loop at once; so
\* does a port that is taken.
Listen(p) ==
  /\ proc[p] = "forked"
  /\ LET taken == \E r \in Pids : family[r] = family[p] IN
       proc' = [proc EXCEPT ![p] = IF copied[p] /\ ~taken THEN "listening" ELSE "dead"]
  /\ UNCHANGED <<ss, sessVars, owner, family, copied, consVars, connVars, pc, callVars>>

\* A killed process goes; any other may.
Die(p) ==
  /\ proc[p] \in {"forked", "listening", "killed"}
  /\ proc' = [proc EXCEPT ![p] = "dead"]
  /\ UNCHANGED <<ss, sessVars, owner, family, copied, consVars, connVars, pc, callVars>>

Connect(c) ==
  /\ conn[c] = None
  /\ \E p \in Procs : proc[p] = "listening" /\ conn' = [conn EXCEPT ![c] = p]
  /\ UNCHANGED <<ss, sessVars, procVars, consVars, sent, fed, got, pc, callVars>>

\* A connection's thread takes a chunk from the socket and puts it in the queue:
\* it is counted and handed to the process's feeder thread.
Receive(c) ==
  /\ conn[c] # None /\ proc[conn[c]] = "listening"
  /\ sent[c] < MaxChunks
  /\ sent' = [sent EXCEPT ![c] = @ + 1]
  /\ UNCHANGED <<ss, sessVars, procVars, consVars, conn, fed, got, pc, callVars>>

\* The feeder writes a connection's chunks to the pipe in the order they were put.
\* That of a process that is gone writes no more, nor does it give the pipe back
\* that it was writing to: then the others write no more either.
Feed(c) ==
  /\ conn[c] # None /\ proc[conn[c]] = "listening"
  /\ fed[c] < sent[c]
  /\ fed' = [fed EXCEPT ![c] = @ + 1]
  /\ q' = [q EXCEPT ![owner[conn[c]]] = Append(@, <<c, fed[c] + 1>>)]
  /\ UNCHANGED <<ss, flag, procs, data, raced, procVars, consVars, conn, sent, got, pc, callVars>>

-----------------------------------------------------------------------------
(* cachedata.  `self.data += tmp_q_get` reads, adds and stores, and a thread *)
(* may be switched out in between.                                          *)

\* With nothing in the pipe, get(timeout=1) raises for as long as qsize() counts
\* something, and the loop goes on.
Get(k) ==
  /\ cons[k] = "get" /\ q[feeds[k]] # <<>>
  /\ LET e == Head(q[feeds[k]]) IN
       /\ hand' = [hand EXCEPT ![k] = <<e>>]
       /\ got' = [got EXCEPT ![e[1]] = e[2]]
  /\ q' = [q EXCEPT ![feeds[k]] = Tail(@)]
  /\ cons' = [cons EXCEPT ![k] = "load"]
  /\ UNCHANGED <<ss, flag, procs, data, raced, procVars, feeds, old, conn, sent, fed, pc, callVars>>

Load(k) ==
  /\ cons[k] = "load"
  /\ old' = [old EXCEPT ![k] = data[feeds[k]]]
  /\ cons' = [cons EXCEPT ![k] = "store"]
  /\ UNCHANGED <<ss, sessVars, procVars, feeds, hand, connVars, pc, callVars>>

\* Fault: the chunk goes in front.
StorePrepends(k) ==
  /\ cons[k] = "store"
  /\ data' = [data EXCEPT ![feeds[k]] = hand[k] \o old[k]]
  /\ hand' = [hand EXCEPT ![k] = <<>>]
  /\ old' = [old EXCEPT ![k] = <<>>]
  /\ cons' = [cons EXCEPT ![k] = "get"]
  /\ UNCHANGED <<ss, flag, procs, q, raced, procVars, feeds, connVars, pc, callVars>>

Store(k) ==
  /\ cons[k] = "store"
  /\ data' = [data EXCEPT ![feeds[k]] = old[k] \o hand[k]]
  /\ hand' = [hand EXCEPT ![k] = <<>>]
  /\ old' = [old EXCEPT ![k] = <<>>]
  /\ cons' = [cons EXCEPT ![k] = "get"]
  /\ UNCHANGED <<ss, flag, procs, q, raced, procVars, feeds, connVars, pc, callVars>>

\* What was taken so far cannot be written to /tmp/socketbin: nothing catches it.
WriteFails(k) ==
  /\ cons[k] = "get" /\ ~ Queued(feeds[k])
  /\ cons' = [cons EXCEPT ![k] = "dead"]
  /\ UNCHANGED <<ss, sessVars, procVars, feeds, hand, old, connVars, pc, callVars>>

-----------------------------------------------------------------------------
StartStep(t) ==
  \/ TestListening(t) \/ TestSilent(t) \/ TestNone(t) \/ Create(t) \/ CreateFails(t)
  \/ Enter(t) \/ Fork(t) \/ Consume(t) \/ StartFails(t) \/ Report(t)

ReadStep(t) ==
  \/ Check(t) \/ Read(t) \/ Clean(t) \/ CleanWait(t) \/ CleanSleep(t) \/ CleanClear(t)

StopStep(t) == Stop(t) \/ Kill(t) \/ Forget(t) \/ KillPort(t) \/ Poll(t) \/ Release(t)

ThreadStep(t) == StartStep(t) \/ ReadStep(t) \/ StopStep(t) \/ Reply(t)

ConsumerStep(k) == Get(k) \/ Load(k) \/ Store(k)

Next ==
  \/ \E t \in Threads : Begin(t) \/ ThreadStep(t)
  \/ \E p \in Procs : Listen(p) \/ Die(p)
  \/ \E c \in Conns : Connect(c) \/ Receive(c) \/ Feed(c)
  \/ \E k \in Consumers : ConsumerStep(k) \/ WriteFails(k)

Spec == Init /\ [][Next]_vars

\* Threads are scheduled, the feeders of a process that listens among them.  Nothing
\* else is assumed of processes: they may never listen and a killed one may never go.
Fairness ==
  /\ \A t \in Threads : WF_vars(ThreadStep(t))
  /\ \A c \in Conns : WF_vars(Feed(c))
  /\ \A k \in Consumers : WF_vars(ConsumerStep(k))

FairSpec == Spec /\ Fairness

-----------------------------------------------------------------------------
(* Properties *)

\* No listener is left that datatype 175 would not find: a process that listens or
\* is about to belongs to the session `ss` names and is in its list, or the
\* session is being stopped.
NoStray ==
  \A p \in Procs : proc[p] \in {"forked", "listening"} =>
     /\ owner[p] = ss
     /\ p \in procs[ss] \/ \E t \in Threads : me[t] = ss /\ op[t] = "stop"

\* "Chunks of one connection are put together in order": each chunk is followed by
\* the next one of its connection, if by any of them.
Consecutive(s) ==
  \A i, j \in 1..Len(s) :
     /\ i < j /\ s[i][1] = s[j][1]
     /\ \A m \in i + 1..j - 1 : s[m][1] # s[i][1]
     => s[j][2] = s[i][2] + 1

\* So it is for a session that was started once and has one consumer; with a second one,
\* which starting the session again adds, it is not.
OneConsumerInOrder ==
  \A s \in Sessions :
     (\A j, k \in Consumers : feeds[j] = s /\ feeds[k] = s => j = k) => Consecutive(data[s])

\* A clean that is answered ok has waited for all that was received before it was
\* asked for, and has cleared it: nothing of that is left in the queue, in a consumer's
\* hand, in the data or in a consumer's copy of them, where it would turn up after the
\* clean.  Copy and data are let off when a consumer that had read the data was to
\* write them back as they were cleared.
CleanIsThorough ==
  \A t \in Threads : pc[t] = "done" /\ op[t] = "clean" /\ ok[t] =>
     \A c \in Conns, n \in 1..MaxChunks : n <= before[t][c] =>
        /\ c \in Of(me[t]) => n <= got[c]
        /\ <<c, n>> \notin Range(q[me[t]])
        /\ \A k \in Consumers : feeds[k] = me[t] => <<c, n>> \notin Range(hand[k])
        /\ me[t] \notin raced =>
             /\ <<c, n>> \notin Range(data[me[t]])
             /\ \A k \in Consumers : feeds[k] = me[t] => <<c, n>> \notin Range(old[k])

\* A chunk that is counted, and that no feeder is left to write.
Lost(s) == \E c \in Of(s) : proc[conn[c]] \in {"killed", "dead"} /\ fed[c] < sent[c]

\* Every call returns, though processes may ignore their signals; only a clean waits
\* for ever, when no thread is left, or was ever there, to empty the queue, or when a
\* process died with chunks it had not written to the pipe yet.
Stuck(t) ==
  /\ pc[t] = "wait"
  /\ \/ ~ \E k \in Consumers : feeds[k] = me[t] /\ cons[k] # "dead"
     \/ Lost(me[t])

CallsReturn == \A t \in Threads : pc[t] # "idle" ~> pc[t] = "idle" \/ Stuck(t)

=============================================================================
