------------------------- MODULE ListenSessionProofs -------------------------
(***************************************************************************)
(* Proofs about ListenSession for any number of handler threads, sessions, *)
(* listening processes, consumers and connections.  TypeInv, QueueInv and  *)
(* CleanInv hold however the calls overlap, and so does OrderInv of every  *)
(* session that has had one consumer; SerialInv, which keeps listeners     *)
(* within reach, is about calls that do not overlap.                       *)
(***************************************************************************)
EXTENDS ListenSession, SequenceTheorems, TLAPS

StartPcs == {"listening?", "silent?", "none?", "create", "enter", "fork", "consume", "report"}
CleanPcs == {"clean", "wait", "sleep", "clear"}
StopPcs  == {"stop", "kill", "forget", "killport", "poll", "release"}

\* A thread's place in the code, its call and the session it works on.
ThreadOK(t) ==
  /\ pc[t] = "idle" <=> op[t] = "none"
  /\ pc[t] \in StartPcs => op[t] = "start"
  /\ pc[t] \in CleanPcs => op[t] = "clean"
  /\ pc[t] \in StopPcs => op[t] = "stop"
  /\ pc[t] = "check" => op[t] \in {"clean", "read"}
  /\ pc[t] = "read" => op[t] = "read"
  /\ pc[t] \in {"fork", "consume", "wait", "sleep", "clear"} \cup (StopPcs \ {"stop"}) => me[t] # None
  /\ pc[t] = "done" /\ op[t] = "clean" /\ ok[t] => me[t] # None

\* A process and a consumer belong to a session from their birth.
ProcOK(p) == proc[p] # "unborn" => owner[p] # None
ConnOK(c) ==
  /\ conn[c] # None => proc[conn[c]] # "unborn"
  /\ conn[c] = None => sent[c] = 0
ConsOK(k) ==
  /\ cons[k] = "unborn" => feeds[k] = None /\ hand[k] = <<>>
  /\ cons[k] # "unborn" => feeds[k] # None
  /\ cons[k] = "get" => hand[k] = <<>>
  /\ cons[k] # "store" => old[k] = <<>>

TypeInv ==
  /\ TypeOK
  /\ \A t \in Threads : ThreadOK(t)
  /\ \A p \in Procs : ProcOK(p)
  /\ \A c \in Conns : ConnOK(c)
  /\ \A k \in Consumers : ConsOK(k)

\* With calls that do not overlap: what listens, or is about to, is the session's that
\* `ss` names and in its list, until datatype 175 has killed it.
Live(p) == proc[p] \in {"forked", "listening"}
Busy(t) == op[t] \in {"start", "clean", "stop"}

SerialInv ==
  /\ \A t, u \in Threads : Busy(t) /\ Busy(u) => t = u
  /\ \A p \in Procs : Live(p) => owner[p] = ss /\ p \in procs[ss]
  /\ \A t \in Threads :
       /\ pc[t] = "create" => ss = None
       /\ pc[t] \in {"fork", "consume"} \cup (StopPcs \ {"stop"}) => me[t] = ss
       /\ pc[t] \in {"forget", "killport", "poll", "release"} => \A p \in Procs : ~ Live(p)

\* Nothing in s was received before t's clean was asked for.
NoneBefore(t, s) == \A i \in 1..Len(s) : s[i][2] > before[t][s[i][1]]

\* How far t's clean has come: past the wait for the queue, past the second for the
\* consumers, and past the clearing of the data.
Waited(t)  == pc[t] \in {"sleep", "clear"} \/ (pc[t] = "done" /\ ok[t])
Slept(t)   == pc[t] = "clear" \/ (pc[t] = "done" /\ ok[t])
Cleared(t) == pc[t] = "done" /\ ok[t] /\ me[t] \notin raced

CleanOK(t) ==
  op[t] = "clean" =>
    /\ \A c \in Conns : before[t][c] <= sent[c]
    /\ Waited(t) => \A c \in Of(me[t]) : before[t][c] <= got[c]
    /\ Slept(t) => \A k \in Consumers : feeds[k] = me[t] => NoneBefore(t, hand[k])
    /\ Cleared(t) => /\ NoneBefore(t, data[me[t]])
                     /\ \A k \in Consumers : feeds[k] = me[t] => NoneBefore(t, old[k])

CleanInv == \A t \in Threads : CleanOK(t)

\* A session's pipe holds chunks of its connections that were fed and not yet taken,
\* those of one connection in their order.
QueueOK(s) ==
  /\ \A i \in 1..Len(q[s]) :
       /\ q[s][i][1] \in Of(s)
       /\ got[q[s][i][1]] < q[s][i][2] /\ q[s][i][2] <= fed[q[s][i][1]]
  /\ \A i, j \in 1..Len(q[s]) : i < j /\ q[s][i][1] = q[s][j][1] => q[s][i][2] < q[s][j][2]

QueueInv ==
  /\ \A c \in Conns : got[c] <= fed[c] /\ fed[c] <= sent[c]
  /\ \A s \in Sessions : QueueOK(s)

\* A session's stream: its chunks are consecutive, the last of each connection is the
\* last one that was fed to the pipe, and connections belong to one session.
StreamAt(str, s, via, of, last) ==
  /\ Consecutive(str)
  /\ \A i \in 1..Len(str) :
       /\ via[str[i][1]] # None /\ of[via[str[i][1]]] = s
       /\ (\A m \in i + 1..Len(str) : str[m][1] # str[i][1]) => str[i][2] = last[str[i][1]]

Stream(str, s) == StreamAt(str, s, conn, owner, fed)

\* Data, the chunk in the consumer's hand and the queue, in this order; between its read
\* and its write of the data, the consumer's copy counts, and the data are that copy or
\* were cleared.
OneFeeder(s) == \A j, k \in Consumers : feeds[j] = s /\ feeds[k] = s => j = k
OrderOK(s) ==
  /\ (\A k \in Consumers : feeds[k] # s) => data[s] = <<>> /\ Stream(q[s], s)
  /\ \A k \in Consumers : feeds[k] = s =>
       IF cons[k] = "store"
       THEN data[s] \in {old[k], <<>>} /\ Stream(old[k] \o (hand[k] \o q[s]), s)
       ELSE Stream(data[s] \o (hand[k] \o q[s]), s)

OrderInv == \A s \in Sessions : OneFeeder(s) => OrderOK(s)
-----------------------------------------------------------------------------
(* Types *)

\* A chunk is a connection and a number.
LEMMA ChunkParts == \A e \in Chunk : e[1] \in Conns /\ e[2] \in Nat /\ e[2] \in 0..MaxChunks
BY ChunksAssumption DEF Chunk

CallTypes ==
  /\ pc \in [Threads -> Labels]
  /\ op \in [Threads -> {"none", "start", "clean", "read", "stop"}]
  /\ me \in [Threads -> Sessions \cup {None}]
  /\ todo \in [Threads -> SUBSET Families]
  /\ ok \in [Threads -> BOOLEAN]
  /\ before \in [Threads -> [Conns -> 0..MaxChunks]]
SessTypes ==
  /\ ss \in Sessions \cup {None}
  /\ flag \in [Sessions -> BOOLEAN]
  /\ procs \in [Sessions -> SUBSET Procs]
  /\ q \in [Sessions -> Seq(Chunk)] /\ data \in [Sessions -> Seq(Chunk)]
  /\ raced \subseteq Sessions
ProcTypes ==
  /\ proc \in [Procs -> {"unborn", "forked", "listening", "killed", "dead"}]
  /\ owner \in [Procs -> Sessions \cup {None}]
  /\ family \in [Procs -> Families]
  /\ copied \in [Procs -> BOOLEAN]
WorkTypes ==
  /\ cons \in [Consumers -> {"unborn", "get", "load", "store", "dead"}]
  /\ feeds \in [Consumers -> Sessions \cup {None}]
  /\ hand \in [Consumers -> Seq(Chunk)] /\ old \in [Consumers -> Seq(Chunk)]
  /\ conn \in [Conns -> Procs \cup {None}]
  /\ sent \in [Conns -> 0..MaxChunks]
  /\ fed \in [Conns -> 0..MaxChunks] /\ got \in [Conns -> 0..MaxChunks]

\* TypeOK, part by part.
LEMMA TypeParts == TypeOK <=> CallTypes /\ SessTypes /\ ProcTypes /\ WorkTypes
BY DEF TypeOK, CallTypes, SessTypes, ProcTypes, WorkTypes

\* What a handler thread knows keeps its types.
LEMMA ThreadCallTypes ==
  ASSUME CallTypes, SessTypes, WorkTypes, NEW t \in Threads, Begin(t) \/ ThreadStep(t)
  PROVE  CallTypes'
<1> USE DEF CallTypes, Labels, Goto, Answer, Raise, callVars
<1>1. CASE Begin(t)         
  <2>1. \A o \in {"none", "start", "clean", "read", "stop"}, label \in Labels :
          Call(t, o, label) => CallTypes'
    BY DEF Call, WorkTypes
  <2> QED  BY <1>1, <2>1 DEF Begin
<1>2. CASE TestListening(t) BY <1>2 DEF TestListening
<1>3. CASE TestSilent(t)    BY <1>3 DEF TestSilent
<1>4. CASE TestNone(t)      BY <1>4 DEF TestNone
<1>5. CASE Create(t)        BY <1>5 DEF Create
<1>6. CASE CreateFails(t)   BY <1>6 DEF CreateFails
<1>7. CASE Enter(t)
  <2>1. CASE ss = None  BY <1>7, <2>1 DEF Enter
  <2>2. CASE ss # None
    <3>1. ss \in Sessions /\ Families \in SUBSET Families  BY <2>2 DEF SessTypes
    <3> QED  BY <1>7, <2>2, <3>1 DEF Enter
  <2> QED  BY <2>1, <2>2
<1>8. CASE Fork(t)          BY <1>8 DEF Fork
<1>9. CASE Consume(t)       BY <1>9 DEF Consume
<1>10. CASE StartFails(t)    BY <1>10 DEF StartFails
<1>11. CASE Report(t)        BY <1>11 DEF Report
<1>12. CASE Check(t)         BY <1>12 DEF Check
<1>13. CASE Read(t)          BY <1>13 DEF Read
<1>14. CASE Clean(t)         BY <1>14 DEF Clean, SessTypes
<1>15. CASE CleanWait(t)     BY <1>15 DEF CleanWait
<1>16. CASE CleanSleep(t)    BY <1>16 DEF CleanSleep
<1>17. CASE CleanClear(t)    BY <1>17 DEF CleanClear
<1>18. CASE Stop(t)          BY <1>18 DEF Stop, SessTypes
<1>19. CASE Kill(t)          BY <1>19 DEF Kill
<1>20. CASE Forget(t)        BY <1>20 DEF Forget
<1>21. CASE KillPort(t)      BY <1>21 DEF KillPort
<1>22. CASE Poll(t)          BY <1>22 DEF Poll
<1>23. CASE Release(t)       BY <1>23 DEF Release
<1>24. CASE Reply(t)
  <2>1. [c \in Conns |-> 0] \in [Conns -> 0..MaxChunks]  BY ChunksAssumption
  <2> QED  BY <1>24, <2>1 DEF Reply
<1> QED
  BY <1>1, <1>2, <1>3, <1>4, <1>5, <1>6, <1>7, <1>8, <1>9, <1>10, <1>11, <1>12, <1>13,
     <1>14, <1>15, <1>16, <1>17, <1>18, <1>19, <1>20, <1>21, <1>22, <1>23, <1>24
     DEF ThreadStep, StartStep, ReadStep, StopStep

\* So do the sessions.
LEMMA ThreadSessTypes ==
  ASSUME CallTypes, SessTypes, NEW t \in Threads, ThreadOK(t), Begin(t) \/ ThreadStep(t)
  PROVE  SessTypes'
<1> USE DEF SessTypes, CallTypes, sessVars
<1>1. CASE Begin(t)         BY <1>1 DEF Begin, Call
<1>2. CASE TestListening(t) BY <1>2 DEF TestListening
<1>3. CASE TestSilent(t)    BY <1>3 DEF TestSilent
<1>4. CASE TestNone(t)      BY <1>4 DEF TestNone
<1>5. CASE Create(t)        BY <1>5 DEF Create
<1>6. CASE CreateFails(t)   BY <1>6 DEF CreateFails
<1>7. CASE Enter(t)         BY <1>7 DEF Enter
<1>8. CASE Fork(t)
  <2>1. me[t] \in Sessions  BY <1>8 DEF Fork, ThreadOK
  <2> QED  BY <1>8, <2>1 DEF Fork
<1>9. CASE Consume(t)       BY <1>9 DEF Consume
<1>10. CASE StartFails(t)    BY <1>10 DEF StartFails
<1>11. CASE Report(t)        BY <1>11 DEF Report
<1>12. CASE Check(t)         BY <1>12 DEF Check
<1>13. CASE Read(t)          BY <1>13 DEF Read
<1>14. CASE Clean(t)         BY <1>14 DEF Clean
<1>15. CASE CleanWait(t)     BY <1>15 DEF CleanWait
<1>16. CASE CleanSleep(t)    BY <1>16 DEF CleanSleep
<1>17. CASE CleanClear(t)
  <2>1. <<>> \in Seq(Chunk)  OBVIOUS
  <2>2. me[t] \in Sessions  BY <1>17 DEF CleanClear, ThreadOK
  <2> QED  BY <1>17, <2>1, <2>2 DEF CleanClear
<1>18. CASE Stop(t)          BY <1>18 DEF Stop
<1>19. CASE Kill(t)          BY <1>19 DEF Kill
<1>20. CASE Forget(t)        BY <1>20 DEF Forget
<1>21. CASE KillPort(t)      BY <1>21 DEF KillPort
<1>22. CASE Poll(t)          BY <1>22 DEF Poll
<1>23. CASE Release(t)       BY <1>23 DEF Release
<1>24. CASE Reply(t)         BY <1>24 DEF Reply
<1> QED
  BY <1>1, <1>2, <1>3, <1>4, <1>5, <1>6, <1>7, <1>8, <1>9, <1>10, <1>11, <1>12, <1>13,
     <1>14, <1>15, <1>16, <1>17, <1>18, <1>19, <1>20, <1>21, <1>22, <1>23, <1>24
     DEF ThreadStep, StartStep, ReadStep, StopStep

\* So do processes, consumers and connections.
LEMMA ThreadWorkTypes ==
  ASSUME CallTypes, ProcTypes, SessTypes, WorkTypes, NEW t \in Threads, ThreadOK(t),
         Begin(t) \/ ThreadStep(t)
  PROVE  ProcTypes' /\ WorkTypes'
<1> USE DEF ProcTypes, WorkTypes, procVars, consVars, connVars
<1>1. CASE Begin(t)         BY <1>1 DEF Begin, Call
<1>2. CASE TestListening(t) BY <1>2 DEF TestListening
<1>3. CASE TestSilent(t)    BY <1>3 DEF TestSilent
<1>4. CASE TestNone(t)      BY <1>4 DEF TestNone
<1>5. CASE Create(t)        BY <1>5 DEF Create
<1>6. CASE CreateFails(t)   BY <1>6 DEF CreateFails
<1>7. CASE Enter(t)         BY <1>7 DEF Enter
<1>8. CASE Fork(t)
  <2>1. me[t] \in Sessions  BY <1>8 DEF Fork, CallTypes, ThreadOK
  <2>2. flag[me[t]] \in BOOLEAN  BY <2>1 DEF SessTypes
  <2> QED  BY <1>8, <2>1, <2>2 DEF Fork, CallTypes
<1>9. CASE Consume(t)       BY <1>9 DEF Consume, CallTypes
<1>10. CASE StartFails(t)    BY <1>10 DEF StartFails
<1>11. CASE Report(t)        BY <1>11 DEF Report
<1>12. CASE Check(t)         BY <1>12 DEF Check
<1>13. CASE Read(t)          BY <1>13 DEF Read
<1>14. CASE Clean(t)         BY <1>14 DEF Clean
<1>15. CASE CleanWait(t)     BY <1>15 DEF CleanWait
<1>16. CASE CleanSleep(t)    BY <1>16 DEF CleanSleep
<1>17. CASE CleanClear(t)    BY <1>17 DEF CleanClear
<1>18. CASE Stop(t)          BY <1>18 DEF Stop
<1>19. CASE Kill(t)          BY <1>19 DEF Kill, Killed
<1>20. CASE Forget(t)        BY <1>20 DEF Forget
<1>21. CASE KillPort(t)      BY <1>21 DEF KillPort, Killed
<1>22. CASE Poll(t)          BY <1>22 DEF Poll
<1>23. CASE Release(t)       BY <1>23 DEF Release
<1>24. CASE Reply(t)         BY <1>24 DEF Reply
<1> QED
  BY <1>1, <1>2, <1>3, <1>4, <1>5, <1>6, <1>7, <1>8, <1>9, <1>10, <1>11, <1>12, <1>13,
     <1>14, <1>15, <1>16, <1>17, <1>18, <1>19, <1>20, <1>21, <1>22, <1>23, <1>24
     DEF ThreadStep, StartStep, ReadStep, StopStep

\* A step of one thread leaves what the others know alone.
LEMMA ThreadLocals ==
  ASSUME CallTypes, NEW t \in Threads, Begin(t) \/ ThreadStep(t)
  PROVE  \A u \in Threads \ {t} : /\ pc'[u] = pc[u] /\ op'[u] = op[u] /\ me'[u] = me[u]
                                  /\ ok'[u] = ok[u] /\ before'[u] = before[u]
<1> USE DEF CallTypes, Goto, Answer, Raise, callVars
<1>1. CASE Begin(t)         BY <1>1 DEF Begin, Call
<1>2. CASE TestListening(t) BY <1>2 DEF TestListening
<1>3. CASE TestSilent(t)    BY <1>3 DEF TestSilent
<1>4. CASE TestNone(t)      BY <1>4 DEF TestNone
<1>5. CASE Create(t)        BY <1>5 DEF Create
<1>6. CASE CreateFails(t)   BY <1>6 DEF CreateFails
<1>7. CASE Enter(t)         BY <1>7 DEF Enter
<1>8. CASE Fork(t)          BY <1>8 DEF Fork
<1>9. CASE Consume(t)       BY <1>9 DEF Consume
<1>10. CASE StartFails(t)    BY <1>10 DEF StartFails
<1>11. CASE Report(t)        BY <1>11 DEF Report
<1>12. CASE Check(t)         BY <1>12 DEF Check
<1>13. CASE Read(t)          BY <1>13 DEF Read
<1>14. CASE Clean(t)         BY <1>14 DEF Clean
<1>15. CASE CleanWait(t)     BY <1>15 DEF CleanWait
<1>16. CASE CleanSleep(t)    BY <1>16 DEF CleanSleep
<1>17. CASE CleanClear(t)    BY <1>17 DEF CleanClear
<1>18. CASE Stop(t)          BY <1>18 DEF Stop
<1>19. CASE Kill(t)          BY <1>19 DEF Kill
<1>20. CASE Forget(t)        BY <1>20 DEF Forget
<1>21. CASE KillPort(t)      BY <1>21 DEF KillPort
<1>22. CASE Poll(t)          BY <1>22 DEF Poll
<1>23. CASE Release(t)       BY <1>23 DEF Release
<1>24. CASE Reply(t)         BY <1>24 DEF Reply
<1> QED
  BY <1>1, <1>2, <1>3, <1>4, <1>5, <1>6, <1>7, <1>8, <1>9, <1>10, <1>11, <1>12, <1>13,
     <1>14, <1>15, <1>16, <1>17, <1>18, <1>19, <1>20, <1>21, <1>22, <1>23, <1>24
     DEF ThreadStep, StartStep, ReadStep, StopStep

\* A thread that waits for nothing has a call; what it needs of a session it has.
LEMMA ThreadOwn ==
  ASSUME CallTypes, SessTypes, NEW t \in Threads, ThreadOK(t), Begin(t) \/ ThreadStep(t)
  PROVE  ThreadOK(t)'
<1> USE DEF CallTypes, SessTypes, ThreadOK, StartPcs, CleanPcs, StopPcs, Goto, Answer, Raise, callVars
<1>1. CASE Begin(t)         BY <1>1 DEF Begin, Call
<1>2. CASE TestListening(t) BY <1>2 DEF TestListening
<1>3. CASE TestSilent(t)    BY <1>3 DEF TestSilent
<1>4. CASE TestNone(t)      BY <1>4 DEF TestNone
<1>5. CASE Create(t)        BY <1>5 DEF Create
<1>6. CASE CreateFails(t)   BY <1>6 DEF CreateFails
<1>7. CASE Enter(t)
  <2>1. CASE ss = None  BY <1>7, <2>1 DEF Enter
  <2>2. CASE ss # None
    <3>1. pc'[t] = "fork" /\ op'[t] = op[t] /\ me'[t] # None  BY <1>7, <2>2 DEF Enter
    <3> QED  BY <1>7, <2>2, <3>1 DEF Enter
  <2> QED  BY <2>1, <2>2
<1>8. CASE Fork(t)          BY <1>8 DEF Fork
<1>9. CASE Consume(t)       BY <1>9 DEF Consume
<1>10. CASE StartFails(t)    BY <1>10 DEF StartFails
<1>11. CASE Report(t)        BY <1>11 DEF Report
<1>12. CASE Check(t)         BY <1>12 DEF Check
<1>13. CASE Read(t)          BY <1>13 DEF Read
<1>14. CASE Clean(t)         BY <1>14 DEF Clean
<1>15. CASE CleanWait(t)     BY <1>15 DEF CleanWait
<1>16. CASE CleanSleep(t)    BY <1>16 DEF CleanSleep
<1>17. CASE CleanClear(t)    BY <1>17 DEF CleanClear
<1>18. CASE Stop(t)          BY <1>18 DEF Stop
<1>19. CASE Kill(t)          BY <1>19 DEF Kill
<1>20. CASE Forget(t)        BY <1>20 DEF Forget
<1>21. CASE KillPort(t)      BY <1>21 DEF KillPort
<1>22. CASE Poll(t)          BY <1>22 DEF Poll
<1>23. CASE Release(t)       BY <1>23 DEF Release
<1>24. CASE Reply(t)         BY <1>24 DEF Reply
<1> QED
  BY <1>1, <1>2, <1>3, <1>4, <1>5, <1>6, <1>7, <1>8, <1>9, <1>10, <1>11, <1>12, <1>13,
     <1>14, <1>15, <1>16, <1>17, <1>18, <1>19, <1>20, <1>21, <1>22, <1>23, <1>24
     DEF ThreadStep, StartStep, ReadStep, StopStep

\* Processes, consumers and connections keep what they have.
LEMMA ThreadWork ==
  ASSUME TypeInv, NEW t \in Threads, Begin(t) \/ ThreadStep(t)
  PROVE  /\ \A p \in Procs : ProcOK(p)'
         /\ \A c \in Conns : ConnOK(c)'
         /\ \A k \in Consumers : ConsOK(k)'
         /\ UNCHANGED <<hand, old, conn, sent, fed, got, q>>
         /\ \A p \in Procs : proc[p] # "unborn" => proc'[p] # "unborn" /\ owner'[p] = owner[p]
<1> USE DEF TypeInv, TypeOK, ProcOK, ConnOK, ConsOK, ThreadOK, procVars, consVars, connVars, sessVars
<1>1. CASE Begin(t)         BY <1>1 DEF Begin, Call
<1>2. CASE TestListening(t) BY <1>2 DEF TestListening
<1>3. CASE TestSilent(t)    BY <1>3 DEF TestSilent
<1>4. CASE TestNone(t)      BY <1>4 DEF TestNone
<1>5. CASE Create(t)        BY <1>5 DEF Create
<1>6. CASE CreateFails(t)   BY <1>6 DEF CreateFails
<1>7. CASE Enter(t)         BY <1>7 DEF Enter
<1>8. CASE Fork(t)
  <2>1. PICK p \in Procs : /\ proc[p] = "unborn"
                           /\ proc' = [proc EXCEPT ![p] = "forked"]
                           /\ owner' = [owner EXCEPT ![p] = me[t]]
    BY <1>8 DEF Fork
  <2>2. me[t] # None  BY <1>8 DEF Fork
  <2> QED  BY <1>8, <2>1, <2>2 DEF Fork
<1>9. CASE Consume(t)       BY <1>9 DEF Consume
<1>10. CASE StartFails(t)    BY <1>10 DEF StartFails
<1>11. CASE Report(t)        BY <1>11 DEF Report
<1>12. CASE Check(t)         BY <1>12 DEF Check
<1>13. CASE Read(t)          BY <1>13 DEF Read
<1>14. CASE Clean(t)         BY <1>14 DEF Clean
<1>15. CASE CleanWait(t)     BY <1>15 DEF CleanWait
<1>16. CASE CleanSleep(t)    BY <1>16 DEF CleanSleep
<1>17. CASE CleanClear(t)    BY <1>17 DEF CleanClear
<1>18. CASE Stop(t)          BY <1>18 DEF Stop
<1>19. CASE Kill(t)          BY <1>19 DEF Kill, Killed
<1>20. CASE Forget(t)        BY <1>20 DEF Forget
<1>21. CASE KillPort(t)      BY <1>21 DEF KillPort, Killed
<1>22. CASE Poll(t)          BY <1>22 DEF Poll
<1>23. CASE Release(t)       BY <1>23 DEF Release
<1>24. CASE Reply(t)         BY <1>24 DEF Reply
<1> QED
  BY <1>1, <1>2, <1>3, <1>4, <1>5, <1>6, <1>7, <1>8, <1>9, <1>10, <1>11, <1>12, <1>13,
     <1>14, <1>15, <1>16, <1>17, <1>18, <1>19, <1>20, <1>21, <1>22, <1>23, <1>24
     DEF ThreadStep, StartStep, ReadStep, StopStep

\* A handler's step keeps types and places.
LEMMA ThreadTypes ==
  ASSUME TypeInv, NEW t \in Threads, Begin(t) \/ ThreadStep(t)
  PROVE  TypeInv'
<1>1. CallTypes /\ SessTypes /\ ProcTypes /\ WorkTypes /\ \A u \in Threads : ThreadOK(u)
  BY TypeParts DEF TypeInv
<1>2. CallTypes' /\ SessTypes' /\ ProcTypes' /\ WorkTypes'
  BY <1>1, ThreadCallTypes, ThreadSessTypes, ThreadWorkTypes
<1>3. TypeOK'
  BY <1>2 DEF TypeOK, CallTypes, SessTypes, ProcTypes, WorkTypes
<1>4. \A u \in Threads : ThreadOK(u)'
  <2>1. ThreadOK(t)'  BY <1>1, ThreadOwn
  <2>2. \A u \in Threads \ {t} : ThreadOK(u)'  BY <1>1, ThreadLocals DEF ThreadOK
  <2> QED  BY <2>1, <2>2
<1> QED  BY <1>3, <1>4, ThreadWork DEF TypeInv

\* The other steps: processes, connections and consumers.
WorkStep ==
  \/ \E p \in Procs : Listen(p) \/ Die(p)
  \/ \E c \in Conns : Connect(c) \/ Receive(c) \/ Feed(c)
  \/ \E k \in Consumers : ConsumerStep(k) \/ WriteFails(k)

\* They are none of the threads' business.
LEMMA WorkFrame ==
  ASSUME WorkStep
  PROVE  UNCHANGED <<ss, flag, procs, owner, feeds, pc, callVars>>
BY DEF WorkStep, Listen, Die, Connect, Receive, Feed, ConsumerStep, Get, Load, Store, WriteFails,
       sessVars, procVars, consVars, connVars

\* So does a step of a process, a connection or a consumer.
LEMMA WorkTypesKept ==
  ASSUME TypeInv, WorkStep
  PROVE  TypeInv'
<1>1. UNCHANGED <<ss, flag, procs, owner, feeds, pc, callVars>>  BY WorkFrame
<1>2. CallTypes /\ SessTypes /\ ProcTypes /\ WorkTypes  BY TypeParts DEF TypeInv
<1>3. /\ \A t \in Threads : ThreadOK(t)
      /\ \A p \in Procs : ProcOK(p)
      /\ \A c \in Conns : ConnOK(c)
      /\ \A k \in Consumers : ConsOK(k)
  BY DEF TypeInv
<1>4. CallTypes' /\ \A t \in Threads : ThreadOK(t)'
  BY <1>1, <1>2, <1>3 DEF CallTypes, ThreadOK, callVars
<1>5. SessTypes' /\ ProcTypes' /\ WorkTypes'
  <2> USE <1>1, <1>2 DEF SessTypes, ProcTypes, WorkTypes, sessVars, procVars, consVars, connVars
  <2>1. ASSUME NEW p \in Procs, Listen(p) \/ Die(p) PROVE SessTypes' /\ ProcTypes' /\ WorkTypes'
    BY <2>1 DEF Listen, Die
  <2>2. ASSUME NEW c \in Conns, Connect(c) PROVE SessTypes' /\ ProcTypes' /\ WorkTypes'
    BY <2>2 DEF Connect
  <2>5. ASSUME NEW c \in Conns, Receive(c) PROVE SessTypes' /\ ProcTypes' /\ WorkTypes'
    <3>1. sent[c] + 1 \in 0..MaxChunks  BY <2>5, ChunksAssumption DEF Receive
    <3> QED  BY <2>5, <3>1 DEF Receive
  <2>3. ASSUME NEW c \in Conns, Feed(c) PROVE SessTypes' /\ ProcTypes' /\ WorkTypes'
    <3>1. fed[c] + 1 \in 1..MaxChunks  BY <2>3, ChunksAssumption DEF Feed
    <3>2. <<c, fed[c] + 1>> \in Chunk /\ fed[c] + 1 \in 0..MaxChunks  BY <3>1 DEF Chunk
    <3> DEFINE e == <<c, fed[c] + 1>>
               s == owner[conn[c]]
    <3>3. q' = [q EXCEPT ![s] = Append(@, e)]  BY <2>3 DEF Feed
    <3>4. s \in Sessions  BY <1>3, <2>3, NoneAssumption DEF Feed, ConnOK, ProcOK
    <3> HIDE DEF e, s
    <3>5. Append(q[s], e) \in Seq(Chunk)  BY <3>2, <3>4, AppendProperties DEF e
    <3>6. q' \in [Sessions -> Seq(Chunk)]  BY <3>3, <3>5
    <3> QED  BY <2>3, <3>2, <3>6 DEF Feed
  <2>4. ASSUME NEW k \in Consumers, ConsumerStep(k) \/ WriteFails(k)
        PROVE  SessTypes' /\ ProcTypes' /\ WorkTypes'
    <3>1. cons[k] # "unborn" => feeds[k] \in Sessions  BY <1>3 DEF ConsOK
    <3>2. CASE Get(k)
      <4>1. q[feeds[k]] \in Seq(Chunk) /\ q[feeds[k]] # <<>>  BY <3>1, <3>2 DEF Get
      <4>2. Head(q[feeds[k]]) \in Chunk /\ Tail(q[feeds[k]]) \in Seq(Chunk)
        BY <4>1, HeadTailProperties
      <4>3. <<Head(q[feeds[k]])>> \in Seq(Chunk)  BY <4>2
      <4>4. q' \in [Sessions -> Seq(Chunk)]  BY <3>2, <4>2 DEF Get
      <4>5. hand' \in [Consumers -> Seq(Chunk)]  BY <3>2, <4>3 DEF Get
      <4>6. Head(q[feeds[k]])[2] \in 0..MaxChunks  BY <4>2, ChunkParts
      <4>7. got' \in [Conns -> 0..MaxChunks]  BY <3>2, <4>6 DEF Get
      <4> QED  BY <3>2, <4>4, <4>5, <4>7 DEF Get
    <3>3. CASE Load(k)
      <4>1. data[feeds[k]] \in Seq(Chunk)  BY <3>1, <3>3 DEF Load
      <4> QED  BY <3>3, <4>1 DEF Load
    <3>4. CASE Store(k)
      <4>1. old[k] \o hand[k] \in Seq(Chunk)  OBVIOUS
      <4>2. <<>> \in Seq(Chunk)  OBVIOUS
      <4> QED  BY <3>4, <4>1, <4>2 DEF Store
    <3>5. CASE WriteFails(k)  BY <3>5 DEF WriteFails
    <3> QED  BY <2>4, <3>2, <3>3, <3>4, <3>5 DEF ConsumerStep
  <2> QED  BY <2>1, <2>2, <2>3, <2>4, <2>5 DEF WorkStep
<1>6. TypeOK'
  BY <1>4, <1>5 DEF TypeOK, CallTypes, SessTypes, ProcTypes, WorkTypes
<1> DEFINE Owners == /\ \A p \in Procs : ProcOK(p)
                     /\ \A c \in Conns : ConnOK(c)
                     /\ \A k \in Consumers : ConsOK(k)
<1>7. Owners'
  <2> USE <1>1, <1>2, <1>3
      DEF ProcOK, ConnOK, ConsOK, ProcTypes, WorkTypes, procVars, consVars, connVars
  <2>1. ASSUME NEW p \in Procs, Listen(p) \/ Die(p) PROVE Owners'
    BY <2>1 DEF Listen, Die
  <2>2. ASSUME NEW c \in Conns, Connect(c) \/ Receive(c) \/ Feed(c) PROVE Owners'
    <3>1. UNCHANGED <<proc, cons, hand, old, feeds, owner>>
      BY <2>2 DEF Connect, Receive, Feed, sessVars
    <3>2. \A b \in Conns : conn'[b] = conn[b] \/ (conn'[b] \in Procs /\ proc[conn'[b]] = "listening")
      BY <2>2 DEF Connect, Receive, Feed
    <3>3. \A b \in Conns : conn'[b] = None => sent'[b] = sent[b] /\ conn[b] = None
      BY <2>2, NoneAssumption DEF Connect, Receive, Feed
    <3> QED  BY <3>1, <3>2, <3>3, NoneAssumption
  <2>3. ASSUME NEW k \in Consumers, ConsumerStep(k) \/ WriteFails(k) PROVE Owners'
    <3>1. UNCHANGED <<proc, conn, sent>>  BY <2>3 DEF ConsumerStep, Get, Load, Store, WriteFails
    <3>2. \A j \in Consumers \ {k} : cons'[j] = cons[j] /\ hand'[j] = hand[j] /\ old'[j] = old[j]
      BY <2>3 DEF ConsumerStep, Get, Load, Store, WriteFails, sessVars
    <3>3. CASE Get(k)
      <4>1. cons[k] = "get" /\ cons'[k] = "load" /\ old' = old  BY <3>3 DEF Get
      <4> QED  BY <3>1, <3>2, <4>1
    <3>4. CASE Load(k)
      <4>1. cons[k] = "load" /\ cons'[k] = "store"  BY <3>4 DEF Load
      <4> QED  BY <3>1, <3>2, <4>1
    <3>5. CASE Store(k)
      <4>1. cons[k] = "store" /\ cons'[k] = "get" /\ hand'[k] = <<>> /\ old'[k] = <<>>
        BY <3>5 DEF Store
      <4> QED  BY <3>1, <3>2, <4>1
    <3>6. CASE WriteFails(k)
      <4>1. cons[k] = "get" /\ cons'[k] = "dead" /\ hand' = hand /\ old' = old
        BY <3>6 DEF WriteFails
      <4> QED  BY <3>1, <3>2, <4>1
    <3> QED  BY <2>3, <3>3, <3>4, <3>5, <3>6 DEF ConsumerStep
  <2> QED  BY <2>1, <2>2, <2>3 DEF WorkStep
<1> QED  BY <1>4, <1>6, <1>7 DEF TypeInv

\* They hold at the start.
LEMMA TypeInit == Init => TypeInv
<1> SUFFICES ASSUME Init PROVE TypeInv  OBVIOUS
<1>1. <<>> \in Seq(Chunk)  OBVIOUS
<1>2. (CHOOSE f \in Families : TRUE) \in Families  BY FamiliesAssumption
<1>3. [c \in Conns |-> 0] \in [Conns -> 0..MaxChunks]  BY ChunksAssumption
<1>4. CallTypes  BY <1>3 DEF Init, CallTypes, Labels
<1>5. SessTypes /\ WorkTypes  BY <1>1, <1>3 DEF Init, SessTypes, WorkTypes
<1>6. ProcTypes  BY <1>2 DEF Init, ProcTypes
<1> QED
  BY <1>4, <1>5, <1>6, TypeParts
     DEF Init, TypeInv, ThreadOK, ProcOK, ConnOK, ConsOK, StartPcs, CleanPcs, StopPcs

\* And when nothing moves.
LEMMA TypeStutter == TypeInv /\ UNCHANGED vars => TypeInv'
<1> SUFFICES ASSUME TypeInv, UNCHANGED vars PROVE TypeInv'  OBVIOUS
<1> USE DEF vars, sessVars, procVars, consVars, connVars, callVars
<1>1. TypeOK'  BY DEF TypeInv, TypeOK
<1> QED  BY <1>1 DEF TypeInv, ThreadOK, ProcOK, ConnOK, ConsOK

\* Every call is at its place in the code with the session it needs, every process and
\* every consumer that runs has a session, however the calls overlap.
THEOREM TypeInvariant == Spec => []TypeInv
<1>1. TypeInv /\ [Next]_vars => TypeInv'
  BY ThreadTypes, WorkTypesKept, TypeStutter DEF Next, WorkStep
<1> QED  BY TypeInit, <1>1, PTL DEF Spec

-----------------------------------------------------------------------------
(* Listeners within reach *)

\* The session, its list and its processes change only in calls that do not overlap.
LEMMA OnlyBusy ==
  ASSUME TypeInv, NEW t \in Threads, Begin(t) \/ ThreadStep(t), ~ Busy(t)
  PROVE  UNCHANGED <<ss, procs, proc, owner>>
<1> USE DEF TypeInv, ThreadOK, Busy, StartPcs, StopPcs, CleanPcs, sessVars, procVars
<1>1. CASE Begin(t)         BY <1>1 DEF Begin, Call
<1>2. CASE TestListening(t) BY <1>2 DEF TestListening
<1>3. CASE TestSilent(t)    BY <1>3 DEF TestSilent
<1>4. CASE TestNone(t)      BY <1>4 DEF TestNone
<1>5. CASE Create(t)        BY <1>5 DEF Create
<1>6. CASE CreateFails(t)   BY <1>6 DEF CreateFails
<1>7. CASE Enter(t)         BY <1>7 DEF Enter
<1>8. CASE Fork(t)          BY <1>8 DEF Fork
<1>9. CASE Consume(t)       BY <1>9 DEF Consume
<1>10. CASE StartFails(t)    BY <1>10 DEF StartFails
<1>11. CASE Report(t)        BY <1>11 DEF Report
<1>12. CASE Check(t)         BY <1>12 DEF Check
<1>13. CASE Read(t)          BY <1>13 DEF Read
<1>14. CASE Clean(t)         BY <1>14 DEF Clean
<1>15. CASE CleanWait(t)     BY <1>15 DEF CleanWait
<1>16. CASE CleanSleep(t)    BY <1>16 DEF CleanSleep
<1>17. CASE CleanClear(t)    BY <1>17 DEF CleanClear
<1>18. CASE Stop(t)          BY <1>18 DEF Stop
<1>19. CASE Kill(t)          BY <1>19 DEF Kill
<1>20. CASE Forget(t)        BY <1>20 DEF Forget
<1>21. CASE KillPort(t)      BY <1>21 DEF KillPort
<1>22. CASE Poll(t)          BY <1>22 DEF Poll
<1>23. CASE Release(t)       BY <1>23 DEF Release
<1>24. CASE Reply(t)         BY <1>24 DEF Reply
<1> QED
  BY <1>1, <1>2, <1>3, <1>4, <1>5, <1>6, <1>7, <1>8, <1>9, <1>10, <1>11, <1>12, <1>13,
     <1>14, <1>15, <1>16, <1>17, <1>18, <1>19, <1>20, <1>21, <1>22, <1>23, <1>24
     DEF ThreadStep, StartStep, ReadStep, StopStep

\* What SerialInv says of the thread that takes the step, and of the processes.
Reach(t) ==
  /\ \A p \in Procs : Live(p) => owner[p] = ss /\ p \in procs[ss]
  /\ pc[t] = "create" => ss = None
  /\ pc[t] \in {"fork", "consume"} \cup (StopPcs \ {"stop"}) => me[t] = ss
  /\ pc[t] \in {"forget", "killport", "poll", "release"} => \A p \in Procs : ~ Live(p)

\* A thread that steps keeps its own part of SerialInv.
LEMMA OwnReach ==
  ASSUME TypeInv, NEW t \in Threads, Reach(t), Begin(t) \/ ThreadStep(t)
  PROVE  Reach(t)'
<1> USE DEF TypeInv, TypeOK, Reach, Live, StopPcs, Goto, Answer, Raise, callVars, sessVars, procVars
<1>0. ss = None => \A p \in Procs : ~ Live(p)  BY NoneAssumption DEF ProcOK
<1>1. CASE Begin(t)         BY <1>1 DEF Begin, Call
<1>2. CASE TestListening(t) BY <1>2 DEF TestListening
<1>3. CASE TestSilent(t)    BY <1>3 DEF TestSilent
<1>4. CASE TestNone(t)      BY <1>4 DEF TestNone
<1>5. CASE Create(t)        BY <1>0, <1>5 DEF Create
<1>6. CASE CreateFails(t)   BY <1>6 DEF CreateFails
<1>7. CASE Enter(t)
  <2>1. CASE ss = None  BY <1>7, <2>1 DEF Enter
  <2>2. CASE ss # None
    <3>1. pc'[t] = "fork" /\ me'[t] = ss  BY <1>7, <2>2 DEF Enter
    <3> QED  BY <1>7, <3>1 DEF Enter
  <2> QED  BY <2>1, <2>2
<1>8. CASE Fork(t)
  <2>1. me[t] = ss /\ ss \in Sessions  BY <1>8 DEF Fork, ThreadOK
  <2>2. PICK p \in Procs : /\ proc' = [proc EXCEPT ![p] = "forked"]
                           /\ owner' = [owner EXCEPT ![p] = me[t]]
                           /\ procs' = [procs EXCEPT ![me[t]] = @ \cup {p}]
    BY <1>8 DEF Fork
  <2>3. ss' = ss /\ me' = me /\ pc'[t] \in {"fork", "consume"}  BY <1>8 DEF Fork
  <2> QED  BY <2>1, <2>2, <2>3
<1>9. CASE Consume(t)       BY <1>9 DEF Consume
<1>10. CASE StartFails(t)    BY <1>10 DEF StartFails
<1>11. CASE Report(t)        BY <1>11 DEF Report
<1>12. CASE Check(t)         BY <1>12 DEF Check
<1>13. CASE Read(t)          BY <1>13 DEF Read
<1>14. CASE Clean(t)         BY <1>14 DEF Clean
<1>15. CASE CleanWait(t)     BY <1>15 DEF CleanWait
<1>16. CASE CleanSleep(t)    BY <1>16 DEF CleanSleep
<1>17. CASE CleanClear(t)    BY <1>17 DEF CleanClear
<1>18. CASE Stop(t)          BY <1>18 DEF Stop
<1>19. CASE Kill(t)          BY <1>19 DEF Kill, Killed
<1>20. CASE Forget(t)        BY <1>20 DEF Forget
<1>21. CASE KillPort(t)      BY <1>21 DEF KillPort, Killed
<1>22. CASE Poll(t)          BY <1>22 DEF Poll
<1>23. CASE Release(t)       BY <1>23 DEF Release
<1>24. CASE Reply(t)         BY <1>24 DEF Reply
<1> QED
  BY <1>1, <1>2, <1>3, <1>4, <1>5, <1>6, <1>7, <1>8, <1>9, <1>10, <1>11, <1>12, <1>13,
     <1>14, <1>15, <1>16, <1>17, <1>18, <1>19, <1>20, <1>21, <1>22, <1>23, <1>24
     DEF ThreadStep, StartStep, ReadStep, StopStep

\* With calls one after another, a handler's step keeps all of SerialInv.
LEMMA ThreadSerial ==
  ASSUME Serial, TypeInv, SerialInv, NEW t \in Threads, Begin(t) \/ ThreadStep(t)
  PROVE  SerialInv'
<1>1. Reach(t)'
  <2>1. Reach(t)  BY DEF SerialInv, Reach
  <2> QED  BY <2>1, OwnReach
<1>2. \A u \in Threads \ {t} : /\ pc'[u] = pc[u] /\ op'[u] = op[u] /\ me'[u] = me[u]
  BY TypeParts, ThreadLocals DEF TypeInv
<1>3. ASSUME NEW u \in Threads \ {t}
      PROVE  /\ pc'[u] = "create" => ss' = None
             /\ pc'[u] \in {"fork", "consume"} \cup (StopPcs \ {"stop"}) => me'[u] = ss'
             /\ pc'[u] \in {"forget", "killport", "poll", "release"} => \A p \in Procs : ~ Live(p)'
  <2>1. CASE Busy(t)
    <3>1. ~ Busy(u)  BY <2>1 DEF SerialInv
    <3>2. pc[u] \notin StartPcs \cup StopPcs  BY <3>1 DEF TypeInv, ThreadOK, Busy
    <3> QED  BY <1>2, <3>2 DEF StartPcs, StopPcs
  <2>2. CASE ~ Busy(t)
    <3>1. UNCHANGED <<ss, procs, proc, owner>>  BY <2>2, OnlyBusy
    <3> QED  BY <1>2, <3>1 DEF SerialInv, Live
  <2> QED  BY <2>1, <2>2
<1>4. ASSUME NEW u \in Threads, Busy(u)', NEW w \in Threads, Busy(w)' PROVE u = w
  <2>1. Begin(t) \/ op'[t] \in {op[t], "none"}
    BY DEF ThreadStep, StartStep, ReadStep, StopStep, TestListening, TestSilent, TestNone, Create,
           CreateFails, Enter, Fork, Consume, StartFails, Report, Check, Read, Clean, CleanWait,
           CleanSleep, CleanClear, Stop, Kill, Forget, KillPort, Poll, Release, Reply, callVars,
           TypeInv, TypeOK
  <2>2. CASE Begin(t)
    <3>1. op'[t] = "read" \/ \A v \in Threads : ~ Busy(v)
      BY <2>2 DEF Begin, Call, Busy, TypeInv, TypeOK
    <3> QED  BY <1>2, <1>4, <3>1 DEF Busy, SerialInv
  <2>3. CASE op'[t] \in {op[t], "none"}  BY <1>2, <1>4, <2>3 DEF Busy, SerialInv
  <2> QED  BY <2>1, <2>2, <2>3
<1> QED  BY <1>1, <1>3, <1>4 DEF SerialInv, Reach

\* Processes only ever stop listening, or begin where they were forked to.
LEMMA WorkSerial ==
  ASSUME TypeInv, SerialInv, WorkStep
  PROVE  SerialInv'
<1>1. UNCHANGED <<ss, procs, owner, pc, op, me>>  BY WorkFrame DEF callVars
<1>2. \A p \in Procs : Live(p)' => Live(p)
  BY DEF Live, WorkStep, Listen, Die, Connect, Receive, Feed, ConsumerStep, Get, Load, Store, WriteFails,
         procVars, TypeInv, TypeOK
<1> QED  BY <1>1, <1>2 DEF SerialInv, Busy

\* When calls do not overlap, everything that listens or is about to is in the list of the
\* session that `ss` names, and nothing is left of it once datatype 175 has killed it.
THEOREM SerialInvariant ==
  ASSUME Serial
  PROVE  Spec => [](TypeInv /\ SerialInv)
<1>1. Init => SerialInv  BY DEF Init, SerialInv, Live, Busy, StopPcs
<1>2. SerialInv /\ UNCHANGED vars => SerialInv'
  BY DEF SerialInv, Live, Busy, vars, sessVars, procVars, callVars
<1>3. TypeInv /\ SerialInv /\ [Next]_vars => (TypeInv /\ SerialInv)'
  BY <1>2, ThreadTypes, WorkTypesKept, TypeStutter, ThreadSerial, WorkSerial DEF Next, WorkStep
<1> QED  BY <1>1, <1>3, TypeInit, PTL DEF Spec

\* No listener is left that datatype 175 would not find.
THEOREM StrayCorrect ==
  ASSUME Serial
  PROVE  Spec => []NoStray
<1>1. TypeInv /\ SerialInv => NoStray  BY DEF SerialInv, NoStray, Live
<1> QED  BY <1>1, SerialInvariant, PTL

-----------------------------------------------------------------------------
(* A clean is thorough *)

\* A consumer that begins has nothing in its hand.
LEMMA NewFeeder ==
  ASSUME TypeInv, NEW t \in Threads, Begin(t) \/ ThreadStep(t), NEW k \in Consumers
  PROVE  \/ feeds'[k] = feeds[k]
         \/ feeds[k] = None /\ hand[k] = <<>> /\ old[k] = <<>> /\ cons'[k] = "get"
<1> USE DEF TypeInv, TypeOK, ConsOK, consVars
<1>1. CASE Begin(t)         BY <1>1 DEF Begin, Call
<1>2. CASE TestListening(t) BY <1>2 DEF TestListening
<1>3. CASE TestSilent(t)    BY <1>3 DEF TestSilent
<1>4. CASE TestNone(t)      BY <1>4 DEF TestNone
<1>5. CASE Create(t)        BY <1>5 DEF Create
<1>6. CASE CreateFails(t)   BY <1>6 DEF CreateFails
<1>7. CASE Enter(t)         BY <1>7 DEF Enter
<1>8. CASE Fork(t)          BY <1>8 DEF Fork
<1>9. CASE Consume(t)       BY <1>9 DEF Consume
<1>10. CASE StartFails(t)    BY <1>10 DEF StartFails
<1>11. CASE Report(t)        BY <1>11 DEF Report
<1>12. CASE Check(t)         BY <1>12 DEF Check
<1>13. CASE Read(t)          BY <1>13 DEF Read
<1>14. CASE Clean(t)         BY <1>14 DEF Clean
<1>15. CASE CleanWait(t)     BY <1>15 DEF CleanWait
<1>16. CASE CleanSleep(t)    BY <1>16 DEF CleanSleep
<1>17. CASE CleanClear(t)    BY <1>17 DEF CleanClear
<1>18. CASE Stop(t)          BY <1>18 DEF Stop
<1>19. CASE Kill(t)          BY <1>19 DEF Kill
<1>20. CASE Forget(t)        BY <1>20 DEF Forget
<1>21. CASE KillPort(t)      BY <1>21 DEF KillPort
<1>22. CASE Poll(t)          BY <1>22 DEF Poll
<1>23. CASE Release(t)       BY <1>23 DEF Release
<1>24. CASE Reply(t)         BY <1>24 DEF Reply
<1> QED
  BY <1>1, <1>2, <1>3, <1>4, <1>5, <1>6, <1>7, <1>8, <1>9, <1>10, <1>11, <1>12, <1>13,
     <1>14, <1>15, <1>16, <1>17, <1>18, <1>19, <1>20, <1>21, <1>22, <1>23, <1>24
     DEF ThreadStep, StartStep, ReadStep, StopStep

\* A handler's step leaves the pipes and what they count alone.
LEMMA ThreadQueue ==
  ASSUME TypeInv, QueueInv, NEW t \in Threads, Begin(t) \/ ThreadStep(t)
  PROVE  QueueInv'
<1>1. /\ UNCHANGED <<conn, sent, fed, got, q>>
      /\ \A p \in Procs : proc[p] # "unborn" => owner'[p] = owner[p]
  BY ThreadWork
<1>2. \A s \in Sessions : Of(s) \subseteq Of(s)'  BY <1>1 DEF Of, TypeInv, TypeOK, ConnOK
<1> QED  BY <1>1, <1>2 DEF QueueInv, QueueOK

\* A connection's chunks are put, fed to the pipe and taken in their order.
LEMMA WorkQueue ==
  ASSUME TypeInv, QueueInv, WorkStep
  PROVE  QueueInv'
<1>1. owner' = owner /\ feeds' = feeds  BY WorkFrame
<1>2. /\ q \in [Sessions -> Seq(Chunk)] /\ sent \in [Conns -> Nat]
      /\ fed \in [Conns -> Nat] /\ got \in [Conns -> Nat]
  BY ChunksAssumption DEF TypeInv, TypeOK
<1>3. \A s \in Sessions : Len(q[s]) \in Nat /\ \A i \in 1..Len(q[s]) : q[s][i] \in Chunk
  BY <1>2
<1>4. \A e \in Chunk : e[1] \in Conns /\ e[2] \in Nat  BY ChunkParts
<1>5. CASE UNCHANGED <<q, fed, got>> /\ (\A c \in Conns : sent[c] <= sent'[c] /\ sent'[c] \in Nat)
           /\ \A c \in Conns : conn[c] # None => conn'[c] = conn[c]
  <2>1. \A s \in Sessions : Of(s) \subseteq Of(s)'  BY <1>1, <1>5 DEF Of
  <2>2. \A c \in Conns : got'[c] <= fed'[c] /\ fed'[c] <= sent'[c]  BY <1>2, <1>5 DEF QueueInv
  <2> QED  BY <1>5, <2>1, <2>2 DEF QueueInv, QueueOK
<1>6. ASSUME NEW c \in Conns, Receive(c) PROVE QueueInv'
  <2>1. UNCHANGED <<q, fed, got, conn>> /\ sent' = [sent EXCEPT ![c] = @ + 1]  BY <1>6 DEF Receive, sessVars
  <2>2. \A b \in Conns : sent[b] <= sent'[b] /\ sent'[b] \in Nat  BY <1>2, <2>1
  <2> QED  BY <1>5, <2>1, <2>2
<1>7. ASSUME NEW c \in Conns, Feed(c) PROVE QueueInv'
  <2> DEFINE e == <<c, fed[c] + 1>>
             x == owner[conn[c]]
  <2>1. /\ fed[c] < sent[c] /\ fed' = [fed EXCEPT ![c] = @ + 1]
        /\ q' = [q EXCEPT ![x] = Append(@, e)]
        /\ UNCHANGED <<conn, sent, got>> /\ conn[c] # None
    BY <1>7 DEF Feed
  <2>2. \A s \in Sessions : Of(s)' = Of(s)  BY <1>1, <2>1 DEF Of
  <2>3. \A b \in Conns : got'[b] <= fed'[b] /\ fed'[b] <= sent'[b] /\ fed[b] <= fed'[b] /\ fed'[b] \in Nat
    BY <1>2, <2>1 DEF QueueInv
  <2>4. fed'[c] = fed[c] + 1 /\ got[c] <= fed[c]  BY <1>2, <2>1 DEF QueueInv
  <2>5. c \in Of(x)  BY <2>1 DEF Of
  <2>6. e[1] = c /\ e[2] = fed[c] + 1  OBVIOUS
  <2>7. ASSUME NEW s \in Sessions PROVE QueueOK(s)'
    <3>1. QueueOK(s)  BY DEF QueueInv
    <3>2. ASSUME NEW i \in 1..Len(q[s])
          PROVE  /\ q[s][i][1] \in Of(s)' /\ q[s][i][1] \in Conns /\ q[s][i][2] \in Nat
                 /\ got'[q[s][i][1]] < q[s][i][2] /\ q[s][i][2] <= fed[q[s][i][1]]
                 /\ q[s][i][2] <= fed'[q[s][i][1]]
      <4>1. q[s][i][1] \in Conns /\ q[s][i][2] \in Nat  BY <1>3, <1>4
      <4>2. got[q[s][i][1]] < q[s][i][2] /\ q[s][i][2] <= fed[q[s][i][1]] /\ q[s][i][1] \in Of(s)
        BY <3>1 DEF QueueOK
      <4> QED  BY <1>2, <2>1, <2>2, <2>3, <4>1, <4>2
    <3>3. CASE x # s
      <4>1. q'[s] = q[s]  BY <1>2, <2>1, <3>3
      <4> QED  BY <3>1, <3>2, <4>1 DEF QueueOK
    <3>4. CASE x = s
      <4>1. q'[s] = Append(q[s], e)  BY <1>2, <2>1, <3>4
      <4>2. e \in Chunk  BY <1>2, <1>7, ChunksAssumption DEF Feed, Chunk, TypeInv, TypeOK
      <4> HIDE DEF e
      <4>3. /\ Len(q'[s]) = Len(q[s]) + 1 /\ q'[s][Len(q[s]) + 1] = e
            /\ \A j \in 1..Len(q[s]) : q'[s][j] = q[s][j]
        BY <1>2, <4>1, <4>2, AppendProperties
      <4>4. ASSUME NEW i \in 1..Len(q'[s])
            PROVE  /\ q'[s][i][1] \in Of(s)'
                   /\ got'[q'[s][i][1]] < q'[s][i][2] /\ q'[s][i][2] <= fed'[q'[s][i][1]]
        <5>1. CASE i \in 1..Len(q[s])  BY <3>2, <4>3, <5>1
        <5>2. CASE i = Len(q[s]) + 1
          <6>1. got'[c] < fed[c] + 1 /\ fed[c] + 1 <= fed'[c]  BY <1>2, <2>1, <2>4
          <6> QED  BY <2>2, <2>5, <2>6, <3>4, <4>3, <5>2, <6>1
        <5> QED  BY <1>3, <4>3, <5>1, <5>2
      <4>5. ASSUME NEW i \in 1..Len(q'[s]), NEW j \in 1..Len(q'[s]), i < j, q'[s][i][1] = q'[s][j][1]
            PROVE  q'[s][i][2] < q'[s][j][2]
        <5>1. i \in 1..Len(q[s])  BY <1>3, <4>3, <4>5
        <5>2. CASE j \in 1..Len(q[s])  BY <3>1, <4>3, <4>5, <5>1, <5>2 DEF QueueOK
        <5>3. CASE j = Len(q[s]) + 1
          <6>1. q[s][i][1] = c  BY <2>6, <4>3, <4>5, <5>1, <5>3
          <6>2. q[s][i][2] <= fed[c] /\ q[s][i][2] \in Nat  BY <3>2, <5>1, <6>1
          <6>3. q[s][i][2] < fed[c] + 1  BY <1>2, <6>2
          <6> QED  BY <2>6, <4>3, <5>1, <5>3, <6>3
        <5> QED  BY <1>3, <4>3, <5>2, <5>3
      <4> QED  BY <4>4, <4>5 DEF QueueOK
    <3> QED  BY <3>3, <3>4
  <2> QED  BY <2>3, <2>7 DEF QueueInv
<1>8. ASSUME NEW k \in Consumers, Get(k) PROVE QueueInv'
  <2> DEFINE x == feeds[k]
             e == Head(q[x])
  <2>1. x \in Sessions  BY <1>8 DEF Get, TypeInv, TypeOK, ConsOK
  <2>2. /\ got' = [got EXCEPT ![e[1]] = e[2]] /\ q' = [q EXCEPT ![x] = Tail(@)]
        /\ UNCHANGED <<conn, sent, fed>> /\ q[x] # <<>> /\ q[x] \in Seq(Chunk)
    BY <1>2, <1>8, <2>1 DEF Get
  <2>3. /\ e = q[x][1] /\ 1 \in 1..Len(q[x])
        /\ Len(Tail(q[x])) = Len(q[x]) - 1 /\ Len(q[x]) \in Nat
        /\ \A j \in 1..Len(Tail(q[x])) : Tail(q[x])[j] = q[x][j + 1]
    BY <2>2, HeadTailProperties
  <2>4. /\ e[1] \in Of(x) /\ e[1] \in Conns /\ e[2] \in Nat /\ e[2] <= fed[e[1]]
    BY <1>3, <1>4, <2>1, <2>3 DEF QueueInv, QueueOK
  <2>5. \A s \in Sessions : Of(s)' = Of(s)  BY <1>1, <2>2 DEF Of
  <2> HIDE DEF x, e
  <2>6. got'[e[1]] = e[2] /\ \A b \in Conns \ {e[1]} : got'[b] = got[b]  BY <1>2, <2>2, <2>4
  <2>7. \A b \in Conns : got'[b] <= fed'[b] /\ fed'[b] <= sent'[b]
    BY <2>2, <2>4, <2>6 DEF QueueInv
  <2>8. ASSUME NEW s \in Sessions PROVE QueueOK(s)'
    <3>1. QueueOK(s)  BY DEF QueueInv
    <3>2. CASE s # x
      <4>1. q'[s] = q[s]  BY <1>2, <2>2, <3>2
      <4>2. \A i \in 1..Len(q[s]) : q[s][i][1] \in Conns \ {e[1]}
        BY <1>3, <1>4, <2>4, <3>1, <3>2 DEF QueueOK, Of
      <4> QED  BY <2>2, <2>5, <2>6, <3>1, <4>1, <4>2 DEF QueueOK
    <3>3. CASE s = x
      <4>1. q'[s] = Tail(q[x])  BY <1>2, <2>1, <2>2, <3>3
      <4>2. \A i \in 1..Len(q'[s]) : i + 1 \in 1..Len(q[s]) /\ 1 < i + 1 /\ q'[s][i] = q[s][i + 1]
        BY <2>3, <3>3, <4>1
      <4>3. ASSUME NEW i \in 1..Len(q'[s])
            PROVE  /\ q'[s][i][1] \in Of(s)'
                   /\ got'[q'[s][i][1]] < q'[s][i][2] /\ q'[s][i][2] <= fed'[q'[s][i][1]]
        <5>1. i + 1 \in 1..Len(q[s]) /\ 1 < i + 1 /\ q'[s][i] = q[s][i + 1]  BY <4>2
        <5>2. q[s][i + 1][1] \in Conns  BY <1>3, <1>4, <5>1
        <5>3. CASE q[s][i + 1][1] = e[1]
          <6>1. e[2] < q[s][i + 1][2]  BY <2>3, <3>1, <3>3, <5>1, <5>3 DEF QueueOK
          <6> QED  BY <2>2, <2>5, <2>6, <3>1, <5>1, <5>3, <6>1 DEF QueueOK
        <5>4. CASE q[s][i + 1][1] # e[1]
          <6>1. got'[q[s][i + 1][1]] = got[q[s][i + 1][1]]  BY <2>6, <5>2, <5>4
          <6> QED  BY <2>2, <2>5, <3>1, <5>1, <6>1 DEF QueueOK
        <5> QED  BY <5>3, <5>4
      <4>4. ASSUME NEW i \in 1..Len(q'[s]), NEW j \in 1..Len(q'[s]), i < j, q'[s][i][1] = q'[s][j][1]
            PROVE  q'[s][i][2] < q'[s][j][2]
        <5>1. i + 1 \in 1..Len(q[s]) /\ j + 1 \in 1..Len(q[s]) /\ i + 1 < j + 1  BY <4>2, <4>4
        <5>2. q'[s][i] = q[s][i + 1] /\ q'[s][j] = q[s][j + 1]  BY <4>2
        <5> QED  BY <3>1, <4>4, <5>1, <5>2 DEF QueueOK
      <4> QED  BY <4>3, <4>4 DEF QueueOK
    <3> QED  BY <3>2, <3>3
  <2> QED  BY <2>7, <2>8 DEF QueueInv
<1>9. ASSUME \/ \E p \in Procs : Listen(p) \/ Die(p)
             \/ \E c \in Conns : Connect(c)
             \/ \E k \in Consumers : Load(k) \/ Store(k) \/ WriteFails(k)
      PROVE  QueueInv'
  <2>1. UNCHANGED <<q, sent, fed, got>>
    BY <1>9 DEF Listen, Die, Connect, Load, Store, WriteFails, sessVars, connVars
  <2>2. \A c \in Conns : conn[c] # None => conn'[c] = conn[c]
    BY <1>9 DEF Listen, Die, Connect, Load, Store, WriteFails, connVars, TypeInv, TypeOK
  <2>3. \A c \in Conns : sent[c] <= sent'[c] /\ sent'[c] \in Nat  BY <1>2, <2>1
  <2> QED  BY <1>5, <2>1, <2>2, <2>3
<1> QED  BY <1>6, <1>7, <1>8, <1>9 DEF WorkStep, ConsumerStep

\* Once a clean has waited, the pipe holds nothing from before it.
LEMMA PipeClean ==
  ASSUME TypeInv, QueueInv, NEW t \in Threads, NEW s \in Sessions,
         \A c \in Of(s) : before[t][c] <= got[c]
  PROVE  NoneBefore(t, q[s])
<1> SUFFICES ASSUME NEW i \in 1..Len(q[s]) PROVE q[s][i][2] > before[t][q[s][i][1]]
  BY DEF NoneBefore
<1>1. q[s][i][1] \in Of(s) /\ got[q[s][i][1]] < q[s][i][2]  BY DEF QueueInv, QueueOK
<1>2. q[s][i] \in Chunk  BY DEF TypeInv, TypeOK
<1>3. q[s][i][1] \in Conns /\ q[s][i][2] \in Nat  BY <1>2, ChunkParts
<1>4. before[t][q[s][i][1]] \in Nat /\ got[q[s][i][1]] \in Nat
  BY <1>3, ChunksAssumption DEF TypeInv, TypeOK
<1>5. before[t][q[s][i][1]] <= got[q[s][i][1]]  BY <1>1
<1> QED  BY <1>1, <1>3, <1>4, <1>5

\* A clean of its own comes as far as it has waited.
LEMMA OwnClean ==
  ASSUME TypeInv, QueueInv, NEW t \in Threads, CleanOK(t), Begin(t) \/ ThreadStep(t)
  PROVE  CleanOK(t)'
<1>0. /\ UNCHANGED <<hand, old, sent, got, q>>
      /\ \A s : Of(s)' = Of(s)
      /\ \A k \in Consumers : feeds'[k] = feeds[k] \/ (hand[k] = <<>> /\ old[k] = <<>>)
  <2>1. /\ UNCHANGED <<hand, old, sent, got, conn, q>>
        /\ \A p \in Procs : proc[p] # "unborn" => owner'[p] = owner[p]
    BY ThreadWork
  <2>2. \A s : Of(s)' = Of(s)  BY <2>1 DEF Of, TypeInv, TypeOK, ConnOK
  <2> QED  BY <2>1, <2>2, NewFeeder
<1>1. CASE op'[t] # "clean"  BY <1>1 DEF CleanOK
<1> USE DEF NoneBefore, Waited, Slept, Cleared
<1>2. CASE op'[t] = "clean" /\ op[t] # "clean"
  <2>1. Call(t, "clean", "check")
    BY <1>2
       DEF ThreadStep, StartStep, ReadStep, StopStep, TestListening, TestSilent, TestNone, Create,
           CreateFails, Enter, Fork, Consume, StartFails, Report, Check, Read, Clean, CleanWait,
           CleanSleep, CleanClear, Stop, Kill, Forget, KillPort, Poll, Release, Reply, callVars,
           Begin, Call, TypeInv, TypeOK
  <2>2. pc'[t] = "check" /\ before'[t] = sent  BY <2>1 DEF Call, Goto, TypeInv, TypeOK
  <2>3. \A c \in Conns : sent[c] <= sent[c]  BY ChunksAssumption DEF TypeInv, TypeOK
  <2> QED  BY <1>0, <2>2, <2>3 DEF CleanOK
<1>3. CASE op'[t] = "clean" /\ op[t] = "clean"
  <2>1. pc[t] \in CleanPcs \cup {"check", "done"}
    BY <1>3 DEF TypeInv, TypeOK, ThreadOK, Labels, StartPcs, StopPcs, CleanPcs
  <2>2. ReadStep(t) /\ UNCHANGED before
    BY <1>3, <2>1
       DEF ThreadStep, StartStep, ReadStep, StopStep, TestListening, TestSilent, TestNone, Create,
           CreateFails, Enter, Fork, Consume, StartFails, Report, Check, Read, Clean, CleanWait,
           CleanSleep, CleanClear, Stop, Kill, Forget, KillPort, Poll, Release, Reply, callVars,
           Begin, Call, TypeInv, TypeOK, CleanPcs
  <2>3. \A c \in Conns : before'[t][c] <= sent'[c]  BY <1>0, <1>3, <2>2 DEF CleanOK
  <2>4. CASE Check(t) \/ Read(t) \/ Clean(t)
    <3>1. pc'[t] \in {"clean", "read", "wait"} \/ (pc'[t] = "done" /\ ~ ok'[t])
      BY <1>3, <2>4 DEF Check, Read, Clean, Raise, Answer, Goto, TypeInv, TypeOK, ThreadOK
    <3> QED  BY <2>3, <3>1 DEF CleanOK
  <2>5. CASE CleanWait(t)
    <3>1. pc'[t] = "sleep" /\ me' = me /\ ~ Queued(me[t])
      BY <2>5 DEF CleanWait, Goto, callVars, TypeInv, TypeOK
    <3>2. ASSUME NEW c \in Of(me[t]) PROVE before[t][c] <= got[c]
      <4>1. c \in Conns  BY DEF Of
      <4>2. before[t][c] <= sent[c] /\ ~ (got[c] < sent[c])  BY <1>3, <3>1, <4>1 DEF CleanOK, Queued
      <4>3. before[t][c] \in Nat /\ got[c] \in Nat /\ sent[c] \in Nat
        BY <4>1, ChunksAssumption DEF TypeInv, TypeOK
      <4> QED  BY <4>2, <4>3
    <3> QED  BY <1>0, <2>2, <2>3, <3>1, <3>2 DEF CleanOK
  <2>6. CASE CleanSleep(t)
    <3>1. /\ pc[t] = "sleep" /\ pc'[t] = "clear" /\ me' = me /\ UNCHANGED feeds
          /\ \A k \in Consumers : feeds[k] = me[t] =>
               \A e \in Range(hand[k]) : e[2] > before[t][e[1]]
      BY <2>6 DEF CleanSleep, Goto, callVars, consVars, TypeInv, TypeOK
    <3>2. \A k \in Consumers : \A i \in 1..Len(hand[k]) : hand[k][i] \in Range(hand[k])
      BY DEF Range, TypeInv, TypeOK
    <3>3. \A k \in Consumers : feeds[k] = me[t] => NoneBefore(t, hand[k])  BY <3>1, <3>2
    <3> QED  BY <1>0, <1>3, <2>2, <2>3, <3>1, <3>3 DEF CleanOK
  <2>7. CASE CleanClear(t)
    <3>1. /\ pc[t] = "clear" /\ pc'[t] = "done" /\ me' = me /\ UNCHANGED <<feeds, cons>>
          /\ data' = [data EXCEPT ![me[t]] = <<>>]
          /\ raced' = IF \E k \in Consumers : feeds[k] = me[t] /\ cons[k] = "store"
                      THEN raced \cup {me[t]} ELSE raced \ {me[t]}
      BY <2>7 DEF CleanClear, Goto, Answer, consVars, TypeInv, TypeOK
    <3>2. me[t] \in Sessions  BY <3>1 DEF TypeInv, TypeOK, ThreadOK
    <3>3. data'[me[t]] = <<>>  BY <3>1, <3>2 DEF TypeInv, TypeOK
    <3>4. me[t] \notin raced' => \A k \in Consumers : feeds[k] = me[t] => old[k] = <<>>
      BY <3>1 DEF TypeInv, ConsOK
    <3> QED  BY <1>0, <1>3, <2>2, <2>3, <3>1, <3>3, <3>4 DEF CleanOK
  <2> QED  BY <2>2, <2>4, <2>5, <2>6, <2>7 DEF ReadStep
<1> QED  BY <1>1, <1>2, <1>3

\* A handler's step that empties a session's data, or that says of another one that it was
\* cleared behind a consumer's back.
LEMMA ThreadRaced ==
  ASSUME TypeInv, NEW t \in Threads, Begin(t) \/ ThreadStep(t), NEW s \in Sessions
  PROVE  \/ data'[s] = data[s] /\ (s \in raced <=> s \in raced')
         \/ /\ data'[s] = <<>>
            /\ s \notin raced' => \A k \in Consumers : feeds'[k] = s => old[k] = <<>>
<1>1. CASE UNCHANGED <<data, raced>>  BY <1>1
<1>2. CASE CleanClear(t)
  <2>1. /\ data' = [data EXCEPT ![me[t]] = <<>>] /\ UNCHANGED <<feeds, cons>>
        /\ raced' = IF \E k \in Consumers : feeds[k] = me[t] /\ cons[k] = "store"
                    THEN raced \cup {me[t]} ELSE raced \ {me[t]}
    BY <1>2 DEF CleanClear, consVars
  <2>2. CASE s # me[t]  BY <2>1, <2>2 DEF TypeInv, TypeOK
  <2>3. CASE s = me[t]  BY <2>1, <2>3 DEF TypeInv, TypeOK, ConsOK
  <2> QED  BY <2>2, <2>3
<1>3. UNCHANGED <<data, raced>> \/ CleanClear(t)
  BY DEF ThreadStep, StartStep, ReadStep, StopStep, TestListening, TestSilent, TestNone, Create,
         CreateFails, Enter, Fork, Consume, StartFails, Report, Check, Read, Clean, CleanWait,
         CleanSleep, Stop, Kill, Forget, KillPort, Poll, Release, Reply, sessVars, Begin, Call
<1> QED  BY <1>1, <1>2, <1>3

\* A handler's step keeps what the cleans have waited for.
LEMMA ThreadClean ==
  ASSUME TypeInv, QueueInv, CleanInv, NEW t \in Threads, Begin(t) \/ ThreadStep(t)
  PROVE  CleanInv'
<1>1. CleanOK(t)'  BY OwnClean DEF CleanInv
<1>2. ASSUME NEW u \in Threads \ {t}, op[u] = "clean" PROVE CleanOK(u)'
  <2>1. /\ pc'[u] = pc[u] /\ op'[u] = op[u] /\ me'[u] = me[u] /\ ok'[u] = ok[u]
        /\ before'[u] = before[u]
    BY TypeParts, ThreadLocals DEF TypeInv
  <2>2. /\ UNCHANGED <<hand, old, sent, got, conn>>
        /\ \A p \in Procs : proc[p] # "unborn" => owner'[p] = owner[p]
    BY ThreadWork
  <2>3. \A k \in Consumers : feeds'[k] = feeds[k] \/ (hand[k] = <<>> /\ old[k] = <<>>)
    BY NewFeeder
  <2>4. Of(me[u])' = Of(me[u])  BY <2>1, <2>2 DEF Of, TypeInv, TypeOK, ConnOK
  <2>5. CleanOK(u)  BY DEF CleanInv
  <2>6. NoneBefore(u, <<>>)  BY DEF NoneBefore
  <2>7. Waited(u)' => \A c \in Of(me[u])' : before'[u][c] <= got'[c]
    BY <1>2, <2>1, <2>2, <2>4, <2>5 DEF CleanOK, Waited
  <2>8. Slept(u)' => \A k \in Consumers : feeds'[k] = me[u]' => NoneBefore(u, hand[k])
    BY <1>2, <2>1, <2>3, <2>5, <2>6 DEF CleanOK, Slept
  <2>9. ASSUME Cleared(u)'
        PROVE  /\ NoneBefore(u, data'[me[u]])
               /\ \A k \in Consumers : feeds'[k] = me[u] => NoneBefore(u, old[k])
    <3>1. pc[u] = "done" /\ ok[u] /\ me[u] \notin raced'  BY <2>1, <2>9 DEF Cleared
    <3>2. me[u] \in Sessions  BY <1>2, <3>1 DEF TypeInv, TypeOK, ThreadOK
    <3>3. CASE data'[me[u]] = data[me[u]] /\ me[u] \notin raced
      <4>1. /\ NoneBefore(u, data[me[u]])
            /\ \A k \in Consumers : feeds[k] = me[u] => NoneBefore(u, old[k])
        BY <1>2, <2>5, <3>1, <3>3 DEF CleanOK, Cleared
      <4> QED  BY <2>3, <2>6, <3>3, <4>1
    <3>4. CASE data'[me[u]] = <<>> /\ \A k \in Consumers : feeds'[k] = me[u] => old[k] = <<>>
      BY <2>6, <3>4
    <3> QED  BY <3>1, <3>2, <3>3, <3>4, ThreadRaced
  <2>10. \A c \in Conns : before'[u][c] <= sent'[c]  BY <1>2, <2>1, <2>2, <2>5 DEF CleanOK
  <2> QED  BY <2>1, <2>2, <2>7, <2>8, <2>9, <2>10 DEF CleanOK, NoneBefore
<1>3. ASSUME NEW u \in Threads \ {t}, op[u] # "clean" PROVE CleanOK(u)'
  <2>1. op'[u] = op[u]  BY TypeParts, ThreadLocals DEF TypeInv
  <2> QED  BY <1>3, <2>1 DEF CleanOK
<1> QED  BY <1>1, <1>2, <1>3 DEF CleanInv

\* What is received now was not received before; a consumer takes what is in the pipe.
LEMMA WorkClean ==
  ASSUME TypeInv, QueueInv, CleanInv, WorkStep
  PROVE  CleanInv'
<1>1. UNCHANGED <<owner, feeds, pc, op, me, ok, before>>  BY WorkFrame DEF callVars
<1>2. SUFFICES ASSUME NEW t \in Threads, op[t] = "clean" PROVE CleanOK(t)'
  BY <1>1 DEF CleanInv, CleanOK
<1>3. CleanOK(t) /\ \A c \in Conns : before[t][c] <= sent[c]  BY <1>2 DEF CleanInv, CleanOK
<1>4. /\ before[t] \in [Conns -> Nat] /\ sent \in [Conns -> Nat] /\ got \in [Conns -> Nat]
      /\ q \in [Sessions -> Seq(Chunk)] /\ hand \in [Consumers -> Seq(Chunk)]
      /\ data \in [Sessions -> Seq(Chunk)] /\ old \in [Consumers -> Seq(Chunk)]
  BY ChunksAssumption DEF TypeInv, TypeOK
<1>5. ASSUME Waited(t)
      PROVE  me[t] \in Sessions
  BY <1>2, <1>5 DEF TypeInv, TypeOK, ThreadOK, Waited
<1> USE DEF Waited, Slept, Cleared
<1>6. CASE /\ UNCHANGED <<data, raced, hand, old>>
           /\ \A c \in Conns : sent[c] <= sent'[c] /\ sent'[c] \in Nat
           /\ \A c \in Conns : c \in Of(me[t])' => c \in Of(me[t]) \/ before[t][c] = 0
           /\ \A c \in Conns : got[c] <= got'[c] /\ got'[c] \in Nat
  <2>1. \A c \in Conns : before[t][c] <= sent'[c]  BY <1>3, <1>4, <1>6
  <2>2. ASSUME Waited(t), NEW c \in Of(me[t])' PROVE before[t][c] <= got'[c]
    <3>1. c \in Conns  BY DEF Of
    <3>2. before[t][c] <= got[c] \/ before[t][c] = 0  BY <1>2, <1>3, <1>6, <2>2, <3>1 DEF CleanOK
    <3>3. before[t][c] \in Nat /\ got[c] \in Nat /\ got[c] <= got'[c] /\ got'[c] \in Nat
      BY <1>4, <1>6, <3>1
    <3> QED  BY <3>2, <3>3
  <2> QED  BY <1>1, <1>2, <1>3, <1>6, <2>1, <2>2 DEF CleanOK, NoneBefore
<1>7. ASSUME NEW c \in Conns, Receive(c) \/ Feed(c) PROVE CleanOK(t)'
  <2>1. UNCHANGED <<data, raced, hand, old, got, conn>>
    BY <1>7 DEF Receive, Feed, sessVars, consVars
  <2>2. \A b \in Conns : sent[b] <= sent'[b] /\ sent'[b] \in Nat
    <3>1. sent' = sent \/ sent' = [sent EXCEPT ![c] = @ + 1]  BY <1>7 DEF Receive, Feed
    <3>2. \A b \in Conns : sent[b] \in Nat /\ sent'[b] \in {sent[b], sent[b] + 1}  BY <1>4, <3>1
    <3>3. \A n \in Nat : n <= n /\ n <= n + 1 /\ n + 1 \in Nat  OBVIOUS
    <3> QED  BY <3>2, <3>3
  <2>3. Of(me[t])' = Of(me[t])  BY <1>1, <2>1 DEF Of
  <2>4. \A b \in Conns : got[b] <= got'[b] /\ got'[b] \in Nat  BY <1>4, <2>1
  <2> QED  BY <1>6, <2>1, <2>2, <2>3, <2>4
<1>8. ASSUME NEW c \in Conns, Connect(c) PROVE CleanOK(t)'
  <2>1. UNCHANGED <<data, raced, hand, old, got, sent>> /\ conn[c] = None
        /\ \A b \in Conns \ {c} : conn'[b] = conn[b]
    BY <1>8 DEF Connect, sessVars, consVars, TypeInv, TypeOK
  <2>2. before[t][c] = 0
    <3>1. sent[c] = 0  BY <2>1 DEF TypeInv, ConnOK
    <3> QED  BY <1>3, <1>4, <3>1
  <2>3. \A b \in Conns : b \in Of(me[t])' => b \in Of(me[t]) \/ before[t][b] = 0
    BY <1>1, <2>1, <2>2 DEF Of
  <2>4. \A b \in Conns : /\ got[b] <= got'[b] /\ got'[b] \in Nat
                         /\ sent[b] <= sent'[b] /\ sent'[b] \in Nat
    BY <1>4, <2>1
  <2> QED  BY <1>6, <2>1, <2>3, <2>4
<1>9. ASSUME NEW p \in Procs, Listen(p) \/ Die(p) PROVE CleanOK(t)'
  <2>1. UNCHANGED <<data, raced, hand, old, got, sent, conn>>
    BY <1>9 DEF Listen, Die, sessVars, consVars, connVars
  <2>2. Of(me[t])' = Of(me[t])  BY <1>1, <2>1 DEF Of
  <2>3. \A b \in Conns : /\ got[b] <= got'[b] /\ got'[b] \in Nat
                         /\ sent[b] <= sent'[b] /\ sent'[b] \in Nat
    BY <1>4, <2>1
  <2> QED  BY <1>6, <2>1, <2>2, <2>3
<1>10. ASSUME NEW k \in Consumers, Get(k) PROVE CleanOK(t)'
  <2> DEFINE s == feeds[k]
             e == Head(q[s])
  <2>1. s \in Sessions  BY <1>10 DEF Get, TypeInv, TypeOK, ConsOK
  <2>2. /\ hand' = [hand EXCEPT ![k] = <<e>>] /\ got' = [got EXCEPT ![e[1]] = e[2]]
        /\ q[s] # <<>> /\ q[s] \in Seq(Chunk) /\ UNCHANGED <<data, raced, old, sent, conn>>
    BY <1>4, <1>10, <2>1 DEF Get
  <2>3. e = q[s][1] /\ 1 \in 1..Len(q[s]) /\ e \in Chunk
    BY <2>2, HeadTailProperties
  <2>4. /\ e[1] \in Of(s) /\ e[1] \in Conns /\ e[2] \in Nat /\ got[e[1]] < e[2]
    BY <2>1, <2>3, ChunkParts DEF QueueInv, QueueOK
  <2> HIDE DEF s, e
  <2>5. \A b \in Conns : got[b] <= got'[b] /\ got'[b] \in Nat  BY <1>4, <2>2, <2>4
  <2>6. Of(me[t])' = Of(me[t])  BY <1>1, <2>2 DEF Of
  <2>7. ASSUME Waited(t), NEW c \in Of(me[t])' PROVE before[t][c] <= got'[c]
    <3>1. c \in Conns /\ c \in Of(me[t])  BY <2>6 DEF Of
    <3>2. before[t][c] <= got[c]  BY <1>2, <1>3, <2>7, <3>1 DEF CleanOK
    <3>3. before[t][c] \in Nat /\ got[c] \in Nat /\ got[c] <= got'[c] /\ got'[c] \in Nat
      BY <1>4, <2>5, <3>1
    <3> QED  BY <3>2, <3>3
  <2>8. ASSUME Slept(t), NEW j \in Consumers, feeds[j] = me[t] PROVE NoneBefore(t, hand'[j])
    <3>1. CASE j # k
      <4>1. hand'[j] = hand[j]  BY <1>4, <2>2, <3>1
      <4> QED  BY <1>2, <1>3, <2>8, <4>1 DEF CleanOK
    <3>2. CASE j = k
      <4>1. hand'[j] = <<q[s][1]>> /\ s = me[t]  BY <1>4, <2>2, <2>3, <2>8, <3>2 DEF s
      <4>2. \A c \in Of(s) : before[t][c] <= got[c]  BY <1>2, <1>3, <2>8, <4>1 DEF CleanOK
      <4>3. NoneBefore(t, q[s])  BY <2>1, <4>2, PipeClean
      <4> QED  BY <2>3, <4>1, <4>3 DEF NoneBefore
    <3> QED  BY <3>1, <3>2
  <2> QED  BY <1>1, <1>2, <1>3, <2>2, <2>7, <2>8 DEF CleanOK, NoneBefore
<1>11. ASSUME NEW k \in Consumers, Load(k) PROVE CleanOK(t)'
  <2>1. /\ UNCHANGED <<data, raced, hand, got, sent, conn>>
        /\ old' = [old EXCEPT ![k] = data[feeds[k]]]
    BY <1>11 DEF Load, sessVars, connVars
  <2>2. Of(me[t])' = Of(me[t])  BY <1>1, <2>1 DEF Of
  <2>3. ASSUME Cleared(t), NEW j \in Consumers, feeds[j] = me[t] PROVE NoneBefore(t, old'[j])
    <3>1. /\ NoneBefore(t, data[me[t]])
          /\ NoneBefore(t, old[j])
      BY <1>2, <1>3, <2>3 DEF CleanOK
    <3>2. old'[j] = old[j] \/ (j = k /\ old'[j] = data[me[t]])  BY <1>4, <2>1, <2>3
    <3> QED  BY <3>1, <3>2
  <2> QED  BY <1>1, <1>2, <1>3, <2>1, <2>2, <2>3 DEF CleanOK, NoneBefore
<1>12. ASSUME NEW k \in Consumers, Store(k) PROVE CleanOK(t)'
  <2>1. /\ UNCHANGED <<raced, got, sent, conn>>
        /\ hand' = [hand EXCEPT ![k] = <<>>] /\ old' = [old EXCEPT ![k] = <<>>]
        /\ data' = [data EXCEPT ![feeds[k]] = old[k] \o hand[k]]
    BY <1>12 DEF Store, connVars
  <2>2. Of(me[t])' = Of(me[t])  BY <1>1, <2>1 DEF Of
  <2>3. NoneBefore(t, <<>>)  BY DEF NoneBefore
  <2>4. \A j \in Consumers : hand'[j] \in {hand[j], <<>>} /\ old'[j] \in {old[j], <<>>}
    BY <1>4, <2>1
  <2>5. ASSUME Cleared(t) PROVE NoneBefore(t, data'[me[t]])
    <3>1. /\ NoneBefore(t, data[me[t]])
          /\ \A j \in Consumers : feeds[j] = me[t] => NoneBefore(t, old[j]) /\ NoneBefore(t, hand[j])
      BY <1>2, <1>3, <2>5 DEF CleanOK
    <3>2. CASE feeds[k] # me[t]
      <4>1. data'[me[t]] = data[me[t]]  BY <1>4, <1>5, <2>1, <2>5, <3>2
      <4> QED  BY <3>1, <4>1
    <3>3. CASE feeds[k] = me[t]
      <4>1. data'[me[t]] = old[k] \o hand[k]  BY <1>4, <1>5, <2>1, <2>5, <3>3
      <4>2. NoneBefore(t, old[k]) /\ NoneBefore(t, hand[k])  BY <3>1, <3>3
      <4>3. old[k] \in Seq(Chunk) /\ hand[k] \in Seq(Chunk)  BY <1>4
      <4>4. /\ Len(old[k] \o hand[k]) = Len(old[k]) + Len(hand[k])
            /\ Len(old[k]) \in Nat /\ Len(hand[k]) \in Nat
            /\ \A i \in 1..Len(old[k]) + Len(hand[k]) :
                 (old[k] \o hand[k])[i] = IF i <= Len(old[k]) THEN old[k][i]
                                          ELSE hand[k][i - Len(old[k])]
        <5>1. \A x, y \in Seq(Chunk) :
                /\ Len(x \o y) = Len(x) + Len(y) /\ Len(x) \in Nat /\ Len(y) \in Nat
                /\ \A i \in 1..Len(x) + Len(y) :
                     (x \o y)[i] = IF i <= Len(x) THEN x[i] ELSE y[i - Len(x)]
          BY ConcatProperties
        <5> QED  BY <4>3, <5>1
      <4>5. \A i \in 1..Len(old[k] \o hand[k]) :
              \/ i \in 1..Len(old[k]) /\ (old[k] \o hand[k])[i] = old[k][i]
              \/ /\ i - Len(old[k]) \in 1..Len(hand[k])
                 /\ (old[k] \o hand[k])[i] = hand[k][i - Len(old[k])]
        <5> DEFINE a == old[k]
                   b == hand[k]
        <5> HIDE DEF a, b
        <5>1. /\ Len(a \o b) = Len(a) + Len(b) /\ Len(a) \in Nat /\ Len(b) \in Nat
              /\ \A i \in 1..Len(a) + Len(b) :
                   (a \o b)[i] = IF i <= Len(a) THEN a[i] ELSE b[i - Len(a)]
          BY <4>4 DEF a, b
        <5>2. ASSUME NEW i \in 1..Len(a \o b)
              PROVE  \/ i \in 1..Len(a) /\ (a \o b)[i] = a[i]
                     \/ i - Len(a) \in 1..Len(b) /\ (a \o b)[i] = b[i - Len(a)]
          BY <5>1
        <5> QED  BY <5>2 DEF a, b
      <4> QED  BY <4>1, <4>2, <4>5 DEF NoneBefore
    <3> QED  BY <3>2, <3>3
  <2>6. ASSUME Slept(t), NEW j \in Consumers, feeds[j] = me[t] PROVE NoneBefore(t, hand'[j])
    BY <1>2, <1>3, <2>3, <2>4, <2>6 DEF CleanOK
  <2>7. ASSUME Cleared(t), NEW j \in Consumers, feeds[j] = me[t] PROVE NoneBefore(t, old'[j])
    BY <1>2, <1>3, <2>3, <2>4, <2>7 DEF CleanOK
  <2> QED  BY <1>1, <1>2, <1>3, <2>1, <2>2, <2>5, <2>6, <2>7 DEF CleanOK, NoneBefore
<1>13. ASSUME NEW k \in Consumers, WriteFails(k) PROVE CleanOK(t)'
  <2>1. UNCHANGED <<data, raced, hand, old, got, sent, conn>>
    BY <1>13 DEF WriteFails, sessVars, connVars
  <2>2. Of(me[t])' = Of(me[t])  BY <1>1, <2>1 DEF Of
  <2>3. \A b \in Conns : /\ got[b] <= got'[b] /\ got'[b] \in Nat
                         /\ sent[b] <= sent'[b] /\ sent'[b] \in Nat
    BY <1>4, <2>1
  <2> QED  BY <1>6, <2>1, <2>2, <2>3
<1> QED
  BY <1>7, <1>8, <1>9, <1>10, <1>11, <1>12, <1>13 DEF WorkStep, ConsumerStep

\* However the calls overlap, a clean that came past its waits has met everything that
\* was received before it was asked for.
THEOREM CleanInvariant == Spec => [](TypeInv /\ QueueInv /\ CleanInv)
<1>1. Init => QueueInv /\ CleanInv
  <2> SUFFICES ASSUME Init PROVE QueueInv /\ CleanInv  OBVIOUS
  <2>1. CleanInv  BY DEF Init, CleanInv, CleanOK
  <2>2. \A s \in Sessions : q[s] = <<>>  BY DEF Init
  <2>3. \A s \in Sessions : Len(q[s]) = 0  BY <2>2
  <2>4. \A s \in Sessions : QueueOK(s)  BY <2>3 DEF QueueOK
  <2>5. \A c \in Conns : got[c] <= fed[c] /\ fed[c] <= sent[c]  BY DEF Init
  <2> QED  BY <2>1, <2>4, <2>5 DEF QueueInv
<1>2. QueueInv /\ CleanInv /\ UNCHANGED vars => QueueInv' /\ CleanInv'
  BY DEF QueueInv, QueueOK, CleanInv, CleanOK, NoneBefore, Waited, Slept, Cleared, Of,
         vars, sessVars, procVars, consVars, connVars, callVars
<1>3. TypeInv /\ QueueInv /\ CleanInv /\ [Next]_vars => (TypeInv /\ QueueInv /\ CleanInv)'
  <2> SUFFICES ASSUME TypeInv, QueueInv, CleanInv, [Next]_vars
               PROVE  TypeInv' /\ QueueInv' /\ CleanInv'
    OBVIOUS
  <2>1. CASE UNCHANGED vars  BY <1>2, <2>1, TypeStutter
  <2>2. ASSUME NEW t \in Threads, Begin(t) \/ ThreadStep(t) PROVE TypeInv' /\ QueueInv' /\ CleanInv'
    BY <2>2, ThreadTypes, ThreadQueue, ThreadClean
  <2>3. CASE WorkStep  BY <2>3, WorkTypesKept, WorkQueue, WorkClean
  <2> QED  BY <2>1, <2>2, <2>3 DEF Next, WorkStep
<1> QED  BY <1>1, <1>3, TypeInit, PTL DEF Spec

\* A clean that is answered ok has left nothing from before it in the queue or in a
\* consumer's hand, nor, unless a consumer was between its read and its write of the data
\* as they were cleared, in the data or in a consumer's copy of them.
THEOREM CleanCorrect == Spec => []CleanIsThorough
<1>1. TypeInv /\ QueueInv /\ CleanInv => CleanIsThorough
  <2> SUFFICES ASSUME TypeInv, QueueInv, CleanInv,
                      NEW t \in Threads, pc[t] = "done", op[t] = "clean", ok[t],
                      NEW c \in Conns, NEW n \in 1..MaxChunks, n <= before[t][c]
               PROVE  /\ c \in Of(me[t]) => n <= got[c]
                      /\ <<c, n>> \notin Range(q[me[t]])
                      /\ \A k \in Consumers : feeds[k] = me[t] => <<c, n>> \notin Range(hand[k])
                      /\ me[t] \notin raced =>
                           /\ <<c, n>> \notin Range(data[me[t]])
                           /\ \A k \in Consumers : feeds[k] = me[t] => <<c, n>> \notin Range(old[k])
    BY DEF CleanIsThorough
  <2>1. /\ \A b \in Of(me[t]) : before[t][b] <= got[b]
        /\ \A k \in Consumers : feeds[k] = me[t] => NoneBefore(t, hand[k])
        /\ me[t] \notin raced =>
             /\ NoneBefore(t, data[me[t]])
             /\ \A k \in Consumers : feeds[k] = me[t] => NoneBefore(t, old[k])
    BY DEF CleanInv, CleanOK, Waited, Slept, Cleared
  <2>2. me[t] \in Sessions  BY DEF TypeInv, TypeOK, ThreadOK
  <2>3. NoneBefore(t, q[me[t]])  BY <2>1, <2>2, PipeClean
  <2>4. before[t][c] \in Nat /\ n \in Nat /\ got[c] \in Nat
    BY ChunksAssumption DEF TypeInv, TypeOK
  <2>5. c \in Of(me[t]) => n <= got[c]  BY <2>1, <2>4
  <2>6. ASSUME NEW s \in Seq(Chunk), NoneBefore(t, s) PROVE <<c, n>> \notin Range(s)
    <3>2. \A j \in 1..Len(s) : s[j] # <<c, n>>  BY <2>4, <2>6 DEF NoneBefore
    <3>3. DOMAIN s = 1..Len(s)  BY <2>6
    <3> QED  BY <3>2, <3>3 DEF Range
  <2>7. /\ q[me[t]] \in Seq(Chunk) /\ data[me[t]] \in Seq(Chunk)
        /\ \A k \in Consumers : hand[k] \in Seq(Chunk) /\ old[k] \in Seq(Chunk)
    BY <2>2 DEF TypeInv, TypeOK
  <2> QED  BY <2>1, <2>3, <2>5, <2>6, <2>7
<1> QED  BY <1>1, CleanInvariant, PTL

-----------------------------------------------------------------------------
(* The order of chunks *)

\* The beginning of a sequence of consecutive chunks is one.
LEMMA ConsecutivePrefix ==
  ASSUME NEW a \in Seq(Chunk), NEW b \in Seq(Chunk), Consecutive(a \o b)
  PROVE  Consecutive(a)
<1> DEFINE r == a \o b
<1>1. /\ Len(a) \in Nat /\ Len(b) \in Nat /\ Len(r) = Len(a) + Len(b)
      /\ \A j \in 1..Len(a) : r[j] = a[j]
  BY ConcatProperties
<1> SUFFICES ASSUME NEW i \in 1..Len(a), NEW j \in 1..Len(a),
                    i < j, a[i][1] = a[j][1], \A m \in i + 1..j - 1 : a[m][1] # a[i][1]
             PROVE  a[j][2] = a[i][2] + 1
  BY DEF Consecutive
<1>2. i \in 1..Len(r) /\ j \in 1..Len(r) /\ r[i] = a[i] /\ r[j] = a[j]  BY <1>1
<1>3. \A m \in i + 1..j - 1 : r[m] = a[m]  BY <1>1
<1> HIDE DEF r
<1>4. \A x, y \in 1..Len(r) :
        x < y /\ r[x][1] = r[y][1] /\ (\A m \in x + 1..y - 1 : r[m][1] # r[x][1])
        => r[y][2] = r[x][2] + 1
  BY DEF Consecutive, r
<1>5. \A m \in i + 1..j - 1 : r[m][1] # r[i][1]  BY <1>2, <1>3
<1> QED  BY <1>2, <1>4, <1>5

\* A place of a stream, counted from its suffix.
LEMMA ShiftBack ==
  ASSUME NEW n \in Nat, NEW l \in Nat, NEW i \in 1..l, NEW j \in 1..l, NEW m \in n + i + 1..n + j - 1
  PROVE  m - n \in i + 1..j - 1 /\ m - n \in 1..l /\ n + (m - n) = m
OBVIOUS

\* What is left of a stream when its beginning is cleared is one.
LEMMA StreamSuffix ==
  ASSUME NEW a \in Seq(Chunk), NEW b \in Seq(Chunk),
         NEW s, NEW via, NEW of, NEW last, StreamAt(a \o b, s, via, of, last)
  PROVE  StreamAt(b, s, via, of, last)
<1> DEFINE r == a \o b
           n == Len(a)
<1>1. /\ n \in Nat /\ Len(b) \in Nat /\ Len(r) = n + Len(b)
      /\ \A j \in 1..Len(b) : n + j \in 1..Len(r) /\ r[n + j] = b[j]
  BY ConcatProperties
<1>2. /\ \A x, y \in 1..Len(r) :
           x < y /\ r[x][1] = r[y][1] /\ (\A m \in x + 1..y - 1 : r[m][1] # r[x][1])
           => r[y][2] = r[x][2] + 1
      /\ \A x \in 1..Len(r) :
           /\ via[r[x][1]] # None /\ of[via[r[x][1]]] = s
           /\ (\A m \in x + 1..Len(r) : r[m][1] # r[x][1]) => r[x][2] = last[r[x][1]]
  BY DEF StreamAt, Consecutive
<1> HIDE DEF r, n
<1>3. ASSUME NEW i \in 1..Len(b), NEW j \in 1..Len(b),
             i < j, b[i][1] = b[j][1], \A m \in i + 1..j - 1 : b[m][1] # b[i][1]
      PROVE  b[j][2] = b[i][2] + 1
  <2>1. ASSUME NEW m \in n + i + 1..n + j - 1 PROVE r[m][1] # b[i][1]
    <3>1. n \in Nat /\ Len(b) \in Nat  BY <1>1
    <3>2. m - n \in i + 1..j - 1 /\ m - n \in 1..Len(b) /\ n + (m - n) = m  BY <3>1, ShiftBack
    <3> QED  BY <1>1, <1>3, <3>2
  <2>2. n + i < n + j /\ n + i \in 1..Len(r) /\ n + j \in 1..Len(r)  BY <1>1, <1>3
  <2>3. r[n + i] = b[i] /\ r[n + j] = b[j]  BY <1>1
  <2>4. \A m \in (n + i) + 1..(n + j) - 1 : r[m][1] # r[n + i][1]  BY <1>1, <2>1, <2>3
  <2> QED  BY <1>2, <1>3, <2>2, <2>3, <2>4
<1>4. ASSUME NEW i \in 1..Len(b), \A m \in i + 1..Len(b) : b[m][1] # b[i][1]
      PROVE  b[i][2] = last[b[i][1]]
  <2>1. ASSUME NEW m \in n + i + 1..Len(r) PROVE r[m][1] # b[i][1]
    <3>1. m - n \in i + 1..Len(b) /\ m - n \in 1..Len(b) /\ n + (m - n) = m  BY <1>1
    <3> QED  BY <1>1, <1>4, <3>1
  <2>2. n + i \in 1..Len(r) /\ r[n + i] = b[i]  BY <1>1
  <2>3. \A m \in (n + i) + 1..Len(r) : r[m][1] # r[n + i][1]  BY <1>1, <2>1, <2>2
  <2> QED  BY <1>2, <2>2, <2>3
<1>5. ASSUME NEW i \in 1..Len(b) PROVE via[b[i][1]] # None /\ of[via[b[i][1]]] = s
  <2>1. n + i \in 1..Len(r) /\ r[n + i] = b[i]  BY <1>1
  <2> QED  BY <1>2, <2>1
<1> QED  BY <1>3, <1>4, <1>5 DEF StreamAt, Consecutive

\* A stream gets the next chunk of one of its connections.
LEMMA StreamNext ==
  ASSUME NEW a \in Seq(Chunk), NEW s, NEW via, NEW of, NEW last \in [Conns -> Nat],
         StreamAt(a, s, via, of, last), NEW c \in Conns, via[c] # None, of[via[c]] = s,
         NEW e \in Chunk, e = <<c, last[c] + 1>>
  PROVE  StreamAt(Append(a, e), s, via, of, [last EXCEPT ![c] = @ + 1])
<1> DEFINE r == Append(a, e)
           n == Len(a)
           l == [last EXCEPT ![c] = @ + 1]
<1>1. /\ n \in Nat /\ Len(r) = n + 1 /\ r[n + 1] = e
      /\ \A j \in 1..n : r[j] = a[j] /\ a[j] \in Chunk
  BY AppendProperties
<1>2. e[1] = c /\ e[2] = last[c] + 1 /\ \A j \in 1..n : a[j][1] \in Conns
  BY <1>1 DEF Chunk
<1>3. l[c] = last[c] + 1 /\ \A b \in Conns \ {c} : l[b] = last[b]  OBVIOUS
<1> HIDE DEF r, n, l
<1>4. ASSUME NEW i \in 1..n + 1, NEW j \in 1..n + 1,
             i < j, r[i][1] = r[j][1], \A m \in i + 1..j - 1 : r[m][1] # r[i][1]
      PROVE  r[j][2] = r[i][2] + 1
  <2>1. i \in 1..n  BY <1>1, <1>4
  <2>2. CASE j \in 1..n
    <3>1. r[i] = a[i] /\ r[j] = a[j]  BY <1>1, <2>1, <2>2
    <3>2. ASSUME NEW m \in i + 1..j - 1 PROVE a[m][1] # a[i][1]
      <4>1. m \in 1..n  BY <1>1, <2>1, <2>2
      <4> QED  BY <1>1, <1>4, <3>1, <4>1
    <3>3. i \in 1..Len(a) /\ j \in 1..Len(a)  BY <2>1, <2>2 DEF n
    <3>4. Consecutive(a)  BY DEF StreamAt
    <3> QED  BY <1>4, <3>1, <3>2, <3>3, <3>4 DEF Consecutive
  <2>3. CASE j = n + 1
    <3>1. a[i][1] = c  BY <1>1, <1>2, <1>4, <2>1, <2>3
    <3>2. \A m \in i + 1..n : a[m][1] # a[i][1]  BY <1>1, <1>4, <2>1, <2>3
    <3>3. a[i][2] = last[c]  BY <2>1, <3>1, <3>2 DEF StreamAt, n
    <3> QED  BY <1>1, <1>2, <2>1, <2>3, <3>3
  <2> QED  BY <1>1, <2>2, <2>3
<1>5. ASSUME NEW i \in 1..n + 1
      PROVE  /\ via[r[i][1]] # None /\ of[via[r[i][1]]] = s
             /\ (\A m \in i + 1..n + 1 : r[m][1] # r[i][1]) => r[i][2] = l[r[i][1]]
  <2>1. CASE i = n + 1  BY <1>1, <1>2, <1>3, <2>1
  <2>2. CASE i \in 1..n
    <3>1. via[a[i][1]] # None /\ of[via[a[i][1]]] = s  BY <2>2 DEF StreamAt, n
    <3>2. ASSUME \A m \in i + 1..n + 1 : r[m][1] # r[i][1] PROVE r[i][2] = l[r[i][1]]
      <4>1. n + 1 \in i + 1..n + 1  BY <1>1, <2>2
      <4>2. a[i][1] # c  BY <1>1, <1>2, <2>2, <3>2, <4>1
      <4>3. \A m \in i + 1..n : a[m][1] # a[i][1]  BY <1>1, <2>2, <3>2
      <4>4. a[i][2] = last[a[i][1]]  BY <2>2, <4>3 DEF StreamAt, n
      <4> QED  BY <1>1, <1>2, <1>3, <2>2, <4>2, <4>4
    <3> QED  BY <1>1, <2>2, <3>1, <3>2
  <2> QED  BY <1>1, <2>1, <2>2
<1>6. StreamAt(r, s, via, of, l)  BY <1>1, <1>4, <1>5 DEF StreamAt, Consecutive
<1> QED  BY <1>6 DEF r, l

\* Only a stream's own connections matter to it.
LEMMA StreamSame ==
  ASSUME NEW a \in Seq(Chunk), NEW s, NEW via, NEW of, NEW last,
         NEW via2, NEW of2, NEW last2, StreamAt(a, s, via, of, last),
         \A c \in Conns : via[c] # None /\ of[via[c]] = s =>
            via2[c] = via[c] /\ of2[via[c]] = of[via[c]] /\ last2[c] = last[c]
  PROVE  StreamAt(a, s, via2, of2, last2)
<1>1. \A i \in 1..Len(a) : a[i][1] \in Conns  BY DEF Chunk
<1> QED  BY <1>1 DEF StreamAt

\* How a stream is put together.
LEMMA Joins ==
  ASSUME NEW d \in Seq(Chunk), NEW h \in Seq(Chunk), NEW w \in Seq(Chunk)
  PROVE  /\ d \o (h \o w) \in Seq(Chunk)
         /\ <<>> \o (<<>> \o w) = w
         /\ (d \o h) \o (<<>> \o w) = d \o (h \o w)
         /\ \A e \in Chunk : d \o (h \o Append(w, e)) = Append(d \o (h \o w), e)
         /\ w # <<>> => d \o (<<>> \o w) = d \o (<<Head(w)>> \o Tail(w))
<1>1. <<>> \o w = w /\ h \o w \in Seq(Chunk)  BY ConcatEmptySeq, ConcatProperties
<1>2. d \o (h \o w) \in Seq(Chunk)  BY <1>1, ConcatProperties
<1>3. (d \o h) \o w = d \o (h \o w)  BY ConcatAssociative
<1>4. ASSUME NEW e \in Chunk PROVE d \o (h \o Append(w, e)) = Append(d \o (h \o w), e)
  <2>1. <<e>> \in Seq(Chunk)  OBVIOUS
  <2>2. Append(w, e) = w \o <<e>>  BY AppendIsConcat
  <2>3. Append(d \o (h \o w), e) = (d \o (h \o w)) \o <<e>>  BY <1>2, AppendIsConcat
  <2>4. (d \o (h \o w)) \o <<e>> = d \o ((h \o w) \o <<e>>)
    <3>1. \A x, y \in Seq(Chunk) : (d \o x) \o y = d \o (x \o y)  BY ConcatAssociative
    <3> QED  BY <1>1, <2>1, <3>1
  <2>5. (h \o w) \o <<e>> = h \o (w \o <<e>>)  BY <2>1, ConcatAssociative
  <2> QED  BY <2>2, <2>3, <2>4, <2>5
<1>5. ASSUME w # <<>> PROVE w = <<Head(w)>> \o Tail(w)
  <2> DEFINE a == <<Head(w)>>
             b == Tail(w)
  <2>1. /\ Head(w) \in Chunk /\ b \in Seq(Chunk) /\ Len(b) = Len(w) - 1 /\ Len(w) \in Nat
        /\ \A j \in 1..Len(b) : b[j] = w[j + 1]
    BY <1>5, HeadTailProperties
  <2>2. a \in Seq(Chunk) /\ Len(a) = 1 /\ a[1] = w[1]  BY <1>5, <2>1
  <2> HIDE DEF a, b
  <2>3. /\ a \o b \in Seq(Chunk) /\ Len(a \o b) = Len(w)
        /\ \A j \in 1..Len(w) : (a \o b)[j] = IF j <= 1 THEN a[j] ELSE b[j - 1]
    <3>1. Len(a) + Len(b) = Len(w)  BY <2>1, <2>2
    <3>2. /\ a \o b \in Seq(Chunk) /\ Len(a \o b) = Len(a) + Len(b)
          /\ \A j \in 1..Len(a) + Len(b) : (a \o b)[j] = IF j <= Len(a) THEN a[j] ELSE b[j - Len(a)]
      <4>1. \A x, y \in Seq(Chunk) :
              /\ x \o y \in Seq(Chunk) /\ Len(x \o y) = Len(x) + Len(y)
              /\ \A j \in 1..Len(x) + Len(y) :
                   (x \o y)[j] = IF j <= Len(x) THEN x[j] ELSE y[j - Len(x)]
        BY ConcatProperties
      <4> QED  BY <2>1, <2>2, <4>1
    <3> QED  BY <2>2, <3>1, <3>2
  <2>4. ASSUME NEW j \in 1..Len(w) PROVE (a \o b)[j] = w[j]
    <3>1. CASE j = 1  BY <2>2, <2>3, <3>1
    <3>2. CASE j # 1
      <4>1. j - 1 \in 1..Len(b) /\ (j - 1) + 1 = j  BY <2>1, <3>2
      <4> QED  BY <2>1, <2>3, <3>2, <4>1
    <3> QED  BY <3>1, <3>2
  <2>5. a \o b = w  BY <2>3, <2>4, SeqEqual
  <2> QED  BY <2>5 DEF a, b
<1> QED  BY <1>1, <1>2, <1>3, <1>4, <1>5

\* Only a start and a clean touch a session's data or consumers.
LEMMA ThreadData ==
  ASSUME TypeInv, NEW t \in Threads, Begin(t) \/ ThreadStep(t)
  PROVE  UNCHANGED <<data, cons, feeds>> \/ CleanClear(t) \/ Consume(t)
<1> USE DEF sessVars, consVars
<1>1. CASE Begin(t)         BY <1>1 DEF Begin, Call
<1>2. CASE TestListening(t) BY <1>2 DEF TestListening
<1>3. CASE TestSilent(t)    BY <1>3 DEF TestSilent
<1>4. CASE TestNone(t)      BY <1>4 DEF TestNone
<1>5. CASE Create(t)        BY <1>5 DEF Create
<1>6. CASE CreateFails(t)   BY <1>6 DEF CreateFails
<1>7. CASE Enter(t)         BY <1>7 DEF Enter
<1>8. CASE Fork(t)          BY <1>8 DEF Fork
<1>9. CASE Consume(t)       BY <1>9 DEF Consume
<1>10. CASE StartFails(t)    BY <1>10 DEF StartFails
<1>11. CASE Report(t)        BY <1>11 DEF Report
<1>12. CASE Check(t)         BY <1>12 DEF Check
<1>13. CASE Read(t)          BY <1>13 DEF Read
<1>14. CASE Clean(t)         BY <1>14 DEF Clean
<1>15. CASE CleanWait(t)     BY <1>15 DEF CleanWait
<1>16. CASE CleanSleep(t)    BY <1>16 DEF CleanSleep
<1>17. CASE CleanClear(t)    BY <1>17 DEF CleanClear
<1>18. CASE Stop(t)          BY <1>18 DEF Stop
<1>19. CASE Kill(t)          BY <1>19 DEF Kill
<1>20. CASE Forget(t)        BY <1>20 DEF Forget
<1>21. CASE KillPort(t)      BY <1>21 DEF KillPort
<1>22. CASE Poll(t)          BY <1>22 DEF Poll
<1>23. CASE Release(t)       BY <1>23 DEF Release
<1>24. CASE Reply(t)         BY <1>24 DEF Reply
<1> QED
  BY <1>1, <1>2, <1>3, <1>4, <1>5, <1>6, <1>7, <1>8, <1>9, <1>10, <1>11, <1>12, <1>13,
     <1>14, <1>15, <1>16, <1>17, <1>18, <1>19, <1>20, <1>21, <1>22, <1>23, <1>24
     DEF ThreadStep, StartStep, ReadStep, StopStep

\* Streams go on when no chunk is fed and no connection changes hands.
LEMMA StreamsStay ==
  ASSUME TypeInv, fed' = fed,
         \A c \in Conns : conn[c] # None => conn'[c] = conn[c] /\ owner'[conn[c]] = owner[conn[c]],
         NEW a \in Seq(Chunk), NEW s \in Sessions, StreamAt(a, s, conn, owner, fed)
  PROVE  StreamAt(a, s, conn', owner', fed')
BY StreamSame

\* A session whose consumer is the only one had it, or none, before.
LEMMA FeederBefore ==
  ASSUME TypeInv, NEW s \in Sessions, OneFeeder(s)',
         \A k \in Consumers : feeds'[k] = feeds[k] \/ feeds[k] = None
  PROVE  OneFeeder(s)
<1>1. s # None  BY NoneAssumption
<1> QED  BY <1>1 DEF OneFeeder

\* A handler's step keeps every stream: it clears data, or adds a consumer.
LEMMA ThreadOrder ==
  ASSUME TypeInv, OrderInv, NEW t \in Threads, Begin(t) \/ ThreadStep(t)
  PROVE  OrderInv'
<1>1. /\ UNCHANGED <<hand, old, conn, fed, q>>
      /\ \A p \in Procs : proc[p] # "unborn" => owner'[p] = owner[p]
  BY ThreadWork
<1>2. \A c \in Conns : conn[c] # None => conn'[c] = conn[c] /\ owner'[conn[c]] = owner[conn[c]]
  BY <1>1 DEF TypeInv, TypeOK, ConnOK
<1>3. \A a \in Seq(Chunk), s \in Sessions :
        StreamAt(a, s, conn, owner, fed) => StreamAt(a, s, conn', owner', fed')
  BY <1>1, <1>2, StreamsStay
<1>4. \A k \in Consumers :
        feeds'[k] = feeds[k] \/ (feeds[k] = None /\ hand[k] = <<>> /\ cons'[k] = "get")
  BY NewFeeder
<1> SUFFICES ASSUME NEW s \in Sessions, OneFeeder(s)' PROVE OrderOK(s)'
  BY DEF OrderInv
<1>5. OneFeeder(s) /\ OrderOK(s)  BY <1>4, FeederBefore DEF OrderInv
<1>6. /\ data[s] \in Seq(Chunk) /\ q[s] \in Seq(Chunk) /\ <<>> \in Seq(Chunk)
      /\ \A k \in Consumers : hand[k] \in Seq(Chunk) /\ old[k] \in Seq(Chunk)
  BY DEF TypeInv, TypeOK
<1>7. /\ \A k \in Consumers : old[k] \o (hand[k] \o q[s]) \in Seq(Chunk)
      /\ \A k \in Consumers : hand[k] \o q[s] \in Seq(Chunk)
      /\ \A k \in Consumers : data[s] \o (hand[k] \o q[s]) \in Seq(Chunk)
      /\ <<>> \o (<<>> \o q[s]) = q[s]
      /\ \A k \in Consumers : <<>> \o (hand[k] \o q[s]) = hand[k] \o q[s]
  BY <1>6, Joins, ConcatProperties, ConcatEmptySeq
<1>8. CASE UNCHANGED <<data, cons, feeds>>
  BY <1>1, <1>3, <1>5, <1>6, <1>7, <1>8 DEF OrderOK, Stream
<1>9. CASE CleanClear(t)
  <2>1. UNCHANGED <<cons, feeds>> /\ data'[s] \in {data[s], <<>>}
    BY <1>9 DEF CleanClear, consVars, TypeInv, TypeOK
  <2>2. CASE data'[s] = data[s]
    BY <1>1, <1>3, <1>5, <1>6, <1>7, <2>1, <2>2 DEF OrderOK, Stream
  <2>3. CASE data'[s] = <<>>
    <3>1. ASSUME NEW k \in Consumers, feeds[k] = s, cons[k] # "store"
          PROVE  StreamAt(hand[k] \o q[s], s, conn, owner, fed)
      <4>1. StreamAt(data[s] \o (hand[k] \o q[s]), s, conn, owner, fed)
        BY <1>5, <3>1 DEF OrderOK, Stream
      <4> QED  BY <1>6, <1>7, <4>1, StreamSuffix
    <3> QED  BY <1>1, <1>3, <1>5, <1>6, <1>7, <2>1, <2>3, <3>1 DEF OrderOK, Stream
  <2> QED  BY <2>1, <2>2, <2>3
<1>10. CASE Consume(t)
  <2>1. PICK k \in Consumers : /\ cons[k] = "unborn" /\ data' = data
                               /\ cons' = [cons EXCEPT ![k] = "get"]
                               /\ feeds' = [feeds EXCEPT ![k] = me[t]]
    BY <1>10 DEF Consume, sessVars
  <2>2. /\ \A j \in Consumers \ {k} : cons'[j] = cons[j] /\ feeds'[j] = feeds[j]
        /\ cons'[k] = "get" /\ feeds[k] = None /\ hand[k] = <<>> /\ s # None
    BY <2>1, NoneAssumption DEF TypeInv, TypeOK, ConsOK
  <2>3. CASE feeds'[k] # s
    BY <1>1, <1>3, <1>5, <1>6, <1>7, <2>1, <2>2, <2>3 DEF OrderOK, Stream
  <2>4. CASE feeds'[k] = s
    <3>1. \A j \in Consumers : feeds'[j] = s => j = k  BY <2>4 DEF OneFeeder
    <3>2. \A j \in Consumers : feeds[j] # s  BY <2>2, <3>1
    <3>3. data[s] = <<>> /\ StreamAt(q[s], s, conn, owner, fed)  BY <1>5, <3>2 DEF OrderOK, Stream
    <3>4. StreamAt(q[s], s, conn', owner', fed')  BY <1>3, <1>6, <3>3
    <3>5. data'[s] \o (hand'[k] \o q'[s]) = q[s]  BY <1>1, <1>7, <2>1, <2>2, <3>3
    <3>6. Stream(data[s] \o (hand[k] \o q[s]), s)'  BY <3>4, <3>5 DEF Stream
    <3> QED  BY <2>2, <2>4, <3>1, <3>6 DEF OrderOK
  <2> QED  BY <2>3, <2>4
<1> QED  BY <1>8, <1>9, <1>10, ThreadData

\* What a process, a connection or a consumer does keeps every stream.
LEMMA WorkOrder ==
  ASSUME TypeInv, OrderInv, WorkStep
  PROVE  OrderInv'
<1>1. UNCHANGED <<owner, feeds>>  BY WorkFrame
<1> SUFFICES ASSUME NEW s \in Sessions, OneFeeder(s) PROVE OrderOK(s)'
  BY <1>1 DEF OrderInv, OneFeeder
<1>2. OrderOK(s)  BY DEF OrderInv
<1>3. /\ data \in [Sessions -> Seq(Chunk)] /\ q \in [Sessions -> Seq(Chunk)]
      /\ hand \in [Consumers -> Seq(Chunk)] /\ old \in [Consumers -> Seq(Chunk)]
      /\ cons \in [Consumers -> {"unborn", "get", "load", "store", "dead"}]
      /\ <<>> \in Seq(Chunk)
  BY DEF TypeInv, TypeOK
<1>4. /\ \A d, h, w \in Seq(Chunk) : d \o (h \o w) \in Seq(Chunk)
      /\ \A d, h, w \in Seq(Chunk) : (d \o h) \o (<<>> \o w) = d \o (h \o w)
      /\ \A d, h, w \in Seq(Chunk), e \in Chunk :
            d \o (h \o Append(w, e)) = Append(d \o (h \o w), e)
      /\ \A d, w \in Seq(Chunk) :
            w # <<>> => d \o (<<>> \o w) = d \o (<<Head(w)>> \o Tail(w))
  <2>1. ASSUME NEW d \in Seq(Chunk), NEW h \in Seq(Chunk), NEW w \in Seq(Chunk)
        PROVE  /\ d \o (h \o w) \in Seq(Chunk)
               /\ (d \o h) \o (<<>> \o w) = d \o (h \o w)
               /\ \A e \in Chunk : d \o (h \o Append(w, e)) = Append(d \o (h \o w), e)
               /\ w # <<>> => d \o (<<>> \o w) = d \o (<<Head(w)>> \o Tail(w))
    <3>1. d \o (h \o w) \in Seq(Chunk)  BY Joins
    <3>2. (d \o h) \o (<<>> \o w) = d \o (h \o w)  BY Joins
    <3>3. ASSUME NEW e \in Chunk PROVE d \o (h \o Append(w, e)) = Append(d \o (h \o w), e)  BY Joins
    <3>4. ASSUME w # <<>> PROVE d \o (<<>> \o w) = d \o (<<Head(w)>> \o Tail(w))  BY <3>4, Joins
    <3> QED  BY <3>1, <3>2, <3>3, <3>4
  <2>2. \A d, h, w \in Seq(Chunk) : d \o (h \o w) \in Seq(Chunk)  BY <2>1
  <2>3. \A d, h, w \in Seq(Chunk) : (d \o h) \o (<<>> \o w) = d \o (h \o w)  BY <2>1
  <2>4. \A d, h, w \in Seq(Chunk), e \in Chunk :
          d \o (h \o Append(w, e)) = Append(d \o (h \o w), e)
    BY <2>1
  <2>5. \A d, w \in Seq(Chunk) :
          w # <<>> => d \o (<<>> \o w) = d \o (<<Head(w)>> \o Tail(w))
    <3>1. ASSUME NEW d \in Seq(Chunk), NEW w \in Seq(Chunk), w # <<>>
          PROVE  d \o (<<>> \o w) = d \o (<<Head(w)>> \o Tail(w))
      BY <3>1, Joins
    <3> QED  BY <3>1
  <2> QED  BY <2>2, <2>3, <2>4, <2>5
<1>5. /\ data[s] \in Seq(Chunk) /\ q[s] \in Seq(Chunk)
      /\ \A k \in Consumers : hand[k] \in Seq(Chunk) /\ old[k] \in Seq(Chunk)
  BY <1>3
<1>6. /\ \A k \in Consumers : data[s] \o (hand[k] \o q[s]) \in Seq(Chunk)
      /\ \A k \in Consumers : old[k] \o (hand[k] \o q[s]) \in Seq(Chunk)
  BY <1>4, <1>5
<1>7. CASE UNCHANGED <<data, q, cons, hand, old, fed>>
           /\ \A c \in Conns : conn[c] # None => conn'[c] = conn[c]
  <2>1. \A a \in Seq(Chunk) : StreamAt(a, s, conn, owner, fed) => StreamAt(a, s, conn', owner', fed')
    BY <1>1, <1>7, StreamsStay
  <2> QED  BY <1>1, <1>2, <1>5, <1>6, <1>7, <2>1 DEF OrderOK, Stream
<1>8. ASSUME NEW c \in Conns, Feed(c) PROVE OrderOK(s)'
  <2> DEFINE e == <<c, fed[c] + 1>>
             x == owner[conn[c]]
             l == [fed EXCEPT ![c] = @ + 1]
  <2>1. /\ q' = [q EXCEPT ![x] = Append(@, e)] /\ fed' = l /\ conn[c] # None
        /\ UNCHANGED <<data, cons, hand, old, conn>>
    BY <1>8 DEF Feed, consVars
  <2>2. e \in Chunk
    <3>1. fed[c] + 1 \in 1..MaxChunks
      BY <1>8, ChunksAssumption DEF Feed, TypeInv, TypeOK
    <3> QED  BY <3>1 DEF Chunk
  <2>3. fed \in [Conns -> Nat]  BY ChunksAssumption DEF TypeInv, TypeOK
  <2>4. CASE x # s
    <3>1. \A b \in Conns : conn[b] # None /\ owner[conn[b]] = s =>
            /\ conn'[b] = conn[b] /\ owner'[conn[b]] = owner[conn[b]]
            /\ fed'[b] = fed[b]
      BY <1>1, <2>1, <2>3, <2>4
    <3>2. ASSUME NEW a \in Seq(Chunk), StreamAt(a, s, conn, owner, fed)
          PROVE  StreamAt(a, s, conn', owner', fed')
      BY <3>1, <3>2, StreamSame
    <3>3. q'[s] = q[s]  BY <1>3, <2>1, <2>4
    <3> QED  BY <1>1, <1>2, <1>5, <1>6, <2>1, <3>2, <3>3 DEF OrderOK, Stream
  <2>5. CASE x = s
    <3>1. \A a \in Seq(Chunk) :
            StreamAt(a, s, conn, owner, fed) => StreamAt(Append(a, e), s, conn', owner', fed')
      <4>1. \A a \in Seq(Chunk) :
              StreamAt(a, s, conn, owner, fed) => StreamAt(Append(a, e), s, conn, owner, l)
        BY <2>1, <2>2, <2>3, <2>5, StreamNext
      <4> QED  BY <1>1, <2>1, <4>1
    <3>2. q'[s] = Append(q[s], e)  BY <1>3, <2>1, <2>5
    <3> HIDE DEF e, x, l
    <3>3. ASSUME NEW d \in Seq(Chunk), NEW h \in Seq(Chunk), NEW w \in Seq(Chunk)
          PROVE  d \o (h \o Append(w, e)) = Append(d \o (h \o w), e)
      <4>1. ASSUME NEW b \in Chunk PROVE d \o (h \o Append(w, b)) = Append(d \o (h \o w), b)  BY Joins
      <4> QED  BY <2>2, <4>1, Zenon
    <3>4. ASSUME NEW k \in Consumers
          PROVE  /\ data[s] \o (hand[k] \o Append(q[s], e)) = Append(data[s] \o (hand[k] \o q[s]), e)
                 /\ old[k] \o (hand[k] \o Append(q[s], e)) = Append(old[k] \o (hand[k] \o q[s]), e)
                 /\ data[s] \o (hand[k] \o q[s]) \in Seq(Chunk)
                 /\ old[k] \o (hand[k] \o q[s]) \in Seq(Chunk)
      <4>1. hand[k] \in Seq(Chunk) /\ old[k] \in Seq(Chunk) /\ data[s] \in Seq(Chunk) /\ q[s] \in Seq(Chunk)
        BY <1>5
      <4>2. data[s] \o (hand[k] \o Append(q[s], e)) = Append(data[s] \o (hand[k] \o q[s]), e)
        BY <3>3, <4>1, Zenon
      <4>3. old[k] \o (hand[k] \o Append(q[s], e)) = Append(old[k] \o (hand[k] \o q[s]), e)
        BY <3>3, <4>1, Zenon
      <4> QED  BY <1>6, <4>2, <4>3
    <3>5. ASSUME NEW k \in Consumers, feeds[k] = s
          PROVE  (IF cons[k] = "store"
                  THEN data[s] \in {old[k], <<>>} /\ Stream(old[k] \o (hand[k] \o q[s]), s)
                  ELSE Stream(data[s] \o (hand[k] \o q[s]), s))'
      BY <1>2, <2>1, <3>1, <3>2, <3>4, <3>5 DEF OrderOK, Stream
    <3>6. (\A k \in Consumers : feeds[k] # s) => data[s] = <<>> /\ Stream(q[s], s)'
      BY <1>2, <1>5, <3>1, <3>2 DEF OrderOK, Stream
    <3> QED  BY <1>1, <2>1, <3>5, <3>6 DEF OrderOK
  <2> QED  BY <2>4, <2>5
<1>9. ASSUME NEW k \in Consumers, ConsumerStep(k) \/ WriteFails(k) PROVE OrderOK(s)'
  <2>1. UNCHANGED <<conn, owner, fed, feeds>> /\ feeds[k] \in Sessions
    BY <1>9, <1>1
       DEF ConsumerStep, Get, Load, Store, WriteFails, connVars, procVars, TypeInv, TypeOK, ConsOK
  <2>2. \A j \in Consumers \ {k} : cons'[j] = cons[j] /\ hand'[j] = hand[j] /\ old'[j] = old[j]
    BY <1>3, <1>9 DEF ConsumerStep, Get, Load, Store, WriteFails, sessVars
  <2>3. CASE feeds[k] # s
    <3>1. data'[s] = data[s] /\ q'[s] = q[s]
      BY <1>3, <1>9, <2>1, <2>3 DEF ConsumerStep, Get, Load, Store, WriteFails, sessVars
    <3> QED  BY <1>2, <2>1, <2>2, <2>3, <3>1 DEF OrderOK, Stream
  <2>4. CASE feeds[k] = s
    <3>1. \A j \in Consumers : feeds[j] = s => j = k  BY <2>4 DEF OneFeeder
    <3>2. SUFFICES IF cons'[k] = "store"
                   THEN /\ data'[s] \in {old'[k], <<>>}
                        /\ StreamAt(old'[k] \o (hand'[k] \o q'[s]), s, conn, owner, fed)
                   ELSE StreamAt(data'[s] \o (hand'[k] \o q'[s]), s, conn, owner, fed)
      BY <2>1, <2>4, <3>1, <3>2 DEF OrderOK, Stream
    <3>3. IF cons[k] = "store"
          THEN /\ data[s] \in {old[k], <<>>}
               /\ StreamAt(old[k] \o (hand[k] \o q[s]), s, conn, owner, fed)
          ELSE StreamAt(data[s] \o (hand[k] \o q[s]), s, conn, owner, fed)
      BY <1>2, <2>4 DEF OrderOK, Stream
    <3>4. CASE Get(k)
      <4>1. /\ cons[k] = "get" /\ cons'[k] = "load" /\ data' = data /\ q[s] # <<>>
            /\ hand'[k] = <<Head(q[s])>> /\ q'[s] = Tail(q[s])
        BY <1>3, <2>1, <2>4, <3>4 DEF Get
      <4>2. hand[k] = <<>>  BY <4>1 DEF TypeInv, ConsOK
      <4>3. data[s] \o (hand'[k] \o q'[s]) = data[s] \o (<<>> \o q[s])
        <5>1. data[s] \o (<<>> \o q[s]) = data[s] \o (<<Head(q[s])>> \o Tail(q[s]))
          BY <1>4, <1>5, <4>1
        <5> QED  BY <4>1, <5>1
      <4> QED  BY <3>3, <4>1, <4>2, <4>3
    <3>5. CASE Load(k)
      <4>1. /\ cons[k] = "load" /\ cons'[k] = "store" /\ UNCHANGED <<data, q, hand>>
            /\ old'[k] = data[s]
        BY <1>3, <2>4, <3>5 DEF Load, sessVars
      <4> QED  BY <3>3, <4>1
    <3>6. CASE Store(k)
      <4>1. /\ cons[k] = "store" /\ cons'[k] = "get" /\ q' = q
            /\ data'[s] = old[k] \o hand[k] /\ hand'[k] = <<>>
        BY <1>3, <2>1, <2>4, <3>6 DEF Store
      <4>2. (old[k] \o hand[k]) \o (<<>> \o q[s]) = old[k] \o (hand[k] \o q[s])  BY <1>4, <1>5
      <4> QED  BY <3>3, <4>1, <4>2
    <3>7. CASE WriteFails(k)
      <4>1. cons[k] = "get" /\ cons'[k] = "dead" /\ UNCHANGED <<data, q, hand, old>>
        BY <1>3, <3>7 DEF WriteFails, sessVars
      <4> QED  BY <3>3, <4>1
    <3> QED  BY <1>9, <3>4, <3>5, <3>6, <3>7 DEF ConsumerStep
  <2> QED  BY <2>3, <2>4
<1>10. ASSUME NEW p \in Procs, Listen(p) \/ Die(p) PROVE OrderOK(s)'
  BY <1>7, <1>10 DEF Listen, Die, sessVars, consVars, connVars
<1>11. ASSUME NEW c \in Conns, Connect(c) PROVE OrderOK(s)'
  <2>1. UNCHANGED <<data, q, cons, hand, old, fed>>  BY <1>11 DEF Connect, sessVars, consVars
  <2>2. \A b \in Conns : conn[b] # None => conn'[b] = conn[b]  BY <1>11 DEF Connect, TypeInv, TypeOK
  <2> QED  BY <1>7, <2>1, <2>2
<1>12. ASSUME NEW c \in Conns, Receive(c) PROVE OrderOK(s)'
  BY <1>7, <1>12 DEF Receive, sessVars, consVars
<1> QED  BY <1>8, <1>9, <1>10, <1>11, <1>12 DEF WorkStep

\* Data, hand and queue of a session with one consumer are one stream, however starts,
\* cleans and stops overlap.
THEOREM OrderInvariant == Spec => [](TypeInv /\ OrderInv)
<1>1. Init => OrderInv
  <2> SUFFICES ASSUME Init, NEW s \in Sessions PROVE OrderOK(s)  BY DEF OrderInv
  <2>1. /\ q[s] = <<>> /\ data[s] = <<>> /\ \A k \in Consumers : feeds[k] # s
    BY NoneAssumption DEF Init
  <2>2. Len(q[s]) = 0  BY <2>1
  <2>3. StreamAt(q[s], s, conn, owner, fed)  BY <2>2 DEF StreamAt, Consecutive
  <2> QED  BY <2>1, <2>3 DEF OrderOK, Stream
<1>2. OrderInv /\ UNCHANGED vars => OrderInv'
  BY DEF OrderInv, OneFeeder, OrderOK, Stream, vars, sessVars, procVars, consVars, connVars
<1>3. TypeInv /\ OrderInv /\ [Next]_vars => (TypeInv /\ OrderInv)'
  BY <1>2, ThreadTypes, WorkTypesKept, TypeStutter, ThreadOrder, WorkOrder DEF Next, WorkStep
<1> QED  BY <1>1, <1>3, TypeInit, PTL DEF Spec

\* The data of a session with one consumer hold consecutive chunks of each connection.
THEOREM OrderCorrect == Spec => []OneConsumerInOrder
<1>1. TypeInv /\ OrderInv => OneConsumerInOrder
  <2> SUFFICES ASSUME TypeInv, OrderInv, NEW s \in Sessions, OneFeeder(s)
               PROVE  Consecutive(data[s])
    BY DEF OneConsumerInOrder, OneFeeder
  <2>1. OrderOK(s)  BY DEF OrderInv
  <2>2. /\ data[s] \in Seq(Chunk) /\ q[s] \in Seq(Chunk)
        /\ \A k \in Consumers : hand[k] \in Seq(Chunk) /\ old[k] \in Seq(Chunk)
        /\ \A k \in Consumers : hand[k] \o q[s] \in Seq(Chunk)
    BY DEF TypeInv, TypeOK
  <2>3. Consecutive(<<>>)  BY DEF Consecutive
  <2>4. ASSUME NEW k \in Consumers, feeds[k] = s PROVE Consecutive(data[s])
    <3>1. CASE cons[k] = "store"
      <4>1. data[s] \in {old[k], <<>>} /\ Consecutive(old[k] \o (hand[k] \o q[s]))
        BY <2>1, <2>4, <3>1 DEF OrderOK, Stream, StreamAt
      <4>2. Consecutive(old[k])  BY <2>2, <4>1, ConsecutivePrefix
      <4> QED  BY <2>3, <4>1, <4>2
    <3>2. CASE cons[k] # "store"
      <4>1. Consecutive(data[s] \o (hand[k] \o q[s]))
        BY <2>1, <2>4, <3>2 DEF OrderOK, Stream, StreamAt
      <4> QED  BY <2>2, <4>1, ConsecutivePrefix
    <3> QED  BY <3>1, <3>2
  <2> QED  BY <2>1, <2>3, <2>4 DEF OrderOK
<1> QED  BY <1>1, OrderInvariant, PTL

==============================================================================
