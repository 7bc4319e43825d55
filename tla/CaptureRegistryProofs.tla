------------------------ MODULE CaptureRegistryProofs ------------------------
(***************************************************************************)
(* Proofs about CaptureRegistry for any number of threads, paths and       *)
(* children.  Inv1 is what holds of the code whatever the clients do, Inv2 *)
(* what holds on top of it when no two start or stop calls overlap on one  *)
(* path: Inv1 /\ Inv2 is inductive and implies NoOrphan and OneRecorder.   *)
(* Inv3 adds what is in the files, and implies RecorderOwnsFile and        *)
(* StopTrueIsFinal.                                                        *)
(***************************************************************************)
EXTENDS CaptureRegistry, TLAPS

\* Where a thread holds a child in its local `proc`, and in `old` or `entry`.
HoldsChild == {"s_wait", "s_register", "s_abort"}
HoldsEntry == {"e_check", "e_join", "e_killed", "s_pop", "t_pop"}

\* What a call's locals hold at each point of its code.
CallOK(t) ==
  /\ pc[t] # "idle" => arg[t] \in Paths
  /\ pc[t] \in {"s_remove", "s_get", "s_pop", "s_spawn"} \cup HoldsChild => op[t] = "start"
  /\ pc[t] \in {"t_get", "t_pop"} => op[t] = "stop"
  /\ pc[t] \in HoldsEntry => op[t] \in {"start", "stop"}
  /\ pc[t] \in HoldsChild =>
       mine[t] \in Procs /\ home[mine[t]] = arg[t] /\ child[mine[t]] # "unborn"
  /\ pc[t] \in HoldsEntry =>
       entry[t] \in Procs /\ home[entry[t]] = arg[t] /\ child[entry[t]] # "unborn"
  /\ pc[t] = "t_pop" => child[entry[t]] \in Dead

\* A registry entry is a child that was forked for that path.
EntryOK(q) == captures[q] # NoProc => home[captures[q]] = q /\ child[captures[q]] # "unborn"

\* A child was forked for some path.
BornOK(p) == child[p] # "unborn" => home[p] \in Paths

Inv1 ==
  /\ TypeOK
  /\ \A p \in Procs : BornOK(p)
  /\ \A t \in Threads : CallOK(t)
  /\ \A q \in Paths : EntryOK(q)

\* No two start or stop calls run on one path.
Exclusive ==
  \A t, u \in Threads :
    t # u /\ pc[t] # "idle" /\ pc[u] # "idle" /\ {op[t], op[u]} \subseteq {"start", "stop"}
      => arg[t] # arg[u]

\* What a call knows of its path's entry while no other call touches it.
HeldOK(t) ==
  /\ pc[t] \in HoldsEntry => captures[arg[t]] = entry[t]
  /\ pc[t] \in {"e_join", "e_killed", "s_pop"} => ~Recording(entry[t])
  /\ pc[t] \in {"s_spawn", "s_wait", "s_register"} => captures[arg[t]] = NoProc

Inv2 ==
  /\ Exclusive
  /\ \A t \in Threads : HeldOK(t)
  /\ NoOrphan

-----------------------------------------------------------------------------
(* What a child's step can change *)

\* A child's step touches no thread, no entry and no birth, wakes no dead child
\* and makes no child recording that was not.
LEMMA ChildFrame ==
  ASSUME TypeOK, NEW p \in Procs, ChildStep(p)
  PROVE  /\ UNCHANGED <<captures, threadVars, home>>
         /\ \A r \in Procs : /\ child[r] # "unborn" => child'[r] # "unborn"
                             /\ child[r] \in Dead => child'[r] \in Dead
                             /\ Recording(r)' => Recording(r)
<1> USE DEF TypeOK, Alive, Dead, Recording, Become, Exit, fileVars, lossVars
<1>1. CASE BootFails(p)      BY <1>1 DEF BootFails
<1>2. CASE BootOpens(p)      BY <1>2 DEF BootOpens
<1>3. CASE SendReady(p)      BY <1>3 DEF SendReady
<1>4. CASE RecvThreadDies(p) BY <1>4 DEF RecvThreadDies
<1>5. CASE StopSeen(p)       BY <1>5 DEF StopSeen
<1>6. CASE Flushed(p)        BY <1>6 DEF Flushed
<1>7. CASE FlushTimesOut(p)  BY <1>7 DEF FlushTimesOut
<1>8. CASE SortRead(p)       BY <1>8 DEF SortRead
<1>9. CASE SortReplace(p)    BY <1>9 DEF SortReplace
<1>10. CASE SortFails(p)     BY <1>10 DEF SortFails
<1>11. CASE Die(p)           BY <1>11 DEF Die
<1>12. CASE Crash(p)         BY <1>12 DEF Crash
<1> QED
  BY <1>1, <1>2, <1>3, <1>4, <1>5, <1>6, <1>7, <1>8, <1>9, <1>10, <1>11, <1>12
     DEF ChildStep

\* A child's step keeps all types, given that the child has a path.
LEMMA ChildTypes ==
  ASSUME TypeOK, NEW p \in Procs, ChildStep(p), home[p] \in Paths
  PROVE  TypeOK'
<1> USE DEF TypeOK, Alive, Dead, Become, Exit, Lose, Fault, threadVars, fileVars, lossVars
<1>1. CASE BootFails(p)      BY <1>1 DEF BootFails
<1>2. CASE BootOpens(p)      BY <1>2 DEF BootOpens
<1>3. CASE SendReady(p)      BY <1>3 DEF SendReady
<1>4. CASE RecvThreadDies(p) BY <1>4 DEF RecvThreadDies
<1>5. CASE StopSeen(p)       BY <1>5 DEF StopSeen
<1>6. CASE Flushed(p)        BY <1>6 DEF Flushed
<1>7. CASE FlushTimesOut(p)  BY <1>7 DEF FlushTimesOut
<1>8. CASE SortRead(p)       BY <1>8 DEF SortRead
<1>9. CASE SortReplace(p)    BY <1>9 DEF SortReplace
<1>10. CASE SortFails(p)     BY <1>10 DEF SortFails
<1>11. CASE Die(p)           BY <1>11 DEF Die
<1>12. CASE Crash(p)         BY <1>12 DEF Crash
<1> QED
  BY <1>1, <1>2, <1>3, <1>4, <1>5, <1>6, <1>7, <1>8, <1>9, <1>10, <1>11, <1>12
     DEF ChildStep
-----------------------------------------------------------------------------
(* Inv1 *)

\* Inv1 holds when the server comes up.
LEMMA Inv1Init == Init => Inv1
BY NoProcAssumption
   DEF Init, Inv1, TypeOK, BornOK, CallOK, EntryOK, Labels, Ops, HoldsChild, HoldsEntry

\* A child's step keeps Inv1: its path is known and it disturbs no call's locals.
LEMMA Inv1Child ==
  ASSUME Inv1, NEW p \in Procs, ChildStep(p)
  PROVE  Inv1'
<1>1. home[p] \in Paths
  BY DEF Inv1, BornOK, ChildStep, BootFails, BootOpens, SendReady, RecvThreadDies, StopSeen,
         Flushed, FlushTimesOut, SortRead, SortReplace, SortFails, Die, Crash, Alive
<1>2. TypeOK'
  BY <1>1, ChildTypes DEF Inv1
<1>3. /\ UNCHANGED <<captures, threadVars, home>>
      /\ \A r \in Procs : /\ child[r] # "unborn" => child'[r] # "unborn"
                          /\ child[r] \in Dead => child'[r] \in Dead
  BY ChildFrame DEF Inv1
<1>4. \A r \in Procs : BornOK(r)'
  <2> SUFFICES ASSUME NEW r \in Procs PROVE BornOK(r)'  OBVIOUS
  <2>1. CASE r = p  BY <1>1, <1>3, <2>1 DEF BornOK
  <2>2. CASE r # p /\ child'[r] = child[r]  BY <1>3, <2>2 DEF BornOK, Inv1
  <2>3. r # p => child'[r] = child[r]
    BY DEF Inv1, TypeOK, ChildStep, BootFails, BootOpens, SendReady, RecvThreadDies, StopSeen,
           Flushed, FlushTimesOut, SortRead, SortReplace, SortFails, Die, Crash, Become, Exit
  <2> QED  BY <2>1, <2>2, <2>3
<1>5. \A t \in Threads : CallOK(t)'
  BY <1>3 DEF Inv1, CallOK, HoldsChild, HoldsEntry, threadVars
<1>6. \A q \in Paths : EntryOK(q)'
  BY <1>3 DEF Inv1, EntryOK, TypeOK
<1> QED  BY <1>2, <1>4, <1>5, <1>6 DEF Inv1

\* A client's call, or a step of the handler thread that runs it, keeps Inv1.
LEMMA Inv1Thread ==
  ASSUME Inv1, NEW t \in Threads, ClientStep(t) \/ ThreadStep(t)
  PROVE  Inv1'
<1> USE NoProcAssumption
    DEF Inv1, TypeOK, BornOK, CallOK, EntryOK, HoldsChild, HoldsEntry, Labels, Ops, Alive, Dead,
        Goto, Answer, Return, threadVars, childVars, fileVars, lossVars
<1>1. CASE ClientStep(t)
  <2>1. PICK q \in Paths : BeginStart(t, q) \/ BeginStop(t, q) \/ BeginIsrun(t, q)
    BY <1>1 DEF ClientStep
  <2>2. CASE BeginStart(t, q)  BY <2>2 DEF Begin, BeginStart
  <2>3. CASE BeginStop(t, q)   BY <2>3 DEF Begin, BeginStop
  <2>4. CASE BeginIsrun(t, q)  BY <2>4 DEF Begin, BeginIsrun
  <2> QED  BY <2>1, <2>2, <2>3, <2>4
<1>2. CASE StartNoRoute(t)  BY <1>2 DEF StartNoRoute
<1>3. CASE StartRemove(t)   BY <1>3 DEF StartRemove
<1>4. CASE StartGet(t)      BY <1>4 DEF StartGet
<1>5. CASE StartPop(t)      BY <1>5 DEF StartPop
<1>6. CASE StartSpawn(t)    BY <1>6 DEF StartSpawn
<1>7. CASE SpawnFails(t)    BY <1>7 DEF SpawnFails
<1>8. CASE WaitReady(t)     BY <1>8 DEF WaitReady
<1>9. CASE WaitFails(t)     BY <1>9 DEF WaitFails
<1>10. CASE AbortJoined(t)   BY <1>10 DEF AbortJoined
<1>11. CASE AbortTimesOut(t) BY <1>11 DEF AbortTimesOut
<1>12. CASE Register(t)      BY <1>12 DEF Register
<1>13. CASE EntryDead(t)     BY <1>13 DEF EntryDead
<1>14. CASE EntrySignal(t)   BY <1>14 DEF EntrySignal
<1>15. CASE EntryJoined(t)   BY <1>15 DEF EntryJoined
<1>16. CASE EntryKill(t)     BY <1>16 DEF EntryKill
<1>17. CASE EntryStuck(t)
  <2>1. CASE op[t] = "start"  BY <1>17, <2>1 DEF EntryStuck
  <2>2. CASE op[t] # "start"
    <3>1. pc' = [pc EXCEPT ![t] = "done"] /\ res' = [res EXCEPT ![t] = FALSE]
      BY <1>17, <2>2 DEF EntryStuck
    <3>2. UNCHANGED <<captures, op, arg, entry, mine, childVars, fileVars>>
      BY <1>17 DEF EntryStuck
    <3>3. arg[t] \in Paths  BY <1>17 DEF EntryStuck
    <3> QED  BY <3>1, <3>2, <3>3
  <2> QED  BY <2>1, <2>2
<1>18. CASE StopGet(t)
  <2>1. arg[t] \in Paths /\ op[t] = "stop"  BY <1>18 DEF StopGet
  <2>2. CASE captures[arg[t]] = NoProc
    <3>1. /\ entry' = [entry EXCEPT ![t] = NoProc]
          /\ pc' = [pc EXCEPT ![t] = "done"]
          /\ res' = [res EXCEPT ![t] = TRUE]
          /\ UNCHANGED <<captures, op, arg, mine, childVars, fileVars>>
      BY <1>18, <2>2 DEF StopGet
    <3> QED  BY <2>1, <3>1
  <2>3. CASE captures[arg[t]] # NoProc
    <3> DEFINE e == captures[arg[t]]
    <3>1. e \in Procs /\ home[e] = arg[t] /\ child[e] # "unborn"  BY <2>1, <2>3
    <3>2. /\ entry' = [entry EXCEPT ![t] = e]
          /\ pc' = [pc EXCEPT ![t] = "e_check"]
          /\ UNCHANGED <<captures, op, arg, mine, res, childVars, fileVars>>
      BY <1>18, <2>3 DEF StopGet
    <3> HIDE DEF e
    <3>3. TypeOK'  BY <3>1, <3>2
    <3>4. \A u \in Threads : CallOK(u)'  BY <2>1, <3>1, <3>2
    <3> QED  BY <3>2, <3>3, <3>4
  <2> QED  BY <2>2, <2>3
<1>19. CASE StopPop(t)       BY <1>19 DEF StopPop
<1>20. CASE IsrunGet(t)      BY <1>20 DEF IsrunGet
<1>21. CASE IsrunAlive(t)    BY <1>21 DEF IsrunAlive
<1>22. CASE Reply(t)         BY <1>22 DEF Reply
<1> QED
  BY <1>1, <1>2, <1>3, <1>4, <1>5, <1>6, <1>7, <1>8, <1>9, <1>10, <1>11, <1>12,
     <1>13, <1>14, <1>15, <1>16, <1>17, <1>18, <1>19, <1>20, <1>21, <1>22
     DEF ThreadStep, StartStep, EntryStep

\* The server goes down with its children and comes back with nothing.
LEMMA Inv1Restart == Inv1 /\ ServerRestart => Inv1'
BY NoProcAssumption
   DEF Inv1, TypeOK, BornOK, CallOK, EntryOK, HoldsChild, HoldsEntry, Labels, Ops, Alive, Dead,
       ServerRestart

\* A step that changes nothing keeps Inv1.
LEMMA Inv1Stutter == Inv1 /\ UNCHANGED vars => Inv1'
BY DEF Inv1, TypeOK, BornOK, CallOK, EntryOK, vars, threadVars, childVars, fileVars, lossVars

\* Whatever the clients do, handler locals and registry entries are children that
\* were forked for the path of the call or of the entry, and what tcpdump_stop
\* takes out of _captures after a successful join is dead.
THEOREM Inv1Invariant == Spec => []Inv1
<1>1. Inv1 /\ [Next]_vars => Inv1'
  BY Inv1Child, Inv1Thread, Inv1Restart, Inv1Stutter DEF Next
<1> QED  BY Inv1Init, <1>1, PTL DEF Spec

\* Registry, call locals, children and files have their types in every reachable
\* state, for any number of threads, paths and children, overlapping calls or not.
THEOREM TypeCorrect == Spec => []TypeOK
BY Inv1Invariant, PTL DEF Inv1

-----------------------------------------------------------------------------
(* Inv2, for clients that overlap no two calls on one path *)

\* Inv2 holds when the server comes up: nothing runs.
LEMMA Inv2Init == Init => Inv2
BY NoProcAssumption DEF Init, Inv2, Exclusive, HeldOK, NoOrphan, Recording, HoldsEntry

\* A child's step keeps Inv2, since it makes no child a recorder.
LEMMA Inv2Child ==
  ASSUME Inv1, Inv2, NEW p \in Procs, ChildStep(p)
  PROVE  Inv2'
<1>1. /\ UNCHANGED <<captures, threadVars, home>>
      /\ \A r \in Procs : Recording(r)' => Recording(r)
  BY ChildFrame DEF Inv1
<1>2. Exclusive'  BY <1>1 DEF Inv2, Exclusive, threadVars
<1>3. \A t \in Threads : HeldOK(t)'
  <2> SUFFICES ASSUME NEW t \in Threads PROVE HeldOK(t)'  OBVIOUS
  <2>1. pc[t] \in HoldsEntry => entry[t] \in Procs  BY DEF Inv1, CallOK
  <2> QED  BY <1>1, <2>1 DEF Inv2, HeldOK, HoldsEntry, threadVars
<1>4. NoOrphan'
  <2> SUFFICES ASSUME NEW r \in Procs, Recording(r)'
               PROVE  captures'[home'[r]] = r \/ \E t \in Threads : Raising(t, r)'
    BY DEF NoOrphan
  <2>1. captures[home[r]] = r \/ \E t \in Threads : Raising(t, r)
    BY <1>1 DEF Inv2, NoOrphan
  <2> QED  BY <1>1, <2>1 DEF Raising, threadVars
<1> QED  BY <1>2, <1>3, <1>4 DEF Inv2

\* With no other call on its path, a call keeps its path's entry in step with what
\* it knows of it: each action keeps Inv2.
LEMMA Inv2Thread ==
  ASSUME SerialPerPath, Inv1, Inv2, NEW t \in Threads, ClientStep(t) \/ ThreadStep(t)
  PROVE  Inv2'
<1> USE NoProcAssumption
    DEF Inv1, Inv2, TypeOK, CallOK, EntryOK, HoldsChild, HoldsEntry, Exclusive, HeldOK, NoOrphan,
        Raising, Recording, Alive, Dead, Goto, Answer, Return, threadVars, childVars, fileVars, lossVars
<1>1. CASE ClientStep(t)
  BY <1>1 DEF ClientStep, Begin, BeginStart, BeginStop, BeginIsrun, Busy
<1>2. CASE StartNoRoute(t)  BY <1>2 DEF StartNoRoute
<1>3. CASE StartRemove(t)   BY <1>3 DEF StartRemove
<1>4. CASE StartGet(t)      BY <1>4 DEF StartGet
<1>5. CASE StartPop(t)      BY <1>5 DEF StartPop
<1>6. CASE StartSpawn(t)    BY <1>6 DEF StartSpawn
<1>7. CASE SpawnFails(t)    BY <1>7 DEF SpawnFails
<1>8. CASE WaitReady(t)     BY <1>8 DEF WaitReady
<1>9. CASE WaitFails(t)     BY <1>9 DEF WaitFails
<1>10. CASE AbortJoined(t)   BY <1>10 DEF AbortJoined
<1>11. CASE AbortTimesOut(t) BY <1>11 DEF AbortTimesOut
<1>12. CASE Register(t)      BY <1>12 DEF Register
<1>13. CASE EntryDead(t)     BY <1>13 DEF EntryDead
<1>14. CASE EntrySignal(t)   BY <1>14 DEF EntrySignal
<1>15. CASE EntryJoined(t)   BY <1>15 DEF EntryJoined
<1>16. CASE EntryKill(t)     BY <1>16 DEF EntryKill
<1>17. CASE EntryStuck(t)    BY <1>17 DEF EntryStuck
<1>18. CASE StopGet(t)       BY <1>18 DEF StopGet
<1>19. CASE StopPop(t)       BY <1>19 DEF StopPop
<1>20. CASE IsrunGet(t)      BY <1>20 DEF IsrunGet
<1>21. CASE IsrunAlive(t)    BY <1>21 DEF IsrunAlive
<1>22. CASE Reply(t)         BY <1>22 DEF Reply
<1> QED
  BY <1>1, <1>2, <1>3, <1>4, <1>5, <1>6, <1>7, <1>8, <1>9, <1>10, <1>11, <1>12,
     <1>13, <1>14, <1>15, <1>16, <1>17, <1>18, <1>19, <1>20, <1>21, <1>22
     DEF ThreadStep, StartStep, EntryStep

\* A restart empties the registry and kills every child.
LEMMA Inv2Restart == Inv1 /\ ServerRestart => Inv2'
BY NoProcAssumption
   DEF Inv1, TypeOK, Inv2, Exclusive, HeldOK, NoOrphan, Recording, HoldsEntry, Alive, Dead,
       ServerRestart

\* A step that changes nothing keeps Inv2.
LEMMA Inv2Stutter == Inv2 /\ UNCHANGED vars => Inv2'
BY DEF Inv2, Exclusive, HeldOK, NoOrphan, Raising, Recording, vars, threadVars, childVars, fileVars, lossVars

\* Two recorders of one path would be one and the same.
LEMMA Inv2OneRecorder == Inv1 /\ Inv2 => OneRecorder
<1> SUFFICES ASSUME Inv1, Inv2, NEW p \in Procs, NEW r \in Procs,
                    Recording(p), Recording(r), home[p] = home[r]
             PROVE  p = r
  BY DEF OneRecorder
<1>1. \A t \in Threads, x \in Procs : Raising(t, x) =>
        arg[t] = home[x] /\ captures[home[x]] = NoProc /\ pc[t] # "idle" /\ op[t] = "start"
  BY DEF Inv1, Inv2, CallOK, HeldOK, HoldsChild, Raising
<1>2. CASE captures[home[p]] = p
  <2>1. ~ \E t \in Threads : Raising(t, r)  BY <1>1, <1>2, NoProcAssumption
  <2> QED  BY <1>2, <2>1 DEF Inv2, NoOrphan
<1>3. CASE captures[home[r]] = r
  <2>1. ~ \E t \in Threads : Raising(t, p)  BY <1>1, <1>3, NoProcAssumption
  <2> QED  BY <1>3, <2>1 DEF Inv2, NoOrphan
<1>4. CASE captures[home[p]] # p /\ captures[home[r]] # r
  <2>1. PICK t \in Threads : Raising(t, p)  BY <1>4 DEF Inv2, NoOrphan
  <2>2. PICK u \in Threads : Raising(u, r)  BY <1>4 DEF Inv2, NoOrphan
  <2>3. t = u  BY <1>1, <2>1, <2>2 DEF Inv2, Exclusive
  <2> QED  BY <2>1, <2>2, <2>3 DEF Raising
<1> QED  BY <1>2, <1>3, <1>4

\* Clients that overlap no two start or stop calls on a path keep the registry
\* in step with the children: calls exclude each other per path, each knows its
\* path's entry, and no child records that neither entry nor call accounts for.
THEOREM Inv2Invariant ==
  ASSUME SerialPerPath
  PROVE  Spec => [](Inv1 /\ Inv2)
<1>1. Inv1 /\ Inv2 /\ [Next]_vars => Inv2'
  BY Inv2Child, Inv2Thread, Inv2Restart, Inv2Stutter DEF Next
<1>2. Spec => []Inv2
  BY Inv2Init, <1>1, Inv1Invariant, PTL DEF Spec
<1> QED  BY <1>2, Inv1Invariant, PTL

\* tcpdump_start and tcpdump_stop leave no capture running that a stop call would
\* not find, whichever child fails to start, hangs, crashes or outlives its stop,
\* as long as the clients overlap no two calls on one path.
THEOREM NoOrphanCorrect ==
  ASSUME SerialPerPath
  PROVE  Spec => []NoOrphan
BY Inv2Invariant, PTL DEF Inv2

\* Under the same discipline no two children record for one path.
THEOREM OneRecorderCorrect ==
  ASSUME SerialPerPath
  PROVE  Spec => []OneRecorder
BY Inv2Invariant, Inv2OneRecorder, PTL

-----------------------------------------------------------------------------
(* Inv3: the files, under the same discipline *)

\* A child that still runs instructions of its own.
Live(p) == child[p] \in Alive /\ p \notin term

\* A start call that has its own child in hand.
Holding(t, p) == mine[t] = p /\ pc[t] \in HoldsChild

\* A start call that may have removed the file but has no child of its own yet.
Replaces == {"s_get", "e_check", "e_join", "e_killed", "s_pop"}
Replacing(q) ==
  \E t \in Threads : op[t] = "start" /\ arg[t] = q /\ pc[t] \in Replaces

\* A child that said it was ready to a caller who has not given it up since.
Trusted(p) ==
  \/ captures[home[p]] = p
  \/ \E t \in Threads : mine[t] = p /\ (pc[t] = "s_register" \/ (pc[t] = "s_wait" /\ p \in pipe))

Unready == {"unborn", "booting", "opened"}
Writing == {"opened", "ready", "deaf", "closing"}

\* The file of p's path holds what p recorded and nothing else.
Own(p) == home[p] \in exists /\ content[home[p]] = {p}

\* A child that runs is registered or in the hands of the call that forked it.
LiveOK(p) == Live(p) => captures[home[p]] = p \/ \E t \in Threads : Holding(t, p)

LocalOK(t) ==
  /\ pc[t] \notin HoldsChild \cup {"done"} => mine[t] = NoProc
  /\ pc[t] \in {"e_killed", "s_pop"} => ~ Live(entry[t])
  /\ pc[t] = "s_abort" => captures[arg[t]] = NoProc
  /\ pc[t] \in {"i_get", "i_alive"} => op[t] = "isrun"

ReadyOK(p) ==
  /\ p \in pipe => child[p] \notin Unready
  /\ child[p] \in {"booting", "opened"} => ~ Trusted(p)

NamedOK(q) == \A p \in named[q] : home[p] = q /\ child[p] \in Writing

\* A child that lost frames otherwise than to an error it passes over was killed, or will be.
LossOK(p) ==
  p \in lossy \ faulty => child[p] = "exit1" \/ (child[p] \in Alive /\ p \in term)

FileOK(p) ==
  child[p] # "unborn" /\ ~ Replacing(home[p]) =>
    /\ Live(p) /\ child[p] \in Writing => Own(p) /\ named[home[p]] \ term = {p}
    /\ Live(p) /\ child[p] = "reading" => Own(p)
    /\ Live(p) /\ child[p] = "sorting" => snap[p] = {p}
    /\ child[p] = "exit0" /\ Trusted(p) => Own(p)

\* What a stop call knows when it is about to answer True.
StoppedOK(t) ==
  pc[t] = "done" /\ op[t] = "stop" /\ res[t] =>
    /\ captures[arg[t]] = NoProc
    /\ entry[t] # NoProc =>
         /\ entry[t] \in Procs /\ home[entry[t]] = arg[t]
         /\ child[entry[t]] = "exit0" /\ Own(entry[t])

Inv3 ==
  /\ \A p \in Procs : LiveOK(p) /\ ReadyOK(p) /\ FileOK(p) /\ LossOK(p)
  /\ \A t \in Threads : LocalOK(t) /\ StoppedOK(t)
  /\ \A q \in Paths : NamedOK(q)

\* A call that runs on a path without an entry, and without a child of its own, has
\* the path to itself.
LEMMA PathIsFree ==
  ASSUME Inv1, Inv2, Inv3, NEW t \in Threads,
         pc[t] # "idle", op[t] \in {"start", "stop"}, pc[t] \notin HoldsChild,
         captures[arg[t]] = NoProc,
         NEW p \in Procs, home[p] = arg[t]
  PROVE  ~ Live(p) /\ ~ Trusted(p)
<1>1. arg[t] \in Paths  BY DEF Inv1, CallOK
<1>2. \A u \in Threads : Holding(u, p) => FALSE
  <2> SUFFICES ASSUME NEW u \in Threads, Holding(u, p) PROVE FALSE  OBVIOUS
  <2>1. op[u] = "start" /\ arg[u] = arg[t] /\ pc[u] # "idle"
    BY DEF Holding, Inv1, CallOK, HoldsChild
  <2>2. u # t  BY DEF Holding
  <2> QED  BY <2>1, <2>2 DEF Inv2, Exclusive
<1>3. captures[home[p]] # p  BY NoProcAssumption
<1> QED  BY <1>2, <1>3 DEF Inv3, LiveOK, Trusted, Holding, HoldsChild

\* A running child has its path to itself.
LEMMA LiveIsAlone ==
  ASSUME Inv1, Inv2, Inv3, NEW p \in Procs, Live(p),
         NEW r \in Procs, home[r] = home[p], Live(r) \/ Trusted(r)
  PROVE  r = p
<1>1. ASSUME NEW x \in Procs, NEW t \in Threads, Holding(t, x)
      PROVE  /\ op[t] = "start" /\ pc[t] # "idle" /\ arg[t] = home[x]
             /\ captures[home[x]] = NoProc
  BY <1>1 DEF Holding, HoldsChild, Inv1, CallOK, Inv2, HeldOK, Inv3, LocalOK
<1>2. \A x \in Procs : Live(x) \/ Trusted(x) =>
        captures[home[x]] = x \/ \E t \in Threads : Holding(t, x)
  BY DEF Inv3, LiveOK, Trusted, Holding, HoldsChild
<1>3. CASE captures[home[p]] = p  BY <1>1, <1>2, <1>3, NoProcAssumption
<1>4. CASE \E t \in Threads : Holding(t, p)
  <2>1. PICK t \in Threads : Holding(t, p)  BY <1>4
  <2>2. PICK u \in Threads : Holding(u, r)  BY <1>1, <1>2, <2>1, NoProcAssumption
  <2>3. t = u  BY <1>1, <2>1, <2>2 DEF Inv2, Exclusive
  <2> QED  BY <2>1, <2>2, <2>3 DEF Holding
<1> QED  BY <1>2, <1>3, <1>4

\* A child's step is felt by no other child's state, signals or locals, and only a
\* child that runs instructions of its own, or dies of a signal, takes one.
LEMMA ChildAlone ==
  ASSUME TypeOK, NEW p \in Procs, ChildStep(p)
  PROVE  /\ \A r \in Procs \ {p} : /\ child'[r] = child[r] /\ snap'[r] = snap[r]
                                   /\ r \in term' <=> r \in term
                                   /\ r \in pipe' <=> r \in pipe
         /\ term' \subseteq term
         /\ child[p] \in Alive /\ (Live(p)' => Live(p))
         /\ p \in pipe' => p \in pipe \/ child'[p] = "ready"
<1> USE DEF TypeOK, Alive, Live, Become, Exit, fileVars, lossVars
<1>1. CASE BootFails(p)        BY <1>1 DEF BootFails
<1>2. CASE BootOpens(p)        BY <1>2 DEF BootOpens
<1>3. CASE SendReady(p)        BY <1>3 DEF SendReady
<1>4. CASE RecvThreadDies(p)   BY <1>4 DEF RecvThreadDies
<1>5. CASE StopSeen(p)         BY <1>5 DEF StopSeen
<1>6. CASE Flushed(p)          BY <1>6 DEF Flushed
<1>7. CASE FlushTimesOut(p)    BY <1>7 DEF FlushTimesOut
<1>8. CASE SortRead(p)         BY <1>8 DEF SortRead
<1>9. CASE SortReplace(p)      BY <1>9 DEF SortReplace
<1>10. CASE SortFails(p)       BY <1>10 DEF SortFails
<1>11. CASE Die(p)             BY <1>11 DEF Die
<1>12. CASE Crash(p)           BY <1>12 DEF Crash
<1> QED
  BY <1>1, <1>2, <1>3, <1>4, <1>5, <1>6, <1>7, <1>8, <1>9, <1>10, <1>11, <1>12
     DEF ChildStep

\* Nor by the files of other paths: on its own path it adds nobody but itself to
\* those who hold the file open, and what it loses are its own records.
LEMMA ChildFiles ==
  ASSUME TypeOK, \A q \in Paths : NamedOK(q), NEW p \in Procs, ChildStep(p), home[p] \in Paths
  PROVE  /\ \A q \in Paths \ {home[p]} :
              /\ q \in exists' <=> q \in exists
              /\ named'[q] = named[q] /\ content'[q] = content[q]
         /\ home[p] \in exists => home[p] \in exists'
         /\ ~ Live(p) => /\ named'[home[p]] = named[home[p]] \ {p}
                         /\ content'[home[p]] \in {content[home[p]], content[home[p]] \ {p}}
                         /\ term' = term \ {p}
<1> USE DEF TypeOK, Alive, Live, NamedOK, Become, Exit, Lose, fileVars, lossVars
<1>1. CASE BootFails(p)        BY <1>1 DEF BootFails
<1>2. CASE BootOpens(p)        BY <1>2 DEF BootOpens
<1>3. CASE SendReady(p)        BY <1>3 DEF SendReady
<1>4. CASE RecvThreadDies(p)   BY <1>4 DEF RecvThreadDies
<1>5. CASE StopSeen(p)         BY <1>5 DEF StopSeen
<1>6. CASE Flushed(p)
  <2>1. /\ named' = [q \in Paths |-> named[q] \ {p}] /\ content' = content /\ exists' = exists
        /\ Live(p)
    <3>1. CASE home[p] \in exists  BY <1>6, <3>1 DEF Flushed
    <3>2. CASE home[p] \notin exists  BY <1>6, <3>2 DEF Flushed
    <3> QED  BY <3>1, <3>2
  <2>2. \A q \in Paths \ {home[p]} : named[q] \ {p} = named[q]  OBVIOUS
  <2> QED  BY <2>1, <2>2
<1>7. CASE FlushTimesOut(p)    BY <1>7 DEF FlushTimesOut
<1>8. CASE SortRead(p)         BY <1>8 DEF SortRead
<1>9. CASE SortReplace(p)      BY <1>9 DEF SortReplace
<1>10. CASE SortFails(p)       BY <1>10 DEF SortFails
<1>11. CASE Die(p)             BY <1>11 DEF Die
<1>12. CASE Crash(p)           BY <1>12 DEF Crash
<1> QED
  BY <1>1, <1>2, <1>3, <1>4, <1>5, <1>6, <1>7, <1>8, <1>9, <1>10, <1>11, <1>12
     DEF ChildStep

\* Whoever holds the file open goes on writing it, or lets go of it.
LEMMA ChildNamed ==
  ASSUME TypeOK, \A q \in Paths : NamedOK(q), NEW p \in Procs, ChildStep(p), home[p] \in Paths
  PROVE  /\ named'[home[p]] \subseteq named[home[p]] \cup {p}
         /\ p \in named'[home[p]] => child'[p] \in Writing
<1> USE DEF TypeOK, Alive, NamedOK, Writing, Become, Exit, fileVars, lossVars
<1>1. CASE BootFails(p)        BY <1>1 DEF BootFails
<1>2. CASE BootOpens(p)        BY <1>2 DEF BootOpens
<1>3. CASE SendReady(p)        BY <1>3 DEF SendReady
<1>4. CASE RecvThreadDies(p)   BY <1>4 DEF RecvThreadDies
<1>5. CASE StopSeen(p)         BY <1>5 DEF StopSeen
<1>6. CASE Flushed(p)          BY <1>6 DEF Flushed
<1>7. CASE FlushTimesOut(p)    BY <1>7 DEF FlushTimesOut
<1>8. CASE SortRead(p)         BY <1>8 DEF SortRead
<1>9. CASE SortReplace(p)      BY <1>9 DEF SortReplace
<1>10. CASE SortFails(p)       BY <1>10 DEF SortFails
<1>11. CASE Die(p)             BY <1>11 DEF Die
<1>12. CASE Crash(p)           BY <1>12 DEF Crash
<1> QED
  BY <1>1, <1>2, <1>3, <1>4, <1>5, <1>6, <1>7, <1>8, <1>9, <1>10, <1>11, <1>12
     DEF ChildStep

\* What a child that runs does with its file, which is its own from the opening to
\* the end of its sort.
LEMMA ChildKeepsFile ==
  ASSUME Inv1, Inv2, Inv3, NEW p \in Procs, ChildStep(p), home[p] \in Paths
  PROVE  FileOK(p)'
<1>1. UNCHANGED <<captures, threadVars, home>>  BY ChildFrame DEF Inv1
<1>2. Replacing(home[p])' <=> Replacing(home[p])  BY <1>1 DEF Replacing, threadVars
<1>3. CASE Replacing(home[p])  BY <1>1, <1>2, <1>3 DEF FileOK
<1>4. CASE ~ Live(p)
  <2>1. child'[p] = "exit1"
    BY <1>4 DEF Live, Inv1, TypeOK, Become, Exit, ChildStep, BootFails, BootOpens, SendReady,
                RecvThreadDies, StopSeen, Flushed, FlushTimesOut, SortRead, SortReplace, SortFails,
                Die, Crash, Alive
  <2> QED  BY <2>1 DEF FileOK, Live, Alive
<1>5. CASE ~ Replacing(home[p]) /\ Live(p)
  <2> DEFINE q == home[p]
  <2>1. /\ child[p] \in Writing => Own(p) /\ named[q] \ term = {p}
        /\ child[p] = "reading" => Own(p)
        /\ child[p] = "sorting" => snap[p] = {p}
    BY <1>5 DEF Inv3, FileOK, Live, Alive
  <2>2. \A r \in named[q] : r \notin term => r = p
    <3> SUFFICES ASSUME NEW r \in named[q], r \notin term PROVE r = p  OBVIOUS
    <3>1. r \in Procs /\ home[r] = q /\ child[r] \in Writing  BY DEF Inv1, TypeOK, Inv3, NamedOK
    <3>2. Live(r)  BY <3>1 DEF Live, Alive, Writing
    <3> QED  BY <1>5, <3>1, <3>2, LiveIsAlone
  <2>3. Trusted(p)' => Trusted(p) \/ child'[p] = "ready"
    BY <1>1, ChildAlone DEF Trusted, threadVars, Inv1
  <2> USE <1>1, <2>1, <2>2, <2>3
      DEF Inv1, TypeOK, Own, FileOK, Live, Alive, Writing, Become, Exit, Lose, threadVars, fileVars, lossVars
  <2>4. CASE BootFails(p)
    <3>1. child'[p] = "exit0" /\ ~ Trusted(p)  BY <2>4 DEF BootFails, Inv3, ReadyOK
    <3> QED  BY <3>1
  <2>5. CASE BootOpens(p)       BY <2>5 DEF BootOpens
  <2>6. CASE SendReady(p)       BY <2>6 DEF SendReady
  <2>7. CASE RecvThreadDies(p)  BY <2>7 DEF RecvThreadDies
  <2>8. CASE StopSeen(p)        BY <2>8 DEF StopSeen
  <2>9. CASE Flushed(p)         BY <2>9 DEF Flushed
  <2>10. CASE FlushTimesOut(p)  BY <2>10 DEF FlushTimesOut
  <2>11. CASE SortRead(p)       BY <2>11 DEF SortRead
  <2>12. CASE SortReplace(p)    BY <2>12 DEF SortReplace
  <2>13. CASE SortFails(p)      BY <2>13 DEF SortFails
  <2>14. CASE Die(p)            BY <2>14 DEF Die
  <2>15. CASE Crash(p)          BY <2>15 DEF Crash
  <2> QED
    BY <2>4, <2>5, <2>6, <2>7, <2>8, <2>9, <2>10, <2>11, <2>12, <2>13, <2>14, <2>15 DEF ChildStep
<1> QED  BY <1>3, <1>4, <1>5

\* The files of the other children stay theirs.
LEMMA ChildSparesFiles ==
  ASSUME Inv1, Inv2, Inv3, NEW p \in Procs, ChildStep(p), home[p] \in Paths,
         NEW r \in Procs \ {p}
  PROVE  FileOK(r)'
<1>1. UNCHANGED <<captures, threadVars, home>>  BY ChildFrame DEF Inv1
<1>2. /\ child'[r] = child[r] /\ snap'[r] = snap[r]
      /\ r \in term' <=> r \in term
      /\ r \in pipe' <=> r \in pipe
      /\ term' \subseteq term
  BY ChildAlone DEF Inv1
<1>3. /\ Replacing(home[r])' <=> Replacing(home[r])
      /\ Trusted(r)' <=> Trusted(r)
      /\ Live(r)' <=> Live(r)
  BY <1>1, <1>2 DEF Replacing, Trusted, Live, threadVars
<1> SUFFICES ASSUME child[r] # "unborn", ~ Replacing(home[r]), Live(r) \/ Trusted(r)
             PROVE  FileOK(r)'
  BY <1>1, <1>2, <1>3 DEF FileOK
<1>4. home[r] \in Paths  BY DEF Inv1, BornOK
<1>5. /\ Live(r) /\ child[r] \in Writing => Own(r) /\ named[home[r]] \ term = {r}
      /\ Live(r) /\ child[r] = "reading" => Own(r)
      /\ Live(r) /\ child[r] = "sorting" => snap[r] = {r}
      /\ child[r] = "exit0" /\ Trusted(r) => Own(r)
  BY DEF Inv3, FileOK
<1>6. CASE home[r] # home[p]
  <2>1. /\ home[r] \in exists' <=> home[r] \in exists
        /\ named'[home[r]] = named[home[r]] /\ content'[home[r]] = content[home[r]]
    BY <1>4, <1>6, ChildFiles DEF Inv1, Inv3
  <2>2. p \notin named[home[r]]  BY <1>4, <1>6 DEF Inv3, NamedOK
  <2>3. \A x \in Procs \ {p} : x \in term' <=> x \in term  BY ChildAlone DEF Inv1
  <2>4. named'[home[r]] \ term' = named[home[r]] \ term
    BY <1>4, <2>1, <2>2, <2>3 DEF Inv1, TypeOK
  <2> QED  BY <1>1, <1>2, <1>3, <1>5, <2>1, <2>4 DEF FileOK, Own
<1>7. CASE home[r] = home[p]
  <2>1. ~ Live(p)  BY <1>7, LiveIsAlone
  <2>2. /\ home[p] \in exists => home[p] \in exists'
        /\ named'[home[p]] = named[home[p]] \ {p}
        /\ content'[home[p]] \in {content[home[p]], content[home[p]] \ {p}}
        /\ term' = term \ {p}
    BY <2>1, ChildFiles DEF Inv1, Inv3
  <2>3. Own(r) => Own(r)'  BY <1>1, <1>7, <2>2 DEF Own
  <2>4. named[home[r]] \ term = {r} => named'[home[r]] \ term' = {r}  BY <1>7, <2>2
  <2> QED  BY <1>1, <1>2, <1>3, <1>5, <2>3, <2>4 DEF FileOK
<1> QED  BY <1>6, <1>7

\* A child that exits with zero has lost nothing but to such errors.
LEMMA ChildLoss ==
  ASSUME Inv1, Inv2, Inv3, NEW p \in Procs, ChildStep(p), home[p] \in Paths
  PROVE  \A r \in Procs : LossOK(r)'
<1>1. /\ \A r \in Procs \ {p} : child'[r] = child[r] /\ (r \in term' <=> r \in term)
      /\ child[p] \in Alive /\ UNCHANGED <<captures, threadVars, home>>
  BY ChildAlone, ChildFrame DEF Inv1
<1>2. ASSUME Live(p), NEW r \in Procs \ {p}, r \in named[home[p]]
      PROVE  child[r] \in Alive /\ r \in term
  <2>1. home[r] = home[p] /\ child[r] \in Alive
    BY <1>2 DEF Inv3, NamedOK, Writing, Alive
  <2>2. ~ Live(r)  BY <1>2, <2>1, LiveIsAlone
  <2> QED  BY <2>1, <2>2 DEF Live
<1>3. \A r \in Procs : LossOK(r)  BY DEF Inv3
<1>4. CASE BootOpens(p)
  <2>1. Live(p) /\ child'[p] = "opened" /\ lossy' = lossy \cup named[home[p]] /\ faulty' = faulty
        /\ child[p] = "booting"
    BY <1>4 DEF BootOpens, Become, Live, Alive, Inv1, TypeOK
  <2>2. p \notin named[home[p]]  BY <2>1 DEF Inv3, NamedOK, Writing
  <2>3. LossOK(p)'  BY <1>3, <2>1, <2>2 DEF LossOK, Live
  <2>4. ASSUME NEW r \in Procs \ {p} PROVE LossOK(r)'
    <3>1. CASE r \in named[home[p]]  BY <1>1, <1>2, <2>1, <3>1 DEF LossOK
    <3>2. CASE r \notin named[home[p]]  BY <1>1, <1>3, <2>1, <3>2 DEF LossOK
    <3> QED  BY <3>1, <3>2
  <2> QED  BY <2>3, <2>4
<1>5. CASE ~ BootOpens(p)
  <2>1. /\ \A r \in Procs \ {p} : r \in lossy' \ faulty' <=> r \in lossy \ faulty
        /\ p \in lossy' \ faulty' => p \in lossy \ faulty \/ child'[p] = "exit1"
        /\ p \in term => child'[p] = "exit1"
    <3> USE DEF Inv1, TypeOK, Become, Exit, Lose, Fault, fileVars, lossVars
    <3>1. CASE BootFails(p)       BY <3>1 DEF BootFails
    <3>2. CASE SendReady(p)       BY <3>2 DEF SendReady
    <3>3. CASE RecvThreadDies(p)  BY <3>3 DEF RecvThreadDies
    <3>4. CASE StopSeen(p)        BY <3>4 DEF StopSeen
    <3>5. CASE Flushed(p)         BY <3>5 DEF Flushed
    <3>6. CASE FlushTimesOut(p)   BY <3>6 DEF FlushTimesOut
    <3>7. CASE SortRead(p)        BY <3>7 DEF SortRead
    <3>8. CASE SortReplace(p)     BY <3>8 DEF SortReplace
    <3>9. CASE SortFails(p)       BY <3>9 DEF SortFails
    <3>10. CASE Die(p)            BY <3>10 DEF Die
    <3>11. CASE Crash(p)          BY <3>11 DEF Crash
    <3> QED
      BY <1>5, <3>1, <3>2, <3>3, <3>4, <3>5, <3>6, <3>7, <3>8, <3>9, <3>10, <3>11 DEF ChildStep
  <2>2. LossOK(p)'  BY <1>1, <1>3, <2>1 DEF LossOK, Alive
  <2>3. \A r \in Procs \ {p} : LossOK(r)'  BY <1>1, <1>3, <2>1 DEF LossOK
  <2> QED  BY <2>2, <2>3
<1> QED  BY <1>4, <1>5

\* Inv3 holds when the server comes up, and a child's step keeps it.
LEMMA Inv3Init == Init => Inv3
BY NoProcAssumption
   DEF Init, Inv3, LiveOK, ReadyOK, FileOK, LossOK, LocalOK, StoppedOK, NamedOK, Live, Alive, Trusted,
       HoldsChild, Unready

\* A step of a child keeps Inv3: it writes the file of its own path only.
LEMMA Inv3Child ==
  ASSUME Inv1, Inv2, Inv3, NEW p \in Procs, ChildStep(p)
  PROVE  Inv3'
<1>1. home[p] \in Paths
  BY ChildAlone DEF Inv1, BornOK, Alive
<1>2. /\ UNCHANGED <<captures, threadVars, home>>
      /\ \A r \in Procs : child[r] \in Dead => child'[r] \in Dead
  BY ChildFrame DEF Inv1
<1>3. /\ \A r \in Procs \ {p} : /\ child'[r] = child[r]
                                /\ r \in term' <=> r \in term
                                /\ r \in pipe' <=> r \in pipe
      /\ child[p] \in Alive /\ (Live(p)' => Live(p))
      /\ p \in pipe' => p \in pipe \/ child'[p] = "ready"
  BY ChildAlone DEF Inv1
<1>4. \A r \in Procs : Live(r)' => Live(r)  BY <1>3 DEF Live
<1>5. \A r \in Procs : FileOK(r)'  BY <1>1, ChildKeepsFile, ChildSparesFiles
<1>6. \A r \in Procs : LiveOK(r)'  BY <1>2, <1>4 DEF Inv3, LiveOK, Holding, threadVars
<1>7. \A t \in Threads : LocalOK(t)'
  <2> SUFFICES ASSUME NEW t \in Threads PROVE LocalOK(t)'  OBVIOUS
  <2>1. pc[t] \in {"e_killed", "s_pop"} => entry[t] \in Procs  BY DEF Inv1, CallOK, HoldsEntry
  <2> QED  BY <1>2, <1>4, <2>1 DEF Inv3, LocalOK, threadVars
<1>8. \A r \in Procs : ReadyOK(r)'
  <2>1. child'[p] \in Unready => child'[p] = "opened" /\ child[p] = "booting"
    BY DEF Inv1, TypeOK, Alive, Unready, Become, Exit, ChildStep, BootFails, BootOpens, SendReady,
           RecvThreadDies, StopSeen, Flushed, FlushTimesOut, SortRead, SortReplace, SortFails, Die,
           Crash
  <2>2. ReadyOK(p)'
    <3>1. child'[p] \in Unready => p \notin pipe /\ ~ Trusted(p) /\ p \notin pipe'
      BY <1>3, <2>1 DEF Inv3, ReadyOK, Unready
    <3> QED  BY <1>2, <3>1 DEF ReadyOK, Trusted, Unready, threadVars
  <2>3. \A r \in Procs \ {p} : ReadyOK(r)'
    BY <1>2, <1>3 DEF Inv3, ReadyOK, Trusted, threadVars
  <2> QED  BY <2>2, <2>3
<1>9. \A q \in Paths : NamedOK(q)'
  <2> SUFFICES ASSUME NEW q \in Paths, NEW r \in named'[q]
               PROVE  home'[r] = q /\ child'[r] \in Writing
    BY DEF NamedOK
  <2>1. CASE q = home[p]
    <3>1. r \in named[q] \/ r = p  BY <1>1, <2>1, ChildNamed DEF Inv1, Inv3
    <3>2. CASE r = p  BY <1>1, <1>2, <2>1, <3>2, ChildNamed DEF Inv1, Inv3
    <3>3. CASE r # p /\ r \in named[q]
      BY <1>2, <1>3, <3>3 DEF Inv1, TypeOK, Inv3, NamedOK
    <3> QED  BY <3>1, <3>2, <3>3
  <2>2. CASE q # home[p]
    <3>1. r \in named[q]  BY <1>1, <2>2, ChildFiles DEF Inv1, Inv3
    <3> QED  BY <1>2, <1>3, <2>2, <3>1 DEF Inv1, TypeOK, Inv3, NamedOK
  <2> QED  BY <2>1, <2>2
<1>10. \A t \in Threads : StoppedOK(t)'
  <2> SUFFICES ASSUME NEW t \in Threads, pc[t] = "done", op[t] = "stop", res[t]
               PROVE  StoppedOK(t)'
    BY <1>2 DEF StoppedOK, threadVars
  <2>1. captures[arg[t]] = NoProc  BY DEF Inv3, StoppedOK
  <2>2. CASE entry[t] = NoProc  BY <1>2, <2>1, <2>2 DEF StoppedOK, threadVars
  <2>3. CASE entry[t] # NoProc
    <3> DEFINE e == entry[t]
    <3>1. /\ e \in Procs /\ home[e] = arg[t] /\ child[e] = "exit0" /\ Own(e)
          /\ arg[t] \in Paths
      BY <2>3 DEF Inv3, StoppedOK, Inv1, CallOK
    <3>2. e # p /\ child'[e] = "exit0"  BY <1>3, <3>1 DEF Alive
    <3>3. Own(e)'
      <4>1. CASE home[p] # home[e]
        <5>1. /\ home[e] \in exists' <=> home[e] \in exists
              /\ content'[home[e]] = content[home[e]]
          BY <1>1, <3>1, <4>1, ChildFiles DEF Inv1, Inv3
        <5> QED  BY <1>2, <3>1, <5>1 DEF Own, threadVars
      <4>2. CASE home[p] = home[e]
        <5>1. ~ Live(p)  BY <2>1, <3>1, <4>2, PathIsFree DEF HoldsChild
        <5>2. /\ home[p] \in exists => home[p] \in exists'
              /\ content'[home[p]] \in {content[home[p]], content[home[p]] \ {p}}
          BY <1>1, <5>1, ChildFiles DEF Inv1, Inv3
        <5> QED  BY <1>2, <3>1, <3>2, <4>2, <5>2 DEF Own, threadVars
      <4> QED  BY <4>1, <4>2
    <3> QED  BY <1>2, <2>1, <3>1, <3>2, <3>3 DEF StoppedOK, threadVars
  <2> QED  BY <2>2, <2>3
<1>11. \A r \in Procs : LossOK(r)'  BY <1>1, ChildLoss
<1> QED  BY <1>5, <1>6, <1>7, <1>8, <1>9, <1>10, <1>11 DEF Inv3

\* A call that touches no file and no child's life keeps the files, as long as it
\* gives nobody a claim to a file who had none.
LEMMA ThreadSparesFiles ==
  ASSUME Inv3, UNCHANGED <<child, home, fileVars>>, term \subseteq term',
         \A p \in Procs :
           child[p] # "unborn" /\ ~ Replacing(home[p])' /\ (Live(p) \/ Trusted(p)')
             => ~ Replacing(home[p]) /\ (Trusted(p)' => Trusted(p))
  PROVE  \A p \in Procs : FileOK(p)'
<1> SUFFICES ASSUME NEW p \in Procs, child[p] # "unborn", ~ Replacing(home[p])',
                    Live(p)' \/ Trusted(p)'
             PROVE  FileOK(p)'
  BY DEF FileOK
<1>1. Live(p)' => Live(p)  BY DEF Live
<1>2. ~ Replacing(home[p]) /\ (Trusted(p)' => Trusted(p))  BY <1>1
<1>3. Own(p)' <=> Own(p)  BY DEF Own, fileVars, lossVars
<1>4. Live(p)' /\ named[home[p]] \ term = {p} => named'[home[p]] \ term' = {p}
  BY DEF Live, fileVars, lossVars
<1> QED  BY <1>1, <1>2, <1>3, <1>4 DEF Inv3, FileOK, fileVars, lossVars

\* What a step of a handler thread does to the other threads, the registry and the
\* pipes, the removal of the file and the fork left aside.
LEMMA ThreadFrame ==
  ASSUME Inv1, NEW t \in Threads, ClientStep(t) \/ ThreadStep(t), ~ StartRemove(t), ~ StartSpawn(t)
  PROVE  /\ \A u \in Threads \ {t} : /\ pc'[u] = pc[u] /\ op'[u] = op[u]
                                     /\ arg'[u] = arg[u] /\ mine'[u] = mine[u]
         /\ UNCHANGED <<child, home, fileVars>> /\ term \subseteq term'
         /\ pipe' \subseteq pipe /\ pc'[t] # "s_wait"
         /\ pc'[t] = "s_register" => pc[t] = "s_wait" /\ mine[t] \in pipe /\ mine'[t] = mine[t]
         /\ \A q \in Paths : \/ captures'[q] \in {captures[q], NoProc}
                             \/ pc[t] = "s_register" /\ captures'[q] = mine[t]
         /\ op[t] = "start" /\ pc[t] \in Replaces
              => \/ op'[t] = "start" /\ arg'[t] = arg[t] /\ pc'[t] \in Replaces
                 \/ /\ pc[t] = "s_get" /\ captures[arg[t]] = NoProc
                    /\ pc'[t] = "s_spawn" /\ captures' = captures
                 \/ /\ pc[t] = "s_pop" /\ captures' = [captures EXCEPT ![arg[t]] = NoProc]
                    /\ pc'[t] = "s_spawn"
<1> USE DEF Inv1, TypeOK, Replaces, Goto, Answer, Return, childVars, fileVars, lossVars, threadVars
<1>1. CASE ClientStep(t)
  BY <1>1 DEF ClientStep, Begin, BeginStart, BeginStop, BeginIsrun
<1>2. CASE StartNoRoute(t)   BY <1>2 DEF StartNoRoute
<1>3. CASE StartGet(t)       BY <1>3 DEF StartGet
<1>4. CASE StartPop(t)       BY <1>4 DEF StartPop
<1>5. CASE SpawnFails(t)     BY <1>5 DEF SpawnFails
<1>6. CASE WaitReady(t)      BY <1>6 DEF WaitReady
<1>7. CASE WaitFails(t)      BY <1>7 DEF WaitFails
<1>8. CASE AbortJoined(t)    BY <1>8 DEF AbortJoined
<1>9. CASE AbortTimesOut(t)  BY <1>9 DEF AbortTimesOut
<1>10. CASE Register(t)       BY <1>10 DEF Register
<1>11. CASE EntryDead(t)      BY <1>11 DEF EntryDead
<1>12. CASE EntrySignal(t)    BY <1>12 DEF EntrySignal
<1>13. CASE EntryJoined(t)    BY <1>13 DEF EntryJoined
<1>14. CASE EntryKill(t)      BY <1>14 DEF EntryKill
<1>15. CASE EntryStuck(t)     BY <1>15 DEF EntryStuck
<1>16. CASE StopGet(t)        BY <1>16 DEF StopGet
<1>17. CASE StopPop(t)        BY <1>17 DEF StopPop
<1>18. CASE IsrunGet(t)       BY <1>18 DEF IsrunGet
<1>19. CASE IsrunAlive(t)     BY <1>19 DEF IsrunAlive
<1>20. CASE Reply(t)          BY <1>20 DEF Reply
<1> QED
  BY <1>1, <1>2, <1>3, <1>4, <1>5, <1>6, <1>7, <1>8, <1>9, <1>10, <1>11, <1>12,
     <1>13, <1>14, <1>15, <1>16, <1>17, <1>18, <1>19, <1>20
     DEF ThreadStep, StartStep, EntryStep

\* A call that neither removes a file nor forks gives no child a claim to its file
\* that it did not have: a replacement ends when the path has no child left.
LEMMA ThreadClaims ==
  ASSUME Inv1, Inv2, Inv3, NEW t \in Threads,
         ClientStep(t) \/ ThreadStep(t), ~ StartRemove(t), ~ StartSpawn(t),
         NEW p \in Procs, child[p] # "unborn", ~ Replacing(home[p])', Live(p) \/ Trusted(p)'
  PROVE  ~ Replacing(home[p]) /\ (Trusted(p)' => Trusted(p))
<1>1. /\ \A u \in Threads \ {t} : /\ pc'[u] = pc[u] /\ op'[u] = op[u]
                                 /\ arg'[u] = arg[u] /\ mine'[u] = mine[u]
      /\ UNCHANGED home
      /\ pipe' \subseteq pipe /\ pc'[t] # "s_wait"
      /\ pc'[t] = "s_register" => pc[t] = "s_wait" /\ mine[t] \in pipe /\ mine'[t] = mine[t]
      /\ \A q \in Paths : \/ captures'[q] \in {captures[q], NoProc}
                          \/ pc[t] = "s_register" /\ captures'[q] = mine[t]
  BY ThreadFrame
<1>2. home[p] \in Paths  BY DEF Inv1, BornOK
<1>3. ASSUME Replacing(home[p])
      PROVE  /\ op[t] = "start" /\ arg[t] = home[p] /\ pc'[t] = "s_spawn"
             /\ \/ pc[t] = "s_get" /\ captures[arg[t]] = NoProc /\ captures' = captures
                \/ pc[t] = "s_pop" /\ captures' = [captures EXCEPT ![arg[t]] = NoProc]
  <2>1. PICK u \in Threads : op[u] = "start" /\ arg[u] = home[p] /\ pc[u] \in Replaces
    BY <1>3 DEF Replacing
  <2>2. ~ (op'[u] = "start" /\ arg'[u] = home[p] /\ pc'[u] \in Replaces)
    BY <1>1 DEF Replacing
  <2>3. u = t  BY <1>1, <2>1, <2>2
  <2> QED  BY <2>1, <2>2, <2>3, ThreadFrame
<1>4. CASE Replacing(home[p]) /\ pc[t] = "s_get"
  <2>1. ~ Live(p) /\ ~ Trusted(p)  BY <1>3, <1>4, PathIsFree DEF HoldsChild
  <2>2. ~ Trusted(p)'  BY <1>1, <1>3, <1>4, <2>1 DEF Trusted
  <2> QED  BY <2>1, <2>2
<1>5. CASE Replacing(home[p]) /\ pc[t] = "s_pop"
  <2>1. captures[arg[t]] = entry[t] /\ ~ Live(entry[t])
    BY <1>5 DEF Inv2, HeldOK, HoldsEntry, Inv3, LocalOK
  <2>2. ASSUME NEW u \in Threads, Holding(u, p) PROVE FALSE
    <3>1. op[u] = "start" /\ arg[u] = home[p] /\ pc[u] # "idle" /\ u # t
      BY <1>5, <2>2 DEF Holding, Inv1, CallOK, HoldsChild
    <3> QED  BY <1>3, <1>5, <3>1 DEF Inv2, Exclusive
  <2>3. ~ Live(p)  BY <1>3, <1>5, <2>1, <2>2 DEF Inv3, LiveOK
  <2>4. captures'[home[p]] # p
    BY <1>2, <1>3, <1>5, NoProcAssumption DEF Inv1, TypeOK
  <2>5. ~ Trusted(p)'
    BY <1>1, <1>3, <1>5, <2>2, <2>4 DEF Trusted, Holding, HoldsChild
  <2> QED  BY <2>3, <2>5
<1>6. CASE ~ Replacing(home[p])
  <2>1. captures'[home[p]] = p => captures[home[p]] = p \/ (pc[t] = "s_register" /\ mine[t] = p)
    BY <1>1, <1>2, NoProcAssumption
  <2>2. ASSUME NEW u \in Threads,
               mine'[u] = p, pc'[u] = "s_register" \/ (pc'[u] = "s_wait" /\ p \in pipe')
        PROVE  Trusted(p)
    BY <1>1, <2>2 DEF Trusted
  <2> QED  BY <1>1, <1>6, <2>1, <2>2 DEF Trusted
<1> QED  BY <1>3, <1>4, <1>5, <1>6

\* A start call keeps hold of its child until it registers it, has it die or sends it a
\* SIGTERM; a stop call drops the entry of dead children only.
LEMMA ThreadLive ==
  ASSUME Inv1, Inv2, Inv3, NEW t \in Threads, ClientStep(t) \/ ThreadStep(t)
  PROVE  \A p \in Procs : LiveOK(p)'
<1> USE NoProcAssumption
    DEF Inv1, TypeOK, CallOK, Inv2, HeldOK, Inv3, LiveOK, LocalOK, Live, Holding, HoldsChild, HoldsEntry,
        Alive, Dead,
        Goto, Answer, Return, threadVars, childVars, fileVars, lossVars
<1>1. CASE ClientStep(t)
  BY <1>1 DEF ClientStep, Begin, BeginStart, BeginStop, BeginIsrun
<1>2. CASE StartNoRoute(t)   BY <1>2 DEF StartNoRoute
<1>3. CASE StartRemove(t)    BY <1>3 DEF StartRemove
<1>4. CASE StartGet(t)       BY <1>4 DEF StartGet
<1>5. CASE StartPop(t)       BY <1>5 DEF StartPop
<1>6. CASE StartSpawn(t)     BY <1>6 DEF StartSpawn
<1>7. CASE SpawnFails(t)     BY <1>7 DEF SpawnFails
<1>8. CASE WaitReady(t)      BY <1>8 DEF WaitReady
<1>9. CASE WaitFails(t)      BY <1>9 DEF WaitFails
<1>10. CASE AbortJoined(t)    BY <1>10 DEF AbortJoined
<1>11. CASE AbortTimesOut(t)  BY <1>11 DEF AbortTimesOut
<1>12. CASE Register(t)       BY <1>12 DEF Register
<1>13. CASE EntryDead(t)      BY <1>13 DEF EntryDead
<1>14. CASE EntrySignal(t)    BY <1>14 DEF EntrySignal
<1>15. CASE EntryJoined(t)    BY <1>15 DEF EntryJoined
<1>16. CASE EntryKill(t)      BY <1>16 DEF EntryKill
<1>17. CASE EntryStuck(t)     BY <1>17 DEF EntryStuck
<1>18. CASE StopGet(t)        BY <1>18 DEF StopGet
<1>19. CASE StopPop(t)        BY <1>19 DEF StopPop
<1>20. CASE IsrunGet(t)       BY <1>20 DEF IsrunGet
<1>21. CASE IsrunAlive(t)     BY <1>21 DEF IsrunAlive
<1>22. CASE Reply(t)          BY <1>22 DEF Reply
<1> QED
  BY <1>1, <1>2, <1>3, <1>4, <1>5, <1>6, <1>7, <1>8, <1>9, <1>10, <1>11, <1>12,
     <1>13, <1>14, <1>15, <1>16, <1>17, <1>18, <1>19, <1>20, <1>21, <1>22
     DEF ThreadStep, StartStep, EntryStep

\* What a call's locals say of its children.
LEMMA ThreadLocals ==
  ASSUME Inv1, Inv2, Inv3, NEW t \in Threads, ClientStep(t) \/ ThreadStep(t)
  PROVE  \A u \in Threads : LocalOK(u)'
<1> USE NoProcAssumption
    DEF Inv1, TypeOK, CallOK, Inv2, Exclusive, HeldOK, Inv3, LocalOK, Live, HoldsChild, HoldsEntry,
        Alive, Dead,
        Goto, Answer, Return, threadVars, childVars, fileVars, lossVars
<1>1. CASE ClientStep(t)
  BY <1>1 DEF ClientStep, Begin, BeginStart, BeginStop, BeginIsrun
<1>2. CASE StartNoRoute(t)   BY <1>2 DEF StartNoRoute
<1>3. CASE StartRemove(t)    BY <1>3 DEF StartRemove
<1>4. CASE StartGet(t)       BY <1>4 DEF StartGet
<1>5. CASE StartPop(t)       BY <1>5 DEF StartPop
<1>6. CASE StartSpawn(t)     BY <1>6 DEF StartSpawn
<1>7. CASE SpawnFails(t)     BY <1>7 DEF SpawnFails
<1>8. CASE WaitReady(t)      BY <1>8 DEF WaitReady
<1>9. CASE WaitFails(t)      BY <1>9 DEF WaitFails
<1>10. CASE AbortJoined(t)    BY <1>10 DEF AbortJoined
<1>11. CASE AbortTimesOut(t)  BY <1>11 DEF AbortTimesOut
<1>12. CASE Register(t)       BY <1>12 DEF Register
<1>13. CASE EntryDead(t)      BY <1>13 DEF EntryDead
<1>14. CASE EntrySignal(t)    BY <1>14 DEF EntrySignal
<1>15. CASE EntryJoined(t)    BY <1>15 DEF EntryJoined
<1>16. CASE EntryKill(t)      BY <1>16 DEF EntryKill
<1>17. CASE EntryStuck(t)     BY <1>17 DEF EntryStuck
<1>18. CASE StopGet(t)        BY <1>18 DEF StopGet
<1>19. CASE StopPop(t)        BY <1>19 DEF StopPop
<1>20. CASE IsrunGet(t)       BY <1>20 DEF IsrunGet
<1>21. CASE IsrunAlive(t)     BY <1>21 DEF IsrunAlive
<1>22. CASE Reply(t)          BY <1>22 DEF Reply
<1> QED
  BY <1>1, <1>2, <1>3, <1>4, <1>5, <1>6, <1>7, <1>8, <1>9, <1>10, <1>11, <1>12,
     <1>13, <1>14, <1>15, <1>16, <1>17, <1>18, <1>19, <1>20, <1>21, <1>22
     DEF ThreadStep, StartStep, EntryStep

\* A child is trusted only after it said that it is ready.
LEMMA ThreadReady ==
  ASSUME Inv1, Inv2, Inv3, NEW t \in Threads, ClientStep(t) \/ ThreadStep(t)
  PROVE  \A p \in Procs : ReadyOK(p)'
<1> USE NoProcAssumption
    DEF Inv1, TypeOK, CallOK, BornOK, EntryOK, Inv2, HeldOK, Inv3, ReadyOK, LocalOK, Trusted, HoldsChild, Unready,
        Goto, Answer, Return, threadVars, childVars, fileVars, lossVars
<1>1. CASE ClientStep(t)
  BY <1>1 DEF ClientStep, Begin, BeginStart, BeginStop, BeginIsrun
<1>2. CASE StartNoRoute(t)   BY <1>2 DEF StartNoRoute
<1>3. CASE StartRemove(t)    BY <1>3 DEF StartRemove
<1>4. CASE StartGet(t)       BY <1>4 DEF StartGet
<1>5. CASE StartPop(t)       BY <1>5 DEF StartPop
<1>6. CASE StartSpawn(t)     BY <1>6 DEF StartSpawn
<1>7. CASE SpawnFails(t)     BY <1>7 DEF SpawnFails
<1>8. CASE WaitReady(t)      BY <1>8 DEF WaitReady
<1>9. CASE WaitFails(t)      BY <1>9 DEF WaitFails
<1>10. CASE AbortJoined(t)    BY <1>10 DEF AbortJoined
<1>11. CASE AbortTimesOut(t)  BY <1>11 DEF AbortTimesOut
<1>12. CASE Register(t)       BY <1>12 DEF Register
<1>13. CASE EntryDead(t)      BY <1>13 DEF EntryDead
<1>14. CASE EntrySignal(t)    BY <1>14 DEF EntrySignal
<1>15. CASE EntryJoined(t)    BY <1>15 DEF EntryJoined
<1>16. CASE EntryKill(t)      BY <1>16 DEF EntryKill
<1>17. CASE EntryStuck(t)     BY <1>17 DEF EntryStuck
<1>18. CASE StopGet(t)        BY <1>18 DEF StopGet
<1>19. CASE StopPop(t)        BY <1>19 DEF StopPop
<1>20. CASE IsrunGet(t)       BY <1>20 DEF IsrunGet
<1>21. CASE IsrunAlive(t)     BY <1>21 DEF IsrunAlive
<1>22. CASE Reply(t)          BY <1>22 DEF Reply
<1> QED
  BY <1>1, <1>2, <1>3, <1>4, <1>5, <1>6, <1>7, <1>8, <1>9, <1>10, <1>11, <1>12,
     <1>13, <1>14, <1>15, <1>16, <1>17, <1>18, <1>19, <1>20, <1>21, <1>22
     DEF ThreadStep, StartStep, EntryStep

\* A removal leaves nobody with the named file open, and a fork opens nothing.
LEMMA ThreadNamed ==
  ASSUME Inv1, Inv2, Inv3, NEW t \in Threads, ClientStep(t) \/ ThreadStep(t)
  PROVE  \A q \in Paths : NamedOK(q)'
<1> USE NoProcAssumption
    DEF Inv1, TypeOK, CallOK, Inv3, NamedOK, HoldsChild, Writing,
        Goto, Answer, Return, threadVars, childVars, fileVars, lossVars
<1>1. CASE ClientStep(t)
  BY <1>1 DEF ClientStep, Begin, BeginStart, BeginStop, BeginIsrun
<1>2. CASE StartNoRoute(t)   BY <1>2 DEF StartNoRoute
<1>3. CASE StartRemove(t)    BY <1>3 DEF StartRemove
<1>4. CASE StartGet(t)       BY <1>4 DEF StartGet
<1>5. CASE StartPop(t)       BY <1>5 DEF StartPop
<1>6. CASE StartSpawn(t)     BY <1>6 DEF StartSpawn
<1>7. CASE SpawnFails(t)     BY <1>7 DEF SpawnFails
<1>8. CASE WaitReady(t)      BY <1>8 DEF WaitReady
<1>9. CASE WaitFails(t)      BY <1>9 DEF WaitFails
<1>10. CASE AbortJoined(t)    BY <1>10 DEF AbortJoined
<1>11. CASE AbortTimesOut(t)  BY <1>11 DEF AbortTimesOut
<1>12. CASE Register(t)       BY <1>12 DEF Register
<1>13. CASE EntryDead(t)      BY <1>13 DEF EntryDead
<1>14. CASE EntrySignal(t)    BY <1>14 DEF EntrySignal
<1>15. CASE EntryJoined(t)    BY <1>15 DEF EntryJoined
<1>16. CASE EntryKill(t)      BY <1>16 DEF EntryKill
<1>17. CASE EntryStuck(t)     BY <1>17 DEF EntryStuck
<1>18. CASE StopGet(t)        BY <1>18 DEF StopGet
<1>19. CASE StopPop(t)        BY <1>19 DEF StopPop
<1>20. CASE IsrunGet(t)       BY <1>20 DEF IsrunGet
<1>21. CASE IsrunAlive(t)     BY <1>21 DEF IsrunAlive
<1>22. CASE Reply(t)          BY <1>22 DEF Reply
<1> QED
  BY <1>1, <1>2, <1>3, <1>4, <1>5, <1>6, <1>7, <1>8, <1>9, <1>10, <1>11, <1>12,
     <1>13, <1>14, <1>15, <1>16, <1>17, <1>18, <1>19, <1>20, <1>21, <1>22
     DEF ThreadStep, StartStep, EntryStep


\* No call takes the file of a child that runs away from it, but for the start call
\* that is about to replace it.
LEMMA ThreadFiles ==
  ASSUME Inv1, Inv2, Inv3, NEW t \in Threads, ClientStep(t) \/ ThreadStep(t)
  PROVE  \A p \in Procs : FileOK(p)'
<1>1. CASE StartRemove(t)
  <2>1. /\ pc[t] = "s_remove" /\ pc' = [pc EXCEPT ![t] = "s_get"] /\ arg[t] \in Paths /\ op[t] = "start"
        /\ UNCHANGED <<captures, op, arg, mine, child, home, term, pipe, snap>>
        /\ \A q \in Paths \ {arg[t]} : /\ q \in exists' <=> q \in exists
                                       /\ named'[q] = named[q] /\ content'[q] = content[q]
    BY <1>1 DEF StartRemove, Goto, childVars, Inv1, TypeOK, CallOK
  <2>2. Replacing(arg[t])'  BY <2>1 DEF Replacing, Replaces, Inv1, TypeOK
  <2>3. \A q \in Paths : Replacing(q) => Replacing(q)'
    BY <2>1 DEF Replacing, Replaces, Inv1, TypeOK
  <2>4. \A p \in Procs : Trusted(p)' => Trusted(p)  BY <2>1 DEF Trusted, Inv1, TypeOK
  <2> SUFFICES ASSUME NEW p \in Procs, child[p] # "unborn", ~ Replacing(home[p])'
               PROVE  FileOK(p)'
    BY <2>1 DEF FileOK
  <2>5. home[p] \in Paths /\ home[p] # arg[t]  BY <2>1, <2>2 DEF Inv1, BornOK
  <2>6. /\ Live(p)' <=> Live(p)
        /\ Own(p)' <=> Own(p)
        /\ named'[home[p]] \ term' = named[home[p]] \ term
    BY <2>1, <2>5 DEF Live, Own
  <2> QED  BY <2>1, <2>3, <2>4, <2>5, <2>6 DEF Inv3, FileOK
<1>2. CASE StartSpawn(t)
  <2>1. PICK r \in Procs : /\ child[r] = "unborn"
                           /\ child' = [child EXCEPT ![r] = "booting"]
                           /\ home' = [home EXCEPT ![r] = arg[t]]
                           /\ mine' = [mine EXCEPT ![t] = r]
    BY <1>2 DEF StartSpawn
  <2>2. /\ pc[t] = "s_spawn" /\ pc' = [pc EXCEPT ![t] = "s_wait"]
        /\ UNCHANGED <<captures, op, arg, term, pipe, fileVars>>
    BY <1>2 DEF StartSpawn, Goto
  <2>3. FileOK(r)'
    BY <2>1 DEF FileOK, Writing, Inv1, TypeOK
  <2>4. ASSUME NEW p \in Procs \ {r} PROVE FileOK(p)'
    <3>1. child'[p] = child[p] /\ home'[p] = home[p]  BY <2>1 DEF Inv1, TypeOK
    <3>2. Replacing(home[p]) => Replacing(home[p])'
      BY <2>2, <3>1 DEF Replacing, Replaces, Inv1, TypeOK
    <3>3. Trusted(p)' => Trusted(p)
      BY <2>1, <2>2, <3>1 DEF Trusted, Inv1, TypeOK
    <3>4. /\ Live(p)' <=> Live(p)
          /\ Own(p)' <=> Own(p)
      BY <2>2, <3>1 DEF Live, Own, fileVars, lossVars
    <3> QED  BY <2>2, <3>1, <3>2, <3>3, <3>4 DEF Inv3, FileOK, fileVars, lossVars
  <2> QED  BY <2>3, <2>4
<1>3. CASE ~ StartRemove(t) /\ ~ StartSpawn(t)
  <2>1. UNCHANGED <<child, home, fileVars>> /\ term \subseteq term'
    BY <1>3, ThreadFrame
  <2>2. \A p \in Procs :
          child[p] # "unborn" /\ ~ Replacing(home[p])' /\ (Live(p) \/ Trusted(p)')
            => ~ Replacing(home[p]) /\ (Trusted(p)' => Trusted(p))
    BY <1>3, ThreadClaims
  <2> QED  BY <2>1, <2>2, ThreadSparesFiles
<1> QED  BY <1>1, <1>2, <1>3

\* A stop call that answers True has taken the entry out and found its child's file
\* complete; until the answer is out no other call touches the path.
LEMMA ThreadStopped ==
  ASSUME Inv1, Inv2, Inv3, NEW t \in Threads, ClientStep(t) \/ ThreadStep(t)
  PROVE  \A u \in Threads : StoppedOK(u)'
<1> USE NoProcAssumption
    DEF Inv1, TypeOK, CallOK, Inv2, Exclusive, Inv3, LocalOK, StoppedOK, Own, HoldsChild, HoldsEntry, Dead,
        Goto, Answer, Return, threadVars, childVars, fileVars, lossVars
<1>1. CASE ClientStep(t)
  BY <1>1 DEF ClientStep, Begin, BeginStart, BeginStop, BeginIsrun
<1>2. CASE StartNoRoute(t)   BY <1>2 DEF StartNoRoute
<1>3. CASE StartRemove(t)    BY <1>3 DEF StartRemove
<1>4. CASE StartGet(t)       BY <1>4 DEF StartGet
<1>5. CASE StartPop(t)       BY <1>5 DEF StartPop
<1>6. CASE StartSpawn(t)     BY <1>6 DEF StartSpawn
<1>7. CASE SpawnFails(t)     BY <1>7 DEF SpawnFails
<1>8. CASE WaitReady(t)      BY <1>8 DEF WaitReady
<1>9. CASE WaitFails(t)      BY <1>9 DEF WaitFails
<1>10. CASE AbortJoined(t)    BY <1>10 DEF AbortJoined
<1>11. CASE AbortTimesOut(t)  BY <1>11 DEF AbortTimesOut
<1>12. CASE Register(t)       BY <1>12 DEF Register
<1>13. CASE EntryDead(t)      BY <1>13 DEF EntryDead
<1>14. CASE EntrySignal(t)    BY <1>14 DEF EntrySignal
<1>15. CASE EntryJoined(t)    BY <1>15 DEF EntryJoined
<1>16. CASE EntryKill(t)      BY <1>16 DEF EntryKill
<1>17. CASE EntryStuck(t)     BY <1>17 DEF EntryStuck
<1>18. CASE StopGet(t)        BY <1>18 DEF StopGet
<1>19. CASE StopPop(t)
  <2>1. /\ pc[t] = "t_pop" /\ op[t] = "stop" /\ arg[t] \in Paths
        /\ captures[arg[t]] = entry[t] /\ entry[t] \in Procs /\ home[entry[t]] = arg[t]
    BY <1>19 DEF StopPop, HeldOK
  <2>2. ~ Replacing(arg[t])  BY <2>1 DEF Replacing, Replaces
  <2>3. child[entry[t]] = "exit0" => Own(entry[t])
    BY <2>1, <2>2 DEF FileOK, Trusted
  <2>4. /\ captures' = [captures EXCEPT ![arg[t]] = NoProc]
        /\ res' = [res EXCEPT ![t] = (child[entry[t]] = "exit0")]
        /\ UNCHANGED <<op, arg, entry, child, home, exists, content>>
    BY <1>19 DEF StopPop
  <2>5. StoppedOK(t)'
    <3>1. ASSUME child[entry[t]] # "exit0" PROVE ~ res'[t]
      <4>1. (child[entry[t]] = "exit0") = FALSE  BY <3>1
      <4>2. res' = [res EXCEPT ![t] = FALSE]  BY <2>4, <4>1
      <4> QED  BY <4>2
    <3>2. captures'[arg[t]] = NoProc  BY <2>1, <2>4
    <3>3. Own(entry[t]) => Own(entry[t])'  BY <2>4
    <3> HIDE DEF Own
    <3> QED  BY <2>1, <2>3, <2>4, <3>1, <3>2, <3>3
  <2>6. \A u \in Threads \ {t} : StoppedOK(u)'  BY <1>19, <2>1, <2>4 DEF StopPop
  <2> QED  BY <2>5, <2>6
<1>20. CASE IsrunGet(t)       BY <1>20 DEF IsrunGet
<1>21. CASE IsrunAlive(t)     BY <1>21 DEF IsrunAlive
<1>22. CASE Reply(t)          BY <1>22 DEF Reply
<1> QED
  BY <1>1, <1>2, <1>3, <1>4, <1>5, <1>6, <1>7, <1>8, <1>9, <1>10, <1>11, <1>12,
     <1>13, <1>14, <1>15, <1>16, <1>17, <1>18, <1>19, <1>20, <1>21, <1>22
     DEF ThreadStep, StartStep, EntryStep

\* No call makes a child lose frames, but for the signals it sends.
LEMMA ThreadLoss ==
  ASSUME Inv1, Inv2, Inv3, NEW t \in Threads, ClientStep(t) \/ ThreadStep(t)
  PROVE  \A p \in Procs : LossOK(p)'
<1>1. \A p \in Procs : LossOK(p)  BY DEF Inv3
<1>2. /\ UNCHANGED lossVars /\ term \subseteq term'
      /\ \A p \in Procs : child[p] # "unborn" => child'[p] = child[p]
  <2>1. CASE StartRemove(t)  BY <2>1 DEF StartRemove, childVars
  <2>2. CASE StartSpawn(t)  BY <2>2 DEF StartSpawn, fileVars, Inv1, TypeOK
  <2>3. CASE ~ StartRemove(t) /\ ~ StartSpawn(t)  BY <2>3, ThreadFrame DEF fileVars
  <2> QED  BY <2>1, <2>2, <2>3
<1> QED  BY <1>1, <1>2 DEF LossOK, Alive, lossVars

\* A restart leaves no child running, no entry, no call and no open file.
LEMMA Inv3Restart == Inv1 /\ Inv3 /\ ServerRestart => Inv3'
<1> SUFFICES ASSUME Inv1, Inv3, ServerRestart PROVE Inv3'  OBVIOUS
<1> USE DEF Inv1, TypeOK, ServerRestart
<1>1. \A p \in Procs : child'[p] \notin Alive  BY DEF Alive
<1>2. \A p \in Procs : child'[p] # "unborn" => ~ Trusted(p)'
  BY NoProcAssumption DEF Trusted, BornOK, Alive
<1>3. \A p \in Procs : LiveOK(p)' /\ ReadyOK(p)' /\ FileOK(p)'
  BY <1>1, <1>2 DEF LiveOK, ReadyOK, FileOK, Live, Alive, Unready
<1>4. \A t \in Threads : LocalOK(t)' /\ StoppedOK(t)'
  BY DEF LocalOK, StoppedOK, HoldsChild
<1>5. \A q \in Paths : NamedOK(q)'  BY DEF NamedOK
<1>6. \A p \in Procs : LossOK(p)'
  <2> SUFFICES ASSUME NEW p \in Procs, p \in lossy' \ faulty' PROVE child'[p] = "exit1"
    BY DEF LossOK
  <2>1. p \in lossy \ faulty \/ \E q \in Paths : p \in named[q]  OBVIOUS
  <2> QED  BY <2>1 DEF Inv3, LossOK, NamedOK, Writing, Alive
<1> QED  BY <1>3, <1>4, <1>5, <1>6 DEF Inv3

\* A step that changes nothing keeps Inv3.
LEMMA Inv3Stutter == Inv3 /\ UNCHANGED vars => Inv3'
BY DEF Inv3, LiveOK, ReadyOK, FileOK, LossOK, LocalOK, StoppedOK, NamedOK, Live, Holding, Replacing, Trusted,
       Own, vars, threadVars, childVars, fileVars, lossVars

\* Under the same discipline the file of a path follows its capture: from the moment a
\* child opens it to the end of its sort, and for as long as a call may still answer
\* for it, it holds what that child recorded and nothing else.
THEOREM Inv3Invariant ==
  ASSUME SerialPerPath
  PROVE  Spec => [](Inv1 /\ Inv2 /\ Inv3)
<1>1. Inv1 /\ Inv2 /\ Inv3 /\ [Next]_vars => Inv3'
  <2>1. ASSUME Inv1, Inv2, Inv3, NEW t \in Threads, ClientStep(t) \/ ThreadStep(t) PROVE Inv3'
    BY <2>1, ThreadLive, ThreadLocals, ThreadReady, ThreadNamed, ThreadFiles, ThreadStopped, ThreadLoss
       DEF Inv3
  <2> QED  BY <2>1, Inv3Child, Inv3Restart, Inv3Stutter DEF Next
<1>2. Spec => [](Inv1 /\ Inv2)  BY Inv2Invariant
<1> QED  BY Inv3Init, <1>1, <1>2, PTL DEF Spec

\* A recorder writes the file its path names, alone, and nothing is in that file but
\* its frames: no start call unlinks it, no former child's sort replaces it, and no
\* child of an earlier call still writes there.
THEOREM OwnsFileCorrect ==
  ASSUME SerialPerPath
  PROVE  Spec => []RecorderOwnsFile
<1>1. Inv1 /\ Inv3 => RecorderOwnsFile
  <2> SUFFICES ASSUME Inv1, Inv3, NEW p \in Procs, Recording(p), child[p] # "booting",
                      \A t \in Threads :
                        op[t] = "start" /\ arg[t] = home[p] => mine[t] = p \/ pc[t] = "s_remove"
               PROVE  home[p] \in exists /\ named[home[p]] \ term = {p} /\ content[home[p]] = {p}
    BY DEF RecorderOwnsFile
  <2>1. Live(p) /\ child[p] \in Writing  BY DEF Recording, Live, Alive, Writing
  <2>2. ~ Replacing(home[p])
    <3> SUFFICES ASSUME NEW t \in Threads, op[t] = "start", arg[t] = home[p], pc[t] \in Replaces
                 PROVE  FALSE
      BY DEF Replacing
    <3>1. mine[t] = NoProc  BY DEF Inv3, LocalOK, HoldsChild, Replaces
    <3> QED  BY <3>1, NoProcAssumption DEF Replaces
  <2> QED  BY <2>1, <2>2 DEF Inv3, FileOK, Own, Live, Alive
<1> QED  BY <1>1, Inv3Invariant, PTL

\* tcpdump_stop answers True only when nothing records on the path any more and, if it
\* found a capture, the file is that capture's alone, and whole but for what a disk or
\* interface error took.
THEOREM StopTrueCorrect ==
  ASSUME SerialPerPath
  PROVE  Spec => []StopTrueIsFinal
<1>1. Inv1 /\ Inv2 /\ Inv3 => StopTrueIsFinal
  <2> SUFFICES ASSUME Inv1, Inv2, Inv3, NEW t \in Threads, pc[t] = "done", op[t] = "stop", res[t]
               PROVE  /\ ~ \E p \in Procs : Recording(p) /\ home[p] = arg[t]
                      /\ entry[t] # NoProc =>
                           /\ arg[t] \in exists /\ content[arg[t]] = {entry[t]}
                           /\ entry[t] \in lossy => entry[t] \in faulty
    BY DEF StopTrueIsFinal
  <2>1. StoppedOK(t)  BY DEF Inv3
  <2>2. \A p \in Procs : home[p] = arg[t] => ~ Live(p)
    BY <2>1, PathIsFree DEF StoppedOK, HoldsChild
  <2>3. ~ \E p \in Procs : Recording(p) /\ home[p] = arg[t]
    BY <2>2 DEF Recording, Live, Alive
  <2>4. entry[t] # NoProc => LossOK(entry[t])  BY <2>1 DEF StoppedOK, Inv3
  <2> QED  BY <2>1, <2>3, <2>4 DEF StoppedOK, Own, LossOK, Alive
<1> QED  BY <1>1, Inv3Invariant, PTL

=============================================================================
