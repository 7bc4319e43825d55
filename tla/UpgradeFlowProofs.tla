-------------------------- MODULE UpgradeFlowProofs --------------------------
(***************************************************************************)
(* Proofs about UpgradeFlow for any number of calls, CLI commands,         *)
(* versions and builds.  Inv1 holds whatever is pushed and when, Inv2 when *)
(* nobody pushes a version during a call on it (Orderly).                  *)
(***************************************************************************)
EXTENDS UpgradeFlow, TLAPS

\* A call that has found its file keeps it: only the holder of the lock removes one.
StagedOK(r) == pc[r] \in {"hash", "mismatch", "chmod", "replace"} => staging[ver[r]] # NoFile

Inv1 ==
  /\ TypeOK
  /\ LockMatches
  /\ \A r \in Requests : StagedOK(r)

-----------------------------------------------------------------------------
(* Inv1 *)

\* Inv1 holds when the service comes up.
LEMMA Inv1Init == Init => Inv1
<1> SUFFICES ASSUME Init PROVE Inv1
  OBVIOUS
<1>1. TypeOK
  BY FirstAssumption
     DEF Init, TypeOK, File, Labels, SwitchLabels, Switchers
<1>2. LockMatches
  BY SentinelAssumption DEF Init, LockMatches, Section
<1>3. \A r \in Requests : StagedOK(r)
  BY DEF Init, StagedOK
<1> QED
  BY <1>1, <1>2, <1>3 DEF Inv1

\* The steps of one call keep the types.
LEMMA CallTypes ==
  ASSUME Inv1, NEW r \in Requests, Begin(r) \/ CallStep(r)
  PROVE  TypeOK'
<1> USE DEF Inv1, TypeOK, Labels, Goto, Conclude, Refuse, fileVars, linkVars, callVars, swVars
<1>1. CASE Begin(r)         BY <1>1 DEF Begin
<1>2. CASE ReadConfig(r)    BY <1>2 DEF ReadConfig
<1>3. CASE TryLock(r)       BY <1>3 DEF TryLock
<1>4. CASE CheckClients(r)  BY <1>4 DEF CheckClients
<1>5. CASE IsFile(r)        BY <1>5 DEF IsFile
<1>6. CASE Hash(r)          BY <1>6 DEF Hash
<1>7. CASE Mismatch(r)      BY <1>7 DEF Mismatch
<1>8. CASE Chmod(r)
  <2>1. staging[ver[r]] \in File
    BY <1>8 DEF Chmod, StagedOK
  <2> QED
    BY <1>8, <2>1 DEF Chmod, File
<1>9. CASE Replace(r)       BY <1>9 DEF Replace
<1>10. CASE RemoveStaging(r) BY <1>10 DEF RemoveStaging
<1>11. CASE Raise(r)        BY <1>11 DEF Raise
<1>12. CASE Release(r)      BY <1>12 DEF Release
<1>13. CASE Respond(r)      BY <1>13 DEF Respond, Switchers, SwitchLabels
<1>14. CASE Send(r)         BY <1>14 DEF Send
<1> QED
  BY <1>1, <1>2, <1>3, <1>4, <1>5, <1>6, <1>7, <1>8, <1>9, <1>10, <1>11, <1>12, <1>13, <1>14
     DEF CallStep

\* The steps of one call keep the lock and the section of the holder together.
LEMMA CallLock ==
  ASSUME Inv1, NEW r \in Requests, Begin(r) \/ CallStep(r)
  PROVE  LockMatches'
<1> USE SentinelAssumption
    DEF Inv1, TypeOK, LockMatches, Section, Goto, Conclude, Refuse, callVars
<1>1. CASE Begin(r)         BY <1>1 DEF Begin
<1>2. CASE ReadConfig(r)    BY <1>2 DEF ReadConfig
<1>3. CASE TryLock(r)       BY <1>3 DEF TryLock
<1>4. CASE CheckClients(r)  BY <1>4 DEF CheckClients
<1>5. CASE IsFile(r)        BY <1>5 DEF IsFile
<1>6. CASE Hash(r)          BY <1>6 DEF Hash
<1>7. CASE Mismatch(r)      BY <1>7 DEF Mismatch
<1>8. CASE Chmod(r)         BY <1>8 DEF Chmod
<1>9. CASE Replace(r)       BY <1>9 DEF Replace
<1>10. CASE RemoveStaging(r) BY <1>10 DEF RemoveStaging
<1>11. CASE Raise(r)        BY <1>11 DEF Raise
<1>12. CASE Release(r)      BY <1>12 DEF Release
<1>13. CASE Respond(r)      BY <1>13 DEF Respond
<1>14. CASE Send(r)         BY <1>14 DEF Send
<1> QED
  BY <1>1, <1>2, <1>3, <1>4, <1>5, <1>6, <1>7, <1>8, <1>9, <1>10, <1>11, <1>12, <1>13, <1>14
     DEF CallStep

\* Who has the lock is alone in the section.
LEMMA Alone ==
  ASSUME LockMatches, NEW r \in Requests, NEW x \in Requests, pc[r] \in Section, pc[x] \in Section
  PROVE  r = x
BY DEF LockMatches

\* The steps of one call take no file from under another.
LEMMA CallStaged ==
  ASSUME Inv1, NEW r \in Requests, Begin(r) \/ CallStep(r)
  PROVE  \A x \in Requests : StagedOK(x)'
<1> SUFFICES ASSUME NEW x \in Requests, pc'[x] \in {"hash", "mismatch", "chmod", "replace"}
             PROVE  staging'[ver'[x]] # NoFile
  BY DEF StagedOK
<1> USE DEF Inv1, TypeOK, StagedOK, Section, Goto, Conclude, Refuse, fileVars, callVars
<1>1. CASE Begin(r)         BY <1>1 DEF Begin
<1>2. CASE ReadConfig(r)    BY <1>2 DEF ReadConfig
<1>3. CASE TryLock(r)       BY <1>3 DEF TryLock
<1>4. CASE CheckClients(r)  BY <1>4 DEF CheckClients
<1>5. CASE IsFile(r)        BY <1>5 DEF IsFile
<1>6. CASE Hash(r)          BY <1>6 DEF Hash
<1>7. CASE Mismatch(r)      BY <1>7, Alone DEF Mismatch
<1>8. CASE Chmod(r)
  <2>1. staging[ver[r]] \in File
    BY <1>8 DEF Chmod
  <2> QED
    BY <1>8, <2>1, FileAssumption DEF Chmod, File
<1>9. CASE Replace(r)       BY <1>9, Alone DEF Replace
<1>10. CASE RemoveStaging(r) BY <1>10, Alone DEF RemoveStaging
<1>11. CASE Raise(r)        BY <1>11 DEF Raise
<1>12. CASE Release(r)      BY <1>12 DEF Release
<1>13. CASE Respond(r)      BY <1>13 DEF Respond
<1>14. CASE Send(r)         BY <1>14 DEF Send
<1> QED
  BY <1>1, <1>2, <1>3, <1>4, <1>5, <1>6, <1>7, <1>8, <1>9, <1>10, <1>11, <1>12, <1>13, <1>14
     DEF CallStep

\* A push, the configuration and a crash keep Inv1.
LEMMA Inv1World ==
  ASSUME Inv1, \/ \E v \in Versions, b \in Builds : Push(v, b)
               \/ SetOpens \/ SetWrites \/ Crash
  PROVE  Inv1'
<1> USE DEF Inv1, TypeOK, StagedOK, fileVars, linkVars, callVars, swVars
<1>1. CASE \E v \in Versions, b \in Builds : Push(v, b)
  <2> PICK v \in Versions, b \in Builds : Push(v, b)
    BY <1>1
  <2>1. [build |-> b, exec |-> FALSE] \in File
    BY DEF File
  <2>2. TypeOK'
    BY <2>1 DEF Push
  <2>3. LockMatches'
    BY DEF Push, LockMatches
  <2>4. \A r \in Requests : StagedOK(r)'
    BY <2>1, FileAssumption DEF Push
  <2> QED
    BY <2>2, <2>3, <2>4
<1>2. CASE SetOpens \/ SetWrites
  BY <1>2 DEF SetOpens, SetWrites, LockMatches
<1>3. CASE Crash
  <2>1. TypeOK'
    BY <1>3 DEF Crash, Restarted, Labels, SwitchLabels, Switchers
  <2>2. LockMatches'
    BY <1>3, SentinelAssumption DEF Crash, Restarted, LockMatches, Section, Connected
  <2>3. \A r \in Requests : StagedOK(r)'
    BY <1>3 DEF Crash, Restarted, Connected
  <2> QED
    BY <2>1, <2>2, <2>3
<1> QED
  BY <1>1, <1>2, <1>3

\* A switch touches no call, but ends them all with the restart.
LEMMA Inv1Switch ==
  ASSUME Inv1, NEW s \in Switchers,
         SwitchStep(s) \/ (s \in Operators /\ (OperatorDies(s) \/ \E v \in Versions : Operate(s, v)))
  PROVE  Inv1'
<1> USE DEF Inv1, TypeOK, StagedOK, SwGoto, SwitchLabels, fileVars, callVars, linkVars
<1>1. CASE SwRestart(s)
  <2>1. TypeOK'
    BY <1>1 DEF SwRestart, Restarted, Labels
  <2>2. LockMatches'
    BY <1>1, SentinelAssumption DEF SwRestart, Restarted, LockMatches, Section, Connected
  <2>3. \A r \in Requests : StagedOK(r)'
    BY <1>1 DEF SwRestart, Restarted, Connected
  <2> QED
    BY <2>1, <2>2, <2>3
<1>2. Target(s) \in Versions
  BY DEF Target, Switchers
<1>3. CASE ~SwRestart(s)
  <2>1. UNCHANGED <<staging, installed, config, lock, pc, callVars, outcome>>
    BY <1>3 DEF SwitchStep, SwCheck, SwLook, SwUnlink, SwSymlink, SwRename, SwRefused,
                OperatorDies, Operate
  <2>2. /\ sw' \in [Switchers -> SwitchLabels] /\ tmp' \in Versions \cup {NoVersion}
        /\ current' \in Versions /\ wanted' \in [Operators -> Versions]
    BY <1>2, <1>3 DEF SwitchStep, SwCheck, SwLook, SwUnlink, SwSymlink, SwRename, SwRefused,
                OperatorDies, Operate
  <2>3. TypeOK'
    BY <2>1, <2>2
  <2> QED
    BY <2>1, <2>3 DEF LockMatches
<1> QED
  BY <1>1, <1>3

\* Inv1 is inductive.
LEMMA Inv1Next == Inv1 /\ [Next]_vars => Inv1'
<1> SUFFICES ASSUME Inv1, [Next]_vars PROVE Inv1'
  OBVIOUS
<1>1. CASE \E r \in Requests : Begin(r) \/ CallStep(r)
  BY <1>1, CallTypes, CallLock, CallStaged DEF Inv1
<1>2. CASE \E s \in Switchers : SwitchStep(s)
  BY <1>2, Inv1Switch
<1>3. CASE \E o \in Operators : OperatorDies(o) \/ \E v \in Versions : Operate(o, v)
  BY <1>3, Inv1Switch DEF Switchers
<1>4. CASE (\E v \in Versions, b \in Builds : Push(v, b)) \/ SetOpens \/ SetWrites \/ Crash
  BY <1>4, Inv1World
<1>5. CASE UNCHANGED vars
  BY <1>5 DEF Inv1, TypeOK, LockMatches, StagedOK, vars, fileVars, linkVars, callVars, swVars
<1> QED
  BY <1>1, <1>2, <1>3, <1>4, <1>5 DEF Next

\* In every reachable state, whatever is pushed and when, Inv1 holds.
THEOREM Inv1Invariant == Spec => []Inv1
<1> QED
  BY Inv1Init, Inv1Next, PTL DEF Spec

\* The variables keep their types: the links, the lock and the files of any number of
\* calls, commands and versions.
THEOREM UpgradeTypes == Spec => []TypeOK
<1>1. Inv1 => TypeOK
  BY DEF Inv1
<1> QED
  BY <1>1, Inv1Invariant, PTL

\* _upgrade_lock is held by the one call between its acquire and its release, on every
\* path through it and whatever else goes on.
THEOREM UpgradeLock == Spec => []LockMatches
<1>1. Inv1 => LockMatches
  BY DEF Inv1
<1> QED
  BY <1>1, Inv1Invariant, PTL

-----------------------------------------------------------------------------
(* Inv2: nobody pushes a version during a call on it *)

\* What a call has made sure of, and what it leaves to the switch.
CallOK(r) ==
  /\ pc[r] \in {"chmod", "replace"} => staging[ver[r]].build = sha[r]
  /\ pc[r] = "replace" => staging[ver[r]].exec
  /\ pc[r] = "mismatch" => staging[ver[r]].build # sha[r]
  /\ pc[r] = "rmtree" => staging[ver[r]] = NoFile /\ installed[ver[r]] # NoFile
  /\ pc[r] = "idle" => outcome[r] = "error"
  /\ outcome[r] = "ok" => installed[ver[r]] # NoFile
  /\ pc[r] \notin {"send", "done", "cut"} => sw[r] = "none"

\* What is installed runs, and both links and every switch are to what is installed.
LinksOK ==
  /\ \A v \in Versions : installed[v] # NoFile => installed[v].exec
  /\ installed[current] # NoFile
  /\ tmp # NoVersion => installed[tmp] # NoFile
  /\ \A s \in Switchers : sw[s] \in Switching => installed[Target(s)] # NoFile

\* A switch that, left alone, comes to the restart.
OnItsWay(s) ==
  \/ sw[s] \in {"check", "look", "restart"}
  \/ sw[s] \in {"unlink", "rename"} /\ tmp # NoVersion
  \/ sw[s] = "symlink" /\ tmp = NoVersion

Excused(s) == sw[s] \in {"refused", "killed"}

\* Since the restart that an accepted upgrade is to bring has not come, some switch is
\* on its way to one: who takes the link from another has it himself.
SomeoneGoesOn ==
  (\E r \in Requests : sw[r] # "none") => \E s \in Switchers : OnItsWay(s) \/ Excused(s)

Inv2 ==
  /\ \A r \in Requests : CallOK(r)
  /\ LinksOK
  /\ InstalledIsVerified
  /\ SomeoneGoesOn

\* Inv2 holds when the service comes up.
LEMMA Inv2Init == Init => Inv2
<1> SUFFICES ASSUME Init PROVE Inv2
  OBVIOUS
<1> USE DEF Init, Switchers
<1>1. \A v \in Versions : installed[v] # NoFile =>
         v = First /\ installed[v].exec /\ installed[v].build = Factory
  OBVIOUS
<1>2. installed[First] # NoFile
  <2>1. [build |-> Factory, exec |-> TRUE] \in File
    BY FirstAssumption DEF File
  <2> QED
    BY <2>1, FirstAssumption, FileAssumption
<1>3. \A r \in Requests : CallOK(r)
  BY DEF CallOK
<1>4. LinksOK
  BY <1>1, <1>2 DEF LinksOK, Switching
<1>5. InstalledIsVerified
  BY <1>1 DEF InstalledIsVerified
<1>6. SomeoneGoesOn
  BY DEF SomeoneGoesOn
<1> QED
  BY <1>3, <1>4, <1>5, <1>6 DEF Inv2

\* A call's step keeps what calls have made sure of.
LEMMA CallKeepsCalls ==
  ASSUME Inv1, Inv2, NEW r \in Requests, Begin(r) \/ CallStep(r)
  PROVE  \A x \in Requests : CallOK(x)'
<1> SUFFICES ASSUME NEW x \in Requests PROVE CallOK(x)'
  OBVIOUS
<1> USE DEF Inv1, Inv2, TypeOK, CallOK, StagedOK, Section, Goto, Conclude, Refuse, fileVars,
            callVars, swVars
<1>1. CASE Begin(r)         BY <1>1 DEF Begin
<1>2. CASE ReadConfig(r)    BY <1>2 DEF ReadConfig
<1>3. CASE TryLock(r)       BY <1>3 DEF TryLock
<1>4. CASE CheckClients(r)  BY <1>4 DEF CheckClients
<1>5. CASE IsFile(r)        BY <1>5 DEF IsFile
<1>6. CASE Hash(r)          BY <1>6 DEF Hash
<1>7. CASE Mismatch(r)      BY <1>7, Alone DEF Mismatch
<1>8. CASE Chmod(r)
  <2>1. staging[ver[r]] \in File
    BY <1>8 DEF Chmod
  <2>2. x # r => pc[x] \notin Section
    BY <1>8, Alone DEF Chmod
  <2> QED
    BY <1>8, <2>1, <2>2 DEF Chmod, File
<1>9. CASE Replace(r)
  <2>1. x # r => pc[x] \notin Section
    BY <1>9, Alone DEF Replace
  <2> QED
    BY <1>9, <2>1 DEF Replace
<1>10. CASE RemoveStaging(r)
  <2>1. x # r => pc[x] \notin Section
    BY <1>10, Alone DEF RemoveStaging
  <2> QED
    BY <1>10, <2>1 DEF RemoveStaging
<1>11. CASE Raise(r)        BY <1>11 DEF Raise
<1>12. CASE Release(r)      BY <1>12 DEF Release
<1>13. CASE Respond(r)      BY <1>13 DEF Respond, Switchers
<1>14. CASE Send(r)         BY <1>14 DEF Send
<1> QED
  BY <1>1, <1>2, <1>3, <1>4, <1>5, <1>6, <1>7, <1>8, <1>9, <1>10, <1>11, <1>12, <1>13, <1>14
     DEF CallStep

\* Of a call's steps only Replace changes a binary in place, and it puts there what the
\* call has verified and made executable; only Respond starts a switch.
LEMMA CallFrame ==
  ASSUME Inv1, Inv2, NEW r \in Requests, Begin(r) \/ CallStep(r)
  PROVE  /\ UNCHANGED <<linkVars, wanted>>
         /\ \/ UNCHANGED installed
            \/ /\ Replace(r)
               /\ installed' = [installed EXCEPT ![ver[r]] = staging[ver[r]]]
               /\ staging[ver[r]] # NoFile
               /\ staging[ver[r]].exec /\ staging[ver[r]].build = sha[r]
         /\ \/ UNCHANGED sw
            \/ /\ sw' = [sw EXCEPT ![r] = "check"]
               /\ outcome[r] = "ok" /\ sw[r] = "none" /\ UNCHANGED <<ver, installed>>
         /\ \A x \in Requests : pc[x] # "idle" => ver'[x] = ver[x] /\ sha'[x] = sha[x]
<1> USE DEF Inv1, Inv2, TypeOK, CallOK, StagedOK, Goto, Conclude, Refuse, fileVars, linkVars,
            callVars, swVars
<1>1. CASE Begin(r)         BY <1>1 DEF Begin
<1>2. CASE ReadConfig(r)    BY <1>2 DEF ReadConfig
<1>3. CASE TryLock(r)       BY <1>3 DEF TryLock
<1>4. CASE CheckClients(r)  BY <1>4 DEF CheckClients
<1>5. CASE IsFile(r)        BY <1>5 DEF IsFile
<1>6. CASE Hash(r)          BY <1>6 DEF Hash
<1>7. CASE Mismatch(r)      BY <1>7 DEF Mismatch
<1>8. CASE Chmod(r)         BY <1>8 DEF Chmod
<1>9. CASE Replace(r)       BY <1>9 DEF Replace
<1>10. CASE RemoveStaging(r) BY <1>10 DEF RemoveStaging
<1>11. CASE Raise(r)        BY <1>11 DEF Raise
<1>12. CASE Release(r)      BY <1>12 DEF Release
<1>13. CASE Respond(r)      BY <1>13 DEF Respond, Switchers
<1>14. CASE Send(r)         BY <1>14 DEF Send
<1> QED
  BY <1>1, <1>2, <1>3, <1>4, <1>5, <1>6, <1>7, <1>8, <1>9, <1>10, <1>11, <1>12, <1>13, <1>14
     DEF CallStep

\* A call's step keeps the rest of Inv2.
LEMMA CallKeepsLinks ==
  ASSUME Inv1, Inv2, NEW r \in Requests, Begin(r) \/ CallStep(r)
  PROVE  LinksOK' /\ SomeoneGoesOn'
<1>1. /\ UNCHANGED <<linkVars, wanted>>
      /\ \A v \in Versions : installed[v] # NoFile => installed'[v] # NoFile
      /\ \A v \in Versions : installed'[v] # NoFile => installed'[v].exec
  BY CallFrame DEF Inv1, Inv2, TypeOK, LinksOK
<1>2. \A s \in Switchers : sw'[s] = sw[s] \/ (s = r /\ sw'[s] = "check")
  BY CallFrame DEF Inv1, TypeOK
<1>3. \A s \in Switchers : sw'[s] \in Switching => installed'[Target(s)'] # NoFile
  <2> SUFFICES ASSUME NEW s \in Switchers, sw'[s] \in Switching
               PROVE  installed'[Target(s)'] # NoFile
    OBVIOUS
  <2>1. CASE s \in Requests
    <3>1. CASE sw'[s] = sw[s]
      <4>1. pc[s] # "idle" /\ installed[ver[s]] # NoFile
        BY <2>1, <3>1 DEF Inv2, CallOK, LinksOK, Target, Switching
      <4>2. ver'[s] = ver[s] /\ ver[s] \in Versions
        BY <2>1, <4>1, CallFrame DEF Inv1, TypeOK
      <4> QED
        BY <1>1, <2>1, <4>1, <4>2 DEF Target
    <3>2. CASE sw'[s] # sw[s]
      BY <1>2, <2>1, <3>2, CallFrame DEF Inv1, Inv2, TypeOK, CallOK, Target
    <3> QED
      BY <3>1, <3>2
  <2>2. CASE s \notin Requests
    <3>1. sw'[s] = sw[s] /\ Target(s)' = Target(s) /\ Target(s) \in Versions
      BY <1>1, <1>2, <2>2 DEF Target, Inv1, TypeOK, Switchers
    <3> QED
      BY <1>1, <3>1 DEF Inv2, LinksOK
  <2> QED
    BY <2>1, <2>2
<1>4. LinksOK'
  BY <1>1, <1>3 DEF Inv1, Inv2, TypeOK, LinksOK, linkVars
<1>5. SomeoneGoesOn'
  <2>1. CASE UNCHANGED sw
    BY <1>1, <2>1 DEF Inv2, SomeoneGoesOn, OnItsWay, Excused, linkVars
  <2>2. CASE ~UNCHANGED sw
    <3>1. sw'[r] = "check" /\ r \in Switchers
      BY <2>2, CallFrame DEF Inv1, TypeOK, Switchers
    <3> QED
      BY <3>1 DEF SomeoneGoesOn, OnItsWay
  <2> QED
    BY <2>1, <2>2
<1> QED
  BY <1>4, <1>5

\* Where a call stands from the moment its binary is in place.
Installed == {"rmtree", "release", "respond", "send", "done", "cut"}

\* A call's step leaves verified what is installed.
LEMMA CallKeepsVerified ==
  ASSUME Inv1, Inv2, NEW r \in Requests, Begin(r) \/ CallStep(r)
  PROVE  InstalledIsVerified'
<1> USE DEF Installed
<1>1. \A x \in Requests : pc[x] \in Installed =>
         pc'[x] \in Installed /\ ver'[x] = ver[x] /\ sha'[x] = sha[x]
  <2>1. \A x \in Requests : pc[x] \in Installed => pc'[x] \in Installed
    BY DEF Inv1, TypeOK, Goto, Conclude, Refuse, CallStep, Begin, ReadConfig, TryLock,
           CheckClients, IsFile, Hash, Mismatch, Chmod, Replace, RemoveStaging, Raise, Release,
           Respond, Send
  <2> QED
    BY <2>1, CallFrame
<1> SUFFICES ASSUME NEW v \in Versions, installed'[v] # NoFile
             PROVE  \/ v = First /\ installed'[v].build = Factory
                    \/ \E x \in Requests : /\ pc'[x] \in Installed
                                           /\ ver'[x] = v /\ sha'[x] = installed'[v].build
  BY DEF InstalledIsVerified
<1>2. CASE installed'[v] = installed[v]
  BY <1>1, <1>2 DEF Inv2, InstalledIsVerified
<1>3. CASE installed'[v] # installed[v]
  <2>1. /\ Replace(r) /\ v = ver[r] /\ installed'[v] = staging[ver[r]]
        /\ staging[ver[r]].build = sha[r]
    BY <1>3, CallFrame DEF Inv1, TypeOK
  <2>2. pc'[r] = "rmtree" /\ UNCHANGED callVars
    BY <2>1 DEF Replace, Goto, Inv1, TypeOK
  <2> QED
    BY <2>1, <2>2 DEF callVars
<1> QED
  BY <1>2, <1>3

\* A switch that moves without a restart: it comes to one if it was on its way, and if
\* it is in another's way, it has what that one needs.
LEMMA SwitchGoesOn ==
  ASSUME Inv1, Inv2, NEW s \in Switchers, ~SwRestart(s),
         SwitchStep(s) \/ (s \in Operators /\ (OperatorDies(s) \/ \E v \in Versions : Operate(s, v)))
  PROVE  SomeoneGoesOn'
<1> SUFFICES ASSUME NEW r \in Requests, sw'[r] # "none"
             PROVE  \E x \in Switchers : OnItsWay(x)' \/ Excused(x)'
  BY DEF SomeoneGoesOn
<1> USE SentinelAssumption DEF OnItsWay, Excused, Switching, SwGoto, linkVars
<1>1. sw[r] # "none"
  <2>1. CASE s = r
    BY <2>1, SentinelAssumption
       DEF SwitchStep, SwCheck, SwLook, SwUnlink, SwSymlink, SwRename, SwRefused
  <2>2. CASE s # r
    BY <2>2 DEF Inv1, TypeOK, Switchers, SwitchStep, SwCheck, SwLook, SwUnlink, SwSymlink,
                SwRename, SwRefused, OperatorDies, Operate
  <2> QED
    BY <2>1, <2>2
<1>2. PICK w \in Switchers : OnItsWay(w) \/ Excused(w)
  BY <1>1 DEF Inv2, SomeoneGoesOn
<1>3. Target(s) \in Versions /\ Target(s) # NoVersion
  BY DEF Target, Switchers, Inv1, TypeOK
<1>4. sw[s] = "check" => Runnable(Target(s))
  BY <1>3 DEF Runnable, Inv2, LinksOK
<1> USE DEF Inv1, TypeOK
<1>5. CASE SwCheck(s)
  <2>1. sw'[s] = "look"
    BY <1>4, <1>5 DEF SwCheck
  <2> QED
    BY <2>1
<1>6. CASE SwLook(s)
  <2>1. OnItsWay(s)'
    BY <1>6 DEF SwLook
  <2> QED
    BY <2>1
<1>7. CASE SwUnlink(s) \/ SwSymlink(s) \/ SwRename(s)
  <2>1. CASE OnItsWay(s)
    <3>1. OnItsWay(s)'
      BY <1>3, <1>7, <2>1 DEF SwUnlink, SwSymlink, SwRename
    <3> QED
      BY <3>1
  <2>2. CASE ~OnItsWay(s)
    <3>1. w # s /\ UNCHANGED tmp /\ sw'[w] = sw[w]
      BY <1>2, <1>7, <2>2 DEF SwUnlink, SwSymlink, SwRename
    <3> QED
      BY <1>2, <3>1
  <2> QED
    BY <2>1, <2>2
<1>8. CASE SwRefused(s) \/ (s \in Operators /\ OperatorDies(s))
  <2>1. Excused(s)'
    BY <1>8 DEF SwRefused, OperatorDies
  <2> QED
    BY <2>1
<1>9. CASE s \in Operators /\ \E v \in Versions : Operate(s, v)
  <2>1. OnItsWay(s)'
    BY <1>9 DEF Operate
  <2> QED
    BY <2>1
<1> QED
  BY <1>5, <1>6, <1>7, <1>8, <1>9 DEF SwitchStep

\* The links are changed to what is installed and runs.
LEMMA SwitchKeepsLinks ==
  ASSUME Inv1, Inv2, NEW s \in Switchers, ~SwRestart(s),
         SwitchStep(s) \/ (s \in Operators /\ (OperatorDies(s) \/ \E v \in Versions : Operate(s, v)))
  PROVE  LinksOK'
<1> USE SentinelAssumption DEF Inv1, Inv2, TypeOK, LinksOK, Switching, SwGoto, Target, Switchers,
        fileVars, callVars
<1>1. CASE SwCheck(s)      BY <1>1 DEF SwCheck, linkVars, Runnable
<1>2. CASE SwLook(s)       BY <1>2 DEF SwLook, linkVars
<1>3. CASE SwUnlink(s)     BY <1>3 DEF SwUnlink
<1>4. CASE SwSymlink(s)    BY <1>4 DEF SwSymlink
<1>5. CASE SwRename(s)     BY <1>5 DEF SwRename
<1>6. CASE SwRefused(s)    BY <1>6 DEF SwRefused, linkVars
<1>7. CASE OperatorDies(s) BY <1>7 DEF OperatorDies, linkVars
<1>8. CASE s \in Operators /\ \E v \in Versions : Operate(s, v)
  BY <1>8 DEF Operate, linkVars
<1> QED
  BY <1>1, <1>2, <1>3, <1>4, <1>5, <1>6, <1>7, <1>8 DEF SwitchStep

\* A switch keeps Inv2.
LEMMA Inv2Switch ==
  ASSUME Inv1, Inv2, NEW s \in Switchers, ~SwRestart(s),
         SwitchStep(s) \/ (s \in Operators /\ (OperatorDies(s) \/ \E v \in Versions : Operate(s, v)))
  PROVE  Inv2'
<1>1. UNCHANGED <<fileVars, pc, callVars, outcome>>
  BY DEF SwitchStep, SwCheck, SwLook, SwUnlink, SwSymlink, SwRename, SwRefused, OperatorDies,
         Operate
<1>2. \A r \in Requests : sw[r] = "none" => sw'[r] = "none"
  BY SentinelAssumption
     DEF Inv1, TypeOK, Switchers, SwGoto, SwitchStep, SwCheck, SwLook, SwUnlink, SwSymlink,
         SwRename, SwRefused, OperatorDies, Operate
<1>3. \A r \in Requests : CallOK(r)'
  BY <1>1, <1>2 DEF Inv2, CallOK, fileVars, callVars
<1>4. InstalledIsVerified'
  BY <1>1 DEF Inv2, InstalledIsVerified, fileVars, callVars
<1> QED
  BY <1>3, <1>4, SwitchGoesOn, SwitchKeepsLinks DEF Inv2

\* A restart, asked for or not, keeps Inv2: the calls are cut and no switch of the
\* service is left.
LEMMA Inv2Restart ==
  ASSUME Inv1, Inv2, Crash \/ \E s \in Switchers : SwRestart(s)
  PROVE  Inv2'
<1>1. /\ Restarted /\ UNCHANGED <<fileVars, linkVars, config, callVars, wanted>>
      /\ \A x \in Switchers : sw'[x] \in {"none", sw[x]}
      /\ \A r \in Requests : sw'[r] = "none"
  BY DEF Crash, SwRestart, Switchers
<1>2. \A r \in Requests : CallOK(r)'
  BY <1>1 DEF Inv1, TypeOK, Inv2, CallOK, Restarted, Connected, fileVars, callVars
<1>3. LinksOK'
  BY <1>1 DEF Inv2, LinksOK, Switching, Target, fileVars, linkVars, callVars
<1>4. InstalledIsVerified'
  BY <1>1 DEF Inv1, TypeOK, Inv2, InstalledIsVerified, Restarted, Connected, fileVars, callVars
<1>5. SomeoneGoesOn'
  BY <1>1 DEF SomeoneGoesOn
<1> QED
  BY <1>2, <1>3, <1>4, <1>5 DEF Inv2

\* A push keeps Inv2 when nobody is at work on its version.
LEMMA Inv2Push ==
  ASSUME Orderly, Inv1, Inv2, NEW v \in Versions, NEW b \in Builds, Push(v, b)
  PROVE  Inv2'
<1>1. UNCHANGED <<installed, linkVars, pc, callVars, outcome, swVars>>
  BY DEF Push
<1>2. \A r \in Requests : CallOK(r)'
  BY <1>1 DEF Push, Connected, Inv1, TypeOK, Inv2, CallOK, callVars, swVars
<1>3. LinksOK' /\ InstalledIsVerified' /\ SomeoneGoesOn'
  BY <1>1 DEF Inv2, LinksOK, InstalledIsVerified, SomeoneGoesOn, OnItsWay, Excused, Switching,
              Target, linkVars, callVars, swVars
<1> QED
  BY <1>2, <1>3 DEF Inv2

\* Inv2 is inductive.
LEMMA Inv2Next ==
  ASSUME Orderly, Inv1, Inv2, [Next]_vars
  PROVE  Inv2'
<1>1. CASE \E r \in Requests : Begin(r) \/ CallStep(r)
  BY <1>1, CallKeepsCalls, CallKeepsLinks, CallKeepsVerified DEF Inv2
<1>2. CASE \E s \in Switchers : SwitchStep(s)
  BY <1>2, Inv2Switch, Inv2Restart
<1>3. CASE \E o \in Operators : OperatorDies(o) \/ \E v \in Versions : Operate(o, v)
  <2> PICK o \in Operators : OperatorDies(o) \/ \E v \in Versions : Operate(o, v)
    BY <1>3
  <2>1. CASE SwRestart(o)
    BY <2>1, Inv2Restart DEF Switchers
  <2> QED
    BY <2>1, Inv2Switch DEF Switchers
<1>4. CASE \E v \in Versions, b \in Builds : Push(v, b)
  BY <1>4, Inv2Push
<1>5. CASE Crash
  BY <1>5, Inv2Restart
<1>6. CASE SetOpens \/ SetWrites \/ UNCHANGED vars
  <2>1. UNCHANGED <<fileVars, linkVars, pc, callVars, outcome, swVars>>
    BY <1>6 DEF SetOpens, SetWrites, vars
  <2> QED
    BY <2>1 DEF Inv2, CallOK, LinksOK, InstalledIsVerified, SomeoneGoesOn, OnItsWay, Excused,
                Switching, Target, fileVars, linkVars, callVars, swVars
<1> QED
  BY <1>1, <1>2, <1>3, <1>4, <1>5, <1>6 DEF Next

-----------------------------------------------------------------------------
(* What follows while nobody pushes a version during a call on it *)

\* In every reachable state what is installed is verified and runs, the links name
\* nothing else, and an accepted upgrade is on its way to the restart.
THEOREM Inv2Invariant ==
  ASSUME Orderly
  PROVE  Spec => []Inv2
<1>1. Inv1 /\ Inv2 /\ [Next]_vars => Inv2'
  BY Inv2Next
<1> QED
  BY <1>1, Inv2Init, Inv1Invariant, PTL DEF Spec

\* Only binaries with the sha256 of their call are installed.
THEOREM VerifiedCorrect ==
  ASSUME Orderly
  PROVE  Spec => []InstalledIsVerified
<1>1. Inv2 => InstalledIsVerified
  BY DEF Inv2
<1> QED
  BY <1>1, Inv2Invariant, PTL

\* The link `current` names a binary that can be executed, whichever of any number of
\* switches, CLI commands and crashes are under way.
THEOREM CurrentCorrect ==
  ASSUME Orderly
  PROVE  Spec => []CurrentRuns
<1>1. Inv1 /\ Inv2 => CurrentRuns
  BY DEF Inv1, Inv2, TypeOK, LinksOK, CurrentRuns, Runnable
<1> QED
  BY <1>1, Inv1Invariant, Inv2Invariant, PTL

\* A switch that fails has lost the link to one that goes on to the restart.
THEOREM AcceptedCorrect ==
  ASSUME Orderly
  PROVE  Spec => []AcceptedRestarts
<1>1. Inv2 => AcceptedRestarts
  BY DEF Inv2, SomeoneGoesOn, OnItsWay, Excused, AcceptedRestarts, Switching
<1> QED
  BY <1>1, Inv2Invariant, PTL

\* A step deletes a pushed file only to install it or because its hash is wrong.
LEMMA PushStep ==
  ASSUME Inv1, Inv2, [Next]_vars, NEW v \in Versions, staging[v] # NoFile, staging'[v] = NoFile
  PROVE  \/ installed'[v] = staging[v]
         \/ \E r \in Requests : lock = r /\ ver[r] = v /\ sha[r] # staging[v].build
<1> USE DEF Inv1, TypeOK, fileVars
<1>1. CASE \E r \in Requests : Begin(r) \/ CallStep(r)
  <2> PICK r \in Requests : Begin(r) \/ CallStep(r)
    BY <1>1
  <2>1. Mismatch(r) \/ Replace(r) \/ RemoveStaging(r)
    <3>1. CASE Chmod(r)
      <4>1. staging[ver[r]] \in File
        BY <3>1 DEF Chmod, StagedOK
      <4> QED
        BY <3>1, <4>1, FileAssumption DEF Chmod, File
    <3> QED
      BY <3>1 DEF CallStep, Begin, ReadConfig, TryLock, CheckClients, IsFile, Hash, Raise,
                  Release, Respond, Send
  <2>2. CASE Mismatch(r)
    BY <2>2 DEF Mismatch, Inv2, CallOK, LockMatches, Section
  <2>3. CASE Replace(r)
    BY <2>3 DEF Replace
  <2>4. CASE RemoveStaging(r)
    BY <2>4 DEF RemoveStaging, Inv2, CallOK
  <2> QED
    BY <2>1, <2>2, <2>3, <2>4
<1>2. CASE \E w \in Versions, b \in Builds : Push(w, b)
  <2> PICK w \in Versions, b \in Builds : Push(w, b)
    BY <1>2
  <2>1. [build |-> b, exec |-> FALSE] \in File
    BY DEF File
  <2> QED
    BY <2>1, FileAssumption DEF Push
<1>3. CASE \/ SetOpens \/ SetWrites \/ Crash \/ UNCHANGED vars
           \/ \E o \in Operators : OperatorDies(o) \/ \E w \in Versions : Operate(o, w)
           \/ \E s \in Switchers : SwitchStep(s)
  BY <1>3 DEF SetOpens, SetWrites, Crash, vars, OperatorDies, Operate, SwitchStep, SwCheck,
              SwLook, SwUnlink, SwSymlink, SwRename, SwRestart, SwRefused
<1> QED
  BY <1>1, <1>2, <1>3 DEF Next

\* No call deletes what another is to install.
THEOREM PushCorrect ==
  ASSUME Orderly
  PROVE  Spec => PushIsUsed
<1>1. Inv1 /\ Inv2 /\ [Next]_vars =>
        [\A v \in Versions : staging[v] # NoFile /\ staging'[v] = NoFile =>
           \/ installed'[v] = staging[v]
           \/ \E r \in Requests : lock = r /\ ver[r] = v /\ sha[r] # staging[v].build]_vars
  BY PushStep
<1> QED
  BY <1>1, Inv1Invariant, Inv2Invariant, PTL DEF Spec, PushIsUsed

=============================================================================
