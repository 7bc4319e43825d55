---------------------------- MODULE WebCheckProofs ----------------------------
(***************************************************************************)
(* Proofs about WebCheck for any number of handlers, jobs and browsers.    *)
(***************************************************************************)
EXTENDS WebCheck, FiniteSetTheorems, TLAPS

Places == {"idle", "look", "lock", "fetch", "extract", "chmod", "probe", "pick", "create",
           "requests", "browser", "launch", "pages", "answer"}

\* The variables that the end of a call changes.
CallsOK ==
  /\ pc \in [Handlers -> Places] /\ kind \in [Handlers -> Kinds]
  /\ path \in [Handlers -> Paths]
  /\ checker \in [Handlers -> Handlers] /\ asked \in [Handlers -> Paths]
  /\ alone \in [Handlers -> BOOLEAN] /\ spoilt \in [Handlers -> BOOLEAN]
  /\ job \in [Jobs -> Job]
  /\ counts \in [Handlers -> [Counters -> 0..MaxCount]]

\* The end of a call keeps the types.
LEMMA LeaveTypes ==
  ASSUME TypeOK, NEW h \in Handlers, Leave(h)
  PROVE  CallsOK'
BY BoundAssumption
   DEF TypeOK, CallsOK, Places, Job, NoJob, Jobs, Kinds, Paths, Counters, Zero, Stale, Goto, Leave,
       JobsOf

\* A job with one field changed is a job.
LEMMA NoJobType == NoJob \in Job
BY BoundAssumption DEF Job, NoJob

JobPlaces == {"queued", "total", "outcome", "store", "launching", "opening", "loading", "closing",
              "done"}

Kept(r, q) == q \in Job /\ q.owner = r.owner /\ q.at = r.at

\* An EXCEPT of one field of a job, for each field.
LEMMA FieldTypes ==
  ASSUME NEW r \in Job
  PROVE  /\ \A x \in Handlers : LET q == [r EXCEPT !.owner = x]
                                IN  q \in Job /\ q.owner = x /\ q.at = r.at
         /\ \A x \in JobPlaces : LET q == [r EXCEPT !.at = x]
                                 IN  q \in Job /\ q.owner = r.owner /\ q.at = x
         /\ \A x \in BOOLEAN : Kept(r, [r EXCEPT !.again = x])
         /\ \A x \in Browsers \cup {Nothing} : Kept(r, [r EXCEPT !.uses = x])
         /\ \A x \in {"none", "yes", "no", "lost"} : Kept(r, [r EXCEPT !.verdict = x])
         /\ \A x \in 0..MaxCount : Kept(r, [r EXCEPT !.read = x])
<1>1. \A x \in Handlers : LET q == [r EXCEPT !.owner = x]
                         IN  q \in Job /\ q.owner = x /\ q.at = r.at
  BY DEF Job
<1>2. \A x \in JobPlaces : LET q == [r EXCEPT !.at = x]
                          IN  q \in Job /\ q.owner = r.owner /\ q.at = x
  BY DEF Job, JobPlaces
<1>3. \A x \in BOOLEAN : Kept(r, [r EXCEPT !.again = x])
  BY DEF Job, Kept
<1>4. \A x \in Browsers \cup {Nothing} : Kept(r, [r EXCEPT !.uses = x])
  BY DEF Job, Kept
<1>5. \A x \in {"none", "yes", "no", "lost"} : Kept(r, [r EXCEPT !.verdict = x])
  BY DEF Job, Kept
<1>6. \A x \in 0..MaxCount : Kept(r, [r EXCEPT !.read = x])
  BY DEF Job, Kept
<1> QED
  BY <1>1, <1>2, <1>3, <1>4, <1>5, <1>6

\* A call begins: its jobs are of the type.
LEMMA BeginTypes ==
  ASSUME TypeOK, NEW h \in Handlers, Call(h)
  PROVE  TypeOK'
<1>1. PICK k \in KindsOf(h), mine \in SUBSET Free :
        /\ mine # {} /\ \A j \in mine, i \in Free \ mine : j < i
        /\ kind' = [kind EXCEPT ![h] = k]
        /\ \E p \in PathsOf(k) : path' = [path EXCEPT ![h] = p]
        /\ job' = [j \in Jobs |->
                     IF j \in mine THEN [NoJob EXCEPT !.owner = h, !.at = "queued"] ELSE job[j]]
  BY Zenon DEF Call
<1>2. k \in Kinds
  BY <1>1 DEF KindsOf, Kinds
<1>3. [NoJob EXCEPT !.owner = h, !.at = "queued"] \in Job
  BY NoJobType, FieldTypes DEF JobPlaces
<1>4. kind' \in [Handlers -> Kinds]
  BY <1>1, <1>2 DEF TypeOK
<1>5. job' \in [Jobs -> Job]
  <2> DEFINE New == [NoJob EXCEPT !.owner = h, !.at = "queued"]
  <2>1. job' = [j \in Jobs |-> IF j \in mine THEN New ELSE job[j]]
    BY <1>1
  <2>2. New \in Job
    BY <1>3
  <2> HIDE DEF New
  <2> QED
    BY <2>1, <2>2 DEF TypeOK
<1>6. path' \in [Handlers -> Paths]
  <2>1. PICK p \in PathsOf(k) : path' = [path EXCEPT ![h] = p]
    BY <1>1
  <2>2. p \in Paths
    BY DEF PathsOf, Paths
  <2> QED
    BY <2>1, <2>2 DEF TypeOK
<1> QED
  BY <1>4, <1>5, <1>6 DEF Call, TypeOK, Goto

\* The steps of a call keep the types.
LEMMA CallTypes ==
  ASSUME TypeOK, NEW h \in Handlers, CallStep(h)
  PROVE  TypeOK'
<1>1. Leave(h) => CallsOK'
  BY LeaveTypes
<1> USE SentinelAssumption, BoundAssumption
    DEF TypeOK, Counters, Zero, Goto, callVars
<1>3. CASE Look(h)        BY <1>3 DEF Look
<1>4. CASE Lock(h)        BY <1>4 DEF Lock
<1>5. CASE Fetch(h)       BY <1>5 DEF Fetch
<1>6. CASE Extract(h)     BY <1>6 DEF Extract
<1>7. CASE Chmod(h)       BY <1>7 DEF Chmod
<1>8. CASE EnsureFails(h) BY <1>1, <1>8 DEF EnsureFails, CallsOK, Places
<1>9. CASE Probe(h)
  <2>1. CASE Leave(h)
    BY <1>1, <1>9, <2>1 DEF Probe, CallsOK, Places
  <2>2. CASE ~Leave(h)
    BY <1>9, <2>2 DEF Probe
  <2> QED
    BY <2>1, <2>2
<1>10. CASE Pick(h)
  <2>1. CASE boce = Nothing
    BY <1>10, <2>1 DEF Pick
  <2>2. CASE boce # Nothing
    <3>1. boce \in Handlers
      BY <2>2
    <3>2. /\ checker' = [checker EXCEPT ![h] = boce]
          /\ counts' = [counts EXCEPT ![boce] = [c \in Counters |-> 0]]
          /\ asked' = [asked EXCEPT ![boce] = path[h]]
          /\ path' = path \/ path' = [path EXCEPT ![h] = "default"]
      BY <1>10, <2>2 DEF Pick, Update
    <3>4. counts' \in [Handlers -> [Counters -> 0..MaxCount]]
      BY <3>1, <3>2
    <3>3. pc' = [pc EXCEPT ![h] = "browser"] \/ pc' = [pc EXCEPT ![h] = "requests"]
      <4>1. CASE kind[h] = "browser"
        BY <1>10, <2>2, <4>1 DEF Pick, Update
      <4>2. CASE kind[h] # "browser"
        BY <1>10, <2>2, <4>2 DEF Pick, Update
      <4> QED
        BY <4>1, <4>2
    <3>5. path' \in [Handlers -> Paths] /\ asked' \in [Handlers -> Paths]
      BY <3>1, <3>2 DEF Paths
    <3>6. checker' \in [Handlers -> Handlers] /\ pc' \in [Handlers -> Places]
      BY <3>1, <3>2, <3>3 DEF Places
    <3>7. UNCHANGED <<chromium, lock, boce, browser, alive, hung, kind, alone, spoilt, job>>
      BY <1>10 DEF Pick
    <3> QED
      BY <3>4, <3>5, <3>6, <3>7 DEF Places
  <2> QED
    BY <2>1, <2>2
<1>11. CASE Create(h)     BY <1>11 DEF Create
<1>12. CASE GetBrowser(h) BY <1>12 DEF GetBrowser
<1>13. CASE Launched(h)
  <2>1. Fresh \in Browsers
    BY <1>13 DEF Launched, Fresh, Unused
  <2> QED
    BY <1>13, <2>1 DEF Launched, Start
<1>14. CASE LaunchFails(h) BY <1>1, <1>14 DEF LaunchFails, CallsOK, Places
<1>15. CASE Collect(h)    BY <1>15 DEF Collect
<1>16. CASE Return(h)     BY <1>1, <1>16 DEF Return, CallsOK, Places
<1>17. CASE NoPages(h)    BY <1>1, <1>17 DEF NoPages, CallsOK, Places
<1> QED
  BY <1>3, <1>4, <1>5, <1>6, <1>7, <1>8, <1>9, <1>10, <1>11, <1>12, <1>13, <1>14, <1>15,
     <1>16, <1>17 DEF CallStep

\* A counter that is added to stays a counter.
LEMMA AddTypes ==
  ASSUME TypeOK, NEW j \in Jobs, job[j].owner \in Handlers, NEW f \in Counters, Add(j, f)
  PROVE  counts' \in [Handlers -> [Counters -> 0..MaxCount]]
<1>1. (IF job[j].read < MaxCount THEN job[j].read + 1 ELSE MaxCount) \in 0..MaxCount
  BY BoundAssumption DEF TypeOK, Job
<1> QED
  BY <1>1 DEF TypeOK, Add

\* A job under way belongs to a handler.
Owned == \A j \in Jobs : job[j].at # "none" => job[j].owner \in Handlers

\* A step puts job j in another place and leaves the others alone.
Moves(j) ==
  /\ job' \in [Jobs -> Job] /\ Owned'
  /\ \A i \in Jobs \ {j} : job'[i] = job[i]

\* A step that gives one job a record of the type is such a step.
LEMMA OneJob ==
  ASSUME TypeOK, Owned, NEW j \in Jobs, NEW r \in Job, r.at # "none", r.owner \in Handlers,
         job' = [job EXCEPT ![j] = r]
  PROVE  Moves(j)
BY DEF TypeOK, Owned, Moves

\* The same for the usual change of place, with one field more.
LEMMA PlaceMoves ==
  ASSUME TypeOK, Owned, NEW j \in Jobs, job[j].owner \in Handlers, NEW p \in JobPlaces,
         \/ job' = [job EXCEPT ![j].at = p]
         \/ \E x \in 0..MaxCount : job' = [job EXCEPT ![j].at = p, ![j].read = x]
         \/ \E b \in Browsers \cup {Nothing} : job' = [job EXCEPT ![j].at = p, ![j].uses = b]
  PROVE  Moves(j)
<1> DEFINE q == [job[j] EXCEPT !.at = p]
<1>1. job[j] \in Job
  BY DEF TypeOK
<1>2. q \in Job /\ q.at = p /\ q.owner = job[j].owner
  BY <1>1, FieldTypes DEF Kept
<1>3. p # "none"
  BY DEF JobPlaces
<1>4. CASE job' = [job EXCEPT ![j].at = p]
  <2>1. job' = [job EXCEPT ![j] = q]
    BY <1>4
  <2> QED
    BY <1>2, <1>3, <2>1, OneJob
<1>5. ASSUME NEW x \in 0..MaxCount, job' = [job EXCEPT ![j].at = p, ![j].read = x]
      PROVE  Moves(j)
  <2> DEFINE r == [q EXCEPT !.read = x]
  <2>1. job' = [job EXCEPT ![j] = r]
    BY <1>5
  <2>2. r \in Job /\ r.at = p /\ r.owner = job[j].owner
    <3> HIDE DEF q
    <3> QED
      BY <1>2, FieldTypes DEF Kept
  <2> HIDE DEF r
  <2> QED
    BY <1>3, <2>1, <2>2, OneJob
<1>6. ASSUME NEW b \in Browsers \cup {Nothing}, job' = [job EXCEPT ![j].at = p, ![j].uses = b]
      PROVE  Moves(j)
  <2> DEFINE r == [q EXCEPT !.uses = b]
  <2>1. job' = [job EXCEPT ![j] = r]
    BY <1>6
  <2>2. r \in Job /\ r.at = p /\ r.owner = job[j].owner
    <3> HIDE DEF q
    <3> QED
      BY <1>2, FieldTypes DEF Kept
  <2> HIDE DEF r
  <2> QED
    BY <1>3, <2>1, <2>2, OneJob
<1> QED
  BY <1>4, <1>5, <1>6

\* So is the end of a job,
LEMMA FinishMoves ==
  ASSUME TypeOK, Owned, NEW j \in Jobs, job[j].owner \in Handlers,
         NEW v \in {"yes", "no", "lost"}, Finish(j, v)
  PROVE  Moves(j)
<1> DEFINE p == [NoJob EXCEPT !.owner = job[j].owner]
           q == [p EXCEPT !.at = "done"]
           r == [q EXCEPT !.verdict = v]
<1>1. job' = [job EXCEPT ![j] = r]
  BY DEF Finish
<1>2. p \in Job /\ p.owner = job[j].owner
  BY NoJobType, FieldTypes DEF NoJob
<1>3. q \in Job /\ q.owner = job[j].owner /\ q.at = "done"
  <2> HIDE DEF p
  <2> QED
    BY <1>2, FieldTypes DEF Kept, JobPlaces
<1>4. r \in Job /\ r.owner = job[j].owner /\ r.at = "done"
  <2> HIDE DEF q
  <2> QED
    BY <1>3, FieldTypes DEF Kept
<1> HIDE DEF r
<1> QED
  BY <1>1, <1>4, OneJob

\* and so is finding the browser gone.
LEMMA BrokenMoves ==
  ASSUME TypeOK, Owned, NEW j \in Jobs, job[j].owner \in Handlers, Broken(j)
  PROVE  Moves(j) /\ browser' \in Browsers \cup {Nothing}
<1>1. CASE job[j].again
  BY <1>1, FinishMoves DEF Broken, TypeOK
<1>2. ASSUME ~job[j].again, NEW a \in {"closing", "launching"}, NEW b \in Browsers \cup {Nothing},
             job' = [job EXCEPT ![j].again = TRUE, ![j].at = a, ![j].uses = b]
      PROVE  Moves(j)
  <2> DEFINE p == [job[j] EXCEPT !.again = TRUE]
             q == [p EXCEPT !.at = a]
             r == [q EXCEPT !.uses = b]
  <2>1. job' = [job EXCEPT ![j] = r]
    BY <1>2
  <2>2. p \in Job /\ p.owner = job[j].owner
    BY FieldTypes DEF TypeOK, Kept
  <2>3. q \in Job /\ q.owner = job[j].owner /\ q.at = a
    <3>1. a \in JobPlaces
      BY DEF JobPlaces
    <3> HIDE DEF p
    <3> QED
      BY <2>2, <3>1, FieldTypes
  <2>4. r \in Job /\ r.owner = job[j].owner /\ r.at = a
    <3> HIDE DEF q
    <3> QED
      BY <2>3, FieldTypes DEF Kept
  <2> HIDE DEF r
  <2> QED
    BY <2>1, <2>4, OneJob
<1>3. CASE ~job[j].again
  BY <1>2, <1>3 DEF Broken, TypeOK
<1> QED
  BY <1>1, <1>3

\* The steps of a job keep the types and the other jobs.
LEMMA JobTypes ==
  ASSUME TypeOK, Owned, NEW j \in Jobs, JobStep(j)
  PROVE  /\ TypeOK' /\ Moves(j)
         /\ job[j].at = "queued" => pc[job[j].owner] \in {"requests", "pages"}
         /\ job[j].at # "none" /\ job[j].owner \in Handlers
         /\ UNCHANGED <<chromium, lock, pc, path, checker, asked>>
<1>1. job[j].at # "none" /\ job[j].owner \in Handlers
  BY DEF JobStep, Ask, AddTotal, ReadOutcome, AddOutcome, Visit, Relaunched, RelaunchFails,
         Opened, Closed, Loaded, Owned
<1> USE <1>1 DEF callVars
<1>2. CASE Ask(j)
  <2>1. Counter(j).total \in 0..MaxCount
    BY DEF TypeOK, Counter, Counters
  <2>2. Moves(j)
    <3> DEFINE x == Counter(j).total
    <3>1. PICK v \in {"yes", "no"} :
            job' = [job EXCEPT ![j].at = "total", ![j].verdict = v, ![j].read = x]
      BY <1>2 DEF Ask
    <3> DEFINE p == [job[j] EXCEPT !.at = "total"]
               q == [p EXCEPT !.verdict = v]
               r == [q EXCEPT !.read = x]
    <3> HIDE DEF x
    <3>2. job' = [job EXCEPT ![j] = r]
      BY <3>1
    <3>3. p \in Job /\ p.owner = job[j].owner /\ p.at = "total"
      BY FieldTypes DEF TypeOK, Kept, JobPlaces
    <3>4. q \in Job /\ q.owner = job[j].owner /\ q.at = "total"
      <4> HIDE DEF p
      <4> QED
        BY <3>3, FieldTypes DEF Kept
    <3>5. r \in Job /\ r.owner = job[j].owner /\ r.at = "total"
      <4> HIDE DEF q
      <4> QED
        BY <3>4, <2>1, FieldTypes DEF Kept, x
    <3> HIDE DEF r
    <3> QED
      BY <3>2, <3>5, OneJob
  <2> QED
    BY <1>2, <2>2 DEF Ask, TypeOK, Moves
<1>3. CASE AddTotal(j)
  <2>1. counts' \in [Handlers -> [Counters -> 0..MaxCount]]
    BY <1>3, AddTypes DEF AddTotal, Counters
  <2>2. 0 \in 0..MaxCount /\ "outcome" \in JobPlaces
    BY BoundAssumption DEF JobPlaces
  <2>3. Moves(j)
    BY <1>3, <2>2, PlaceMoves DEF AddTotal
  <2> QED
    BY <1>3, <2>1, <2>3 DEF AddTotal, TypeOK, Moves
<1>4. CASE ReadOutcome(j)
  <2>1. Counter(j)[Field(j)] \in 0..MaxCount
    BY DEF TypeOK, Counter, Counters, Field
  <2>2. Moves(j)
    BY <1>4, <2>1, PlaceMoves DEF ReadOutcome, JobPlaces
  <2> QED
    BY <1>4, <2>2 DEF ReadOutcome, TypeOK, Moves
<1>5. CASE AddOutcome(j)
  <2>1. counts' \in [Handlers -> [Counters -> 0..MaxCount]]
    BY <1>5, AddTypes DEF AddOutcome, Counters, Field
  <2>2. 0 \in 0..MaxCount /\ "done" \in JobPlaces
    BY BoundAssumption DEF JobPlaces
  <2>3. Moves(j)
    BY <1>5, <2>2, PlaceMoves DEF AddOutcome
  <2> QED
    BY <1>5, <2>1, <2>3 DEF AddOutcome, TypeOK, Moves
<1>6. CASE Visit(j)
  <2>1. CASE Broken(j)
    BY <1>6, <2>1, BrokenMoves DEF Visit, TypeOK, Moves
  <2>2. CASE ~Broken(j)
    <3>1. Moves(j)
      <4>1. \/ job' = [job EXCEPT ![j].at = "launching"]
            \/ browser \in alive /\ job' = [job EXCEPT ![j].at = "opening", ![j].uses = browser]
        BY <1>6, <2>2 DEF Visit
      <4> QED
        BY <4>1, PlaceMoves DEF TypeOK, JobPlaces
    <3> QED
      BY <1>6, <2>2, <3>1 DEF Visit, TypeOK, Moves
  <2> QED
    BY <2>1, <2>2
<1>7. CASE Relaunched(j)
  <2>1. Fresh \in Browsers
    BY <1>7 DEF Relaunched, Fresh, Unused
  <2>2. Moves(j)
    BY <1>7, <2>1, PlaceMoves DEF Relaunched, JobPlaces
  <2> QED
    BY <1>7, <2>1, <2>2 DEF Relaunched, Start, TypeOK, Moves
<1>8. CASE RelaunchFails(j)
  BY <1>8, FinishMoves DEF RelaunchFails, Spoil, TypeOK, Moves
<1>9. CASE Opened(j)
  <2>1. CASE job[j].uses \in alive
    <3>1. Moves(j)
      BY <1>9, <2>1, PlaceMoves DEF Opened, JobPlaces
    <3> QED
      BY <1>9, <2>1, <3>1 DEF Opened, TypeOK, Moves
  <2>2. CASE job[j].uses \notin alive /\ Broken(j)
    BY <1>9, <2>2, BrokenMoves DEF Opened, TypeOK, Moves
  <2>3. CASE job[j].uses \notin alive /\ ~Broken(j)
    BY <1>9, <2>3, FinishMoves DEF Opened, TypeOK, Moves
  <2> QED
    BY <2>1, <2>2, <2>3
<1>10. CASE Closed(j)
  <2>1. Moves(j)
    BY <1>10, PlaceMoves DEF Closed, JobPlaces
  <2> QED
    BY <1>10, <2>1 DEF Closed, TypeOK, Moves
<1>11. CASE Loaded(j)
  <2>1. Moves(j)
    BY <1>11, FinishMoves DEF Loaded
  <2> QED
    BY <1>11, <2>1 DEF Loaded, TypeOK, Moves
<1> QED
  BY <1>2, <1>3, <1>4, <1>5, <1>6, <1>7, <1>8, <1>9, <1>10, <1>11 DEF JobStep

\* What the steps of a call do to the jobs.
LEMMA CallJobs ==
  ASSUME TypeOK, NEW h \in Handlers, Call(h) \/ CallStep(h), NEW j \in Jobs
  PROVE  \/ job'[j] = job[j]
         \/ job'[j].at = "none"
         \/ job'[j].at = "queued" /\ job'[j].owner = h
<1>1. CASE Call(h)
  <2>1. PICK mine \in SUBSET Free :
          job' = [i \in Jobs |->
                   IF i \in mine THEN [NoJob EXCEPT !.owner = h, !.at = "queued"] ELSE job[i]]
    BY <1>1, Zenon DEF Call
  <2>2. CASE j \in mine
    BY <2>1, <2>2 DEF NoJob
  <2>3. CASE j \notin mine
    BY <2>1, <2>3
  <2> QED
    BY <2>2, <2>3
<1>2. CASE Leave(h)
  BY <1>2 DEF Leave, NoJob
<1>3. CASE CallStep(h) /\ ~Leave(h)
  BY <1>3 DEF CallStep, Look, Lock, Fetch, Extract, Chmod, EnsureFails, Probe, Pick, Create,
              NoPages, GetBrowser, Launched, LaunchFails, Collect, Return
<1> QED
  BY <1>1, <1>2, <1>3

\* Where Chromium is being installed, where a call has found the file of its path
\* executable, and where it has an eye on the browser.
Installing == {"fetch", "extract", "chmod"}
Ready      == {"probe", "pick", "create", "browser", "launch", "pages"}
Visiting   == {"browser", "launch", "pages"}

\* Why Chromium is whole whenever it runs: its executable is made executable last, by the
\* one handler that holds the lock, and nobody who asks for it extracts once it is
\* executable; who asks for another file may, and that is remembered.  A call has found
\* the file it asks for executable, and handed on a path only after that.
Whole ==
  /\ chromium.exec => chromium.files = "all" \/ chromium.over
  /\ \A h \in Handlers :
       /\ pc[h] \in Installing /\ path[h] = "default" => ~chromium.exec
       /\ pc[h] \in Installing \cup {"launch"} => lock = h
       /\ pc[h] = "chmod" => chromium.files = "all"
       /\ pc[h] \in Ready /\ path[h] = "default" => chromium.exec
       /\ pc[h] \in Visiting /\ asked[checker[h]] = "default" => chromium.exec

\* The steps of a call keep Chromium whole.
LEMMA CallWhole ==
  ASSUME TypeOK, Whole, NEW h \in Handlers, Call(h) \/ CallStep(h)
  PROVE  Whole'
<1> USE SentinelAssumption DEF TypeOK, Whole, Goto, Installing, Ready, Visiting, callVars
<1>1. CASE Leave(h) /\ UNCHANGED chromium /\ (lock' = lock \/ lock = h)
  <2>1. \A x \in Handlers \ {h} : /\ pc'[x] = pc[x] /\ path'[x] = path[x]
                                  /\ checker'[x] = checker[x]
                                  /\ pc[x] # "idle" => asked'[checker[x]] = asked[checker[x]]
    BY <1>1 DEF Leave, InCall
  <2>2. pc'[h] = "idle"
    BY <1>1 DEF Leave
  <2>3. ASSUME NEW x \in Handlers \ {h}
        PROVE  /\ pc[x] \in Installing \cup {"launch"} => lock' = x
               /\ pc[x] \in Visiting /\ asked'[checker'[x]] = "default" => chromium.exec
    BY <1>1, <2>1
  <2> QED
    BY <1>1, <2>1, <2>2, <2>3
<1>4. CASE Call(h)
  <2>1. /\ pc'[h] = "look" /\ UNCHANGED <<chromium, lock, checker, asked>>
        /\ \A x \in Handlers \ {h} : pc'[x] = pc[x]
    BY <1>4 DEF Call
  <2>2. \A x \in Handlers \ {h} : path'[x] = path[x]
    <3>1. PICK p : path' = [path EXCEPT ![h] = p]
      BY <1>4 DEF Call
    <3> QED
      BY <3>1
  <2> QED
    BY <2>1, <2>2
<1>5. CASE Look(h)         BY <1>5 DEF Look, Executable
<1>6. CASE Lock(h)
  <2>1. /\ lock = Nothing /\ UNCHANGED <<chromium, path, checker, asked>>
        /\ \A x \in Handlers \ {h} : pc'[x] = pc[x]
        /\ path[h] = "default" => Executable(path[h]) = {chromium.exec}
    BY <1>6 DEF Lock, Executable
  <2>2. \/ pc'[h] = "probe" /\ lock' = lock /\ TRUE \in Executable(path[h])
        \/ pc'[h] = "fetch" /\ lock' = h /\ FALSE \in Executable(path[h])
    BY <1>6 DEF Lock
  <2>3. \A x \in Handlers : pc[x] \notin Installing \cup {"launch"}
    BY <2>1
  <2> QED
    BY <2>1, <2>2, <2>3
<1>7. CASE Fetch(h)        BY <1>7 DEF Fetch
<1>8. CASE Extract(h)      BY <1>8 DEF Extract
<1>9. CASE Chmod(h)        BY <1>9 DEF Chmod
<1>10. CASE EnsureFails(h) BY <1>1, <1>10 DEF EnsureFails
<1>11. CASE Probe(h)
  <2>1. CASE Leave(h)
    BY <1>1, <1>11, <2>1 DEF Probe
  <2>2. CASE ~Leave(h)
    BY <1>11, <2>2 DEF Probe
  <2> QED
    BY <2>1, <2>2
<1>12. CASE Pick(h)        BY <1>12 DEF Pick, Update
<1>13. CASE Create(h)      BY <1>13 DEF Create
<1>14. CASE GetBrowser(h)  BY <1>14 DEF GetBrowser
<1>15. CASE Launched(h)    BY <1>15 DEF Launched
<1>16. CASE LaunchFails(h) BY <1>1, <1>16 DEF LaunchFails
<1>17. CASE Collect(h)     BY <1>17 DEF Collect
<1>18. CASE Return(h)      BY <1>1, <1>18 DEF Return
<1>19. CASE NoPages(h)     BY <1>1, <1>19 DEF NoPages
<1> QED
  BY <1>4, <1>5, <1>6, <1>7, <1>8, <1>9, <1>10, <1>11, <1>12, <1>13, <1>14, <1>15, <1>16, <1>17,
     <1>18, <1>19 DEF CallStep

\* The inductive invariant.
WebInv == TypeOK /\ Owned /\ Whole

\* What the variables are set to at a start has their types.
LEMMA FreshTypes ==
  /\ [h \in Handlers |-> "serial"] \in [Handlers -> Kinds]
  /\ [h \in Handlers |-> "default"] \in [Handlers -> Paths]
  /\ [h \in Handlers |-> Zero] \in [Handlers -> [Counters -> 0..MaxCount]]
  /\ [j \in Jobs |-> NoJob] \in [Jobs -> Job]
<1>1. Zero \in [Counters -> 0..MaxCount]
  BY BoundAssumption DEF Zero
<1> QED
  BY <1>1, NoJobType DEF Kinds, Paths

\* The invariant holds at the start,
LEMMA InitWebInv ==
  ASSUME Init PROVE WebInv
<1>1. TypeOK
  BY FreshTypes DEF Init, TypeOK
<1>2. Owned /\ Whole
  BY DEF Init, Owned, Whole, NoJob, Installing, Ready, Visiting
<1> QED
  BY <1>1, <1>2 DEF WebInv

\* and every step keeps it.
LEMMA NextWebInv ==
  ASSUME WebInv, [Next]_vars PROVE WebInv'
<1> USE DEF WebInv
<1>1. ASSUME NEW h \in Handlers, Call(h) \/ CallStep(h) PROVE WebInv'
  <2>1. TypeOK'
    BY <1>1, BeginTypes, CallTypes
  <2>2. Owned'
    BY <1>1, CallJobs DEF Owned
  <2> QED
    BY <1>1, <2>1, <2>2, CallWhole
<1>2. ASSUME NEW j \in Jobs, JobStep(j) PROVE WebInv'
  <2>1. /\ TypeOK' /\ Moves(j)
        /\ job[j].at = "queued" => pc[job[j].owner] \in {"requests", "pages"}
        /\ job[j].at # "none" /\ job[j].owner \in Handlers
        /\ UNCHANGED <<chromium, lock, pc, path, checker, asked>>
    BY <1>2, JobTypes
  <2>3. Whole'
    BY <2>1 DEF Whole
  <2> QED
    BY <2>1, <2>3 DEF Moves
<1>3. ASSUME NEW b \in Browsers, Die(b) PROVE WebInv'
  BY <1>3 DEF Die, Spoil, callVars, TypeOK, Owned, Whole
<1>4. CASE Hang
  BY <1>4 DEF Hang, callVars, TypeOK, Owned, Whole
<1>5. CASE Restart
  <2>1. TypeOK'
    BY <1>5, FreshTypes DEF Restart, TypeOK
  <2>2. Owned' /\ Whole'
    BY <1>5 DEF Restart, Owned, Whole, NoJob, Installing, Ready, Visiting
  <2> QED
    BY <2>1, <2>2
<1>6. CASE UNCHANGED vars
  BY <1>6 DEF vars, callVars, TypeOK, Owned, Whole
<1> QED
  BY <1>1, <1>2, <1>3, <1>4, <1>5, <1>6 DEF Next

\* In every reachable state.
THEOREM WebInvariant == Spec => []WebInv
<1>1. Init => WebInv
  BY InitWebInv
<1>2. WebInv /\ [Next]_vars => WebInv'
  BY NextWebInv
<1> QED
  BY <1>1, <1>2, PTL DEF Spec

\* The variables keep their types; no counter and no call names anyone who is not there.
THEOREM WebTypes == Spec => []TypeOK
<1>1. WebInv => TypeOK
  BY DEF WebInv
<1> QED
  BY <1>1, WebInvariant, PTL

-----------------------------------------------------------------------------
(* A call that no other overlaps *)

\* An alone call is the only one; a job is asked for by a call.
AloneOK  == \A h \in Handlers : alone[h] => InCall = {h}
Enlisted == \A j \in Jobs : job[j].owner # Nothing => pc[job[j].owner] # "idle"

\* The steps of a call after its first: the end, or a step that keeps the jobs.
LEMMA CallShape ==
  ASSUME TypeOK, NEW h \in Handlers, CallStep(h)
  PROVE  /\ pc[h] # "idle" /\ UNCHANGED hung
         /\ \A x \in Handlers \ {h} : pc'[x] = pc[x]
         /\ Leave(h) \/ (UNCHANGED <<job, kind, alone, spoilt>> /\ pc'[h] # "idle")
         /\ UNCHANGED <<browser, alive>> \/ Launched(h)
<1> USE DEF TypeOK, Goto, callVars, Leave
<1>1. CASE Look(h)         BY <1>1 DEF Look
<1>2. CASE Lock(h)         BY <1>2 DEF Lock
<1>3. CASE Fetch(h)        BY <1>3 DEF Fetch
<1>4. CASE Extract(h)      BY <1>4 DEF Extract
<1>5. CASE Chmod(h)        BY <1>5 DEF Chmod
<1>6. CASE EnsureFails(h)  BY <1>6 DEF EnsureFails
<1>7. CASE Probe(h)        BY <1>7 DEF Probe
<1>8. CASE Pick(h)         BY <1>8 DEF Pick, Update
<1>9. CASE Create(h)       BY <1>9 DEF Create
<1>10. CASE GetBrowser(h)  BY <1>10 DEF GetBrowser
<1>11. CASE Launched(h)    BY <1>11 DEF Launched
<1>12. CASE LaunchFails(h) BY <1>12 DEF LaunchFails
<1>13. CASE Collect(h)     BY <1>13 DEF Collect
<1>14. CASE Return(h)      BY <1>14 DEF Return
<1>15. CASE NoPages(h)     BY <1>15 DEF NoPages
<1> QED
  BY <1>1, <1>2, <1>3, <1>4, <1>5, <1>6, <1>7, <1>8, <1>9, <1>10, <1>11, <1>12, <1>13, <1>14,
     <1>15 DEF CallStep

\* The end of a call, for it and for the others.
LEMMA LeaveShape ==
  ASSUME TypeOK, NEW h \in Handlers, Leave(h)
  PROVE  /\ pc'[h] = "idle" /\ ~alone'[h]
         /\ \A x \in Handlers \ {h} : /\ pc'[x] = pc[x] /\ kind'[x] = kind[x] /\ checker'[x] = checker[x]
                                      /\ alone'[x] = alone[x] /\ spoilt'[x] = spoilt[x]
         /\ \A j \in Jobs : job'[j] = IF job[j].owner = h THEN NoJob ELSE job[j]
BY DEF TypeOK, Leave, Goto, JobsOf

\* A call's first step: its jobs are queued.
LEMMA BeginShape ==
  ASSUME TypeOK, NEW h \in Handlers, Call(h)
  PROVE  /\ pc[h] = "idle" /\ pc'[h] = "look"
         /\ \A x \in Handlers \ {h} : /\ pc'[x] = pc[x] /\ kind'[x] = kind[x] /\ ~alone'[x]
         /\ alone'[h] = (InCall = {})
         /\ UNCHANGED <<browser, alive, checker, counts>>
         /\ \E mine \in SUBSET Free :
              /\ mine # {}
              /\ \A j \in mine : /\ job'[j].owner = h /\ job'[j].at = "queued" /\ ~job'[j].again
                                 /\ job'[j].verdict = "none"
              /\ \A j \in Jobs \ mine : job'[j] = job[j]
<1>1. PICK mine \in SUBSET Free :
        /\ mine # {}
        /\ job' = [i \in Jobs |->
                   IF i \in mine THEN [NoJob EXCEPT !.owner = h, !.at = "queued"] ELSE job[i]]
  BY Zenon DEF Call
<1>2. /\ \A j \in mine : /\ job'[j].owner = h /\ job'[j].at = "queued" /\ ~job'[j].again
                         /\ job'[j].verdict = "none"
      /\ \A j \in Jobs \ mine : job'[j] = job[j]
  BY <1>1 DEF NoJob, Free
<1>3. \A x \in Handlers \ {h} : kind'[x] = kind[x]
  <2>1. PICK k \in KindsOf(h) : kind' = [kind EXCEPT ![h] = k]  BY Zenon DEF Call
  <2> QED  BY <2>1 DEF TypeOK
<1> QED  BY <1>1, <1>2, <1>3 DEF Call, Goto, TypeOK

\* What the steps of a job do to it.
LEMMA JobShape ==
  ASSUME TypeOK, NEW j \in Jobs
  PROVE  /\ Ask(j) => /\ job'[j].owner = job[j].owner /\ job'[j].at = "total"
                      /\ job'[j].verdict \in {"yes", "no"} /\ job'[j].read = Counter(j).total
         /\ AddTotal(j) => /\ job'[j].owner = job[j].owner /\ job'[j].at = "outcome"
                           /\ job'[j].verdict = job[j].verdict
         /\ ReadOutcome(j) => /\ job'[j].owner = job[j].owner /\ job'[j].at = "store"
                              /\ job'[j].verdict = job[j].verdict
                              /\ job'[j].read = Counter(j)[Field(j)]
         /\ AddOutcome(j) => /\ job'[j].owner = job[j].owner /\ job'[j].at = "done"
                             /\ job'[j].verdict = job[j].verdict
         /\ \A v : Finish(j, v) => /\ job'[j].owner = job[j].owner /\ job'[j].at = "done"
                                   /\ job'[j].verdict = v
<1>1. job[j] \in Job /\ job \in [Jobs -> Job]  BY DEF TypeOK
<1>2. Ask(j) => /\ job'[j].owner = job[j].owner /\ job'[j].at = "total"
                /\ job'[j].verdict \in {"yes", "no"} /\ job'[j].read = Counter(j).total
  BY <1>1 DEF Ask, Job
<1>3. AddTotal(j) => /\ job'[j].owner = job[j].owner /\ job'[j].at = "outcome"
                     /\ job'[j].verdict = job[j].verdict
  BY <1>1 DEF AddTotal, Job
<1>4. ReadOutcome(j) => /\ job'[j].owner = job[j].owner /\ job'[j].at = "store"
                        /\ job'[j].verdict = job[j].verdict
                        /\ job'[j].read = Counter(j)[Field(j)]
  BY <1>1 DEF ReadOutcome, Job
<1>5. AddOutcome(j) => /\ job'[j].owner = job[j].owner /\ job'[j].at = "done"
                       /\ job'[j].verdict = job[j].verdict
  BY <1>1 DEF AddOutcome, Job
<1>6. \A v : Finish(j, v) => /\ job'[j].owner = job[j].owner /\ job'[j].at = "done"
                             /\ job'[j].verdict = v
  BY <1>1 DEF Finish, NoJob
<1> QED  BY <1>2, <1>3, <1>4, <1>5, <1>6

\* The same for a task's way to the browser.
LEMMA TaskShape ==
  ASSUME TypeOK, NEW j \in Jobs
  PROVE  /\ Broken(j) /\ ~job[j].again =>
              /\ job'[j].owner = job[j].owner /\ job'[j].verdict = job[j].verdict
              /\ job'[j].at = IF browser \in alive THEN "closing" ELSE "launching"
         /\ Visit(j) /\ ~(Broken(j) /\ browser \notin alive) =>
              /\ job'[j].owner = job[j].owner /\ job'[j].verdict = job[j].verdict
              /\ \/ job'[j].at = "launching"
                 \/ job'[j].at = "opening" /\ job'[j].uses = browser /\ browser \in alive
         /\ Relaunched(j) =>
              /\ job'[j].owner = job[j].owner /\ job'[j].verdict = job[j].verdict
              /\ job'[j].at = "opening" /\ job'[j].uses = Fresh
         /\ Opened(j) /\ job[j].uses \in alive =>
              /\ job'[j].owner = job[j].owner /\ job'[j].verdict = job[j].verdict
              /\ job'[j].at = "loading" /\ job'[j].uses = job[j].uses
         /\ Closed(j) =>
              /\ job'[j].owner = job[j].owner /\ job'[j].verdict = job[j].verdict
              /\ job'[j].at = "launching"
<1>1. job[j] \in Job /\ job \in [Jobs -> Job]  BY DEF TypeOK
<1>2. Broken(j) /\ ~job[j].again =>
        /\ job'[j].owner = job[j].owner /\ job'[j].verdict = job[j].verdict
        /\ job'[j].at = IF browser \in alive THEN "closing" ELSE "launching"
  BY <1>1 DEF Broken, Job
<1>3. Visit(j) /\ ~(Broken(j) /\ browser \notin alive) =>
        /\ job'[j].owner = job[j].owner /\ job'[j].verdict = job[j].verdict
        /\ \/ job'[j].at = "launching"
           \/ job'[j].at = "opening" /\ job'[j].uses = browser /\ browser \in alive
  BY <1>1 DEF Visit, Job
<1>4. Relaunched(j) =>
        /\ job'[j].owner = job[j].owner /\ job'[j].verdict = job[j].verdict
        /\ job'[j].at = "opening" /\ job'[j].uses = Fresh
  BY <1>1 DEF Relaunched, Job
<1>5. Opened(j) /\ job[j].uses \in alive =>
        /\ job'[j].owner = job[j].owner /\ job'[j].verdict = job[j].verdict
        /\ job'[j].at = "loading" /\ job'[j].uses = job[j].uses
  BY <1>1 DEF Opened, Job
<1>6. Closed(j) =>
        /\ job'[j].owner = job[j].owner /\ job'[j].verdict = job[j].verdict
        /\ job'[j].at = "launching"
  BY <1>1 DEF Closed, Job
<1> QED  BY <1>2, <1>3, <1>4, <1>5, <1>6

\* A job's step keeps its owner, the calls and whether they are alone.
LEMMA JobFrame ==
  ASSUME TypeOK, Owned, NEW j \in Jobs, JobStep(j)
  PROVE  /\ UNCHANGED <<pc, kind, checker, alone>>
         /\ \A i \in Jobs : job'[i].owner = job[i].owner
         /\ \A i \in Jobs \ {j} : job'[i] = job[i]
         /\ job[j].owner \in Handlers /\ job[j].at # "none"
<1>1. UNCHANGED <<pc, kind, checker, alone>>
  BY DEF JobStep, Ask, AddTotal, ReadOutcome, AddOutcome, Visit, Relaunched, RelaunchFails, Opened,
         Closed, Loaded, callVars
<1>2. Moves(j) /\ job[j].owner \in Handlers /\ job[j].at # "none"  BY JobTypes
<1>3. Broken(j) => job'[j].owner = job[j].owner
  BY JobShape, TaskShape DEF Broken
<1>4. job'[j].owner = job[j].owner
  BY <1>3, JobShape, TaskShape DEF JobStep, RelaunchFails, Opened, Loaded
<1> QED  BY <1>1, <1>2, <1>4 DEF Moves

LEMMA AloneStep ==
  ASSUME TypeOK, Owned, AloneOK, Enlisted, [Next]_vars
  PROVE  AloneOK' /\ Enlisted'
<1> USE DEF AloneOK, Enlisted, InCall
<1>1. ASSUME NEW h \in Handlers, Call(h) PROVE AloneOK' /\ Enlisted'
  <2>1. AloneOK'
    <3>1. SUFFICES ASSUME NEW x \in Handlers, alone'[x] PROVE InCall' = {x}  OBVIOUS
    <3>2. x = h /\ InCall = {}  BY <1>1, <3>1, BeginShape
    <3>3. \A y \in Handlers : pc'[y] # "idle" <=> y = h  BY <1>1, <3>2, BeginShape
    <3> QED  BY <3>2, <3>3
  <2>2. ASSUME NEW j \in Jobs, job'[j].owner # Nothing PROVE pc'[job'[j].owner] # "idle"
    BY <1>1, <2>2, BeginShape DEF TypeOK, Job
  <2> QED  BY <2>1, <2>2
<1>2. ASSUME NEW h \in Handlers, CallStep(h) PROVE AloneOK' /\ Enlisted'
  <2>1. CASE Leave(h)
    <3>1. AloneOK'  BY <1>2, <2>1, CallShape, LeaveShape
    <3>2. ASSUME NEW j \in Jobs, job'[j].owner # Nothing PROVE pc'[job'[j].owner] # "idle"
      <4>1. job'[j] = job[j] /\ job[j].owner # h  BY <2>1, <3>2, LeaveShape DEF NoJob
      <4>2. job[j].owner \in Handlers \ {h}  BY <3>2, <4>1 DEF TypeOK, Job
      <4> QED  BY <2>1, <3>2, <4>1, <4>2, LeaveShape
    <3> QED  BY <3>1, <3>2
  <2>2. CASE ~Leave(h)
    <3>1. /\ UNCHANGED <<job, alone>> /\ pc[h] # "idle" /\ pc'[h] # "idle"
          /\ \A x \in Handlers \ {h} : pc'[x] = pc[x]
      BY <1>2, <2>2, CallShape
    <3> QED  BY <3>1 DEF TypeOK, Job
  <2> QED  BY <2>1, <2>2
<1>3. ASSUME NEW j \in Jobs, JobStep(j) PROVE AloneOK' /\ Enlisted'
  BY <1>3, JobFrame
<1>4. ASSUME NEW b \in Browsers, Die(b) PROVE AloneOK' /\ Enlisted'
  BY <1>4 DEF Die, callVars
<1>5. CASE Hang  BY <1>5 DEF Hang, callVars
<1>6. CASE Restart  BY <1>6 DEF Restart, NoJob
<1>7. CASE UNCHANGED vars  BY <1>7 DEF vars, callVars
<1> QED  BY <1>1, <1>2, <1>3, <1>4, <1>5, <1>6, <1>7 DEF Next

\* With an alone call there are no other jobs than its own.
LEMMA OnlyOwn ==
  ASSUME TypeOK, AloneOK, Enlisted, NEW h \in Handlers, alone[h],
         NEW j \in Jobs, job[j].owner # Nothing
  PROVE  job[j].owner = h
BY DEF TypeOK, Job, AloneOK, Enlisted, InCall

\* As long as nothing dies and every start succeeds, the tasks of an alone call open
\* their pages in a browser that runs, and none has closed one, or failed twice.
TaskOK(j) ==
  /\ job[j].at # "closing" /\ job[j].verdict # "lost"
  /\ job[j].at = "queued" => ~job[j].again
  /\ job[j].at \in {"opening", "loading"} => job[j].uses \in alive

HiddenOK == \A h \in Handlers : alone[h] /\ ~spoilt[h] => \A j \in JobsOf(h) : TaskOK(j)

LEMMA HiddenStep ==
  ASSUME TypeOK, Owned, AloneOK, Enlisted, HiddenOK, [Next]_vars
  PROVE  HiddenOK'
<1> SUFFICES ASSUME NEW h \in Handlers, alone'[h], ~spoilt'[h], NEW j \in Jobs, job'[j].owner = h
             PROVE  TaskOK(j)'
  BY DEF HiddenOK, JobsOf
<1>1. ASSUME alone[h], ~spoilt[h], job[j].owner = h PROVE TaskOK(j)
  BY <1>1 DEF HiddenOK, JobsOf
<1>2. ASSUME NEW x \in Handlers, Call(x) PROVE TaskOK(j)'
  <2>1. x = h /\ InCall = {}  BY <1>2, BeginShape
  <2>2. job[j].owner # h  BY <2>1, SentinelAssumption DEF Enlisted, InCall
  <2>3. job'[j].at = "queued" /\ ~job'[j].again /\ job'[j].verdict = "none"
    BY <1>2, <2>1, <2>2, BeginShape
  <2> QED  BY <2>3 DEF TaskOK
<1>3. ASSUME NEW x \in Handlers, CallStep(x) PROVE TaskOK(j)'
  <2>1. ~Leave(x)
    <3>1. SUFFICES ASSUME Leave(x) PROVE FALSE  OBVIOUS
    <3>2. x # h /\ alone[h]  BY <3>1, LeaveShape
    <3> QED  BY <1>3, <3>2, CallShape DEF AloneOK, InCall
  <2>2. UNCHANGED <<job, alone, spoilt>>  BY <1>3, <2>1, CallShape
  <2>3. \A b \in Held : b \in alive => b \in alive'
    BY <1>3, CallShape DEF Launched, Start, Unused
  <2>4. job[j].uses \in Held  BY DEF Held
  <2> QED  BY <1>1, <2>2, <2>3, <2>4 DEF TaskOK
<1>4. ASSUME NEW i \in Jobs, JobStep(i) PROVE TaskOK(j)'
  <2>1. /\ alone[h] /\ job[j].owner = h /\ job[i].owner \in Handlers
        /\ \A k \in Jobs \ {i} : job'[k] = job[k]
    BY <1>4, JobFrame
  <2>3. ~RelaunchFails(i) /\ ~spoilt[h] /\ spoilt' = spoilt
    BY <1>4, <2>1 DEF JobStep, Ask, AddTotal, ReadOutcome, AddOutcome, Visit, Relaunched,
                      RelaunchFails, Opened, Closed, Loaded, Spoil
  <2>4. job[i].owner = h  BY <2>1, SentinelAssumption, OnlyOwn
  <2>5. TaskOK(i) /\ TaskOK(j)  BY <2>1, <2>3, <2>4, <1>1 DEF HiddenOK, JobsOf
  <2>6. ~Closed(i)  BY <2>5 DEF Closed, TaskOK
  <2>7. \A b \in Held : b \in alive => b \in alive'
    BY <1>4, <2>3, <2>6 DEF JobStep, Ask, AddTotal, ReadOutcome, AddOutcome, Visit, Relaunched,
                      Opened, Loaded, Start, Unused
  <2>8. CASE i # j
    <3>1. job[j].uses \in Held  BY DEF Held
    <3> QED  BY <2>1, <2>5, <2>7, <2>8, <3>1 DEF TaskOK
  <2>9. CASE i = j
    <3>1. CASE Ask(j) \/ AddTotal(j) \/ ReadOutcome(j) \/ AddOutcome(j)
      BY <2>5, <3>1, JobShape DEF TaskOK
    <3>2. CASE Visit(j)
      <4>1. ~job[j].again  BY <2>5, <3>2 DEF Visit, TaskOK
      <4>2. alive' = alive  BY <3>2 DEF Visit
      <4>3. CASE Broken(j) /\ browser \notin alive  BY <2>5, <4>1, <4>3, TaskShape DEF TaskOK
      <4>4. CASE ~(Broken(j) /\ browser \notin alive)
        BY <2>5, <3>2, <4>2, <4>4, TaskShape DEF TaskOK
      <4> QED  BY <4>3, <4>4
    <3>3. CASE Relaunched(j)
      <4>1. Fresh \in alive'  BY <3>3 DEF Relaunched, Start
      <4>2. job'[j].uses \in alive'  BY <3>3, <4>1, TaskShape
      <4> QED  BY <2>5, <3>3, <4>2, TaskShape DEF TaskOK
    <3>4. CASE Opened(j)
      <4>1. job[j].uses \in alive /\ alive' = alive  BY <2>5, <3>4 DEF Opened, TaskOK
      <4> QED  BY <2>5, <3>4, <4>1, TaskShape DEF TaskOK
    <3>5. CASE Loaded(j)
      <4>1. PICK v \in {"yes", "no"} : Finish(j, v)  BY <3>5 DEF Loaded
      <4> QED  BY <4>1, JobShape DEF TaskOK
    <3> QED  BY <1>4, <2>3, <2>6, <2>9, <3>1, <3>2, <3>3, <3>4, <3>5 DEF JobStep
  <2> QED  BY <2>8, <2>9
<1>5. ASSUME NEW b \in Browsers, Die(b) PROVE TaskOK(j)'
  BY <1>5 DEF Die, Spoil, callVars
<1>6. CASE Hang  BY <1>1, <1>6 DEF Hang, callVars, TaskOK
<1>7. CASE Restart  BY <1>7 DEF Restart
<1>8. CASE UNCHANGED vars  BY <1>1, <1>8 DEF vars, callVars, TaskOK
<1> QED  BY <1>2, <1>3, <1>4, <1>5, <1>6, <1>7, <1>8 DEF Next

-----------------------------------------------------------------------------
(* What the counters of an alone call count *)

Underway == {"total", "outcome", "store"}

\* Where a call's jobs may be, by the call's place and kind.
PlaceOK ==
  \A h \in Handlers :
    /\ pc[h] = "requests" => kind[h] # "browser"
    /\ pc[h] \in {"browser", "launch", "pages"} => kind[h] = "browser"
    /\ pc[h] # "idle" => JobsOf(h) # {}
    /\ \A j \in JobsOf(h) :
         /\ pc[h] \notin {"requests", "pages", "answer"} => job[j].at = "queued"
         /\ pc[h] = "answer" => job[j].at = "done"
         /\ kind[h] # "browser" => job[j].at \in {"queued", "done"} \cup Underway
         /\ kind[h] # "browser" /\ job[j].at # "queued" => job[j].verdict \in {"yes", "no"}

\* The places a call moves between.
LEMMA CallPlaces ==
  ASSUME TypeOK, PlaceOK, NEW h \in Handlers, CallStep(h), ~Leave(h)
  PROVE  /\ pc'[h] = "requests" => Pick(h) /\ kind[h] # "browser"
         /\ pc'[h] \in {"browser", "launch", "pages"} => kind[h] = "browser"
         /\ pc'[h] = "answer" => Collect(h)
         /\ pc[h] \in {"requests", "pages", "answer"} => pc'[h] = "answer"
<1> USE DEF TypeOK, Goto
<1>1. CASE Look(h)         BY <1>1 DEF Look
<1>2. CASE Lock(h)         BY <1>2 DEF Lock
<1>3. CASE Fetch(h)        BY <1>3 DEF Fetch
<1>4. CASE Extract(h)      BY <1>4 DEF Extract
<1>5. CASE Chmod(h)        BY <1>5 DEF Chmod
<1>6. CASE EnsureFails(h)  BY <1>6 DEF EnsureFails
<1>7. CASE Probe(h)        BY <1>7 DEF Probe
<1>8. CASE Pick(h)         BY <1>8 DEF Pick, Update
<1>9. CASE Create(h)       BY <1>9 DEF Create
<1>10. CASE GetBrowser(h)  BY <1>10 DEF GetBrowser, PlaceOK
<1>11. CASE Launched(h)    BY <1>11 DEF Launched, PlaceOK
<1>12. CASE LaunchFails(h) BY <1>12 DEF LaunchFails
<1>13. CASE Collect(h)     BY <1>13 DEF Collect
<1>14. CASE Return(h)      BY <1>14 DEF Return
<1>15. CASE NoPages(h)     BY <1>15 DEF NoPages
<1> QED
  BY <1>1, <1>2, <1>3, <1>4, <1>5, <1>6, <1>7, <1>8, <1>9, <1>10, <1>11, <1>12, <1>13, <1>14,
     <1>15 DEF CallStep

\* The jobs of a call by requests take the four steps of run_single, and any job moves
\* only while its call waits for it.
LEMMA JobKinds ==
  ASSUME TypeOK, Owned, PlaceOK, NEW j \in Jobs, JobStep(j)
  PROVE  LET h == job[j].owner IN
         /\ h \in Handlers /\ pc[h] \in {"requests", "pages"}
         /\ kind[h] # "browser" => Ask(j) \/ AddTotal(j) \/ ReadOutcome(j) \/ AddOutcome(j)
         /\ Ask(j) \/ AddTotal(j) \/ ReadOutcome(j) \/ AddOutcome(j) \/ kind[h] = "browser"
<1> DEFINE h == job[j].owner
<1>1. h \in Handlers /\ j \in JobsOf(h) /\ job[j].at # "none"  BY JobFrame DEF JobsOf
<1>2. /\ job[j].at = "queued" => pc[h] \in {"requests", "pages"}
      /\ job[j].at # "done"
  BY DEF JobStep, Ask, AddTotal, ReadOutcome, AddOutcome, Visit, Relaunched, RelaunchFails, Opened,
         Closed, Loaded
<1>3. pc[h] \in {"requests", "pages"}  BY <1>1, <1>2 DEF PlaceOK
<1>4. Visit(j) => kind[h] = "browser"  BY <1>1 DEF Visit, PlaceOK
<1>5. Relaunched(j) \/ RelaunchFails(j) \/ Opened(j) \/ Closed(j) \/ Loaded(j) => kind[h] = "browser"
  BY <1>1 DEF Relaunched, RelaunchFails, Opened, Closed, Loaded, PlaceOK, Underway
<1> QED  BY <1>1, <1>3, <1>4, <1>5 DEF JobStep

LEMMA PlaceStep ==
  ASSUME TypeOK, Owned, AloneOK, Enlisted, PlaceOK, [Next]_vars
  PROVE  PlaceOK'
<1> DEFINE Place(h, f) ==
             /\ pc[h] = "requests" => kind[h] # "browser"
             /\ pc[h] \in {"browser", "launch", "pages"} => kind[h] = "browser"
             /\ pc[h] # "idle" => \E j \in Jobs : f[j].owner = h
             /\ \A j \in Jobs : f[j].owner = h =>
                  /\ pc[h] \notin {"requests", "pages", "answer"} => f[j].at = "queued"
                  /\ pc[h] = "answer" => f[j].at = "done"
                  /\ kind[h] # "browser" => f[j].at \in {"queued", "done"} \cup Underway
                  /\ kind[h] # "browser" /\ f[j].at # "queued" => f[j].verdict \in {"yes", "no"}
<1>1. ASSUME NEW h \in Handlers PROVE Place(h, job)  BY DEF PlaceOK, JobsOf
<1>2. SUFFICES ASSUME NEW h \in Handlers PROVE Place(h, job)'  BY <1>2 DEF PlaceOK, JobsOf
<1>3. ASSUME NEW x \in Handlers, Call(x) PROVE Place(h, job)'
  <2>1. CASE x = h
    <3>1. pc[h] = "idle" /\ pc'[h] = "look"  BY <1>3, <2>1, BeginShape
    <3>2. \A j \in Jobs : job[j].owner # h  BY <3>1, SentinelAssumption DEF Enlisted
    <3>3. PICK mine \in SUBSET Free :
            /\ mine # {}
            /\ \A j \in mine : job'[j].owner = h /\ job'[j].at = "queued"
            /\ \A j \in Jobs \ mine : job'[j] = job[j]
      BY <1>3, <2>1, BeginShape
    <3>4. mine \subseteq Jobs  BY DEF Free
    <3>5. \A j \in Jobs : job'[j].owner = h => job'[j].at = "queued"  BY <3>2, <3>3
    <3>6. \E j \in Jobs : job'[j].owner = h  BY <3>3, <3>4
    <3> QED  BY <3>1, <3>5, <3>6
  <2>2. CASE x # h
    <3>1. pc'[h] = pc[h] /\ kind'[h] = kind[h]  BY <1>3, <2>2, BeginShape
    <3>2. \A j \in Jobs : job'[j].owner = h => job'[j] = job[j]  BY <1>3, <2>2, BeginShape
    <3>3. \A j \in Jobs : job[j].owner = h => job'[j] = job[j]
      BY <1>3, SentinelAssumption, BeginShape DEF Free, NoJob
    <3> QED  BY <1>1, <3>1, <3>2, <3>3
  <2> QED  BY <2>1, <2>2
<1>4. ASSUME NEW x \in Handlers, CallStep(x) PROVE Place(h, job)'
  <2>1. CASE Leave(x)
    <3>1. CASE x = h
      <4>1. pc'[h] = "idle" /\ \A j \in Jobs : job'[j].owner # h
        BY <2>1, <3>1, LeaveShape, SentinelAssumption DEF NoJob
      <4> QED  BY <4>1
    <3>2. CASE x # h
      <4>1. pc'[h] = pc[h] /\ kind'[h] = kind[h]  BY <2>1, <3>2, LeaveShape
      <4>2. \A j \in Jobs : job[j].owner = h \/ job'[j].owner = h => job'[j] = job[j]
        BY <2>1, <3>2, LeaveShape, SentinelAssumption DEF NoJob
      <4> QED  BY <1>1, <4>1, <4>2
    <3> QED  BY <3>1, <3>2
  <2>2. CASE ~Leave(x)
    <3>1. /\ UNCHANGED <<job, kind>> /\ pc[x] # "idle" /\ pc'[x] # "idle"
          /\ \A y \in Handlers \ {x} : pc'[y] = pc[y]
      BY <1>4, <2>2, CallShape
    <3>2. CASE x # h  BY <1>1, <3>1, <3>2
    <3>3. CASE x = h
      <4>1. /\ pc'[h] = "requests" => kind[h] # "browser"
            /\ pc'[h] \in {"browser", "launch", "pages"} => kind[h] = "browser"
            /\ pc'[h] = "answer" => Collect(h)
            /\ pc[h] \in {"requests", "pages", "answer"} => pc'[h] = "answer"
        BY <1>4, <2>2, <3>3, CallPlaces
      <4>2. pc'[h] = "answer" => \A j \in Jobs : job[j].owner = h => job[j].at = "done"
        BY <4>1 DEF Collect, JobsOf
      <4> QED  BY <1>1, <3>1, <3>3, <4>1, <4>2
    <3> QED  BY <3>2, <3>3
  <2> QED  BY <2>1, <2>2
<1>5. ASSUME NEW i \in Jobs, JobStep(i) PROVE Place(h, job)'
  <2>1. /\ UNCHANGED <<pc, kind>> /\ \A j \in Jobs : job'[j].owner = job[j].owner
        /\ \A j \in Jobs \ {i} : job'[j] = job[j]
    BY <1>5, JobFrame
  <2>2. CASE job[i].owner # h  BY <1>1, <2>1, <2>2
  <2>3. CASE job[i].owner = h
    <3>1. pc[h] \in {"requests", "pages"}
      BY <1>5, <2>3, JobKinds
    <3>2. ASSUME kind[h] # "browser"
          PROVE  job'[i].at \in {"done"} \cup Underway /\ job'[i].verdict \in {"yes", "no"}
      <4>1. Ask(i) \/ AddTotal(i) \/ ReadOutcome(i) \/ AddOutcome(i)
        BY <1>5, <2>3, <3>2, JobKinds
      <4>2. CASE Ask(i)  BY <4>2, JobShape DEF Underway
      <4>3. CASE ~Ask(i)
        <5>1. job[i].verdict \in {"yes", "no"}
          BY <1>1, <2>3, <3>2, <4>1, <4>3 DEF AddTotal, ReadOutcome, AddOutcome
        <5> QED  BY <4>1, <4>3, <5>1, JobShape DEF Underway
      <4> QED  BY <4>2, <4>3
    <3> QED  BY <1>1, <2>1, <2>3, <3>1, <3>2
  <2> QED  BY <2>2, <2>3
<1>6. ASSUME NEW b \in Browsers, Die(b) PROVE Place(h, job)'
  BY <1>1, <1>6 DEF Die, callVars
<1>7. CASE Hang  BY <1>1, <1>7 DEF Hang, callVars
<1>8. CASE Restart
  <2>1. pc'[h] = "idle" /\ \A j \in Jobs : job'[j].owner # h
    BY <1>8, SentinelAssumption DEF Restart, NoJob
  <2> QED  BY <2>1
<1>9. CASE UNCHANGED vars  BY <1>1, <1>9 DEF vars, callVars
<1> QED  BY <1>3, <1>4, <1>5, <1>6, <1>7, <1>8, <1>9 DEF Next

\* The jobs of a call that have added to r_checker's total, and those that have added to
\* its success or fail.
Counted(h)    == {j \in JobsOf(h) : job[j].at \in {"outcome", "store", "done"}}
Settled(h, v) == {j \in JobsOf(h) : job[j].at = "done" /\ job[j].verdict = v}

\* The counters say no more than was counted, and something if anything was; what a job has
\* read it may store.  With one worker thread nothing is lost.
Tally(h) ==
  LET said == counts[checker[h]] IN
  /\ said.total <= Cardinality(Counted(h)) /\ (Counted(h) # {} => said.total > 0)
  /\ said.success <= Cardinality(Settled(h, "yes"))
  /\ said.fail <= Cardinality(Settled(h, "no"))
  /\ \A j \in JobsOf(h) :
       /\ job[j].at = "total" => job[j].read <= Cardinality(Counted(h))
       /\ \A v \in {"yes", "no"} :
            job[j].at = "store" /\ job[j].verdict = v => job[j].read <= Cardinality(Settled(h, v))

Exact(h) ==
  LET said == counts[checker[h]] IN
  /\ said.total = Cardinality(Counted(h))
  /\ said.success = Cardinality(Settled(h, "yes"))
  /\ said.fail = Cardinality(Settled(h, "no"))
  /\ \A i, j \in JobsOf(h) : job[i].at \in Underway /\ job[j].at \in Underway => i = j
  /\ \A j \in JobsOf(h) :
       /\ job[j].at = "total" => job[j].read = Cardinality(Counted(h))
       /\ \A v \in {"yes", "no"} :
            job[j].at = "store" /\ job[j].verdict = v => job[j].read = Cardinality(Settled(h, v))

CountOK ==
  \A h \in Handlers : alone[h] /\ kind[h] # "browser" /\ pc[h] \in {"requests", "answer"} =>
     Tally(h) /\ (kind[h] = "serial" => Exact(h))

\* Every set of jobs is finite, and a job that joins it makes it larger by one.
LEMMA JobSets ==
  ASSUME NEW S \in SUBSET Jobs
  PROVE  /\ IsFiniteSet(S) /\ Cardinality(S) \in 0..MaxJobs
         /\ S # {} => Cardinality(S) > 0
         /\ \A j \in Jobs \ S : /\ Cardinality(S \cup {j}) = Cardinality(S) + 1
                                /\ Cardinality(S) < MaxJobs
<1>1. IsFiniteSet(Jobs) /\ Cardinality(Jobs) = MaxJobs
  <2>1. 1 \in Int /\ MaxJobs \in Int /\ MaxJobs \in Nat  BY BoundAssumption
  <2>2. IsFiniteSet(1..MaxJobs) /\ Cardinality(1..MaxJobs) = IF 1 > MaxJobs THEN 0 ELSE MaxJobs - 1 + 1
    BY <2>1, FS_Interval
  <2> QED  BY <2>1, <2>2 DEF Jobs
<1>2. \A T \in SUBSET Jobs : IsFiniteSet(T) /\ Cardinality(T) \in Nat /\ Cardinality(T) <= MaxJobs
  BY <1>1, FS_Subset, FS_CardinalityType
<1>3. S # {} => Cardinality(S) > 0  BY <1>2, FS_EmptySet
<1>4. ASSUME NEW j \in Jobs \ S
      PROVE  Cardinality(S \cup {j}) = Cardinality(S) + 1 /\ Cardinality(S) < MaxJobs
  <2>1. Cardinality(S \cup {j}) = Cardinality(S) + 1  BY <1>2, FS_AddElement
  <2>2. S \cup {j} \in SUBSET Jobs  OBVIOUS
  <2>3. Cardinality(S \cup {j}) <= MaxJobs /\ Cardinality(S) \in Nat  BY <1>2, <2>2
  <2>4. MaxJobs \in Nat  BY BoundAssumption
  <2> QED  BY <2>1, <2>3, <2>4
<1> QED  BY <1>2, <1>3, <1>4, BoundAssumption

\* What a job's step does to the two sets of its call.
LEMMA SetsStep ==
  ASSUME TypeOK, Owned, NEW h \in Handlers, NEW i \in Jobs, job[i].owner = h,
         Ask(i) \/ AddTotal(i) \/ ReadOutcome(i) \/ AddOutcome(i)
  PROVE  /\ i \in JobsOf(h) /\ JobsOf(h)' = JobsOf(h)
         /\ AddTotal(i) => i \notin Counted(h) /\ Counted(h)' = Counted(h) \cup {i}
         /\ ~AddTotal(i) => Counted(h)' = Counted(h)
         /\ \A v : AddOutcome(i) /\ v = job[i].verdict =>
               i \notin Settled(h, v) /\ Settled(h, v)' = Settled(h, v) \cup {i}
         /\ \A v : ~AddOutcome(i) \/ v # job[i].verdict => Settled(h, v)' = Settled(h, v)
<1>1. /\ \A j \in Jobs : job'[j].owner = job[j].owner
      /\ \A j \in Jobs \ {i} : job'[j] = job[j]
  BY JobFrame DEF JobStep
<1>2. i \in JobsOf(h) /\ JobsOf(h)' = JobsOf(h)  BY <1>1 DEF JobsOf
<1>3. /\ Counted(h) \subseteq Jobs /\ Counted(h)' \subseteq Jobs
      /\ \A j \in Jobs : j \in Counted(h) <=> job[j].owner = h /\ job[j].at \in {"outcome", "store", "done"}
      /\ \A j \in Jobs : j \in Counted(h)' <=> job'[j].owner = h /\ job'[j].at \in {"outcome", "store", "done"}
  BY DEF Counted, JobsOf
<1>4. ASSUME NEW v
      PROVE  /\ Settled(h, v) \subseteq Jobs /\ Settled(h, v)' \subseteq Jobs
             /\ \A j \in Jobs : j \in Settled(h, v) <=> job[j].owner = h /\ job[j].at = "done" /\ job[j].verdict = v
             /\ \A j \in Jobs : j \in Settled(h, v)' <=> job'[j].owner = h /\ job'[j].at = "done" /\ job'[j].verdict = v
  BY DEF Settled, JobsOf
<1>5. /\ AddTotal(i) => i \notin Counted(h) /\ Counted(h)' = Counted(h) \cup {i}
      /\ ~AddTotal(i) => Counted(h)' = Counted(h)
  <2>1. AddTotal(i) => job[i].at = "total" /\ job'[i].at = "outcome"  BY JobShape DEF AddTotal
  <2>2. ~AddTotal(i) => \/ job[i].at = "queued" /\ job'[i].at = "total"
                        \/ job[i].at = "outcome" /\ job'[i].at = "store"
                        \/ job[i].at = "store" /\ job'[i].at = "done"
    BY JobShape DEF Ask, ReadOutcome, AddOutcome
  <2>3. ASSUME AddTotal(i) PROVE i \notin Counted(h) /\ Counted(h)' = Counted(h) \cup {i}
    <3>1. i \notin Counted(h)  BY <1>3, <2>1, <2>3
    <3>2. \A j \in Jobs : j \in Counted(h)' <=> j \in Counted(h) \cup {i}  BY <1>1, <1>3, <2>1, <2>3
    <3> QED  BY <1>3, <3>1, <3>2
  <2>4. ASSUME ~AddTotal(i) PROVE Counted(h)' = Counted(h)
    <3>1. \A j \in Jobs : j \in Counted(h)' <=> j \in Counted(h)  BY <1>1, <1>3, <2>2, <2>4
    <3> QED  BY <1>3, <3>1
  <2> QED  BY <2>3, <2>4
<1>6. ASSUME NEW v, ~AddOutcome(i) \/ v # job[i].verdict PROVE Settled(h, v)' = Settled(h, v)
  <2>1. \/ job[i].at # "done" /\ job'[i].at # "done"
        \/ /\ job[i].at = "store" /\ job'[i].at = "done"
           /\ job'[i].verdict = job[i].verdict /\ job[i].verdict # v
    BY <1>6, JobShape DEF Ask, AddTotal, ReadOutcome, AddOutcome
  <2>2. \A j \in Jobs : j \in Settled(h, v)' <=> j \in Settled(h, v)  BY <1>1, <1>4, <2>1
  <2> QED  BY <1>4, <2>2
<1>7. ASSUME AddOutcome(i), NEW v, v = job[i].verdict
      PROVE  i \notin Settled(h, v) /\ Settled(h, v)' = Settled(h, v) \cup {i}
  <2>1. job[i].at = "store" /\ job'[i].at = "done" /\ job'[i].verdict = v
    BY <1>7, JobShape DEF AddOutcome
  <2>2. i \notin Settled(h, v)  BY <1>4, <2>1
  <2>3. \A j \in Jobs : j \in Settled(h, v)' <=> j \in Settled(h, v) \cup {i}  BY <1>1, <1>4, <2>1
  <2> QED  BY <1>4, <2>2, <2>3
<1> QED  BY <1>2, <1>5, <1>6, <1>7

Bumped(j) == IF job[j].read < MaxCount THEN job[j].read + 1 ELSE MaxCount

\* What a job's step does to the counters of its call.
LEMMA CounterStep ==
  ASSUME TypeOK, Owned, NEW h \in Handlers, NEW i \in Jobs, job[i].owner = h
  PROVE  /\ counts[checker[h]] \in [Counters -> 0..MaxCount] /\ job[i].read \in 0..MaxCount
         /\ Bumped(i) \in 1..MaxCount /\ Bumped(i) <= job[i].read + 1
         /\ Ask(i) \/ ReadOutcome(i) => counts' = counts
         /\ AddTotal(i) =>
              counts'[checker[h]] = [counts[checker[h]] EXCEPT !["total"] = Bumped(i)]
         /\ AddOutcome(i) =>
              counts'[checker[h]] = [counts[checker[h]] EXCEPT ![Field(i)] = Bumped(i)]
<1>1. checker[h] \in Handlers /\ counts \in [Handlers -> [Counters -> 0..MaxCount]]  BY DEF TypeOK
<1>2. job[i].read \in 0..MaxCount  BY DEF TypeOK, Job
<1>3. Bumped(i) \in 1..MaxCount /\ Bumped(i) <= job[i].read + 1
  BY <1>2, BoundAssumption DEF Bumped
<1>4. ASSUME NEW f, Add(i, f)
      PROVE  counts'[checker[h]] = [counts[checker[h]] EXCEPT ![f] = Bumped(i)]
  BY <1>1, <1>4 DEF Add, Bumped
<1> QED  BY <1>1, <1>2, <1>3, <1>4 DEF Ask, ReadOutcome, AddTotal, AddOutcome

\* How many there are of each.
LEMMA SizeStep ==
  ASSUME TypeOK, Owned, NEW h \in Handlers, NEW i \in Jobs, job[i].owner = h,
         Ask(i) \/ AddTotal(i) \/ ReadOutcome(i) \/ AddOutcome(i)
  PROVE  /\ Cardinality(Counted(h)) \in Nat /\ \A v : Cardinality(Settled(h, v)) \in Nat
         /\ Cardinality(Counted(h))' = Cardinality(Counted(h)) + IF AddTotal(i) THEN 1 ELSE 0
         /\ AddTotal(i) => Cardinality(Counted(h)) < MaxJobs
         /\ \A v : IF AddOutcome(i) /\ v = job[i].verdict
                   THEN /\ Cardinality(Settled(h, v))' = Cardinality(Settled(h, v)) + 1
                        /\ Cardinality(Settled(h, v)) < MaxJobs
                   ELSE Cardinality(Settled(h, v))' = Cardinality(Settled(h, v))
<1>1. Counted(h) \in SUBSET Jobs /\ \A v : Settled(h, v) \in SUBSET Jobs
  BY DEF Counted, Settled, JobsOf
<1>2. \A S \in SUBSET Jobs :
        /\ Cardinality(S) \in Nat
        /\ \A j \in Jobs \ S : Cardinality(S \cup {j}) = Cardinality(S) + 1 /\ Cardinality(S) < MaxJobs
  BY JobSets
<1>3. Cardinality(Counted(h)) \in Nat /\ \A v : Cardinality(Settled(h, v)) \in Nat  BY <1>1, <1>2
<1>4. CASE AddTotal(i)
  <2>1. /\ Cardinality(Counted(h))' = Cardinality(Counted(h)) + 1
        /\ Cardinality(Counted(h)) < MaxJobs
    BY <1>1, <1>2, <1>4, SetsStep
  <2>2. ~AddOutcome(i)  BY <1>4 DEF AddTotal, AddOutcome
  <2>3. \A v : Cardinality(Settled(h, v))' = Cardinality(Settled(h, v))  BY <2>2, SetsStep
  <2> QED  BY <1>3, <1>4, <2>1, <2>2, <2>3
<1>5. CASE ~AddTotal(i)
  <2>1. Cardinality(Counted(h))' = Cardinality(Counted(h))  BY <1>5, SetsStep
  <2>2. ASSUME NEW v, AddOutcome(i), v = job[i].verdict
        PROVE  /\ Cardinality(Settled(h, v))' = Cardinality(Settled(h, v)) + 1
               /\ Cardinality(Settled(h, v)) < MaxJobs
    <3>1. i \notin Settled(h, v) /\ Settled(h, v)' = Settled(h, v) \cup {i}  BY <2>2, SetsStep
    <3>2. Settled(h, v) \in SUBSET Jobs  BY <1>1
    <3> QED  BY <1>2, <3>1, <3>2
  <2>3. ASSUME NEW v, ~(AddOutcome(i) /\ v = job[i].verdict)
        PROVE  Cardinality(Settled(h, v))' = Cardinality(Settled(h, v))
    BY <2>3, SetsStep
  <2> QED  BY <1>3, <1>5, <2>1, <2>2, <2>3
<1> QED  BY <1>4, <1>5

LEMMA TallyStep ==
  ASSUME TypeOK, Owned, PlaceOK, NEW h \in Handlers, NEW i \in Jobs, job[i].owner = h,
         kind[h] # "browser", Tally(h),
         Ask(i) \/ AddTotal(i) \/ ReadOutcome(i) \/ AddOutcome(i)
  PROVE  Tally(h)'
<1> DEFINE n == Cardinality(Counted(h))
           m(v) == Cardinality(Settled(h, v))
           said == counts[checker[h]]
<1>1. /\ n \in Nat /\ n' \in Nat /\ n' >= n /\ (AddTotal(i) => n' = n + 1)
      /\ m("yes") \in Nat /\ m("no") \in Nat
      /\ m("yes")' \in {m("yes"), m("yes") + 1} /\ m("no")' \in {m("no"), m("no") + 1}
      /\ AddOutcome(i) /\ job[i].verdict = "yes" => m("yes")' = m("yes") + 1
      /\ AddOutcome(i) /\ job[i].verdict = "no" => m("no")' = m("no") + 1
  BY SizeStep
<1>2. /\ n > 0 \/ Counted(h) = {}
      /\ AddTotal(i) \/ Counted(h)' = Counted(h)
  BY JobSets, SetsStep DEF Counted, JobsOf
<1>3. /\ said \in [Counters -> 0..MaxCount] /\ job[i].read \in 0..MaxCount
      /\ Bumped(i) \in 1..MaxCount /\ Bumped(i) <= job[i].read + 1 /\ MaxCount \in Nat
      /\ checker' = checker
      /\ Ask(i) \/ ReadOutcome(i) => said' = said
      /\ AddTotal(i) => said' = [said EXCEPT !["total"] = Bumped(i)]
      /\ AddOutcome(i) => said' = [said EXCEPT ![Field(i)] = Bumped(i)]
  BY CounterStep, JobFrame, BoundAssumption DEF JobStep
<1>4. /\ said.total \in Nat /\ said.success \in Nat /\ said.fail \in Nat
      /\ said.total <= n /\ (Counted(h) # {} => said.total > 0)
      /\ said.success <= m("yes") /\ said.fail <= m("no")
      /\ \A j \in JobsOf(h) : /\ job[j].at = "total" => job[j].read <= n
                              /\ \A v \in {"yes", "no"} :
                                   job[j].at = "store" /\ job[j].verdict = v => job[j].read <= m(v)
  BY <1>3 DEF Tally, Counters
<1>5. i \in JobsOf(h) /\ JobsOf(h)' = JobsOf(h) /\ \A j \in Jobs \ {i} : job'[j] = job[j]
  BY SetsStep, JobFrame DEF JobStep
<1>6. job[i].at # "queued" => job[i].verdict \in {"yes", "no"}  BY <1>5 DEF PlaceOK
<1>7. /\ said'.total \in Nat /\ said'.total <= n' /\ (Counted(h)' # {} => said'.total > 0)
      /\ said'.success <= m("yes")' /\ said'.fail <= m("no")'
  <2>1. CASE Ask(i) \/ ReadOutcome(i)
    <3>1. ~AddTotal(i)  BY <2>1 DEF Ask, ReadOutcome, AddTotal
    <3> HIDE DEF n, m, said
    <3> QED  BY <1>1, <1>2, <1>3, <1>4, <2>1, <3>1
  <2>2. CASE AddTotal(i)
    <3>1. job[i].read <= n  BY <1>4, <1>5, <2>2 DEF AddTotal
    <3> HIDE DEF n, m, said
    <3>2. said'.total = Bumped(i) /\ said'.success = said.success /\ said'.fail = said.fail
      BY <1>3, <2>2 DEF Counters
    <3> QED  BY <1>1, <1>3, <1>4, <2>2, <3>1, <3>2
  <2>3. CASE AddOutcome(i)
    <3>1. /\ job[i].verdict \in {"yes", "no"} /\ ~AddTotal(i)
          /\ job[i].verdict = "yes" => job[i].read <= m("yes")
          /\ job[i].verdict = "no" => job[i].read <= m("no")
      BY <1>4, <1>5, <1>6, <2>3 DEF AddOutcome, AddTotal
    <3> HIDE DEF n, m, said
    <3>2. CASE job[i].verdict = "yes"
      <4>1. said'.success = Bumped(i) /\ said'.total = said.total /\ said'.fail = said.fail
        BY <1>3, <2>3, <3>2 DEF Counters, Field
      <4> QED  BY <1>1, <1>2, <1>3, <1>4, <2>3, <3>1, <3>2, <4>1
    <3>3. CASE job[i].verdict = "no"
      <4>1. said'.fail = Bumped(i) /\ said'.total = said.total /\ said'.success = said.success
        BY <1>3, <2>3, <3>3 DEF Counters, Field
      <4> QED  BY <1>1, <1>2, <1>3, <1>4, <2>3, <3>1, <3>3, <4>1
    <3> QED  BY <3>1, <3>2, <3>3
  <2> QED  BY <2>1, <2>2, <2>3
<1>8. ASSUME NEW j \in JobsOf(h)
      PROVE  /\ job'[j].at = "total" => job'[j].read <= n'
             /\ job'[j].at = "store" /\ job'[j].verdict = "yes" => job'[j].read <= m("yes")'
             /\ job'[j].at = "store" /\ job'[j].verdict = "no" => job'[j].read <= m("no")'
  <2>1. job[j].read \in Nat /\ j \in Jobs  BY DEF TypeOK, Job, JobsOf
  <2>2. /\ job[j].at = "total" => job[j].read <= n
        /\ job[j].at = "store" /\ job[j].verdict = "yes" => job[j].read <= m("yes")
        /\ job[j].at = "store" /\ job[j].verdict = "no" => job[j].read <= m("no")
    BY <1>4
  <2>3. CASE j # i
    <3>1. job'[j] = job[j]  BY <1>5, <2>1, <2>3
    <3> HIDE DEF n, m, said
    <3> QED  BY <1>1, <2>1, <2>2, <3>1
  <2>4. CASE j = i
    <3>1. CASE Ask(i)
      <4>1. job'[i].at = "total" /\ job'[i].read = said.total
        BY <3>1, JobShape DEF Counter
      <4> HIDE DEF n, m, said
      <4> QED  BY <1>1, <1>4, <2>4, <4>1
    <3>2. CASE ReadOutcome(i)
      <4>1. /\ job'[i].at = "store" /\ job'[i].verdict = job[i].verdict
            /\ job'[i].read = IF job[i].verdict = "yes" THEN said.success ELSE said.fail
        BY <3>2, JobShape DEF Counter, Field
      <4> HIDE DEF n, m, said
      <4> QED  BY <1>1, <1>4, <2>4, <4>1
    <3>3. CASE AddTotal(i)  BY <2>4, <3>3, JobShape
    <3>4. CASE AddOutcome(i)  BY <2>4, <3>4, JobShape
    <3> QED  BY <3>1, <3>2, <3>3, <3>4
  <2> QED  BY <2>3, <2>4
<1>9. said' = counts'[checker'[h]]  BY <1>3
<1> QED  BY <1>5, <1>7, <1>8, <1>9 DEF Tally

\* One worker thread: no other job of the call is between a read and its store.
LEMMA ExactStep ==
  ASSUME TypeOK, Owned, NEW h \in Handlers, NEW i \in Jobs, job[i].owner = h,
         kind[h] = "serial", MaxJobs <= MaxCount, PlaceOK, Exact(h),
         Ask(i) \/ AddTotal(i) \/ ReadOutcome(i) \/ AddOutcome(i)
  PROVE  Exact(h)'
<1> DEFINE n == Cardinality(Counted(h))
           m(v) == Cardinality(Settled(h, v))
           said == counts[checker[h]]
<1>1. /\ n \in Nat /\ n' = n + (IF AddTotal(i) THEN 1 ELSE 0) /\ (AddTotal(i) => n < MaxJobs)
      /\ m("yes") \in Nat /\ m("no") \in Nat
      /\ IF AddOutcome(i) /\ "yes" = job[i].verdict
         THEN m("yes")' = m("yes") + 1 /\ m("yes") < MaxJobs ELSE m("yes")' = m("yes")
      /\ IF AddOutcome(i) /\ "no" = job[i].verdict
         THEN m("no")' = m("no") + 1 /\ m("no") < MaxJobs ELSE m("no")' = m("no")
  BY SizeStep
<1>2. /\ said \in [Counters -> 0..MaxCount] /\ job[i].read \in 0..MaxCount
      /\ checker' = checker /\ MaxCount \in Nat /\ MaxJobs \in Nat
      /\ Ask(i) \/ ReadOutcome(i) => said' = said
      /\ AddTotal(i) => said' = [said EXCEPT !["total"] = Bumped(i)]
      /\ AddOutcome(i) => said' = [said EXCEPT ![Field(i)] = Bumped(i)]
  BY CounterStep, JobFrame, BoundAssumption DEF JobStep
<1>3. i \in JobsOf(h) /\ JobsOf(h)' = JobsOf(h) /\ \A j \in Jobs \ {i} : job'[j] = job[j]
  BY SetsStep, JobFrame DEF JobStep
<1>4. /\ said.total = n /\ said.success = m("yes") /\ said.fail = m("no")
      /\ \A j, k \in JobsOf(h) : job[j].at \in Underway /\ job[k].at \in Underway => j = k
      /\ job[i].at = "total" => job[i].read = n
      /\ job[i].at = "store" /\ job[i].verdict = "yes" => job[i].read = m("yes")
      /\ job[i].at = "store" /\ job[i].verdict = "no" => job[i].read = m("no")
  BY <1>3 DEF Exact
<1>5. job[i].at # "queued" => job[i].verdict \in {"yes", "no"}  BY <1>3 DEF PlaceOK
<1>6. ASSUME NEW j \in JobsOf(h), j # i PROVE job'[j].at \notin Underway /\ j \in Jobs
  <2>1. j \in Jobs /\ job'[j] = job[j]  BY <1>3, <1>6 DEF JobsOf
  <2>2. CASE Ask(i)  BY <2>1, <2>2 DEF Ask, Underway
  <2>3. CASE job[i].at \in Underway  BY <1>3, <1>4, <1>6, <2>1, <2>3
  <2> QED  BY <2>2, <2>3 DEF AddTotal, ReadOutcome, AddOutcome, Underway
<1>7. said'.total = n' /\ said'.success = m("yes")' /\ said'.fail = m("no")'
  <2>1. CASE Ask(i) \/ ReadOutcome(i)
    <3>1. ~AddTotal(i) /\ ~AddOutcome(i)  BY <2>1 DEF Ask, ReadOutcome, AddTotal, AddOutcome
    <3> HIDE DEF n, m, said
    <3> QED  BY <1>1, <1>2, <1>4, <2>1, <3>1
  <2>2. CASE AddTotal(i)
    <3>1. job[i].read = n /\ ~AddOutcome(i)  BY <1>4, <2>2 DEF AddTotal, AddOutcome
    <3> HIDE DEF n, m, said
    <3>2. Bumped(i) = n + 1
      <4>1. n \in Nat /\ n < MaxJobs  BY <1>1, <2>2, Zenon
      <4>2. MaxCount \in Nat /\ MaxJobs \in Nat  BY <1>2, Zenon
      <4>3. n < MaxCount  BY <4>1, <4>2
      <4> QED  BY <3>1, <4>1, <4>2, <4>3 DEF Bumped
    <3>3. said'.total = Bumped(i) /\ said'.success = said.success /\ said'.fail = said.fail
      BY <1>2, <2>2 DEF Counters
    <3> QED  BY <1>1, <1>4, <2>2, <3>1, <3>2, <3>3
  <2>3. CASE AddOutcome(i)
    <3>1. /\ job[i].verdict \in {"yes", "no"} /\ ~AddTotal(i)
          /\ job[i].verdict = "yes" => job[i].read = m("yes")
          /\ job[i].verdict = "no" => job[i].read = m("no")
      BY <1>4, <1>5, <2>3 DEF AddOutcome, AddTotal
    <3> HIDE DEF n, m, said
    <3>2. CASE job[i].verdict = "yes"
      <4>1. m("yes") \in Nat /\ m("yes") < MaxJobs /\ MaxCount \in Nat /\ MaxJobs \in Nat
        BY <1>1, <1>2, <2>3, <3>2
      <4>2. Bumped(i) = m("yes") + 1  BY <3>1, <3>2, <4>1 DEF Bumped
      <4>3. said'.success = Bumped(i) /\ said'.total = said.total /\ said'.fail = said.fail
        BY <1>2, <2>3, <3>2 DEF Counters, Field
      <4> QED  BY <1>1, <1>4, <2>3, <3>1, <3>2, <4>2, <4>3
    <3>3. CASE job[i].verdict = "no"
      <4>1. m("no") \in Nat /\ m("no") < MaxJobs /\ MaxCount \in Nat /\ MaxJobs \in Nat
        BY <1>1, <1>2, <2>3, <3>3
      <4>2. Bumped(i) = m("no") + 1  BY <3>1, <3>3, <4>1 DEF Bumped
      <4>3. said'.fail = Bumped(i) /\ said'.total = said.total /\ said'.success = said.success
        BY <1>2, <2>3, <3>3 DEF Counters, Field
      <4> QED  BY <1>1, <1>4, <2>3, <3>1, <3>3, <4>2, <4>3
    <3> QED  BY <3>1, <3>2, <3>3
  <2> QED  BY <2>1, <2>2, <2>3
<1>8. /\ job'[i].at = "total" => job'[i].read = n'
      /\ job'[i].at = "store" /\ job'[i].verdict = "yes" => job'[i].read = m("yes")'
      /\ job'[i].at = "store" /\ job'[i].verdict = "no" => job'[i].read = m("no")'
  <2>1. CASE Ask(i)
    <3>1. job'[i].at = "total" /\ job'[i].read = said.total /\ ~AddTotal(i)
      BY <2>1, JobShape DEF Counter, Ask, AddTotal
    <3> HIDE DEF n, m, said
    <3> QED  BY <1>1, <1>4, <3>1
  <2>2. CASE ReadOutcome(i)
    <3>1. /\ job'[i].at = "store" /\ job'[i].verdict = job[i].verdict /\ ~AddOutcome(i)
          /\ job'[i].read = IF job[i].verdict = "yes" THEN said.success ELSE said.fail
      BY <2>2, JobShape DEF Counter, Field, ReadOutcome, AddOutcome
    <3> HIDE DEF n, m, said
    <3> QED  BY <1>1, <1>4, <3>1
  <2>3. CASE AddTotal(i)  BY <2>3, JobShape
  <2>4. CASE AddOutcome(i)  BY <2>4, JobShape
  <2> QED  BY <2>1, <2>2, <2>3, <2>4
<1>9. \A j, k \in JobsOf(h)' : job'[j].at \in Underway /\ job'[k].at \in Underway => j = k
  BY <1>3, <1>6
<1>10. \A j \in JobsOf(h)' : j # i => job'[j].at \notin {"total", "store"}
  BY <1>3, <1>6 DEF Underway
<1>11. said' = counts'[checker'[h]]  BY <1>2
<1> QED  BY <1>7, <1>8, <1>9, <1>10, <1>11 DEF Exact

\* A call whose jobs are all queued has counted nothing.
LEMMA NothingCounted ==
  ASSUME NEW h \in Handlers, \A j \in JobsOf(h) : job[j].at = "queued"
  PROVE  /\ Counted(h) = {} /\ Cardinality(Counted(h)) = 0
         /\ \A v : Cardinality(Settled(h, v)) = 0
<1>1. Counted(h) = {}  BY DEF Counted
<1>2. \A v : Settled(h, v) = {}  BY DEF Settled
<1> QED  BY <1>1, <1>2, FS_EmptySet

LEMMA CountStep ==
  ASSUME TypeOK, Owned, AloneOK, Enlisted, PlaceOK, CountOK, MaxJobs <= MaxCount, [Next]_vars
  PROVE  CountOK'
<1> SUFFICES ASSUME NEW h \in Handlers, alone'[h], kind'[h] # "browser",
                    pc'[h] \in {"requests", "answer"}
             PROVE  Tally(h)' /\ (kind'[h] = "serial" => Exact(h)')
  BY DEF CountOK
<1>1. ASSUME alone[h], kind[h] # "browser", pc[h] \in {"requests", "answer"},
             UNCHANGED <<job, kind>>, counts'[checker'[h]] = counts[checker[h]]
      PROVE  Tally(h)' /\ (kind'[h] = "serial" => Exact(h)')
  <2>1. Tally(h) /\ (kind[h] = "serial" => Exact(h))  BY <1>1 DEF CountOK
  <2>2. /\ JobsOf(h)' = JobsOf(h) /\ Counted(h)' = Counted(h)
        /\ \A v : Settled(h, v)' = Settled(h, v)
    BY <1>1 DEF JobsOf, Counted, Settled
  <2>3. Tally(h)'  BY <1>1, <2>1, <2>2 DEF Tally
  <2>4. kind'[h] = "serial" => Exact(h)'  BY <1>1, <2>1, <2>2 DEF Exact
  <2> QED  BY <2>3, <2>4
<1>2. ASSUME NEW x \in Handlers, Call(x) PROVE FALSE
  BY <1>2, BeginShape
<1>3. ASSUME NEW x \in Handlers, CallStep(x) PROVE Tally(h)' /\ (kind'[h] = "serial" => Exact(h)')
  <2>1. ~Leave(x)
    <3>1. SUFFICES ASSUME Leave(x) PROVE FALSE  OBVIOUS
    <3>2. x # h /\ alone[h]  BY <3>1, LeaveShape
    <3> QED  BY <1>3, <3>2, CallShape DEF AloneOK, InCall
  <2>2. UNCHANGED <<job, kind, alone>> /\ pc[x] # "idle"  BY <1>3, <2>1, CallShape
  <2>3. x = h  BY <2>2 DEF AloneOK, InCall
  <2>4. (Pick(h) /\ pc'[h] = "requests") \/ (Collect(h) /\ pc'[h] = "answer")
    BY <1>3, <2>1, <2>3, CallPlaces
  <2>5. CASE Pick(h) /\ pc'[h] = "requests"
    <3>1. pc[h] = "pick" /\ checker'[h] \in Handlers /\ counts'[checker'[h]] = Zero
      BY <2>5 DEF Pick, Update, TypeOK, Goto
    <3>2. \A j \in JobsOf(h)' : job'[j].at = "queued"  BY <2>2, <3>1 DEF PlaceOK, JobsOf
    <3>3. /\ Counted(h)' = {} /\ Cardinality(Counted(h))' = 0
          /\ Cardinality(Settled(h, "yes"))' = 0 /\ Cardinality(Settled(h, "no"))' = 0
      <4>1. \A j \in JobsOf(h) : job[j].at = "queued"  BY <3>1 DEF PlaceOK
      <4>2. Counted(h)' = Counted(h) /\ \A v : Settled(h, v)' = Settled(h, v)
        BY <2>2 DEF JobsOf, Counted, Settled
      <4> QED  BY <4>1, <4>2, NothingCounted
    <3>4. Tally(h)'  BY <3>1, <3>2, <3>3 DEF Tally, Zero, Counters
    <3>5. Exact(h)'  BY <3>1, <3>2, <3>3 DEF Exact, Zero, Counters, Underway
    <3> QED  BY <3>4, <3>5
  <2>6. CASE Collect(h) /\ pc'[h] = "answer"
    <3>1. pc[h] = "requests" /\ UNCHANGED <<counts, checker>>
      BY <2>2, <2>6 DEF Collect, PlaceOK, callVars
    <3> QED  BY <1>1, <2>2, <3>1
  <2> QED  BY <2>4, <2>5, <2>6
<1>4. ASSUME NEW i \in Jobs, JobStep(i) PROVE Tally(h)' /\ (kind'[h] = "serial" => Exact(h)')
  <2>1. alone[h] /\ kind' = kind /\ pc' = pc /\ job[i].owner \in Handlers  BY <1>4, JobFrame
  <2>2. job[i].owner = h  BY <2>1, SentinelAssumption, OnlyOwn
  <2>3. Tally(h) /\ (kind[h] = "serial" => Exact(h))  BY <2>1 DEF CountOK
  <2>4. Ask(i) \/ AddTotal(i) \/ ReadOutcome(i) \/ AddOutcome(i)
    BY <1>4, <2>1, <2>2, JobKinds
  <2>5. Tally(h)'  BY <2>1, <2>2, <2>3, <2>4, TallyStep
  <2>6. kind[h] = "serial" => Exact(h)'  BY <2>2, <2>3, <2>4, ExactStep
  <2> QED  BY <2>1, <2>5, <2>6
<1>5. ASSUME NEW b \in Browsers, Die(b) PROVE Tally(h)' /\ (kind'[h] = "serial" => Exact(h)')
  <2>1. UNCHANGED <<counts, job, kind, checker, alone, pc>>  BY <1>5 DEF Die, callVars
  <2> QED  BY <1>1, <2>1
<1>6. CASE Hang
  <2>1. UNCHANGED <<counts, job, kind, checker, alone, pc>>  BY <1>6 DEF Hang, callVars
  <2> QED  BY <1>1, <2>1
<1>7. CASE Restart  BY <1>7 DEF Restart
<1>8. CASE UNCHANGED vars
  <2>1. UNCHANGED <<counts, job, kind, checker, alone, pc>>  BY <1>8 DEF vars, callVars
  <2> QED  BY <1>1, <2>1
<1> QED  BY <1>2, <1>3, <1>4, <1>5, <1>6, <1>7, <1>8 DEF Next

-----------------------------------------------------------------------------
(* The theorems *)

LEMMA AloneInit ==
  ASSUME Init PROVE AloneOK /\ Enlisted /\ HiddenOK /\ PlaceOK /\ CountOK
<1>1. /\ \A h \in Handlers : ~alone[h] /\ pc[h] = "idle"
      /\ \A j \in Jobs : job[j].owner = Nothing
  BY DEF Init, NoJob
<1>2. AloneOK /\ Enlisted /\ HiddenOK /\ CountOK
  BY <1>1 DEF AloneOK, Enlisted, HiddenOK, CountOK
<1>3. \A h \in Handlers : JobsOf(h) = {}  BY <1>1, SentinelAssumption DEF JobsOf
<1>4. PlaceOK  BY <1>1, <1>3 DEF PlaceOK
<1> QED  BY <1>2, <1>4

AloneInv == WebInv /\ AloneOK /\ Enlisted /\ HiddenOK /\ PlaceOK

\* The inductive invariant of a call that no other overlaps: there is no other call and no
\* other job, and it has lost nothing to a browser as long as none died meanwhile.
THEOREM AloneInvariant == Spec => []AloneInv
<1>1. Init => AloneOK /\ Enlisted /\ HiddenOK /\ PlaceOK  BY AloneInit
<1>2. WebInv /\ AloneOK /\ Enlisted /\ HiddenOK /\ PlaceOK /\ [Next]_vars
        => (AloneOK /\ Enlisted /\ HiddenOK /\ PlaceOK)'
  BY AloneStep, HiddenStep, PlaceStep DEF WebInv
<1> QED  BY <1>1, <1>2, WebInvariant, PTL DEF Spec, AloneInv

\* A browser that died before a check that no other overlaps costs the check nothing.
THEOREM CrashCorrect == Spec => []OldCrashIsHidden
<1>1. AloneInv => OldCrashIsHidden  BY DEF AloneInv, HiddenOK, TaskOK, OldCrashIsHidden
<1> QED  BY <1>1, AloneInvariant, PTL

\* The installed Chromium is only ever started whole, however many checks come while it is
\* extracted and wherever the service was killed, except while an extraction for another
\* path over an executable Chromium goes on and after one that was cut.
THEOREM WholeCorrect == Spec => []ChromiumIsWhole
<1>1. AloneInv => ChromiumIsWhole
  <2> SUFFICES ASSUME AloneInv PROVE ChromiumIsWhole
    OBVIOUS
  <2>1. ASSUME NEW h \in Handlers, pc[h] \in {"probe", "launch"}, path[h] = "default"
        PROVE  chromium.exec
    BY <2>1 DEF AloneInv, WebInv, Whole, Ready
  <2>2. ASSUME NEW j \in Jobs, job[j].at = "launching", asked[checker[job[j].owner]] = "default"
        PROVE  chromium.exec
    <3>1. job[j].owner \in Handlers
      BY <2>2 DEF AloneInv, WebInv, Owned
    <3>2. pc[job[j].owner] = "pages"
      BY <2>2, <3>1 DEF AloneInv, PlaceOK, JobsOf, Underway
    <3> QED
      BY <2>2, <3>1, <3>2 DEF AloneInv, WebInv, Whole, Visiting
  <2>3. chromium.exec => chromium.files = "all" \/ chromium.over
    BY DEF AloneInv, WebInv, Whole
  <2> QED
    BY <2>1, <2>2, <2>3 DEF ChromiumIsWhole, StartsInstalled
<1> QED
  BY <1>1, AloneInvariant, PTL

\* With as many counts as there may be jobs, the counters of a call that no other overlaps
\* follow its jobs: never ahead of them, and level with them if one thread works.
THEOREM CountInvariant == ASSUME MaxJobs <= MaxCount PROVE Spec => []CountOK
<1>1. Init => CountOK  BY AloneInit
<1>2. AloneInv /\ CountOK /\ [Next]_vars => CountOK'  BY CountStep DEF AloneInv, WebInv
<1> QED  BY <1>1, <1>2, AloneInvariant, PTL DEF Spec

\* When all jobs are done, each has been counted once and settled once.
LEMMA AllSettled ==
  ASSUME TypeOK, NEW h \in Handlers, JobsOf(h) # {},
         \A j \in JobsOf(h) : job[j].at = "done" /\ job[j].verdict \in {"yes", "no"}
  PROVE  /\ \A v : Settled(h, v) = {j \in JobsOf(h) : job[j].verdict = v}
         /\ Counted(h) # {}
         /\ Cardinality(Settled(h, "yes")) \in Nat /\ Cardinality(Settled(h, "no")) \in Nat
         /\ Cardinality(Counted(h)) = Cardinality(Settled(h, "yes")) + Cardinality(Settled(h, "no"))
<1> DEFINE Y == Settled(h, "yes")
           N == Settled(h, "no")
<1>1. \A v : Settled(h, v) = {j \in JobsOf(h) : job[j].verdict = v}  BY DEF Settled
<1>2. Counted(h) = JobsOf(h)  BY DEF Counted
<1>3. Y \cup N = JobsOf(h) /\ Y \cap N = {}  BY <1>1
<1>4. Y \in SUBSET Jobs /\ N \in SUBSET Jobs  BY DEF Settled, JobsOf
<1> HIDE DEF Y, N
<1>5. IsFiniteSet(Y) /\ IsFiniteSet(N) /\ Cardinality(Y) \in Nat /\ Cardinality(N) \in Nat
  BY <1>4, JobSets
<1>6. Cardinality(Y \cup N) = Cardinality(Y) + Cardinality(N) - Cardinality(Y \cap N)
  BY <1>5, FS_Union
<1>7. Cardinality(Y \cap N) = 0  BY <1>3, FS_EmptySet
<1>8. Cardinality(Counted(h)) = Cardinality(Y) + Cardinality(N)
  <2>1. Cardinality(Counted(h)) = Cardinality(Y \cup N)  BY <1>2, <1>3
  <2> QED  BY <1>5, <1>6, <1>7, <2>1
<1> QED  BY <1>1, <1>2, <1>5, <1>8 DEF Y, N

\* The numbers answered by a check that no other overlaps, for every number of jobs that the
\* counters can hold.
THEOREM ExactCorrect == ASSUME MaxJobs <= MaxCount PROVE Spec => []AnswerIsExact
<1>1. AloneInv /\ CountOK => AnswerIsExact
  <2> SUFFICES ASSUME AloneInv, CountOK, NEW h \in Handlers, pc[h] = "answer", alone[h],
                      kind[h] # "browser"
               PROVE  LET did(v) == Cardinality({j \in JobsOf(h) : job[j].verdict = v})
                          said   == counts[checker[h]]
                      IN  IF kind[h] = "serial"
                          THEN said = [total |-> did("yes") + did("no"), success |-> did("yes"),
                                       fail |-> did("no")]
                          ELSE /\ said.total \in 1..did("yes") + did("no")
                               /\ said.success <= did("yes") /\ said.fail <= did("no")
    BY DEF AnswerIsExact
  <2> DEFINE did(v) == Cardinality({j \in JobsOf(h) : job[j].verdict = v})
             said == counts[checker[h]]
  <2>1. /\ TypeOK /\ JobsOf(h) # {}
        /\ \A j \in JobsOf(h) : job[j].at = "done" /\ job[j].verdict \in {"yes", "no"}
    BY DEF AloneInv, WebInv, PlaceOK
  <2>2. /\ did("yes") = Cardinality(Settled(h, "yes")) /\ did("no") = Cardinality(Settled(h, "no"))
        /\ did("yes") \in Nat /\ did("no") \in Nat
        /\ Counted(h) # {} /\ Cardinality(Counted(h)) = did("yes") + did("no")
    BY <2>1, AllSettled
  <2>3. Tally(h) /\ (kind[h] = "serial" => Exact(h))  BY DEF CountOK
  <2>4. said \in [Counters -> 0..MaxCount]  BY <2>1 DEF TypeOK
  <2>5. /\ said.total <= did("yes") + did("no") /\ said.total > 0
        /\ said.success <= did("yes") /\ said.fail <= did("no")
    BY <2>2, <2>3 DEF Tally
  <2>6. kind[h] = "serial" => /\ said.total = did("yes") + did("no")
                              /\ said.success = did("yes") /\ said.fail = did("no")
    BY <2>2, <2>3 DEF Exact
  <2> HIDE DEF did, said
  <2>7. kind[h] = "serial" => said = [total |-> did("yes") + did("no"), success |-> did("yes"),
                                      fail |-> did("no")]
    BY <2>4, <2>6 DEF Counters
  <2>8. said.total \in 1..did("yes") + did("no")  BY <2>2, <2>4, <2>5, BoundAssumption DEF Counters
  <2> QED  BY <2>5, <2>7, <2>8 DEF did, said
<1> QED  BY <1>1, AloneInvariant, CountInvariant, PTL

=============================================================================
