------------------------------- MODULE WebCheck -------------------------------
(***************************************************************************)
(* The web check, datatype 131 (handlers.py 257-322, boce.py).  A handler  *)
(* thread makes sure that Chromium is installed (ensure_chromium), then    *)
(* asks a URL `count` times: with `requests` in worker threads that share  *)
(* counters without a lock, or with pages of one shared browser, tasks of  *)
(* one event loop.  A step of a thread lasts until its next access to      *)
(* shared state, a step of a task from one `await` to the next.            *)
(***************************************************************************)
EXTENDS Naturals, FiniteSets

CONSTANTS
  Handlers,  \* handler threads
  Requesters, Visitors,  \* bound: handlers whose calls use requests, and pages
  Elsewhere, \* bound: the kinds of calls that may name another chromium_path
  MaxJobs,   \* bound: run_single calls of all calls under way
  Browsers,  \* Chromium processes; the name of one that nobody holds is used again
  MaxCount,  \* bound: a counter that overlapping calls never clear stays at it
  Nothing

ASSUME SentinelAssumption == Nothing \notin Handlers \cup Browsers
ASSUME BoundAssumption == MaxJobs \in Nat /\ MaxCount \in Nat \ {0}

VARIABLES
  chromium,  \* what lies at CHROME_INSTALL_DIR, whether it is executable, and whether an
             \* extraction for another path has begun over an executable one and not ended
  lock,      \* holder of _browser_lock
  boce,      \* handlers.boce; a BoceChecker is named after the handler that made it
  counts,    \* per BoceChecker: the counters of its r_checker
  browser,   \* boce._browser
  alive,     \* browsers that run and are connected
  hung,      \* Chromium no longer answers
  pc,
  kind,      \* "serial": requests, one thread; "parallel": several; "browser": pages
  path,      \* the call's chromium_path: "default" or another file's
  checker,   \* the BoceChecker that the call uses
  asked,     \* per BoceChecker: its chromium_path, that of the latest call that uses it
  alone,     \* no other call has overlapped this one
  spoilt,    \* a browser died or did not start during this call, which is alone
  job        \* see Job

callVars == <<kind, path, checker, asked, alone>>
vars == <<chromium, lock, boce, counts, browser, alive, hung, pc, callVars, spoilt, job>>

Jobs     == 1..MaxJobs
Kinds    == {"serial", "parallel", "browser"}
Paths    == {"default", "other"}
PathsOf(k) == IF k \in Elsewhere THEN Paths ELSE {"default"}
KindsOf(h) == (IF h \in Requesters THEN {"serial", "parallel"} ELSE {})
              \cup (IF h \in Visitors THEN {"browser"} ELSE {})
Counters == {"total", "success", "fail"}
Zero     == [c \in Counters |-> 0]
Stale    == [c \in Counters |-> 1]

\* "lost": run_single ended in its exception handler and returned None.
Job == [owner : Handlers \cup {Nothing},
        at : {"none", "queued", "total", "outcome", "store", "launching", "opening",
              "loading", "closing", "done"},
        again : BOOLEAN, uses : Browsers \cup {Nothing},
        verdict : {"none", "yes", "no", "lost"}, read : 0..MaxCount]

NoJob == [owner |-> Nothing, at |-> "none", again |-> FALSE, uses |-> Nothing,
          verdict |-> "none", read |-> 0]

\* What the variables hold; counters and calls name nobody who does not exist.
TypeOK ==
  /\ chromium \in [files : {"none", "part", "all"}, exec : BOOLEAN, over : BOOLEAN]
  /\ lock \in Handlers \cup {Nothing} /\ boce \in Handlers \cup {Nothing}
  /\ counts \in [Handlers -> [Counters -> 0..MaxCount]]
  /\ browser \in Browsers \cup {Nothing} /\ alive \subseteq Browsers /\ hung \in BOOLEAN
  /\ pc \in [Handlers -> {"idle", "look", "lock", "fetch", "extract", "chmod", "probe", "pick",
                          "create", "requests", "browser", "launch", "pages", "answer"}]
  /\ kind \in [Handlers -> Kinds] /\ path \in [Handlers -> Paths]
  /\ checker \in [Handlers -> Handlers] /\ asked \in [Handlers -> Paths]
  /\ alone \in [Handlers -> BOOLEAN] /\ spoilt \in [Handlers -> BOOLEAN]
  /\ job \in [Jobs -> Job]

Init ==
  /\ chromium \in [files : {"none"}, exec : {FALSE}, over : {FALSE}]
                   \cup [files : {"all"}, exec : {TRUE}, over : {FALSE}]
  /\ lock = Nothing /\ boce = Nothing
  /\ counts = [h \in Handlers |-> Zero]
  /\ browser = Nothing /\ alive = {} /\ hung = FALSE
  /\ pc = [h \in Handlers |-> "idle"]
  /\ kind = [h \in Handlers |-> "serial"]
  /\ path = [h \in Handlers |-> "default"]
  /\ checker = [h \in Handlers |-> h]
  /\ asked = [h \in Handlers |-> "default"]
  /\ alone = [h \in Handlers |-> FALSE]
  /\ spoilt = [h \in Handlers |-> FALSE]
  /\ job = [j \in Jobs |-> NoJob]

-----------------------------------------------------------------------------
(* The call, up to the checker *)

Goto(h, label) == pc' = [pc EXCEPT ![h] = label]
InCall    == {h \in Handlers : pc[h] # "idle"}
Free      == {j \in Jobs : job[j] = NoJob}
JobsOf(h) == {j \in Jobs : job[j].owner = h}

Call(h) ==
  /\ pc[h] = "idle"
  /\ Goto(h, "look")
  /\ \E k \in KindsOf(h), mine \in SUBSET Free :
       /\ mine # {} /\ \A j \in mine, i \in Free \ mine : j < i
       /\ kind' = [kind EXCEPT ![h] = k]
       /\ \E p \in PathsOf(k) : path' = [path EXCEPT ![h] = p]
       /\ job' = [j \in Jobs |->
                    IF j \in mine THEN [NoJob EXCEPT !.owner = h, !.at = "queued"] ELSE job[j]]
  /\ alone' = [x \in Handlers |-> x = h /\ InCall = {}]
  /\ spoilt' = [x \in Handlers |-> FALSE]
  /\ UNCHANGED <<chromium, lock, boce, counts, browser, alive, hung, checker, asked>>

\* The call is over: an answer, an error or an exception that closes the connection.
\* What stays in a BoceChecker that nobody uses is not told apart.
Leave(h) ==
  /\ Goto(h, "idle")
  /\ kind' = [kind EXCEPT ![h] = "serial"]
  /\ path' = [path EXCEPT ![h] = "default"]
  /\ checker' = [checker EXCEPT ![h] = h]
  /\ asked' = [c \in Handlers |->
        IF \E x \in InCall \ {h} : checker[x] = c THEN asked[c] ELSE "default"]
  /\ alone' = [alone EXCEPT ![h] = FALSE]
  /\ spoilt' = [spoilt EXCEPT ![h] = FALSE]
  /\ job' = [j \in Jobs |-> IF j \in JobsOf(h) THEN NoJob ELSE job[j]]
  /\ counts' = [c \in Handlers |->
        IF counts[c] = Zero \/ \E x \in InCall \ {h} : checker[x] = c THEN counts[c] ELSE Stale]

\* Whether a file lies at chromium_path and is executable: of another path than that of
\* the installation nothing is known.
Executable(p) == IF p = "default" THEN {chromium.exec} ELSE BOOLEAN

Look(h) ==
  /\ pc[h] = "look"
  /\ \E found \in Executable(path[h]) : Goto(h, IF found THEN "probe" ELSE "lock")
  /\ UNCHANGED <<chromium, lock, boce, counts, browser, alive, hung, callVars, spoilt, job>>

\* ensure_chromium looks again inside the lock.
Lock(h) ==
  /\ pc[h] = "lock" /\ lock = Nothing
  /\ \/ TRUE \in Executable(path[h]) /\ Goto(h, "probe") /\ UNCHANGED lock
     \/ FALSE \in Executable(path[h]) /\ Goto(h, "fetch") /\ lock' = h
  /\ UNCHANGED <<chromium, boce, counts, browser, alive, hung, callVars, spoilt, job>>

\* Fault: the archive's file modes are restored with the files.
FetchWithModes(h) ==
  /\ pc[h] = "fetch"
  /\ chromium' = [chromium EXCEPT !.files = "part", !.exec = TRUE]
  /\ Goto(h, "extract")
  /\ UNCHANGED <<lock, boce, counts, browser, alive, hung, callVars, spoilt, job>>

\* The archive is there and extractall begins, in place and at CHROME_INSTALL_DIR whatever
\* path was tested: zipfile gives new files no execute permission, and writes over one
\* that is there without taking it away.
Fetch(h) ==
  /\ pc[h] = "fetch"
  /\ chromium' = [chromium EXCEPT !.files = "part", !.over = path[h] # "default" /\ chromium.exec]
  /\ Goto(h, "extract")
  /\ UNCHANGED <<lock, boce, counts, browser, alive, hung, callVars, spoilt, job>>

Extract(h) ==
  /\ pc[h] = "extract"
  /\ chromium' = [chromium EXCEPT !.files = "all", !.over = FALSE]
  /\ Goto(h, "chmod")
  /\ UNCHANGED <<lock, boce, counts, browser, alive, hung, callVars, spoilt, job>>

\* The file at chromium_path is made executable, or none is there: EnsureFails.
Chmod(h) ==
  /\ pc[h] = "chmod"
  /\ chromium' = [chromium EXCEPT !.exec = @ \/ path[h] = "default"]
  /\ lock' = Nothing
  /\ Goto(h, "probe")
  /\ UNCHANGED <<boce, counts, browser, alive, hung, callVars, spoilt, job>>

\* The query, the download, the disk or the archive fails: an error is answered.
EnsureFails(h) ==
  /\ pc[h] \in {"fetch", "extract", "chmod"}
  /\ lock' = Nothing
  /\ Leave(h)
  /\ UNCHANGED <<chromium, boce, browser, alive, hung>>

\* Chromium is started once to see whether it finds its libraries, which may be
\* missing and not to be installed.  subprocess.run waits as long as it takes.
Probe(h) ==
  /\ pc[h] = "probe" /\ ~hung
  /\ \/ Goto(h, "pick") /\ UNCHANGED <<counts, callVars, spoilt, job>>
     \/ Leave(h)
  /\ UNCHANGED <<chromium, lock, boce, browser, alive, hung>>

\* boce() begins with update(), which clears the counters and hands on the path, to the
\* tasks of a call under way too.  A call by requests has no more use for its own.
Update(h) ==
  /\ checker' = [checker EXCEPT ![h] = boce]
  /\ asked' = [asked EXCEPT ![boce] = path[h]]
  /\ counts' = [counts EXCEPT ![boce] = Zero]
  /\ IF kind[h] = "browser" THEN Goto(h, "browser") /\ UNCHANGED path
                            ELSE Goto(h, "requests") /\ path' = [path EXCEPT ![h] = "default"]

\* Fault: no BoceChecker is made before the first call.
PickUnchecked(h) ==
  /\ pc[h] = "pick"
  /\ Update(h)
  /\ UNCHANGED <<chromium, lock, boce, browser, alive, hung, kind, alone, spoilt, job>>

\* handlers.boce is read.
Pick(h) ==
  /\ pc[h] = "pick"
  /\ IF boce = Nothing THEN Goto(h, "create") /\ UNCHANGED <<path, checker, asked, counts>>
                       ELSE Update(h)
  /\ UNCHANGED <<chromium, lock, boce, browser, alive, hung, kind, alone, spoilt, job>>

\* Two calls may each have found none; the later one stays.
Create(h) ==
  /\ pc[h] = "create"
  /\ boce' = h
  /\ counts' = [counts EXCEPT ![h] = Zero]
  /\ Goto(h, "pick")
  /\ UNCHANGED <<chromium, lock, browser, alive, hung, callVars, spoilt, job>>

-----------------------------------------------------------------------------
(* Requests: RequestChecker.run_single in the threads of a pool *)

Counter(j) == counts[checker[job[j].owner]]
Field(j)   == IF job[j].verdict = "yes" THEN "success" ELSE "fail"
Add(j, field) ==
  counts' = [counts EXCEPT ![checker[job[j].owner]][field] =
               IF job[j].read < MaxCount THEN job[j].read + 1 ELSE MaxCount]

\* Fault: a pool of one thread is not kept to one.
AskAtOnce(j) ==
  /\ job[j].at = "queued" /\ pc[job[j].owner] = "requests"
  /\ \E v \in {"yes", "no"} :
       job' = [job EXCEPT ![j].at = "total", ![j].verdict = v, ![j].read = Counter(j).total]
  /\ UNCHANGED <<chromium, lock, boce, counts, browser, alive, hung, pc, callVars, spoilt>>

\* The request is made; += then reads the counter and stores it in another step.
Ask(j) ==
  /\ job[j].at = "queued" /\ pc[job[j].owner] = "requests"
  /\ kind[job[j].owner] = "serial" =>
        \A k \in JobsOf(job[j].owner) : job[k].at \in {"queued", "done"}
  /\ \E v \in {"yes", "no"} :
       job' = [job EXCEPT ![j].at = "total", ![j].verdict = v, ![j].read = Counter(j).total]
  /\ UNCHANGED <<chromium, lock, boce, counts, browser, alive, hung, pc, callVars, spoilt>>

AddTotal(j) ==
  /\ job[j].at = "total"
  /\ Add(j, "total")
  /\ job' = [job EXCEPT ![j].at = "outcome", ![j].read = 0]
  /\ UNCHANGED <<chromium, lock, boce, browser, alive, hung, pc, callVars, spoilt>>

ReadOutcome(j) ==
  /\ job[j].at = "outcome"
  /\ job' = [job EXCEPT ![j].at = "store", ![j].read = Counter(j)[Field(j)]]
  /\ UNCHANGED <<chromium, lock, boce, counts, browser, alive, hung, pc, callVars, spoilt>>

AddOutcome(j) ==
  /\ job[j].at = "store"
  /\ Add(j, Field(j))
  /\ job' = [job EXCEPT ![j].at = "done", ![j].read = 0]
  /\ UNCHANGED <<chromium, lock, boce, browser, alive, hung, pc, callVars, spoilt>>

-----------------------------------------------------------------------------
(* The shared browser *)

Held     == {browser} \cup {job[j].uses : j \in Jobs}
Unused   == Browsers \ Held
Fresh    == CHOOSE b \in Unused : TRUE
Start(b) == browser' = b /\ alive' = (alive \ Unused) \cup {b}
Spoil    == spoilt' = alone

\* A PyppeteerChecker is not made of a path where nothing executable lies: it raises.
\* That a BoceChecker makes one only once is not told apart.
NoPages(h) ==
  /\ pc[h] = "browser" /\ FALSE \in Executable(asked[checker[h]])
  /\ Leave(h)
  /\ UNCHANGED <<chromium, lock, boce, browser, alive, hung>>

\* get_global_loop_and_browser: a browser that has died still counts as one.
GetBrowser(h) ==
  /\ pc[h] = "browser" /\ lock = Nothing
  /\ IF browser = Nothing THEN Goto(h, "launch") /\ lock' = h
                          ELSE Goto(h, "pages") /\ UNCHANGED lock
  /\ UNCHANGED <<chromium, boce, counts, browser, alive, hung, callVars, spoilt, job>>

\* future.result() waits for it inside the lock, as long as it takes.
Launched(h) ==
  /\ pc[h] = "launch" /\ ~hung
  /\ Unused # {} /\ Start(Fresh)
  /\ lock' = Nothing
  /\ Goto(h, "pages")
  /\ UNCHANGED <<chromium, boce, counts, hung, callVars, spoilt, job>>

\* Fault: the lock is not released by the exception.
LaunchFailsLocked(h) ==
  /\ pc[h] = "launch" /\ ~hung
  /\ Leave(h)
  /\ UNCHANGED <<chromium, lock, boce, browser, alive, hung>>

LaunchFails(h) ==
  /\ pc[h] = "launch" /\ ~hung
  /\ lock' = Nothing
  /\ Leave(h)
  /\ UNCHANGED <<chromium, boce, browser, alive, hung>>

Finish(j, v) ==
  job' = [job EXCEPT ![j] = [NoJob EXCEPT !.owner = job[j].owner, !.at = "done", !.verdict = v]]

\* "Connection is closed": the shared browser, whichever it is by now, is closed and
\* given up, and the task begins once more; `await close()` of one that is dead
\* comes back at once, and with no browser left the next thing is a launch.
Broken(j) ==
  IF job[j].again
  THEN Finish(j, "lost") /\ UNCHANGED browser
  ELSE IF browser \in alive
       THEN job' = [job EXCEPT ![j].again = TRUE, ![j].at = "closing", ![j].uses = browser]
            /\ UNCHANGED browser
       ELSE job' = [job EXCEPT ![j].again = TRUE, ![j].at = "launching", ![j].uses = Nothing]
            /\ browser' = Nothing

\* Fault: no second try.
VisitOnce(j) ==
  /\ job[j].at = "queued" /\ pc[job[j].owner] = "pages"
  /\ IF browser = Nothing
     THEN job' = [job EXCEPT ![j].at = "launching"]
     ELSE IF browser \in alive
          THEN job' = [job EXCEPT ![j].at = "opening", ![j].uses = browser]
          ELSE Finish(j, "lost")
  /\ UNCHANGED <<chromium, lock, boce, counts, browser, alive, hung, pc, callVars, spoilt>>

\* Tasks begin in the order they were made: get_browser, and newPage up to its first await.
Visit(j) ==
  /\ job[j].at = "queued" /\ pc[job[j].owner] = "pages"
  /\ \A k \in JobsOf(job[j].owner) : job[k].at = "queued" => j <= k
  /\ \/ /\ browser = Nothing
        /\ job' = [job EXCEPT ![j].at = "launching"] /\ UNCHANGED browser
     \/ /\ browser \in alive
        /\ job' = [job EXCEPT ![j].at = "opening", ![j].uses = browser] /\ UNCHANGED browser
     \/ browser \in Browsers \ alive /\ Broken(j)
  /\ UNCHANGED <<chromium, lock, boce, counts, alive, hung, pc, callVars, spoilt>>

\* get_browser assigns what it launched, whatever another task has put there since.
Relaunched(j) ==
  /\ job[j].at = "launching" /\ ~hung
  /\ Unused # {} /\ Start(Fresh)
  /\ job' = [job EXCEPT ![j].at = "opening", ![j].uses = Fresh]
  /\ UNCHANGED <<chromium, lock, boce, counts, hung, pc, callVars, spoilt>>

RelaunchFails(j) ==
  /\ job[j].at = "launching" /\ ~hung
  /\ Finish(j, "lost")
  /\ Spoil
  /\ UNCHANGED <<chromium, lock, boce, counts, browser, alive, hung, pc, callVars>>

\* newPage of a browser that has died meanwhile: its error may be another one.
Opened(j) ==
  /\ job[j].at = "opening" /\ ~hung
  /\ IF job[j].uses \in alive
     THEN job' = [job EXCEPT ![j].at = "loading"] /\ UNCHANGED browser
     ELSE \/ Broken(j)
          \/ Finish(j, "lost") /\ UNCHANGED browser
  /\ UNCHANGED <<chromium, lock, boce, counts, alive, hung, pc, callVars, spoilt>>

Closed(j) ==
  /\ job[j].at = "closing" /\ ~hung
  /\ alive' = alive \ {job[j].uses}
  /\ browser' = Nothing
  /\ job' = [job EXCEPT ![j].at = "launching", ![j].uses = Nothing]
  /\ UNCHANGED <<chromium, lock, boce, counts, hung, pc, callVars, spoilt>>

\* goto, sleep and page.close, whose errors are swallowed; then the verdict.
Loaded(j) ==
  /\ job[j].at = "loading" /\ ~hung
  /\ \E v \in {"yes", "no"} : Finish(j, v)
  /\ UNCHANGED <<chromium, lock, boce, counts, browser, alive, hung, pc, callVars, spoilt>>

\* The pool, or gather, has all results; run_multiple counts those of the tasks.
Collect(h) ==
  /\ pc[h] \in {"requests", "pages"}
  /\ \A j \in JobsOf(h) : job[j].at = "done"
  /\ Goto(h, "answer")
  /\ UNCHANGED <<chromium, lock, boce, counts, browser, alive, hung, callVars, spoilt, job>>

Return(h) ==
  /\ pc[h] = "answer"
  /\ Leave(h)
  /\ UNCHANGED <<chromium, lock, boce, browser, alive, hung>>

-----------------------------------------------------------------------------
(* Chromium and the service from outside *)

Starting == \/ \E h \in Handlers : pc[h] \in {"probe", "launch"}
            \/ \E j \in Jobs : job[j].at = "launching"

Die(b) ==
  /\ b \in alive \cap Held
  /\ alive' = alive \ {b}
  /\ Spoil
  /\ UNCHANGED <<chromium, lock, boce, counts, browser, hung, pc, callVars, job>>

Hang ==
  /\ ~hung /\ (alive # {} \/ Starting)
  /\ hung' = TRUE
  /\ UNCHANGED <<chromium, lock, boce, counts, browser, alive, pc, callVars, spoilt, job>>

\* The service is killed with its threads and browsers, and starts anew.
Restart ==
  /\ lock' = Nothing /\ boce' = Nothing /\ browser' = Nothing /\ alive' = {} /\ hung' = FALSE
  /\ pc' = [h \in Handlers |-> "idle"]
  /\ kind' = [h \in Handlers |-> "serial"]
  /\ path' = [h \in Handlers |-> "default"]
  /\ checker' = [h \in Handlers |-> h]
  /\ asked' = [h \in Handlers |-> "default"]
  /\ alone' = [h \in Handlers |-> FALSE]
  /\ spoilt' = [h \in Handlers |-> FALSE]
  /\ job' = [j \in Jobs |-> NoJob]
  /\ counts' = [h \in Handlers |-> Zero]
  /\ UNCHANGED chromium

CallStep(h) ==
  \/ Look(h) \/ Lock(h) \/ Fetch(h) \/ Extract(h) \/ Chmod(h) \/ EnsureFails(h) \/ Probe(h)
  \/ Pick(h) \/ Create(h) \/ NoPages(h) \/ GetBrowser(h) \/ Launched(h) \/ LaunchFails(h)
  \/ Collect(h) \/ Return(h)

JobStep(j) ==
  \/ Ask(j) \/ AddTotal(j) \/ ReadOutcome(j) \/ AddOutcome(j) \/ Visit(j) \/ Relaunched(j)
  \/ RelaunchFails(j) \/ Opened(j) \/ Closed(j) \/ Loaded(j)

Next ==
  \/ \E h \in Handlers : Call(h) \/ CallStep(h)
  \/ \E j \in Jobs : JobStep(j)
  \/ \E b \in Browsers : Die(b)
  \/ Hang \/ Restart

Spec == Init /\ [][Next]_vars

\* Threads and the event loop are scheduled; who waits for _browser_lock gets it in
\* the end.
Fairness ==
  /\ \A h \in Handlers : WF_vars(CallStep(h)) /\ SF_vars(Lock(h) \/ GetBrowser(h))
  /\ \A j \in Jobs : WF_vars(JobStep(j))

FairSpec == Spec /\ Fairness

-----------------------------------------------------------------------------
(* Properties *)

\* The installed Chromium is being started: by the probe of a call, by the first launch, or
\* by a task, which takes the path of the latest call that uses its BoceChecker.
StartsInstalled ==
  \/ \E h \in Handlers : pc[h] \in {"probe", "launch"} /\ path[h] = "default"
  \/ \E j \in Jobs : job[j].at = "launching" /\ asked[checker[job[j].owner]] = "default"

\* The installed Chromium is run only when all of it is there: a second check that comes
\* during the extraction, or after a crash in the middle of one, does not take the half
\* for the whole, although isfile and access are tested outside the lock and the files are
\* extracted in place.  Except for an extraction made for another path over a Chromium
\* that is executable: while it goes on, and after one that was cut, half of it is run.
ChromiumIsWhole == StartsInstalled => chromium.files = "all" \/ chromium.over

\* The numbers answered by a check that no other overlaps.  One worker thread: exactly
\* what was asked, and a success per 200.  Several: increments may be lost, but nothing
\* is counted that did not happen, and no number is left from an earlier check.
AnswerIsExact ==
  \A h \in Handlers : pc[h] = "answer" /\ alone[h] /\ kind[h] # "browser" =>
     LET did(v) == Cardinality({j \in JobsOf(h) : job[j].verdict = v})
         said   == counts[checker[h]]
     IN  IF kind[h] = "serial"
         THEN said = [total |-> did("yes") + did("no"), success |-> did("yes"), fail |-> did("no")]
         ELSE /\ said.total \in 1..did("yes") + did("no")
              /\ said.success <= did("yes") /\ said.fail <= did("no")

\* A browser that died before a check that no other overlaps costs the check nothing:
\* every task notices, one of them or each starts a new one, and none closes a browser
\* that another has just started.  Tasks are lost only to a browser that dies, or does
\* not start, meanwhile.
OldCrashIsHidden ==
  \A h \in Handlers : pc[h] = "answer" /\ alone[h] /\ ~spoilt[h] =>
     \A j \in JobsOf(h) : job[j].verdict # "lost"

\* A call ends, whatever fails: only a Chromium that hangs may keep it, and it keeps a
\* check by requests only in two places: where that starts Chromium although it will not
\* use it, and at the lock, which a hung launch holds.
ChecksReturn ==
  \A h \in Handlers :
     pc[h] # "idle" ~> \/ pc[h] = "idle"
                       \/ hung /\ (kind[h] = "browser" \/ pc[h] \in {"lock", "probe"})

=============================================================================
