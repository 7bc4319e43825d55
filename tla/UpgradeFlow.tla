----------------------------- MODULE UpgradeFlow -----------------------------
(***************************************************************************)
(* The pushed upgrade: a binary arrives over HTTP in                       *)
(* versions/<version>/.staging, datatype 20 verifies and installs it       *)
(* (handlers.py _apply_pushed_upgrade, upgrader.py finalize_pushed_version) *)
(* and a background thread switches the `current` link and restarts the    *)
(* service (switch_to), which the `switch` command of the CLI, a process   *)
(* of its own, does too.  One step is one file operation or one use of the *)
(* lock.  A build stands for a binary and its sha256.                      *)
(***************************************************************************)
EXTENDS Naturals, FiniteSets

CONSTANTS
  Requests,   \* datatype 20 calls, each made once, on connections of their own
  Operators,  \* `socket_server switch` commands
  Versions,
  Builds,
  First,      \* the version installed and current at the start
  Factory,    \* its build
  MaxOthers,  \* bound on other connected clients
  Nobody, NoFile, NoVersion,
  Orderly     \* TRUE: nobody pushes a version while a datatype 20 call on it runs

ASSUME FirstAssumption    == First \in Versions /\ Factory \in Builds
ASSUME OthersAssumption   == MaxOthers \in Nat
ASSUME SentinelAssumption == /\ Nobody \notin Requests /\ NoVersion \notin Versions
                             /\ Requests \cap Operators = {}
ASSUME OrderlyAssumption  == Orderly \in BOOLEAN

Switchers == Requests \cup Operators

VARIABLES
  staging,    \* version -> file pushed to its .staging directory
  installed,  \* version -> its binary
  current,    \* target of the link `current`
  tmp,        \* target of the link `current.tmp`
  config,     \* what /opt/socket/config says of autoupgrade; "empty": being rewritten
  lock,       \* holder of _upgrade_lock
  pc, ver, sha, outcome,  \* per request
  sw,         \* per switcher: where switch_to stands
  wanted      \* per operator: the version of its command

fileVars   == <<staging, installed>>
linkVars   == <<current, tmp>>
callVars   == <<ver, sha>>
swVars     == <<sw, wanted>>
vars == <<fileVars, linkVars, config, lock, pc, callVars, outcome, swVars>>

File == [build : Builds, exec : BOOLEAN]

ASSUME FileAssumption == NoFile \notin File

Labels  == {"idle", "config", "lock", "clients", "isfile", "hash", "mismatch", "chmod",
            "replace", "rmtree", "release", "respond", "send", "done", "cut"}
\* "none": not running, or gone with the server; "failed", "refused" and
\* "killed" are the ends without a restart.
SwitchLabels == {"none", "check", "look", "unlink", "symlink", "rename", "restart",
                 "failed", "refused", "killed"}

\* Between acquire and release, and between the start of switch_to and its end.
Section   == {"clients", "isfile", "hash", "mismatch", "chmod", "replace", "rmtree", "release"}
Switching == {"check", "look", "unlink", "symlink", "rename", "restart"}

\* What the variables hold; the link `current` is always there, the new one may be.
TypeOK ==
  /\ staging \in [Versions -> File \cup {NoFile}]
  /\ installed \in [Versions -> File \cup {NoFile}]
  /\ current \in Versions
  /\ tmp \in Versions \cup {NoVersion}
  /\ config \in {"on", "off", "empty"}
  /\ lock \in Requests \cup {Nobody}
  /\ pc \in [Requests -> Labels]
  /\ ver \in [Requests -> Versions]
  /\ sha \in [Requests -> Builds]
  /\ outcome \in [Requests -> {"ok", "error", "raised"}]
  /\ sw \in [Switchers -> SwitchLabels]
  /\ wanted \in [Operators -> Versions]

Init ==
  /\ staging = [v \in Versions |-> NoFile]
  /\ installed = [v \in Versions |->
                    IF v = First THEN [build |-> Factory, exec |-> TRUE] ELSE NoFile]
  /\ current = First
  /\ tmp = NoVersion
  /\ config \in {"on", "off"}
  /\ lock = Nobody
  /\ pc = [r \in Requests |-> "idle"]
  /\ ver = [r \in Requests |-> First]
  /\ sha = [r \in Requests |-> Factory]
  /\ outcome = [r \in Requests |-> "error"]
  /\ sw = [s \in Switchers |-> "none"]
  /\ wanted = [o \in Operators |-> First]

-----------------------------------------------------------------------------
(* The world around the call *)

Connected(r) == pc[r] \notin {"idle", "done", "cut"}

\* POST /files publishes a file, mode 0644, with one rename.
Push(v, b) ==
  /\ Orderly => \A r \in Requests : ~(Connected(r) /\ ver[r] = v)
  /\ staging' = [staging EXCEPT ![v] = [build |-> b, exec |-> FALSE]]
  /\ UNCHANGED <<installed, linkVars, config, lock, pc, callVars,
                 outcome, swVars>>

\* set_autoupgrade: open(CONFIG_PATH, "w") empties the file, closing it writes it.
SetOpens ==
  /\ config # "empty"
  /\ config' = "empty"
  /\ UNCHANGED <<fileVars, linkVars, lock, pc, callVars, outcome, swVars>>

SetWrites ==
  /\ config = "empty"
  /\ config' \in {"on", "off"}
  /\ UNCHANGED <<fileVars, linkVars, lock, pc, callVars, outcome, swVars>>

-----------------------------------------------------------------------------
(* _apply_pushed_upgrade *)

Goto(r, label) == pc' = [pc EXCEPT ![r] = label]

\* From here on the call's result is known and only the lock is to be released.
Conclude(r, o) ==
  /\ Goto(r, "release")
  /\ outcome' = [outcome EXCEPT ![r] = o]

\* A call refused before it had the lock.
Refuse(r) == Goto(r, "respond") /\ UNCHANGED outcome

Begin(r) ==
  /\ pc[r] = "idle"
  /\ \E v \in Versions, b \in Builds :
       ver' = [ver EXCEPT ![r] = v] /\ sha' = [sha EXCEPT ![r] = b]
  /\ Goto(r, "config")
  /\ UNCHANGED <<fileVars, linkVars, config, lock, outcome, swVars>>

\* A file without the key, as while it is rewritten, counts as "on".
ReadConfig(r) ==
  /\ pc[r] = "config"
  /\ IF config = "off" THEN Refuse(r) ELSE Goto(r, "lock") /\ UNCHANGED outcome
  /\ UNCHANGED <<fileVars, linkVars, config, lock, callVars, swVars>>

TryLock(r) ==
  /\ pc[r] = "lock"
  /\ IF lock = Nobody THEN lock' = r /\ Goto(r, "clients") /\ UNCHANGED outcome
                      ELSE UNCHANGED lock /\ Refuse(r)
  /\ UNCHANGED <<fileVars, linkVars, config, callVars, swVars>>

\* _active_clients counts every connection; the others come and go at any time.
ActiveClients(others) == others + Cardinality({x \in Requests : Connected(x)})

\* get_idle_state counts this call's own connection too.
CheckClients(r) ==
  /\ pc[r] = "clients"
  /\ \E force \in BOOLEAN, others \in 0..MaxOthers :
       IF ActiveClients(others) > 1 /\ ~force
       THEN Conclude(r, "error")
       ELSE Goto(r, "isfile") /\ UNCHANGED outcome
  /\ UNCHANGED <<fileVars, linkVars, config, lock, callVars, swVars>>

IsFile(r) ==
  /\ pc[r] = "isfile"
  /\ IF staging[ver[r]] = NoFile THEN Conclude(r, "error")
                                 ELSE Goto(r, "hash") /\ UNCHANGED outcome
  /\ UNCHANGED <<fileVars, linkVars, config, lock, callVars, swVars>>

\* Fault: the comparison is the wrong way round.
HashInverted(r) ==
  /\ pc[r] = "hash"
  /\ Goto(r, IF staging[ver[r]].build = sha[r] THEN "mismatch" ELSE "chmod")
  /\ UNCHANGED <<fileVars, linkVars, config, lock, callVars, outcome, swVars>>

\* Fault: the hash is computed and not compared.
HashOnly(r) ==
  /\ pc[r] = "hash"
  /\ Goto(r, "chmod")
  /\ UNCHANGED <<fileVars, linkVars, config, lock, callVars, outcome, swVars>>

\* The whole file is read through one handle and its hash compared.
Hash(r) ==
  /\ pc[r] = "hash"
  /\ Goto(r, IF staging[ver[r]].build = sha[r] THEN "chmod" ELSE "mismatch")
  /\ UNCHANGED <<fileVars, linkVars, config, lock, callVars, outcome, swVars>>

\* The whole staging directory is removed.
Mismatch(r) ==
  /\ pc[r] = "mismatch"
  /\ staging' = [staging EXCEPT ![ver[r]] = NoFile]
  /\ Conclude(r, "error")
  /\ UNCHANGED <<installed, linkVars, config, lock, callVars, swVars>>

\* Fault: the mode stays as the upload left it.
ChmodNothing(r) ==
  /\ pc[r] = "chmod"
  /\ Goto(r, "replace")
  /\ UNCHANGED <<fileVars, linkVars, config, lock, callVars, outcome, swVars>>

Chmod(r) ==
  /\ pc[r] = "chmod"
  /\ staging' = [staging EXCEPT ![ver[r]].exec = TRUE]
  /\ Goto(r, "replace")
  /\ UNCHANGED <<installed, linkVars, config, lock, callVars, outcome, swVars>>

Replace(r) ==
  /\ pc[r] = "replace"
  /\ installed' = [installed EXCEPT ![ver[r]] = staging[ver[r]]]
  /\ staging' = [staging EXCEPT ![ver[r]] = NoFile]
  /\ Goto(r, "rmtree")
  /\ UNCHANGED <<linkVars, config, lock, callVars, outcome, swVars>>

\* Whatever was pushed since the rename goes with the directory.
RemoveStaging(r) ==
  /\ pc[r] = "rmtree"
  /\ staging' = [staging EXCEPT ![ver[r]] = NoFile]
  /\ Conclude(r, "ok")
  /\ UNCHANGED <<installed, linkVars, config, lock, callVars, swVars>>

\* Fault: an exception skips the release.
RaiseLocked(r) ==
  /\ pc[r] \in {"hash", "chmod", "replace"}
  /\ Goto(r, "respond")
  /\ outcome' = [outcome EXCEPT ![r] = "raised"]
  /\ UNCHANGED <<fileVars, linkVars, config, lock, callVars, swVars>>

\* A file operation raises OSError: out through the `finally`, up to the
\* connection, which is closed without an answer.
Raise(r) ==
  /\ pc[r] \in {"hash", "chmod", "replace"}
  /\ Conclude(r, "raised")
  /\ UNCHANGED <<fileVars, linkVars, config, lock, callVars, swVars>>

Release(r) ==
  /\ pc[r] = "release"
  /\ lock' = Nobody
  /\ Goto(r, "respond")
  /\ UNCHANGED <<fileVars, linkVars, config, callVars, outcome, swVars>>

\* do() starts the background thread before the answer is sent; the result is not
\* looked at again.
Respond(r) ==
  /\ pc[r] = "respond"
  /\ sw' = [sw EXCEPT ![r] = IF outcome[r] = "ok" THEN "check" ELSE @]
  /\ Goto(r, IF outcome[r] = "raised" THEN "done" ELSE "send")
  /\ outcome' = [outcome EXCEPT ![r] = "error"]
  /\ UNCHANGED <<fileVars, linkVars, config, lock, callVars, wanted>>

Send(r) ==
  /\ pc[r] = "send"
  /\ Goto(r, "done")
  /\ UNCHANGED <<fileVars, linkVars, config, lock, callVars, outcome, swVars>>

-----------------------------------------------------------------------------
(* switch_to, in the background thread of a call or in a CLI process *)

SwGoto(s, label) == sw' = [sw EXCEPT ![s] = label]

Target(s) == IF s \in Requests THEN ver[s] ELSE wanted[s]

Runnable(v) == installed[v] # NoFile /\ installed[v].exec

\* switch_version accepts a version that list_local_versions names.
Operate(o, v) ==
  /\ sw[o] = "none"
  /\ installed[v] # NoFile
  /\ SwGoto(o, "check")
  /\ wanted' = [wanted EXCEPT ![o] = v]
  /\ UNCHANGED <<fileVars, linkVars, config, lock, pc, callVars, outcome>>

SwCheck(s) ==
  /\ sw[s] = "check"
  /\ SwGoto(s, IF Runnable(Target(s)) THEN "look" ELSE "failed")
  /\ UNCHANGED <<fileVars, linkVars, config, lock, pc, callVars, outcome, wanted>>

\* Fault: a link left by a switch that died is not looked for.
SwSkip(s) ==
  /\ sw[s] = "look"
  /\ SwGoto(s, "symlink")
  /\ UNCHANGED <<fileVars, linkVars, config, lock, pc, callVars, outcome, wanted>>

SwLook(s) ==
  /\ sw[s] = "look"
  /\ SwGoto(s, IF tmp = NoVersion THEN "symlink" ELSE "unlink")
  /\ UNCHANGED <<fileVars, linkVars, config, lock, pc, callVars, outcome, wanted>>

\* The link may be gone by now: FileNotFoundError.
SwUnlink(s) ==
  /\ sw[s] = "unlink"
  /\ SwGoto(s, IF tmp = NoVersion THEN "failed" ELSE "symlink")
  /\ tmp' = NoVersion
  /\ UNCHANGED <<fileVars, current, config, lock, pc, callVars, outcome, wanted>>

\* The link may be there again: FileExistsError.
SwSymlink(s) ==
  /\ sw[s] = "symlink"
  /\ IF tmp = NoVersion THEN tmp' = Target(s) /\ SwGoto(s, "rename")
                        ELSE UNCHANGED tmp /\ SwGoto(s, "failed")
  /\ UNCHANGED <<fileVars, current, config, lock, pc, callVars, outcome, wanted>>

\* Fault: that the link has gone is not noticed.
SwRenameUnchecked(s) ==
  /\ sw[s] = "rename"
  /\ current' = tmp
  /\ SwGoto(s, "restart")
  /\ tmp' = NoVersion
  /\ UNCHANGED <<fileVars, config, lock, pc, callVars, outcome, wanted>>

\* Whichever link has the name now becomes `current`.
SwRename(s) ==
  /\ sw[s] = "rename"
  /\ IF tmp # NoVersion THEN current' = tmp /\ SwGoto(s, "restart")
                        ELSE UNCHANGED current /\ SwGoto(s, "failed")
  /\ tmp' = NoVersion
  /\ UNCHANGED <<fileVars, config, lock, pc, callVars, outcome, wanted>>

\* The server's process is replaced: connections, threads and the lock are gone.
Restarted ==
  /\ lock' = Nobody
  /\ pc' = [r \in Requests |-> IF Connected(r) THEN "cut" ELSE pc[r]]
  /\ outcome' = [r \in Requests |-> "error"]

SwRestart(s) ==
  /\ sw[s] = "restart"
  /\ Restarted
  /\ sw' = [x \in Switchers |-> IF x = s \/ x \in Requests THEN "none" ELSE sw[x]]
  /\ UNCHANGED <<fileVars, linkVars, config, callVars, wanted>>

\* systemctl fails: logged, and the old process runs on.
SwRefused(s) ==
  /\ sw[s] = "restart"
  /\ SwGoto(s, "refused")
  /\ UNCHANGED <<fileVars, linkVars, config, lock, pc, callVars, outcome, wanted>>

OperatorDies(o) ==
  /\ sw[o] \in Switching
  /\ SwGoto(o, "killed")
  /\ UNCHANGED <<fileVars, linkVars, config, lock, pc, callVars, outcome, wanted>>

\* The server dies by itself and systemd starts it again.
Crash ==
  /\ Restarted
  /\ sw' = [x \in Switchers |-> IF x \in Requests THEN "none" ELSE sw[x]]
  /\ UNCHANGED <<fileVars, linkVars, config, callVars, wanted>>

-----------------------------------------------------------------------------
CallStep(r) ==
  \/ ReadConfig(r) \/ TryLock(r) \/ CheckClients(r) \/ IsFile(r) \/ Hash(r) \/ Mismatch(r)
  \/ Chmod(r) \/ Replace(r) \/ RemoveStaging(r) \/ Raise(r) \/ Release(r) \/ Respond(r) \/ Send(r)

SwitchStep(s) ==
  \/ SwCheck(s) \/ SwLook(s) \/ SwUnlink(s) \/ SwSymlink(s) \/ SwRename(s)
  \/ SwRestart(s) \/ SwRefused(s)

Next ==
  \/ \E v \in Versions, b \in Builds : Push(v, b)
  \/ SetOpens \/ SetWrites
  \/ \E r \in Requests : Begin(r) \/ CallStep(r)
  \/ \E o \in Operators : OperatorDies(o) \/ \E v \in Versions : Operate(o, v)
  \/ \E s \in Switchers : SwitchStep(s)
  \/ Crash

Spec == Init /\ [][Next]_vars

-----------------------------------------------------------------------------
(* Properties *)

\* "Installed only if the sha256 is the one of the call": a binary in place is the
\* first one or one that a call which got as far as installing asked for.
InstalledIsVerified ==
  \A v \in Versions : installed[v] # NoFile =>
     \/ v = First /\ installed[v].build = Factory
     \/ \E r \in Requests : /\ pc[r] \in {"rmtree", "release", "respond", "send", "done", "cut"}
                            /\ ver[r] = v /\ sha[r] = installed[v].build

\* At every moment, whatever calls, switches and crashes are under way, the link
\* `current` names a binary that systemd can execute: ExecStart goes through it.
CurrentRuns == Runnable(current)

\* _upgrade_lock is held from the acquire to the release of one call and by no
\* other: two calls never verify and install at a time, and whichever way a call
\* leaves its try block the lock is not kept, which would shut upgrades off.
LockMatches == \A r \in Requests : lock = r <=> pc[r] \in Section

\* A switch that another one took the link from has failed without a word to the
\* client, which was told ok; then another switch is still on its way to the
\* restart.  Only a systemctl that fails, or a CLI process killed inside its own
\* switch, leaves an accepted upgrade without one.
AcceptedRestarts ==
  (\E r \in Requests : sw[r] = "failed") =>
     \E s \in Switchers : sw[s] \in Switching \cup {"refused", "killed"}

\* A file that was pushed goes away only by being installed or because its hash is
\* not the one of the call on its version: no call deletes what another is to install
\* (rmtree after the installation, and after a mismatch, is of the whole directory).
PushIsUsed ==
  [][\A v \in Versions : staging[v] # NoFile /\ staging'[v] = NoFile =>
       \/ installed'[v] = staging[v]
       \/ \E r \in Requests : lock = r /\ ver[r] = v /\ sha[r] # staging[v].build]_vars

=============================================================================
