# Verification of socket_server

`socket_server` is a Python service that runs on test machines: it captures
packets, replays and inspects pcap files, listens for TCP data, takes and gives
files, and upgrades itself, driven by a central server over TCP (port 9000) and
HTTP (port 9001). This directory holds TLA+ modules translated from
`src/socket_server/`, the TLC configurations that check them, and proofs checked
by TLAPS.

Check a configuration with `tlc -config X.cfg M`, the proofs with
`tlapm <module>Proofs.tla`. `PROJECT.json` lists components, runs, the
mutated definition that each property must refuse, the source lines of every
definition, findings, hazards and theorems.

## 1. The system and its parts

| part | source | state | operations | interacts with |
|---|---|---|---|---|
| capture registry | `capture.py` 482-621 | `_captures`: path → (process, stop event), under a lock that no call holds while it waits | `tcpdump_start`, `tcpdump_stop`, `tcpdump_isrun` | forks capture processes; called by handler threads |
| capture process | `capture.py` 56-479, 624-684 | socket queue, pcap file, stop event | receive, stop, drain, close, sort, exit code | the registry, by ready message, stop event and exit code |
| HTTP file service | `http_file.py` | files, `.part` files, temporary directories | `POST /files`, `GET /files`, `GET /health` | the disk; the upgrade's staging directory |
| upgrade | `handlers.py` 31-97, `upgrader.py` | `_upgrade_lock`, `versions/<v>`, link `current` | datatype 20, `switch_to`, CLI `switch` | HTTP push, systemd, the client counter |
| upgrade switch | `autoupgrade.py` | a JSON file | `is_enabled`, `set_enabled` | datatype 20, CLI |
| supervisor | `supervisor.py` | the systemd unit | write, repair, restart | upgrade, CLI |
| framing | `protocol.py` | the bytes read, the upload under way | datatypes 21-24, everything else to `do()` | one thread per connection |
| server | `server.py` | number of clients | accept, `get_idle_state` | upgrade |
| dispatch | `handlers.py` | globals `ss`, `boce`, `_upgrade_lock` | `do(datatype, data)` | all parts |
| listener | `socket_listen.py` | session list of processes, queue, data | datatypes 171-175 | forks listening processes |
| replay | `replayer.py` | flow table, counters | datatype 0 | pcap files, network |
| flow extraction | `pcap_flow.py` | flows of one file | datatype 200 | pcap files |
| NIC/CPU binding | `capture.py` 749-1051 | IRQ and RPS settings, binding tables | around a capture | capture process |
| web check | `boce.py` | counters, one shared browser | datatype 131 | network, Chromium |
| helpers, CLI, packaging | `netutils.py`, `cli.py`, `__init__.py`, `packaging/` | none | | |

What is hard here: every connection has a thread; captures and listeners are
forked processes that know the parent only by events, signals and exit codes;
almost nothing is locked; waits have time limits and go on regardless; files are
the shared state, and a disk can be full, a process killed and the server
restarted between any two operations on them.

What makes each part correct:

- *registry*: no capture without an owner, one per path, its file its own, and a
  stop that says True has stopped it; every call returns.
- *capture process*: what was received before the stop is in the file, each clock's
  frames in order, and zero is returned only then; sorting loses nothing; it ends.
- *file service*: a path names whole files, ok means published, nothing is left
  behind, a download is of one version.
- *upgrade*: only verified binaries are installed, `current` always runs, one
  installation at a time, no push is lost to another call, the lock is freed, an
  accepted upgrade restarts.
- *framing*: answers match requests wherever the stream is cut.
- *listener*: no process out of reach, data in order, a clean is thorough.
- *NIC and CPU binding*: two captures that run at once use different CPUs.
- *web check*: Chromium is run only whole, the numbers of a check are its own, a
  browser that died before it costs it nothing, every check ends.
- *replay and extraction*: the two directions of a flow differ, and both parts
  name the same client.

## 2. Modules

Each module's variables, one action per step and their sources are in the
module's comments and in `map`. A handler thread is a program counter with the
call's locals. A step is what the code does between two points at which somebody
else can act: one `with lock`, one file operation, one fork, one wait. A wait
with a limit ends by its event or by its limit at any time: no model has a clock.

| module | models | main abstractions |
|---|---|---|
| `CaptureRegistry` | registry, its handler threads, each child's life from outside, its file (name, writers, content, frames lost), server restart | a file's content is the set of children that wrote it; `lossy` and `faulty` are the children that lost frames, and those that an error of disk or interface cost some |
| `CaptureRegistryProofs` | theorems about it | |
| `Recorder` | abstract specification: what a capture promises | |
| `CaptureChild` | a capture process from inside: kernel queue, receive thread, main thread, sort; implements `Recorder` | a frame is its place on the wire, a clock and a stamp; the clocks are some way apart |
| `CaptureChildProofs` | theorems about it, and that it implements `Recorder` | |
| `HttpUpload` | uploads to one path, which overlap, and downloads from it, names and inodes | a file is a sequence of chunks; the last one is still in the file object's buffer at `close()` |
| `HttpUploadProofs` | theorems about it | |
| `UpgradeFlow` | datatype 20, install, switch thread, CLI `switch`, pushes, the configuration file, crashes | a build stands for a binary and its hash; the number of other clients is any, at each look |
| `UpgradeFlowProofs` | theorems about it | |
| `TcpFraming` | the read loop of one connection, its client and the byte stream | a length is two units of the stream, all else one; four bytes that are no length may spell any; a command is one that `do()` handles or one that it does not |
| `TcpFramingProofs` | theorems about it | |
| `ListenSession` | `ss`, sessions, listening processes, queue with its count, feeders and pipe, consumer threads | one port; a chunk is what one `recv` returned; the name of a session that nobody holds is used again |
| `ListenSessionProofs` | theorems about it | |
| `WebCheck` | datatype 131: installing Chromium, the shared checker and its counters, the shared browser, hanging and dying browsers, restarts | a URL's answer is yes or no; a step of a thread ends at its next access to shared state, of a task at its next `await`; a `chromium_path` is the installation's or another, of which nothing is known; the name of a browser nobody holds is used again |
| `WebCheckProofs` | theorems about it | |
| `NicBinding` | `SingleQueueRxThread` in each capture process, what it sets on the machine, tables per process | an interface has one interrupt or none, perhaps another interface's; every set of CPUs may be busy |
| `FlowDirection` | replay's flow table, rewriting and counters; extraction's flows; both over the same files | a packet is its ends, the MAC addresses it comes from and goes to, what its flags or payload tell, its tag, and whether the file ends inside it; the files are one sequence of records and the places where each begins |
| `FlowDirectionProofs` | theorems about it | |

`MC*.tla` give values to constants that a `.cfg` cannot write. `CaptureRegistry`
and `CaptureChild` have the same process from its two sides and are not
composed: the registry takes from the child only ready, exit code and file.
External code (kernel, systemd, a client, the `ss` command) is modelled by what
`src/` makes of it and marked in `map`.

Every module has a type invariant; the configurations of `capture_child`, `framing`,
`listen` and `flow_direction` leave theirs out, so that a run spends its time on
what could really be wrong. It holds there too: add it to see.

### What clients are assumed to do

Some constants hold assumptions, with the document they come from:

- `SerialPerPath` (`docs/mcp-integration.md` 70-71: captures are exclusive by
  interface and path): two start or stop calls on one path do not overlap. The
  document's lock includes the interface, so two interfaces recorded to one path
  would still overlap: this is the case left out. With FALSE, `OneRecorder`,
  `NoOrphan` and `StopTrueIsFinal` fail: both starts see no entry in `capture.py` 504 and fork, and the
  comment there, "stop the old one first", does not hold.
- `Orderly` (`docs/mcp-integration.md` 76, upgrade exclusive per machine):
  nobody pushes a version while a datatype 20 call on that version runs. The calls
  themselves do overlap in the model. With FALSE, `InstalledIsVerified` fails:
  the staged file is replaced between hash and rename (`upgrader.py` 49).
- `Serial` (`docs/mcp-integration.md` 79-80): start, clean and stop of the
  listener do not overlap. One handler thread is then enough for the run, since
  the calls that may still overlap, 173 and 174, change nothing. With FALSE, two
  threads and two sessions `NoStray` fails: both threads find `ss` empty at
  `handlers.py` 383 and the second session hides the first.
- `alone` in `WebCheck` (`docs/mcp-integration.md` 78, web checks exclusive per
  machine): `AnswerIsExact` and `OldCrashIsHidden` speak of calls that no other
  overlaps. The model does let them overlap, and without `alone` the two fail
  when both handlers ask alike: the second call's `update()` clears the first one's counters (`boce.py` 448), and a
  task of one may close the browser that a task of the other has just opened a
  page in. `ChromiumIsWhole` and `ChecksReturn` hold for all calls.

`TcpFraming` takes the documented client, which waits for each answer. The one
second that `cleandata` sleeps is taken to be longer than one turn of a consumer.

## 3. Runs

| run | what it shows | bounds |
|---|---|---|
| `capture_serial` | ownership of captures and files with failing, hanging, dying children and restarts | 2 threads, 2 paths, 2 children: an old and a new child on one path, or two paths at once |
| `capture_open` | every call returns, a child told to stop dies, calls overlapping | 2 threads, 1 path, 1 child |
| `capture_child` | completeness, order, safe sort, termination, `Recorder` | 3 frames, queue of 2: one written, one queued, one dropped or late; the interface's clock agrees with the process's, the kernel's is 3 ahead, beyond any stamp of the others |
| `capture_full` | violated, see findings | the same |
| `http_upload` | whole files, ok is published, no rubbish, downloads unmixed | 2 uploads of up to 2 chunks that overlap, 1 download, every order of fields, one missing, a bad path |
| `http_close` | violated, see findings | 1 upload |
| `upgrade` | verified, runnable, exclusive, pushes used, accepted upgrades restart | 2 calls and 1 CLI switch: three users of one temporary link; 2 versions, 2 builds, 1 other client |
| `framing` | answers, uploads, no silent wait | files of up to 3 bytes, 2 paths, every cut of the stream |
| `listen` | reach, order, thorough clean, return | 1 handler thread, 2 sessions, 2 processes, 2 consumers, 2 chunks: a session started twice, or one stopped and another started |
| `web_check` | Chromium whole, exact numbers, old crashes hidden, checks end | 1 handler that asks with requests and 1 with the browser, 2 jobs, 3 browsers (the shared one and one per task), counters up to 3; the first may name another `chromium_path` (`Elsewhere`) when it asks with one thread |
| `nic_binding` | violated, see findings | 2 captures, 2 interfaces, 3 CPUs: CPU 0 is reserved, so one is left for the second |
| `flow_direction` | directions, rewriting, counts, client, agreement | all files of up to 3 records out of 15, split over 2 files, under 7 configurations |

The bounds are what the hazard needs: each of the protocols here goes wrong, when
a definition is mutated, with two actors on one thing, or one actor and a
predecessor. Symmetry is used only in runs without liveness. In
`flow_direction` three records are enough for every rule, since a direction is
decided by the packet and at most one remembered entry, a client by the first
telling packet after a silent one and before a contrary one. In `web_check`
`Requesters` and `Visitors` say which kind of check a handler makes: `Elsewhere` says
which kinds of calls may name another path: with all kinds the run takes longer than five
minutes, and the theorem covers them. A counter
of a `BoceChecker` that calls in progress keep from being cleared stays at
`MaxCount`, which an `alone` call cannot reach.
A connection of `listen` sends a bounded number of chunks: under a client that never
stops sending the queue need not be empty when a clean looks, and it may wait on.

Deadlock is checked except in `listen` (a clean with no consumer waits for ever,
which is what the code does) and `flow_direction` (the answer ends the request).

### Fairness

Weak fairness, with one exception, on what the operating system schedules: the
steps of a handler thread (`ThreadStep`, `CallStep`), of the child's main thread,
of a consumer thread, of the feeder of a listening process (`Feed`), of the event loop's
tasks (`JobStep`), of the framing loop and delivery by TCP. A wait is bounded by a limit that is itself a step, so
fairness of the thread brings it to its end, except for two waits of the web
check, below. No fairness on clients (except that one that has begun to
send a file goes on), on the receive thread, on failures or on children that
would obey; `Die(p)` is fair because it is the kernel's answer to SIGKILL. The
one strong fairness is on `_browser_lock` in `WebCheck`: a thread that waits for
a lock which is freed again and again gets it in the end. Python's lock promises
no order, but each holder makes calls that release the interpreter before it
could come back. The two waits without a limit, for the
launch (`boce.py` 234) and for the test run of Chromium that every check makes
(`handlers.py` 272), are steps that a hung Chromium disables, and `ChecksReturn`
says what that holds up. `upgrade` states no fairness: what must
still happen there is stated as what is still on its way (`AcceptedRestarts`).

## 4. Findings

1. `capture_full`: a full disk at the drain (`capture.py` 253) or at the last
   flush (392) is swallowed, and the process exits with 0, although the comment at
   479 has a non-zero code for a pcap that may be incomplete.
2. `nic_binding`: a capture process notes the CPU it has bound in tables of its
   own memory (`capture.py` 895-897), so the next capture, forked from a service
   whose tables stay empty, takes the same CPU for another interface, against the
   comment at 978-979. No overlap in time is needed: in the
   counterexample both processes choose from the empty tables they were forked with.
3. `http_close`: the last flush of an upload happens in `close()`, whose error is
   ignored (`http_file.py` 343): the short part file is renamed and answered 200,
   against `docs/api-guide.md` 109. `DestIsWhole` and `OkIsPublished` name this
   case as their excuse; `NoHalfFile` has none.

What the code does against a document and a property lets pass, by name:

- `Answered`: datatypes 121 to 123 are comments (`handlers.py` 225-254), so `do()` returns None and
  `protocol.py` 121 sends nothing and keeps the connection: the client waits for ever (`waiting =
  "unknown"`). `docs/api-guide.md` 54-56 lists them with answers, and `test_e2e.py` 378-387 sends 122 and
  expects one; `docs/mcp-integration.md` 82 has them as withdrawn.
- `StopTrueIsFinal`: a capture that lost frames to an error of disk or interface ends with 0 and its stop is answered
  True (`faulty`; finding 1, and `capture.py` 214-230, 255 for a receive thread that died), against the comment at 479.
- `NothingLeftBehind`: a bad path (one with a NUL byte) that comes after the file makes `_normalize` raise outside of
  any `try` (`http_file.py` 350): the connection closes without an answer and the temporary file stays, or the `.part` file
  when an earlier path field was good (`Abandoned`). `_discard_upload` (217-218) is there for failed uploads.
- `DestIsWhole`, `OkIsPublished`, `GetIsOneVersion`: uploads to one path that overlap have one `.part` file between them, named
  after the path alone (`http_file.py` 316): what they wrote together is published, also half-written, against
  `docs/api-guide.md` 109 (`shared`).
- `FileInWireOrder`: `_decode_ts_ns` chooses a clock for each frame (`capture.py` 277-296), and frames of different clocks stand
  in the file as their clocks say.
- `CleanIsThorough`: `self.data += tmp_q_get` (`socket_listen.py` 146) reads the data and writes them back later; a clean in between
  (130) is undone, and answered ok (`raced`).
- `CallsReturn` of `ListenSession`: a listening process that dies with chunks its feeder has not written leaves `qsize()` above zero for
  ever, so that consumers turn round in `get` and `continue` (140-144) and a clean waits (127), until the session is
  replaced (`Stuck`); the same without any consumer left.
- `ChromiumIsWhole`: the `chromium_path` of a request decides whether Chromium is extracted, but not where (`handlers.py` 261-267,
  `boce.py` 142-175; `docs/api-guide.md` 57 documents the parameter). With another path than the installation's an executable
  Chromium is written over in place and stays executable, so a check that starts it meanwhile, or after the
  extraction was cut, runs half of it (`over`).

Further: a second 171 on a session whose processes died
starts a second `cachedata` thread on the same queue (`socket_listen.py` 96), and
the two store chunks of one connection out of order, against `CHANGELOG.md` 319
(`OneConsumerInOrder` holds where there is one consumer). With hints that name other
hosts than a flow's, the fallback announced at `replayer.py` 244 and 247 is not reached, since
the other rules are `elif` and `else` of the same `if` (249, 253): both directions go uplink (`OppositeWays`). Frames with a
VLAN tag leave without the forced fields, against the docstring at `replayer.py` 576, since the IP
version is read where the tag is (335; `Mirrored`); a tag of priority 2 or 3 would even be taken for an IP
header and the frame garbled: the model has priority 0 only. Without a document to
contradict: hints that name one host as client and as server make both directions of a flow
between two of its ports uplink (`OppositeWays`); a flow over two pairs of MAC addresses counts twice
(`CountsFlows`); a move across disks writes the destination in place (`Torn`); frames of a
file that are sent without a pause and read as one are thrown away, and from then on the
handler reads lengths where there are none, so that a corrupted file may still be answered
"24 ok" (`dropped`); a file of the two bytes `^$` is stored empty (`UploadIsFaithful`).

## 5. Proofs

`CaptureRegistryProofs` proves, for every set of threads, paths and children:

- `TypeCorrect`: `Spec => []TypeOK`, through `Inv1Invariant`. `TypeOK` alone is
  not inductive: that a handler's local entry, or one read from `_captures`, was
  forked for the handler's path (`CallOK`, `EntryOK`, `BornOK`) is needed to
  know that signals and waits go to a child that exists. No discipline is assumed.
- `NoOrphanCorrect` and `OneRecorderCorrect`: under `SerialPerPath`. `Inv2` adds
  that calls exclude each other per path, that what a call has read of its entry
  is still true (`HeldOK`), and that no two children record for a path. `NoOrphan`
  is not inductive by itself: the pop at `capture.py` 605 and the one at 510 are
  harmless only because the entry is still the one that was read and its child
  has been told to stop or is dead.
- `OwnsFileCorrect` and `StopTrueCorrect`: under `SerialPerPath`. `Inv3` follows the
  file of a path through its capture: a child that lives is registered or in the hands of
  the call that forked it (`LiveOK`); from the time it has its file open, until somebody
  gives it up, the path names a file that holds what it recorded and nothing else, also
  while its sort renames a copy over it (`ReadyOK`, `FileOK`); a stop that found a capture
  and came to True still has that file, and frames of it are missing only by an error of disk or
  interface (`StoppedOK`). Where a start call may unlink the
  file no child is trusted any more (`PathIsFree`).

`CaptureChildProofs` proves every safety property of the capture process, for every number of
frames, queue length and capture mode, without any discipline:

- `SortIsStable`: the list that `_sort_pcap_by_timestamp` writes back is the list that it
  read, in timestamp order, frames of one timestamp in the order of the file. The model
  says where each frame goes (`Rank`, how many are before it), and the proof is that
  `Rank` is a bijection that respects the order, by counting.
- `InvInvariant`. `Placed`: every frame taken is at one place at a time, the socket's queue, the
  buffer or the file, and there once. `Kept`: without a fault none is at no place, and what was
  taken when the stop came is past the queue once the receive thread has ended, past
  the buffer once the file is closed. `Life`: where the two threads can stand together. `Sorting`:
  what the sort holds between read and rename is the file, sorted. `Stamped`: what the
  stamps of each clock say of the order on the wire.
- `CompleteCorrect` from `Kept`, `WireOrderCorrect` from `Stamped` and `Sorting`,
  `SortKeepsCorrect` from `Sorting` and `SortIsStable`.
- `RefinesRecorder`: every behaviour is one of `Recorder`, step by step, through
  `Inv`. Each step of the receive thread or the main thread is a step of the abstract capture or a stutter.

`HttpUploadProofs` proves every safety property that `http_upload` checks, for every
number of uploads, downloads and chunks, every form of the body and every overlap, without a
discipline, from `TypeInv` and `Inv`. `FreshOK`: where an upload stands before and after it opens its file.
`TempOK`: a temporary file is its upload's own and holds what it has written. `OwnOK`: so does a
`.part` that was never shared; `TwoOK`: two uploads that overlap on it share whatever they have.
`CopyOK`: the same for a copy across disks, which has the path's name. `PartOK`, `CleanOK`: `.part` belongs to
an upload that runs, was abandoned, or a crash left it. `DestOK` names whoever filled the
destination. `PureOK`: what a download has sent and may still read are one version's.

`ListenSessionProofs` proves every safety property of the listener, for every number of
threads, sessions, processes, connections and consumers:

- `TypeInvariant`: `TypeOK` with the place of each call (`ThreadOK`), and that processes,
  connections and consumers have a session. The run leaves this one out.
- `StrayCorrect`, under `Serial`, from `SerialInv`: what listens or is about to is in the list
  of the session that `ss` names; from the kill to the end of a stop nothing listens.
- `CleanCorrect`, however calls overlap and processes die, from `QueueInv` and `CleanInv`. `QueueInv` is what
  makes the count of a queue mean something: for every connection the chunks taken, those in the pipe and
  those with the feeder are consecutive, up to the last that was put. So a clean that has seen
  zero has all that came before it behind it (`Waited`), past its sleep no consumer has any of it in
  hand (`Slept`), and past the clearing none is in the data or in a copy, unless a consumer
  was to write back then (`Cleared`).
- `OrderCorrect`, however calls overlap, from `OrderInv`: data, hand and queue of a session
  with one consumer, put together, are one stream, consecutive for each connection and
  up to the last chunk received. Between the consumer's load and its store the
  stream starts from the copy, and the data are that copy or were cleared meanwhile.

`UpgradeFlowProofs` proves all six properties of `UpgradeFlow`, for every set of
calls, operators, versions and builds:

- `UpgradeTypes` and `UpgradeLock` from `Inv1`, without any discipline. `Inv1` adds to
  the two that a call which has found its file keeps it (`StagedOK`): only the holder
  of the lock removes one. Without it the `chmod` could meet no file.
- `VerifiedCorrect`, `CurrentCorrect`, `AcceptedCorrect` and `PushCorrect` from
  `Inv2`, under `Orderly`. `CallOK`: from the hash to the rename the staged file is the one
  that was hashed, and executable after the chmod, since pushes stay away and other
  calls wait for the lock. `LinksOK`: whatever is installed is executable, and both
  links and every switch are to what is installed. `SomeoneGoesOn`: as long as the
  restart of an accepted upgrade has not come, some switch is on its way to one: a
  switch that finds the temporary link gone, or there again, has lost it to another.

`WebCheckProofs` proves every safety property of `WebCheck`, for every number of
handlers, jobs and browsers:

- `WebTypes` and `WholeCorrect`. `TypeOK` needs that a job under way has an owner
  (`Owned`). `Whole` says why half of Chromium is not run: the files get their
  execute permission last, by the one handler that holds the lock, and nobody who asks for
  this path extracts once it is there; so what was found executable, in the lock or out of it, is whole,
  and stays so over a restart, unless a call for another path extracts over it (`over`). That a task starts the
  installation only after some call has found it executable needs `AloneInv` (`PlaceOK`).
- `CrashCorrect`, from `AloneInvariant`. A call that no other overlaps has no other call and
  no other job beside it (`AloneOK`, `Enlisted`). As long as no browser died or failed to
  start during it, every page is opened in a browser that runs, and no task has failed
  once and is still to begin (`HiddenOK`): so no task ever waits to close a browser, the one thing that
  could take a browser away from the others.
- `ExactCorrect`, from `CountInvariant`. A counter of such a call is at most the number
  of jobs that have stored it, and so is what a job has read and not yet stored; the
  total is not zero once a job has stored it, since a store is of a value one larger than
  some value (`Tally`). With one thread there is at most one job between a read and its store and all of
  these are equalities (`Exact`). The theorem assumes `MaxJobs <= MaxCount`: the model's
  cap on counters, which the code does not have, is not in the way.

`TcpFramingProofs` proves both safety properties of `TcpFraming`, for files of any length
and content, any paths and every cut of the stream:

- `InStep`: as long as nothing was thrown away, both ends are in step (`Sync`). `Upload` is the
  client's side: the order of its steps and what of the file is left. `Registers` says that what the
  handler has taken is that upload: path, length, and content as a prefix of the
  file. `Traffic` says what is on the way: nothing, one whole request, or frames of content
  (`Streamed`), of which part may already have been read.
- How many frames of content are on the way is open, so the invariant needs a definition that fits
  any number. A recursive one could not be reasoned about; `Cut` says instead that there
  is a set of boundaries in the stream, with the size of each frame, such that the first
  ends what is being read, each leads to the next and the last is the end. Reading a
  piece (`CutSkip`, `CutOpen`) and sending a frame (`CutSend`) move the boundaries.
- `AnswersAlwaysMatch` and `UploadAlwaysFaithful` follow. `OnlyRunTogether` says when their
  excuse `dropped` comes up: only when a piece of a file under way was read together with the length
  of a later frame. A client that sends each file in one frame never meets it.

`FlowDirectionProofs` proves all five properties of `FlowDirection`, for files of any number and
length, any records and any parameters, from `Inv`, which makes every result of the two parts a
function of the records read so far:

- `Reading`: one sequence of records, and where each file begins in it. `CutIsLast`: a record the end of its file
  cuts short is the last of its file. What is said of a direction or a flow is said
  of the first record of a set of places (`First`). That there is one is `Smallest`; that a later
  record does not change it is `FirstStays`. So nothing here is recursive, though both parts are loops.
- `FlowTable`: the table has the directions of all packets read, each with the way that the rules
  give it from its first packet and that of the other direction (`WayOf`), and `flowCount` is
  the number of pairs of directions. `Sent`: every packet left by the way of its direction and
  rewritten for it. `OppositeCorrect`, `MirroredCorrect` and, with `Counted`, `CountsCorrect` follow.
- `Extracted`: the flows of the open file, and the results of those closed, are what the packets of
  each file say as a whole (`Entry`, `ClientOf`), which is `FirstSignalCorrect`.
- `AgreeCorrect` joins the two: a flow that opens with a SYN and is met in this file first has this SYN
  as its first telling packet and as the first packet of its direction. A cut record,
  which only the replayer takes, is not in the way: nothing of its file comes after it.

Each is the usual three facts: the initial states, one lemma per group of actions
and the conclusion by PTL. The only assumptions are the named ones of the
modules, on sentinels and bounds, and those named in a theorem.

Only model-checked:

- The type invariants of `TcpFraming` and `FlowDirection`, which no theorem needs: `InStep`
  says all of the types that the framing depends on.
- All liveness: fairness and ENABLED are out of the prover's reach.

Every safety and action property of a passing run is stated by a theorem, and so is the refinement. `AllocatedIsAvoided`,
`NoHalfFile` and `ExitCodeTells` do not hold: see findings.

## 6. Not modelled

- Helpers (`netutils.py`: one command or fact per call, no state), CLI parsing,
  logging and limits set at start, packaging.
- In the web check: a URL whose answer trickles in for ever below the timeout,
  which `requests` applies to each read; times, what a page shows, the installation of libraries
  beyond its success or failure, and p_checker's own running totals, which
  `run_multiple` overwrites. In the CPU binding: the helpers nobody calls, and
  several interrupts of one interface.
- The rate of lost increments: `AnswerIsExact` only bounds a parallel check's numbers.
- Multipart boundary scan and several file fields in one body; checksums, VLAN
  insertion, rate control and packet cache of the replayer; SCTP and ICMP flows,
  whose ports the replayer does not read; big-endian pcap files.
- Time as a quantity; memory; inherited file descriptors; a foreign process on
  the listener's port, which a stop would kill.
- `shutil.move` into a destination that is a directory. Of another `chromium_path` nothing is known, so
  it may be there or not at each look; that it lies inside the installation is not told apart.
- Runnable by systemd means installed and executable, not that the build works.

## 7. Plan

Done: `CaptureRegistry`, `CaptureChild` ⇒ `Recorder`, `HttpUpload`, `UpgradeFlow`, `TcpFraming`,
`ListenSession`, `WebCheck` and `FlowDirection`, each with its proofs, and `NicBinding`, whose
one property fails.

What the proofs changed in the models: four bytes that are no length had been given only a few
values in `TcpFraming`, which hid a corrupted file that is answered ok, until the invariant failed
with more of them; `CaptureChild` sorts by `Rank`, since what a recursive sort computes cannot be
proved; `HttpUpload` and `ListenSession` say what their sentinels and bounds must not be; `FlowDirection` keeps
all records in one sequence, and `OppositeWays` had lacked the excuse of hints that name one host as
client and server, which no small instance had shown.

Next, models:

1. `CaptureSystem`: `CaptureRegistry` over several `Recorder`s, so that
   `StopTrueIsFinal` speaks of frames.
2. The multipart boundary scan of `http_file.py` 69-98 against a definition of
   what lies before the first boundary, over all cuts of small bodies.

Next, theorems: `CaptureSystem`, from the refinement `CaptureChild` ⇒ `Recorder` that is proved.
