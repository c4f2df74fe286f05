# ROSV_Control in TLA+

ROSV_Control runs on a remotely operated submarine. Users connect over TCP and
send commands as JSON lines; the program turns them into motor powers, watches
supply voltages and temperature, switches the lights, streams video and reports
its state to every connected user. This directory holds a model of all of that —
sockets, queues, permission, navigation, motors, alarms, power, lights, the video
thread, the log and the end of the process — the TLC runs that check it and the
proofs that carry the most important results to every size. Paths below are relative to `src/` of the repository (`src/Motor.cpp`
is `src/src/Motor.cpp` in `PROJECT.json`).

## 1. The system

### Components

| Part | State | Operations | Correct when |
| --- | --- | --- | --- |
| `TcpServer` | list of clients, listening socket | `Listen` (prune, select, accept, read) | never blocks in `read`; keeps every live client and in the end no dead one |
| `ClientSocket` | `File`, `Buffer` | `Send`, `Read`, `ReadData`, `CloseSocket` | lines come out once, in order; a dead peer closes the socket |
| `SubProtocol` | its own list of clients, list of queues, permission `Clients` | `Run` | agrees with the server's list; permission = somebody is connected; a newcomer is told everything |
| `MsgQueue` | `RxMsgs`, `TxMsgs`, `Broadcast` | `Store`, `Receive`, `Send`, `GetMsg`, `SetBroadcast`, `IsBroadcast` | nothing lost between network and task |
| `Navigation` | `CVec` | `Run_Task` (10 Hz) | the last command for a channel wins |
| `SubControl` | `LastAlm`, `LastPermission`, motors | `Update` | no permission, no power; changes and newcomers are reported |
| `Motor` | `Value`, `LastValue` | `Run` | power in range, rises by at most the ramp, reaches its target |
| `Alarm`, `AlarmGroup` | `State`, `Muted` | `SetState`, `SetMuted`, `GetState`, `GetGroupState` | latched alarms hold; a group shows the worst |
| `Permission`, `PermissionGroup` | `Value` | `Set`, `isGroupEnabled` | — |
| `PowerManager` | last measurements and alarm states | `Run_Task` (1 Hz) | alarms follow the thresholds and latch |
| `LightManager` | last power of each channel | `Run_Task` (1 Hz) | lights off on error or without permission |
| `CameraManager` | — | `Run_Task` (1 Hz) | users know whose stream is recorded |
| `VideoStreamer` | viewer, `Recording`, `Client_Name` | `RunStream` on its own thread | one viewer at a time, every viewer in the end; everything closed after it |
| `EventMsg` | last messages, log file, mutex | `Log` from both threads and the signal handler | memory bounded, in agreement with the file |
| `Variable` | history of a value | `Set`, `GetJSON` | input and output only |
| `main` | task manager, `RunSystem` | the loop; start; `System_Shutdown` | tasks and network take turns for ever |

### How they interact

Everything but the video stream runs on the main thread: `main` calls
`TaskMan->RunTasks()`, which runs the tasks that are due, and then
`SubProt->Run()`, with 10 ms for `select()`. The two sides meet in three places
only:

* the **queues**: `SubProtocol` stores lines in the queue of the module they name,
  raises every queue's broadcast flag when a user has joined, and takes and sends
  what the modules have queued;
* the **permission** `Clients`, set by `SubProtocol::Run()`, read by `SubControl`
  and `LightManager`;
* the **alarms**, set by `PowerManager`, read as groups by `SubControl` and
  `LightManager`.

`Navigation::Run_Task()` calls `SubControl::Update()`, which runs every `Motor`
and tells the PWM module the powers.

The video thread runs beside it. It shares three things with the main thread:
`Recording` and `Client_Name`, which the camera manager reads in two steps; the log,
behind a mutex; and `RunSystem`, which ends both loops. A signal runs `exit()`, and
with it `System_Shutdown()`, on top of whatever the main thread is doing.

### What is hard

The users act at any moment: between two `write()`s, between `select()` and the read
loop, between the death of one client and the death of the next. Two objects keep a
list of the same clients and each removes at most one dead client per cycle.
Descriptor numbers are used again while the object that had them is still in the
lists. Reports are sent on change only, so a user who joins in between depends on
the broadcast flags, and what "change" is compared with starts uninitialised. The
permission and the ramp interact; alarms latch while measurements go on. Streams
fail at every step while users ask about them, and the process is ended from two
threads and a handler. `PROJECT.json` lists these hazards one by one, at the line
where they bite, with the properties that cover them or the reason why none does.

## 2. The modules

| Module | Models | Extends |
| --- | --- | --- |
| `TcpServer` | `TcpServer`, `ClientSocket`, the peers and the kernel in between | — |
| `Framing` | how `ClientSocket` cuts what it reads into lines, against what the lines of a stream are | — |
| `Wire` | the bytes behind the lines of `TcpServer`, and every way to cut them | `TcpServer`, `Framing` |
| `MsgQueue` | `MsgQueue`: operators from queue to queue | — |
| `Telemetry` | what a user knows after a sequence of reports | — |
| `Mail` | abstract: what the network side promises the modules and a user | `MsgQueue`, `Telemetry` |
| `SubProtocol` | `SubProtocol`, with any tasks the queues allow; implements `Mail` | `TcpServer`, `MsgQueue`, `Telemetry` |
| `Alarm` | `Alarm`, `AlarmGroup` | — |
| `Motor` | mixing, limits and ramp of `Motor::Run` | — |
| `SubControl` | `SubControl::Update` and its state | `Motor`, `Alarm`, `MsgQueue` |
| `Navigation` | `Navigation::Run_Task` in any company its interfaces allow | `SubControl` |
| `ROSVControl` | the main loop: `SubProtocol` and `Navigation` composed | `SubProtocol`; instance of `Navigation` |
| `PowerManager`, `LightManager` | one task each: measurements, alarms, lights and reports | `Alarm`, `MsgQueue` |
| `Housekeeping` | both managers with `Mail` in the place of the network side | `Mail`, `Alarm`; instances of both |
| `VideoStreamer` | the video thread with its viewers | — |
| `CameraManager` | the task that reports it | `MsgQueue` |
| `Streaming` | the video thread, the camera manager and `Mail` | `VideoStreamer`; instances of the others |
| `EventMsg` | `Log()`, step by step between lock and unlock | — |
| `Process` | both threads, the log, the signal handler, `exit()` | `VideoStreamer`, `EventMsg` |
| `CommonLemmas` | for proofs: least and greatest element of a set of naturals, loops, lists, what is known after a sequence of reports | `MsgQueue`, `Telemetry` |
| `...Proofs` | theorems | the module they are about |
| `MC...` | constants of the runs | the module they are about |

Two things keep the instances small. The network side, with its sockets, lists and
cycles, is composed with the real navigation once (`ROSVControl`); everywhere else
`Mail` stands for it, and `SubLiveness` shows that `SubProtocol` implements `Mail`. And
where only order and interleaving of `Log()` matter (`Process`), nothing else of the
main thread is there.

### TcpServer

One member of `Conns` is one connection of a user; a user who returns is another
member. `peer[c]` is what the server's kernel knows of the connection. A close by
the peer (`fin`) still lets one write succeed; the answer to it is a reset (`pipe`)
after which a write is `EPIPE` — and `SIGPIPE`. A reset by the peer is `reset`.
`inbox[c]` is what `read()` will return, `buffer[c]` the `Buffer` of the
`ClientSocket`, and `sent[c]` a history of what the peer wrote.

`Listen()` is cut where the users can act: `Listen` (prune, `select`, `accept`),
one `Visit` per client of the read loop, `Listened` (return). The result of
`select()` is kept in `readfs` as a set of descriptor numbers and used, as in the
code, by number. Between two calls the owner of the client objects may read a line
(`TakeLine`) or send (`SendAll`); in the module itself it does so in any order.
`SendAll` is one step for a whole round of `Send()`s; that the answer to one write
may or may not be back before the next is the set `late` in it, and no other
action of a user in the middle of the round makes a difference to the server,
which reads nothing during it.

Data is whole lines. That it may be is `Framing`: `ReadChunk` is `ReadData()`, which
appends a chunk, up to its first NUL, to `Buffer`; `ReadRound` is one round of the loop
in `Read()`, `ReadLines` all of them, and `Received` does both for one chunk after the
other. `AreLinesOf` says, without reading anything, which lines a stream has: the
stretches between line ends, in their order; `CutAnywhere`, that these are what a socket
reads from the chunks, and that `Buffer` keeps the line that has not ended. `Wire` gives
each line of `TcpServer` its bytes (`Written`) and enumerates every way to cut what a
user has sent (`Chunkings`).
Not modelled: a write that blocks because the user does not read, a link cut without
a trace.

### SubProtocol

`pc` follows `Run()`: `RunBegin` (prune), `CallListen`, `Returned` (enter the
newcomer, raise the flags), `ReadLine` (next line of the first client that has one,
stored in every queue that takes it), `SendUpdatedData` (all waiting reports to all
clients, in the order of the queues), `RunEnd` (permission, and the server's own
reports if its flag is up). `Task(m)` is any use that a module's task can make of its
queue. `heard` and `view` are histories: the lines of each client handed on, and the
last report of each kind a user has received.

### Mail

`Mail` has no cycles, sockets or lists: one user is `joined` or not, `view` is what it
has been told of each module since, `Join` and `Announce` raise all the broadcast
flags, `Collect` empties all the queues at once, `Permit` sets the permission, TRUE if
the user is there. The process may end, and may do so while it sends (`Die`), which is
when SIGPIPE ends it: the reports of that round are taken, and some have been read.
Its fairness is that reports are collected and a user who stays is
permitted, again and again. `SubProtocol` implements it with `joined` true while the
user is in the list, its socket open and its end too; what happens at the same time to
other users is invisible or an `Announce`. The mapping is checked with the fairness
part, for a user who is any of `Watched`. The queue of the server itself is inside.

### Alarm, Motor, SubControl, Navigation

`SetState` keeps the code's cases; that it returns at once on an equal state shows
in `Muted`. `StateAfter[i]` is the severity after `i` rounds of the loop in
`GetGroupState()`. Powers are integers in hundredths of the code's unit, so the
division by `MOT_SCALE` disappears (`Ramp` 1.0 is 100, `Max` 100.0 is 10000);
rounding is not modelled. `LastAlm` and `LastPermission` start with any value,
since the constructor does not set them. `duty` is what the PWM module was last
told. `RunTask` is one step: all waiting lines parsed, the motors run, the reports
queued. A line is a record of the keys that are looked at.

### ROSVControl

`Network` is a step of `Run()` or of a user; `NavigationTask` and `PowerTask` happen
between two calls of `Run()`. `Nav` is the navigation on the same queues and
permission.

### PowerManager, LightManager, Housekeeping

Voltages and temperatures are integers in hundredths. `Moved` are the voltages that
differ from what was recorded by more than the tolerance; only those are recorded
(`Record`), whereas alarms follow the measurement itself, and latch, so that the state
reported is not the severity compared (`LastAlm`). `PowerReports` queues `PowerData`,
`VoltAlarm`, `TempAlarm` in the order of the code, each with its own reasons.
`LightManager!RunTask` likewise; its channel reports show the `Variable` that nobody
sets. `LastAlm` starts as any severity or as garbage that is none. `Housekeeping`
shares the alarms between the two: one sets, the other reads. The motors see the same
alarms in their reports only (`SubControl`), which is in `Navigation`.

### VideoStreamer, CameraManager, Streaming

`vpc` follows `RunVideo()` and `RunStream()` (there is a diagram in the module).
`accept()` may fail, and the code goes on with the descriptor -1; `popen()` and `fopen()`
may fail and call `exit(1)`; each round of the loop writes a chunk to the file and to
the viewer, ends with the camera program, fails, or is killed by SIGPIPE. The file is
written first, so that a round may fail whatever the viewer does (`ChunkFails`). A viewer
may stop reading (`stalled`), and `write()` waits. `CameraManager` reads `Recording`, then,
in a second step, the name. In `Streaming` an `exit()` is the end.

### EventMsg, Process

`Log()` is `Call` (the text is made), `Lock`, `Trim`, `Push`, `Write`, `Unlock`; the file
may fail to open, and the line is `Lost` in it. `logFile` is the last lines of the file.
`Process` has three callers: the main thread, of which the rounds of the loop are left,
with any number of calls of `Log()` in each, and `RunSystem` looked at between them only;
the video thread, whose `LoggedStep`s call `Log()`; and the handler, which starts after
`Signal` and keeps the main thread from going on (`MainGoes`). `System_Shutdown` sets
`RunSystem`, deletes, and logs. (The sockets log as they are deleted,
`ClientSocket.cpp:17`; one call stands for these and the last.) A second `exit()` while one runs is undefined by the C
standard: the process ends or the call never returns (`ExitAgain`). The main thread
that finds `RunSystem` false returns from `main()` with `VideoThread` not joined:
`std::terminate()`, `abort()`, and SIGABRT has the same handler. A thread that goes on
after the objects are deleted may end the process at any step (`UseAfterDelete`).

`delete`, `localtime()` and `fopen()` take locks of the C library: the allocator's, the
time zone's, the one of the open files. The main thread may hold one anywhere in a round,
inside `Log()` or not (`inLibrary`), also when the signal hits it, and then for good. The
others' calls of the library wait until it does not (`LibraryFree`): `System_Shutdown`,
every step of `Log()` but the unlock, and the end of `exit()`, which closes the files.
Which of the locks it is is left open. The constant `LibraryLocks` says whether there
are any; `ProcessStop` has none, so that what it shows is the fault of `Mtx` alone.

## 3. What TLC checks

All runs pass a deadlock check except those in which the process really ends
(`SystemSigPipe`, `Streaming`, `Process`, `ProcessStop`).
Fairness is stated only where a property needs it (3.2).

### 3.1 Runs

| Run | Instance | Shows |
| --- | --- | --- |
| `SubSafety` | 3 users, 2 descriptors, 2 lines of one user | `ListsAgree`: the two lists of clients, each pruned on its own, are equal outside `Listen()` and differ by the newcomer inside. Three users and two descriptors make two die in one cycle, descriptors be used again and `accept()` fail. `ReadNeverBlocks`: the read loop never reads a socket that has nothing to read. `LinesConserved`: what a user wrote is what was handled, then `Buffer`, then the kernel; a closed socket has an empty `Buffer`. `LinesCutAnywhere`: the bytes of those lines, with LF or CR LF, give the lines for every cut of every prefix |
| `SubLiveness` | 2 users, queues of the server and of one module | `EveryoneKnown`: the list of clients that a user holds, or is about to be sent, lacks nobody who is connected, unless a new list is due; it may name users who are gone. `GoneForgotten`, `NewcomerIntroduced`, `PermissionWithdrawn`; `ImplementsMail` |
| `SubAccept` | 3 users, 2 descriptors, no lines | `PendingAccepted`: two users take all the descriptors and `accept()` fails for the third; its connection is taken up in the end if again and again fewer users stay than there are descriptors. Who stays and who dies, and in which order the two lists let go of the dead, is open |
| `Navigation` | 2 opposing motors, full power 3 ramps, 2 waiting lines, 1 latching alarm | `DisabledMeansStopped`, `RampLimited`, `Settles` |
| `SystemRefines` | 1 user, 2 commands of different value, 1 alarm | `ImplementsNavigation`: every behaviour of the main loop is one of `Navigation`. `SoleUserObeyed`: the last command is in the end in the motors |
| `SystemStops` | 2 users, 1 command, full power 2 ramps, SIGPIPE ignored | `TelemetryCurrent`: what the user who does not command was told, with what is queued for it, is the present state of motors, permission and vector. `MotorsStopWithoutUsers`; `PowerOnlyForUsers`: no task gives power while the list of clients is empty |
| `Housekeeping` | a voltage with a good, a low and a bad value, good and low within the tolerance; a temperature, good or hot; 1 light; a user who comes and goes | `PowerTelemetry`, `LightTelemetry`: the user knows alarms, recorded voltages, permission and worst severity. `GroupIsHighest`, `LatchedNeverFalls`, `TrippedStaysDark`, `LightsFollow` |
| `Streaming` | 2 viewers, 1 failing `accept()`, a user who comes and goes | `NameWhileRecording`; `ViewerServed`: whoever waits is served, if the streams before end. `NewcomerToldStream`; `ViewerTold`: the camera manager asks in two steps, and may report nobody or the next viewer, but as a stream goes on its viewer's name is what the user has, and keeps |
| `Process` | 1 viewer, a log of 2 lines, 1 signal | `LogDepth`, `LogFileAgrees`, wherever the signal finds the main thread; `StopsUnlessLocked`: a signal, or `exit()` of the video thread, ends the program, unless the signal hit the main thread where it holds `Mtx` or a lock of the C library |
| `AlarmMuted`, `SystemSigPipe`, `ProcessStop` | as above; a group of four alarms: plain, muteable, latching, both | disagreements, see 5 |

`TypeOK` invariants are checked in the runs of their module. For every property
`PROJECT.json` names a mutant, a plausible mistake in the code, with which TLC finds
the property violated; the mutants stand next to the definitions they replace.

### 3.2 Fairness

* `SubProtocol!Fairness`, `WF(Run)`: the main loop calls `Run()` again and again,
  `select()` has a timeout, reads happen only when there is something to read
  (`ReadNeverBlocks`), and writes are assumed not to block. It also assumes that
  `RunTasks()` returns a positive time again and again (`main.cpp:240`), that is,
  that the tasks need less time than their periods.
* `Navigation!NavFairness`, `WF(Task)` and `WF(Collect)`: the task is due ten times a
  second; the reports are taken by every `Run()`.
* `ROSVControl!SystemFairness`, `WF(Run)` and `SF(NavigationTask)`: the task can only
  run between two calls of `Run()`, so it is enabled again and again, not for ever;
  it becomes due again and again, which is the strong fairness. `SystemRefines`
  shows that this implies the fairness that `Navigation` assumes.

* `Mail!MailFairness`: shown of `SubProtocol` by `SubLiveness`. `Housekeeping` assumes
  it of `Collect`, and `WF(LightTask)` as above.
* `Streaming!StreamingFairness`: `SF(VideoProgress)`, the thread is scheduled everywhere
  but in the loop of a stream, which nothing in the code brings to its end: the camera
  program does, started with the time it has to run (`-t`, `VideoStream.cpp:142`), or the
  viewer. `ViewerServed` has that as its premise, and `ViewerTold` is about a stream that
  goes on. `SF(CameraTask)` and `SF(Collects)`: due again and again, and never at the
  same time.
* `Process!ProcessFairness`: `SF(Logging(t))` says that a thread that waits for a mutex
  that is free again and again gets it; the main thread sleeps in `select()` in every
  round without holding it. The locks of the C library are alike: `WF(MainCalled)`, a
  call returns unless it is interrupted for good, and `SF(VideoExits)` and
  `SF(VideoExitEnds)`, the `exit()` of the video thread, which waits while the main
  thread goes in and out of the library, gets its turn. The handler goes on when it can.

Nothing is assumed of the users, viewers and signals.

### 3.3 Bounds

`MaxLines` bounds the lines of each user, `Backlog` the connections the kernel holds
(2: `listen(fd, 1)` on Linux admits one more than its argument), `MaxTx` and `MaxRx`
the messages in a queue when a task starts or a line is stored, `Watched` the users
whose view is recorded. Every user connects once, closes or resets once; since a
connection has no memory of earlier ones in the code, coming back is another member
of `Conns`. Three connections are needed for two deaths in a cycle beside a
survivor, two lines for an order among lines, two ramps for a step in between.

`Voltages` and `Temperatures` are the measurements: one of each severity for the
voltage, with two of them closer than the tolerance, which is where alarm and record
part. `MaxFails` bounds failing `accept()`s; each viewer connects once, like a user. Two
viewers make one wait while the other is served, and names follow each other. A log
of two lines with three callers overflows at once. In `Process` no `accept()`
fails (`MaxFails` is 0), which to the log and to the end of the program is one quiet step.

## 4. What is proved

TLAPS checks these for every value of the constants that satisfies the named
assumptions (`TcpAssumption`, `WireAssumption`, `SubAssumption`, `AlarmAssumption`, `MotorAssumption`,
`SubControlAssumption`, `NavAssumption`, `SystemAssumption`, `HousekeepingAssumption`,
`VideoAssumption`, `EventAssumption`, `ProcessAssumption`).

* **TcpServerProofs** — `TcpTypeCorrect`, `TcpReadNeverBlocks`. The latter is not
  inductive: that a descriptor in `readfs` belongs to a readable client needs that no
  two open sockets have the same number (`DistinctFiles`), that what `accept()`
  returns is new to the lists (`WaitingIsNew`), and that no client is visited twice
  (`NoRepeat`); these with the types are `TcpInv`.
  `LinesAsSent`: `CutAnywhere` for every stream that holds no NUL and every way to divide
  it. Two loops are inside each other, chunks and rounds, and both keep `Framed`: for
  some position of the stream that is its start or follows a line end, the lines read are
  the stretches before it and `Buffer` is what has arrived behind it. A round moves the
  position behind the next line end, if there is one in `Buffer` (`RoundKeepsFramed`); a
  chunk only adds to `Buffer` (`ChunkKeepsFramed`). That each byte of `Buffer` gives the
  loop a round, and that it then finds no line end any more, is `ReadLinesFramed`.
  `TcpLinesCutAnywhere` (`LinesCutAnywhere`) brings it to what the users of the server
  have sent, whatever bytes the lines consist of.
* **AlarmProofs** — `AlarmTypeCorrect`, `LatchHolds`, and `GroupShowsHighest` for
  groups of any length. The last needs an induction over the list, made with
  `CommonLemmas`: there is no first round after which the claim fails.
* **NavigationProofs** — `NavTypeCorrect`, `NavStops` (`DisabledMeansStopped`) and
  `NavRamp` (`RampLimited`) for any motors and mixing. `NavInv` adds that the PWM
  module was told exactly what the ramp starts from.
* **SubProtocolProofs** — `SubImplementsTcp` (the protocol uses the server only as
  `TcpServer` allows, so what is proved of the server holds inside the program),
  `SubTypeCorrect`, `SubListsAgree` and `SubLinesConserved`, for any users,
  descriptors, modules, reports and lines. The invariant `CoreInv` is `TcpInv`, the
  types, and four statements that need each other: `Agreement` (`ListsAgree` without
  its condition that the process is alive); `Ahead`, the read loop has only clients
  of the server's list before it; `Buffered`, a `Buffer` holds lines only of an open
  client, which the read loop has already visited or which is in the protocol's list
  while that is being read; and `LinesConserved`. It is through `Agreement` that a
  `Buffer` the server filled is one the protocol empties before anything is sent,
  and sending is the only step between that can close a socket. `CoreInv` does not
  speak of what the reports are, so that it also serves the main loop, whose tasks
  report what they like; `SubInv` adds that (`MessagesTyped`).
  `SubEveryoneKnown` (`EveryoneKnown`): a list that a user holds, or that is queued for it,
  stays good while others leave, since the clients only become fewer; and in the step
  in which somebody joins, the flag of the server's queue goes up. When the flag is
  taken down, at the end of the cycle, the list of all clients is queued; and the next
  round of sending leaves a user who is still connected with all that waited for it.
  `SubIsMail`: each step of `SubProtocol` is, for a watched user, a step of `Mail` or
  nothing, whether or not SIGPIPE is fatal. One step of `Run()` often does several
  things at once (a prune that removes the user, a round of sending in which it dies),
  and the lemmas about single steps say which step of `Mail` that is. It needs two
  more invariants (`PostInv`): a queue holds only reports in the name of its module
  (`Signed`), because all queues are sent as one sequence and `Mail` hears each module by
  itself; and who is not yet a client has been told nothing (`NewIsUntold`), because a
  user of `Mail` joins with an empty view. Proving it showed that `Mail` had to
  let the process end in the middle of a round of sending: `SubLiveness`, where
  SIGPIPE is ignored, had not.
* **ROSVControlProofs** — the main loop with the real navigation, for any users, modules,
  lines, motors and alarms, provided that the modules `Motor` and `Navigation` are there
  and lines, ramp and mixing are numbers (`SystemAssumption`). `SystemListsAgree` and `SystemLinesConserved` carry the results
  above into it, `SystemEveryoneKnown` the one about the list of clients. `TelemetryIsCurrent` (`TelemetryCurrent`): a client that has joined and is
  watched knows each of the three reports as it is now, or will once the queue has
  been sent, or the flag that makes the task report is up. Its invariant `SystemInv`
  adds `Signed`, as above: what the queue of one module tells is not overwritten by the
  queue of another; and `SameMotors`, that the powers compared with are those of the
  motors. The difficult step is the round of sending, in which clients die and the
  rest hears everything.
  `SystemIsNavigation`: every step of the main loop is one of `Navigation` or leaves its
  variables alone, as long as the module's bound `MaxRx` on waiting lines is kept
  (`RxBounded`). Both modules name the same operators of `SubControl`, through two
  instances; that they mean the same is a lemma (`SameTask`). Its fairness is not part of this.
  `SystemStops` and `SystemRamp` state `DisabledMeansStopped` and `RampLimited` of the main
  loop, and without that bound. They are proved anew (`MotorInv`), because `tlapm` does
  not let the theorems of an instantiated module be cited. `PowerNeedsUsers`
  (`PowerOnlyForUsers`) joins the two sides: between two calls of `Run()` the permission
  says whether the list of clients is empty (`PermissionAgrees`; inside `Run()` it may be
  old), and the tasks run only there.
* **HousekeepingProofs** — `HouseTypeCorrect`, `HouseLatches`, `LightsStayOut`
  (`TrippedStaysDark`), `HouseShowsHighest`, `PowerTold` (`PowerTelemetry`) and `LightTold`
  (`LightTelemetry`), for any alarms, channels and measurements, with two assumptions
  about the program: all alarms latch (`PowerManager.cpp:57,64`), and the two managers
  have queues of their own. The types are inductive, and are all that the first four
  need. The light task, which is an instance with a group loop of its own, is first
  shown to see the same group (`LightSeesGroup`); then an alarm in ERROR is the highest
  of any group. What users know needs `HouseInv`. `PowerManager` decides whether to report
  by comparing the new severity with the last one, but what it reports is the
  state of the alarm, which latches: an alarm may only be taken as unchanged because it
  already holds at least the severity last compared. That is `SettledOrFlagged`, and it
  fails before the first task, when the last severity is garbage; but then the user
  has joined after the start, and so the broadcast flag is up.
* **ThreadProofs** — `LogKeepsDepth` and `LogTellsFile` for any number of threads and
  any depth. Neither is inductive: `EventInv` adds that exactly the holder of the
  mutex is between lock and unlock, and how far memory and file are apart at each
  place in there (`Progress`): alike, alike but for the line dropped, alike but for the
  line appended. `StreamingTypeCorrect` and `NameIsViewer` (`NameWhileRecording`) for any
  viewers, modules and failures of `accept()`. The property is not inductive, since a
  failed `accept()` changes the descriptor and not the name: `VideoInv` adds that both
  are empty whenever `accept()` is called, and alike everywhere but between `close()` and
  the clearing of the name. The process composes the two: `ProcessUsesLog` shows that
  the threads, the handler and `exit()` call the log only as `EventMsg` says, and
  `ProcessLogSafe` carries its results to the process; `ProcessTypeCorrect` and
  `NameIsViewerToTheEnd` do the same for the video thread, while the process shuts down
  around it.

What a recursive definition computes needs induction. Those that occur (`StateAfter`
over a group of alarms, `FlattenSeq` over queues and chunks, the loops of `Framing`) are
handled by hand, by the first round that would fail; `CommonLemmas` has that argument
once for loops (`LoopRuns`: there is a function that says where a loop is after each of
its rounds).

Only model-checked: everything under fairness (the liveness properties and the
fairness parts of `ImplementsNavigation` and `ImplementsMail`), which the prover does
not treat. Every invariant that a passing run checks is proved.

## 5. Findings

* **SIGPIPE** (`SystemSigPipe`, `ClientSocket.cpp:49`). No code ignores or handles
  SIGPIPE. If a user closes its connection while reports are written, the first
  write succeeds, the reset comes back, and the second write ends the process, with
  no handler run: the PWM module keeps the last power. "Enable motors when a client
  connects, disable when it disconnects." (`Permissions.h:10`). With SIGPIPE ignored
  the same property holds (`SystemStops`).
* **Muting** (`AlarmMuted`, `Alarm.cpp:37`). `GetState()` does not look at `Muted`; a
  warning of a muteable alarm is hidden whether muted or not, an error is shown
  although muted, against `Alarm.h:11`. (`SetState()` clears `Muted` whether the state
  changes or not, `Alarm.cpp:84`; the comment above it speaks of a change only.)
* **Stopping** (`ProcessStop`, `main.cpp:86`). `killall` stops the daemon
  (`ROSV_Control.sh:19`) by a signal whose handler is `exit()`. If it arrives while the
  main thread is inside `Log()`, the handler's own `Log()` (`main.cpp:114`) waits for the
  mutex of the call it has interrupted, and the program stays. The same may happen in
  `delete`, `localtime()` or `fopen()`, if the signal hit the main thread inside a call of
  the C library that holds one of its locks. `Process` shows that the program ends in
  every other case, given that the destructors of the libraries it links return.

## 6. Not modelled

Left out of the models, with the reason:

* a user who does not read: `write()` on the main thread then waits without limit, and
  every liveness property would fail for that one reason; for viewers, where it only
  concerns other viewers, it is modelled;
* a link cut without a trace: there is no timeout in the code that could notice;
* tasks that overrun their period and starve the network (`main.cpp:240`): the task
  manager is a library outside the repository;
* `Deliver` of `Mail` is not exercised by `ImplementsMail`, whose users send no lines;
  that lines reach the queue is `LinesConserved` and `ImplementsNavigation`;
* failures at start (PWM module, power monitor, ports, configuration), which end the
  program or leave a module without motors or lights before anything happens;
* parsing and formatting of JSON, wording of reports and of the log, packets that lack
  a key, the libraries (`RealTimeTask`, PWM module, power monitor, parson), the files
  that `Variable` writes, more motors than the 16 of `new_values` (`SubControl.cpp:147`),
  and `power.json`, whose thresholds no code reads.
