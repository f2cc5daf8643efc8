# SerialLogger: TLA+ models, checks and proofs

SerialLogger opens a serial port, shows the lines that come from it in a log
window and, on request, appends them to a log file. This directory holds TLA+
models of the parts of the program in which something can go wrong between
threads, what TLC finds about them on small instances, and theorems about them
that TLAPS checks for every value of the constants.

    device ─► AsioSerialTextStream ─► Connection ─► m_messages ─► message pump
                      (io thread)                    (TSQueue)      (SerialSession)
                                                                        │
             log file ◄─ saving thread ◄─ m_Qs ◄── Model::pushMessage ◄─┘
                                                          │
               LogViewer ◄─ Presenter ◄─ receiving thread ◄─ m_Qf
                   ▲
                   └─ GUI thread: frames, menu, serial port panel

## Inventory

| Component | State | Operations | Meets others through |
|---|---|---|---|
| `TSQueue` | a deque, one mutex, one condition variable | push, pop, clear, empty, count, withLock; wait, wait(exit), wait_for | shared by every pair of threads below |
| `Model`, `Presenter` | `m_stopReceiving`, `m_stopSaving`, `m_savingThreadRunning`, `m_Qf`, `m_Qs`, `m_savingThread` | pushMessage, start/stop receiving, start/stop saving | called by pump and GUI; calls the viewer from the receiving thread |
| `Connection`, `AsioSerialTextStream` | the serial port, the stream buffer, the read in progress | connectToClient, disconnect, the read loop | completions on the io thread; pushes to `m_messages` |
| `SerialSession` | `m_connection`, `m_snapshot`, `m_running`, three threads | start, stop, connect, disconnect, refresh, snapshot | handlers posted to the io_context; snapshot under a mutex |
| port watcher | `m_snapshot.ports`, `m_scannerMutex` | refresh, every two seconds and on a button | shares scanner and snapshot with the GUI |
| `LogViewer` | its queue, the selection, the drag | update (receiving thread), DrawPlot (GUI) | the queue's lock |
| panel, menu, `main()` | the selected port and options | buttons, shutdown | calls the session and the model |
| port scanners | a buffer (Windows) | enumerate, filter, sort | called by refresh |
| `ConnectionSupervisor`, `AppConnectionSupervisor`, `AsioTimer`, `AsioEventLoop` | connections, a timer, a pump thread | start, stop, tick, update | not created by `main()` any more |
| `FileExplorer` | a directory listing | browse | constructed, never rendered |

What is hard, and what makes each part correct:

* **TSQueue.** Notification comes after the unlock, and sleeping threads may
  wake for no reason. Correct: no consumer sleeps beside an item that nobody
  will announce; items leave in the order they came.
* **Model.** Four threads, three atomics read and written one at a time, and a
  thread that is started and joined many times. Correct: every message is viewed
  once and in order; the log file is in order; saving can be started and stopped
  for ever; stop returns.
* **Connection and SerialSession.** Completions are queued and run after the
  connection they belong to was replaced; stop() runs behind requests. Correct:
  one port open at a time; Connected means that a line which arrives is read;
  one read per stream; lines in order; nothing is left running after stop().
* **Port list and scanners.** Two locks in sequence, two threads; devices come and
  go during an enumeration, and on Windows its calls share a buffer. Correct:
  enumerations exclude each other; a port that stays is never missing; the list
  becomes right when devices stop changing.
* **Panel and main().** A frame acts on a copy of the session's state that is old
  by then; at the end, threads must be joined before what they use is destroyed.
  Correct: the last request decides what is open, and only a late error of a replaced
  connection hides that it is; a line goes through session, pump and model in order;
  only the detached receiver outlives main().
* **ConnectionSupervisor.** The timer's handler opens ports, may fail in the middle
  and arms the timer again; the pump takes a limited number of messages at a time;
  destruction runs from the derived class to the base. Correct: one chain of ticks;
  what is kept open is read; no thread outlives its part of the object.
* **LogViewer.** The queue moves between frames. Correct: the log is the newest
  lines; copy takes what is highlighted.

`PROJECT.json` lists every hazard at its line with the properties that cover it.

## Modules

| Module | Models | How |
|---|---|---|
| `TSQueue` | `TSQueue.hpp` | One variable `queue`: the deque `deq`, and for each thread where it is in the monitor (`cv`). One action per critical section; `NotifyOne`, `WaitBlocks`, `SpuriousWakeup` and `Expire` for the condition variable. The modules of its clients instantiate it. |
| `Model` | `model.cpp`, `model.hpp`, `presenter.cpp`, the menu and the end of `main()` | A `pc` for each of the four threads; a step is one load or store of an atomic or one critical section. `exit[t]` is what the reference parameter of `wait(const bool &)` denotes. Two instances of `TSQueue`. |
| `Connection` | `Connection.cpp`, `AsioSerialTextStream.cpp` | Operators from one state of the streams and the handler queue to the next: the io thread runs one handler at a time, and a handler combines several. Bytes are counted in lines. |
| `SerialSession` | `SerialSession.cpp` without refresh | GUI, io thread, pump and devices. Instantiates `Connection` and `TSQueue`. |
| `ExclusivePort` | what a session promises of ports | Abstract: at most one port held, closed before the next is opened. `SerialSession` implements it with `held <- open`, `closed <- 1..created \ open`. |
| `PortWatcher` | `refresh()`, the watcher, the Refresh button | Both locks; an enumeration is an interval, in which devices may change and may then be seen or not. |
| `LogViewer` | `LogViewer.cpp` | `update()` in its critical sections (an instance of `TSQueue`), `DrawPlot()` as one step under the queue's lock with the mouse and keyboard as inputs. |
| `PortScanner` | what a scanner promises one caller | Abstract: a call returns every port that was there throughout and that the system told of, and none that never was, or an empty list if the system refused altogether. `PortWatcher` takes its enumerations from it; both scanners implement it. |
| `LinuxSerialPortScanner`, `WindowsCOMPortScanner` | the two scanners | One action per call of libudev or SetupDi and per access to the shared buffer; nodes and friendly names are short sequences, on which filter, order, sort, unique and extraction are defined. |
| `PlatformSerialPortScanner` | the choice of platform | Behaves as either scanner; its run checks both. |
| `SessionVariables` | | The session's variables, which the next two modules both put something on top of. |
| `SerialPanel` | `drawSerialPortPanel()` over the session | Adds to an instance of `SerialSession` the frame, its copy of the snapshot, the selection, the settings and the published list; one button per frame. |
| `Application` | `main()` | `SerialSession` and `Model` composed: the session's pump is the thread that calls `pushMessage()`, the main thread is the `gui` of both. |
| `LinePipe` | what the program promises of lines | Abstract: what is read is shown, once and in the order of the reads. `Application` implements it with the two queues, and what the pump holds, as the pipe. |
| `ConnectionSupervisor` | `ConnectionSupervisor.cpp`, `AppConnectionSupervisor.cpp`, `AsioTimer`, `AsioEventLoop` | The owner's calls, the io thread, the pump. Instantiates `Connection` (its queue of handlers also holds the timer's) and `TSQueue`. |
| `QueueSystem` | `TSQueue.hpp` by itself | Any number of producers and consumers on one queue, both ends, with and without timeout. |
| `MC...` | | values of the constants for TLC; where there is none, the `.cfg` gives them |
| `TSQueueProofs`, `ConnectionProofs` | | lemmas about the operations that the modules below share |
| `QueueClientProofs` (of `QueueSystem`, `LogViewer`), `PortListProofs` (of `PortWatcher` and the scanners), `ModelProofs`, `SerialSessionProofs`, `ConnectionSupervisorProofs`, `ApplicationProofs` (of `Application`, `SerialPanel`) | | the theorems |

Correspondence worth knowing when reading them:

* `wait(const bool &exit)` is called with a `std::atomic<bool>`. The argument is
  a temporary of type bool, made once. `CallWait` records its value, and the
  predicate tests that value, however the flag changes.
* The models' `pc` is finer than the code's lines where two accesses share a line
  and coarser where lines touch nothing shared.
* `pop_front()` of an empty deque is undefined behaviour. In `Model` the saver
  then goes to `"undefined"`, a place from which nothing more is known.
* `SerialSession`'s `m_running`, stop tokens and the stopped state of the
  io_context change on the GUI thread only; its `pc` determines them, and the
  module defines them from it.
* A handler that is posted and one that completes a read are in one FIFO queue,
  as in an io_context run by one thread. The result of a completion is fixed when
  it is queued: a close() after that does not turn it into a cancellation.
* In `ConnectionSupervisor`, ids count up from 21000 in the order of the container,
  so a connection's place stands for its id. During the base class's destructor
  `onClientConnect()` is a virtual call on an object that changes its class: it may
  be either version.
* In the scanners, what the system lists at one moment is, for devices that come or
  go during the call, either answer. Asked of one device afterwards, it may also fail
  for one that is there: `udev_device_new_from_syspath()`, the search for the parent
  and `udev_device_get_devnode()` are a step each, and each may give null, as
  `SetupDiGetDeviceRegistryPropertyA()` may give false. The history counts such a device
  with those that have changed, of which a scanner promises nothing. In `PortWatcher`,
  a system that is `failing` lists what it likes of the devices it could have met.
* The lock of `WindowsCOMPortScanner` is that of its callers (`LockScanner`,
  `UnlockScanner`): the scanner itself takes none.
* `LogViewer`, `SerialPanel` and `PlatformSerialPortScanner` are extended by a proof
  module together with another specification; so that both can be named there, their
  definitions carry a prefix (`LogInit`, `PanelInit`, `ScanInit` and so on), and the
  scanners' `pc`, `changed` and `lock` are `at`, `altered` and `holder`.
* A node is a sequence of codes: "/dev/tty" and "printk" are one each, for the filter
  asks for them as a whole. `Sort` is what `std::sort` promises, a permutation of the
  list in which no element is before an earlier one; `Unique` is `std::unique` and
  `erase`, which drop an element that is equal to the one in front of it.
* The data of messages is their order. Ports, errors and options are model values
  or strings; the text of errors is left out.

## Runs

| Run | Bounds | Shows |
|---|---|---|
| `model` | 3 messages, 2 starts of saving | `TypeOK`, `ViewFifo`, `FileInOrder`, `NoSleepBesideMessage`, `NoTerminate`, `RunningWhileAlive`, `StopLeavesAtMostOne`; `EveryMessageViewed`, `EveryQueuedSaved` |
| `model_stop_saving`, `model_flag`, `model_pop` | 2 messages, 1 start | the disagreements below |
| `session` | 2 connections, 2 lines on each, 3 requests, 2 starts | `TypeOK`, `OnlyCurrentOpen`, `ConnectedMeansReading`, `RequestsServedBeforeStop`, `StoppedIsQuiet`, `LinesInOrder`, `ImplementsExclusivePort`; `StopReturns`, `DroppedReadsEnd`, `EveryLineHanded` |
| `ports` | 2 ports, no other bound | `ScannerExclusive`, `OldListIsNext`; `UpToDate`, `CallsReturn` |
| `scanners` | 7 tty devices, 2 of them hot-plugged; 2 COM devices and 2 callers | `SortedUnique`, `OwnNames`, `ImplementsPortScanner` |
| `viewer` | a log of 3 lines, 6 received | `LogIsLatest`, `CopyIsHighlight` |
| `panel` | 1 port, 2 settings, 2 connections, 1 line, 2 requests | `LastRequestWins`, `OpenIsShown`; `ConnectTakesEffect` |
| `application` | 1 connection, 2 lines, 1 request, 1 saving | `JoinedAtReturn`, `ImplementsLinePipe` |
| `supervisor` | 2 endpoints a tick, 2 connections, 1 line on each, 1 message an update, 2 starts | `TimerPrimed`, `OpenAreRead`, `NoThreadOutlives`; `CallsReturn`, `EveryLineHandled` |
| `queue` | 2 producers, 2 consumers, 4 items | `NotAllAsleep`; `EveryItemTaken` |

The type invariants of the other modules (`TypeOK`, `LogTypeOK`, `PanelTypeOK`) say
what values their variables take; most of them are theorems, and adding one to the
`INVARIANTS` of the module's `.cfg` checks it.

Why the bounds are enough. In `Model`, a second start of saving meets what the
first stop left in `m_Qs`, and three messages are one before, one across and one
after a stop. In `SerialSession`, the reads of one connection complete while
another is open, both lines of a connection can arrive at once so that the second
waits in the stream buffer, and handlers that stop() leaves behind run after the
restart; three requests are connect, connect again and disconnect, in any order.
In `SerialPanel` a port is opened again with other settings while the error of the
replaced connection is still to come. In `Application` the second line is read
while the first is in the pump, the model or the view, with saving on and off and
in every place of the shutdown; what reconnecting does is in `session`. In
`ConnectionSupervisor` one connection delivers while the next endpoint of the same
or a later tick is opened or fails, and two lines need two updates. In the scanners
one device moves between two paths of one node, so that the node can be met twice with
another port's between, and the others are those that each test of the filter
exists for; of the two COM devices one has a parenthesis before its port and one
a "COM". In `QueueSystem` each of two consumers is woken while items for both
come, from two producers. In `LogViewer` the log overflows three times, so every
line of the first full log leaves it. `PortWatcher` and the scanners have no
counter: their runs cover all behaviours of their ports and devices.

`CHECK_DEADLOCK FALSE` stands in the runs whose program may end, or where the user
may do nothing while no message arrives (or the bounds are used up): `Model`,
`SerialSession`, `SerialPanel`, `Application` and `ConnectionSupervisor`. The
liveness properties say what may not get stuck.

**Fairness.** Each thread that can take a step is scheduled: weak fairness per
thread, for its whole sequence of steps. Nothing makes the user press a button, a
device send a line, or a spurious wakeup happen. Two assumptions are strong.
`wait_for()` has an absolute deadline, so spurious wakeups do not keep it from
expiring (`SF_vars(PumpTimeout)`, and `SF_vars(UpdateTimeout)` in `ConnectionSupervisor`). And a thread that waits for `m_scannerMutex`
gets it, because the mutex is free during every two-second interval of the watcher
(`SF_vars(BeginScan(t))`). `notify_one()` may wake any
thread that sleeps on the queue; no fairness between the sleepers is assumed. In
`ConnectionSupervisor` the timer fires; in `QueueSystem` nothing makes a timeout
pass, so that every item is taken through notifications alone. `Application` states
no fairness: its run checks safety only.

## Where code and comments disagree

Each is a run that TLC finds violated, on the property named.

1. `model_stop_saving` (`StopSavingReturns`). The saver sleeps in
   `m_Qs.wait(m_stopSaving)` on a copy of the flag. The notification from
   `m_Qs.clear()` wakes it, it finds the queue empty and its copy false, and sleeps
   again; the GUI thread stays in `join()`. If no message reaches `m_Qs` after the
   stop, and `pushMessage()` no longer puts any there, the program hangs.
2. `model_flag` (`FlagTracksThread`). A log file that does not open leaves
   `m_savingThreadRunning` true with no thread: saving looks active, `m_Qs` grows,
   and after a stop no start has any effect.
3. `model_pop` (`SaverFindsMessage`). `clear()` between the test of the flag and
   `pop_front()` makes the saver pop an empty deque.

### Other disagreements

These have no run of their own. The formula stands at the end of its module; TLC
finds it violated when it takes the place of the properties in the module's `.cfg`.

* `Model`: `ReceiverStops`. For the reason of `model_stop_saving`, and because
  `stopReceivingData()` notifies nobody, the receiving thread never ends
  (model.cpp:28 "Check for stop signal after waiting"). It is the one thread that
  `JoinedAtReturn` leaves out.
* `LogViewer`: `ClickSelectsLine`. With the log full, each new line moves the
  selection to the line below the one clicked (LogViewer.cpp:143 "A plain click
  selects just this line").
* `ConnectionSupervisor`: `StartRunsContext`. The io_context stays stopped after a
  stop(), so that the thread of a second start() returns at once
  (ConnectionSupervisor.cpp:31 "it will prime the context with "work", and stop it
  from exiting immediately").
* `ConnectionSupervisor`: `ActiveConnections`. A connection whose port failed stays
  in `m_deqConnections`, the "Container of active validated connections"
  (ConnectionSupervisor.hpp:47), and nobody calls `onClientDisconnect()`.
* `ConnectionSupervisor`: `UpdateProcesses`, with `nMaxMessages` -1, the default
  argument. The loop's test is 0 < -1, so that "Force server to process incoming
  messages" (IConnectionSupervisor.hpp:33) processes none.
* `QueueSystem`: `ReferenceStays`. `front()` and `back()` of the "thread safe" queue
  return a reference that another consumer's pop leaves dangling. No code in `src/`
  calls them.

* `SerialPanel`: `OpenCanBeClosed`. If the error of a replaced connection comes after the
  new port was opened, the panel shows Error, and refuses to disconnect: of
  `if (ImGui::Button("Disconnect") && (isConnected || isBusy))` (application.cpp:265)
  both are false, and `setError()` has not looked at whose error it is. The user can
  only connect again, or close the program.
* `PlatformSerialPortScanner`: `ListedExist`. The Windows scanner takes the first "COM" of
  a friendly name for the port ("Extract the COM identifier", WindowsCOMPortScanner.cpp:46):
  "Virtual COM Port (COM5)" is listed as "COM Port (COM5", and COM5 is not.

One more is outside what the modules state. The Windows scanner is safe only for callers
that lock, as SerialSession does (`OwnNames`), although ISerialPortScanner.hpp:14 says that
"concurrent callers cannot race on shared state"; the supervisor's adapter does not lock.

## Proofs

Every invariant and every action property that a run checks is also a theorem, for
every value of the constants. All eight proof modules are checked to the last leaf, and
rest on the assumptions named in the modules and on nothing else:

* `BoundsAssumption`, `SessionAssumption`, `SupervisorAssumption`,
  `ApplicationAssumption`, `PanelAssumption`, `ViewerAssumption`: bounds are natural
  numbers, the limit of an update is an integer, the log has room for a line, and the
  empty port name is not a port.
* `ThreadsAssumption`: producers are not consumers, and there is a consumer.
* `UdevAssumption`: a device has a node, a sequence of numbers, or none.
* `ComAssumption`: no caller is `"nobody"`, a description is a sequence of words and
  signs, and no two devices have one port number, which is neither "COM" nor ")".

Two modules hold what the others cite:

* `TSQueueProofs` proves about one operation of any thread, on any set of threads
  and items, that it keeps the type and that it loses no wakeup if one thread is
  the only one that waits (`OperationKeepsWakeup`), and what pushing behind and taking
  from the front do to a sequence. `ModelProofs` instantiates it for both queues.
* `ConnectionProofs` proves about each operation of `Connection`, on any state of the
  streams and any queue of handlers, that it keeps `ConnInv`, and what it does to the
  streams, to the queue and to the lines taken. `ConnInv` says that the completions in
  the queue and the streams agree: a stream whose read is queued has one completion,
  a stream whose read is not has none, and a completion that brings a line finds it in
  the buffer. The session and the supervisor, which post different handlers of their
  own into the queue, instantiate it.

The theorems:

* `ModelProofs`, for any number of messages and of starts of saving:
  * `TypeCorrect`, from `TypeInv`, which adds to `TypeOK` that what the pump is
    about to push has been counted (else it would not be a message).
  * `NoSleep`: `NoSleepBesideMessage` with the fact that only the consumer waits on
    its queue, without which a notification could go to another thread.
  * `NeverTerminates` and `FlagCoversThread`, from `SavingInv`. The two properties
    are not inductive: whether an assignment to `m_savingThread` is safe depends on
    both flags and on where the GUI thread is in a stop. `SavingInv` says that the
    running flag is down over a thread that was not joined only while the GUI
    thread is on its way to join it.
  * `ViewerSeesAll`: `ViewFifo` is inductive with the types; the lemmas on
    sequences say that pushing behind and taking from the front keep
    `viewed \o m_Qf`.
  * `FileNeverRepeats`, from `LogInv`. `FileInOrder` orders the file and `m_Qs`
    together, but says nothing of what comes next: `LogInv` adds that all of it is older
    than the message that the pump is about to push, or will count next. A stop takes
    `m_Qs` out of that sequence, which keeps its order.
  * `StopLeavesOne`, from `StopInv`: after the `clear()` of a stop `m_Qs` is empty as
    long as the pump is past the test of `m_stopSaving` and before its push. It tests
    the flag once for each message and the flag is up, so there is no second one.
* `SerialSessionProofs`, for any number of ports, connections, lines, requests and
  starts. All safety properties of the session come from one inductive invariant,
  `SessionInv`, for the io thread's handler touches everything at once. Its parts:
  * `PortInv`: `ConnInv`; the open port is that of `m_connection`, which is null while
    the next port is about to be opened. From it `OnlyOneOpen`, `OneReadEach`, and
    `Implementation`, where `PortStep` is the step of `ExclusivePort` that each step is.
  * `ThreadsInv`: the places of the threads, and which of them run while `stop()` waits.
  * `StopInv`: nothing but completions of reads is queued behind the handler of
    `stop()`, and that handler is queued only while the GUI thread waits for it, so
    that nothing that opens a port can be left when it has run. From it
    `AllRequestsServed` and `QuietAfterStop`.
  * `ConnectedInv`: the last conjunct of `ConnectedMeansReading`, also while a handler
    runs. From it `ConnectedIsRead`: a read that was cancelled is of a port that is
    closed (`ConnInv`), so the one error which `setError()` does not show cannot come
    from the port that is shown as Connected.

  `LinesKeepOrder`: `LinesInOrder` is inductive with `SessionInv` and the types of the
  rest (`DataInv`, and `TypeCorrect`): the line that a handler pushes is the next of
  its stream because a stream has one read, and the pump moves the head of `m_messages`
  to the end of what was handed over.
* `QueueClientProofs`, about `QueueSystem`, for any sets of producers and consumers, any of which wait
  with a timeout, and any number of items: `TypeCorrect`, and `SomeConsumerAwake`
  from `AwakeInv`. What has to be added is who may be where in the monitor: a
  producer never sleeps and a consumer never has a notification to send, so that the
  push which ends an empty queue leaves a producer with a notification, and the
  notification cannot be spent on anyone but a consumer.
  About `LogViewer`, for a log of any size and any number of lines: `LogShowsLatest`
  (and `LogTypes`) from `LogInv`, which says that the log is the newest lines, one too
  many between the push and the end of `update()`; and `CtrlCCopiesHighlight` from
  `LogInv` and `SelectionInv`. What is copied may have left the log in the meantime, so
  the property is about the frame: the selection that a frame leaves is of rows the log
  has (`FrameStep`), and a run of rows is copied as the lines it covers (`CopiedRows`).
* `PortListProofs`, about `PortWatcher`, for any set of ports: `ScansExclude` and `NextListIsNew`, from
  `RefreshInv`. Neither property is inductive: the first needs that the mutex is held
  exactly by the thread that enumerates, the second that of two lists which wait to
  be published only one can have been replaced by a newer one (`PairInv`), for the
  lock that a list was made under is gone when it is published.
  About the scanners, for any devices and any number of callers, while devices come and
  go in any order:
  * `BufferIsOwn` (Windows), from `CallsInv`, which says that the mutex is held exactly
    over a call, and `NamesInv`: a caller that is about to read the buffer finds the name
    of the device it asked for, and no port that it has listed is that of a device which
    it has still to list.
  * `ListIsSorted` (Linux). The order of `std::string` is a strict total order
    (`BeforeTransitive`, `BeforeTotal`). A list can be sorted at all (`ListInOrder`): give
    each index the number of indices whose element is before its own, or equal and further
    in front. That needs no induction over the list: an injection of a finite set into a
    set of the same size is onto. Of a sorted list `Unique` keeps one element of each value,
    for equal ones are neighbours (`UniqueProperties`), so what is left is strictly
    increasing.
  * `ListsKeepPromise`: both implement `PortScanner` for each caller. `UdevInv` and
    `CensusInv` say what an enumeration has found: of the devices that were there all the
    time and were told of, each is listed, or in hand, or has still to be looked up; what
    is listed was there at some time. A device that can go shares its node with no other
    that is there, so that it takes its own port away and none besides. For Windows,
    `ExtractsPort` proves that the extraction finds the port in every friendly name whose
    description has no "COM", whatever parentheses it has; the promise is of such devices,
    except one whose port is what the scanner mistakes another device's for.
* `ConnectionSupervisorProofs`, for any number of endpoints, connections, lines and
  starts and any limit of an update:
  * `ThreadsEnd`, from `ThreadsInv`: who joins the io thread has stopped the context.
  * `TimerTicks` and `PortsAreRead`, from `IoInv`. `TimerInv` adds the places inside a
    handler to `TimerPrimed`: while the tick runs, the timer is idle and no tick is
    queued, which is what makes the tick's own re-arming the only chain. `StreamsInv`
    adds `ConnInv` and that a port which is open without a read is that of the handler
    that is running.
* `ApplicationProofs`, for any ports and bounds. `StepsOfParts` says that each step of
  the program is a step of `SerialSession` or leaves its variables alone, and the same
  for `Model`, although the pump and the main thread belong to both. So
  (`PartsBehave`) every safety theorem about either part holds of the program, and
  its inductive invariants are available as `PartsInv`.
  * `ReturnsJoined` and `TypeCorrect` add `MainInv`: where `main()` is says where the
    session and the model are.
  * `LinesReachView`: the program implements `LinePipe`. `MainInv` counts the lines
    handed over and the messages pushed alike, and `ViewFifo` says that `viewed` is
    1, 2, 3 and so on; hence what is shown next is the first line not shown yet
    (`NextSeen`), and `PipeStep` is the step of `LinePipe` that each step is.

  About `SerialPanel`, for any ports, settings and bounds. The session in it is that of
  `SerialSessionProofs`, whose ports are there pairs of a port and its settings, and
  each of the panel's steps is one of the session with what the panel adds
  (`PanelSteps`); so `SessionInv` holds of it.
  * `LastRequestCounts`, from `RequestsInv`: the last request in the queue asks for what
    the user asked for last, and when no request is left in it, that is shown. What keeps it is
    `Serves`: of the io thread's handlers only those of requests change what is shown, to
    what the request asks for, and only requests of the user are added at the end.
  * `OpenPortIsShown`, from `ShownInv`: the port that is open is the one shown, with the
    settings it was opened with, and if an error is shown beside it, the error is that of
    another connection. (`PanelTypes` is the type invariant.)

Only model-checked: all liveness, and so also that the model's threads end, that every
line is handed over and viewed, and that a request takes effect (`EveryMessageViewed`,
`EveryQueuedSaved`, `StopReturns`, `DroppedReadsEnd`, `EveryLineHanded`, `UpToDate`,
`CallsReturn`, `ConnectTakesEffect`, `EveryLineHandled`, `EveryItemTaken`): neither
fairness nor ENABLED is in the prover's reach.

## Not modelled

* The write path (`asyncWriteLine` has no body) and `open()` of a stream (the
  constructor opens; nobody calls it).
* `FileExplorer`: its header says that it is work in progress and not to be
  considered, and the call that would render it is commented out in `main()`.
* Data: line contents, removal of `\r`, error texts, the values of serial options,
  layout and rendering; the file dialog and the native window calls of `main()`.
* Memory: `m_Qf`, `m_Qs`, `m_messages` and the stream buffer have no limit in the
  code; the models bound what arrives.
* `onMessage()` of the supervisor hands the line to `Model::pushMessage()`; that it
  does so is in the model (`handled`), what happens then is in `Model`.

## State of the project

All components that run are modelled, and the supervisor that `main()` no longer
creates. Every safety property that a run checks is proved; liveness is checked by TLC.

What a change of the code asks for: a new operation of `TSQueue` or of a stream has its
lemma in `TSQueueProofs` or `ConnectionProofs`, and the clients' proofs cite it; a new
handler on the io thread is a case in `SessionInv`'s or `IoInv`'s step; and when
`FileExplorer` is rendered by `main()`, it is the next component to model.
