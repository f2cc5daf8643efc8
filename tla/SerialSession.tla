---------------------------- MODULE SerialSession ----------------------------
(***************************************************************************)
(* netlib::SerialSession: the port that the user has open.                 *)
(*                                                                         *)
(*   "gui"   calls start(), connect(), disconnect(), stop().  It never     *)
(*           touches the connection: it posts handlers to the io_context.  *)
(*   "io"    m_ioThread runs the posted handlers and the completions of    *)
(*           reads, one at a time, and owns m_connection.                  *)
(*   "pump"  m_messagePump moves the lines read from m_messages to the     *)
(*           model.                                                        *)
(*                                                                         *)
(* The GUI sees the session only through the snapshot.  m_running, the     *)
(* pump's stop token and the io_context's stopped state change on the GUI  *)
(* thread alone, in start() and along stop(), so its pc determines them.   *)
(* m_portWatcher shares only m_snapshot.ports with the rest: see module    *)
(* PortWatcher.                                                            *)
(***************************************************************************)
EXTENDS Integers, Sequences, FiniteSets, SequencesExt

CONSTANTS Ports,        \* the names of serial ports
          NoPort,       \* the empty string
          MaxConns,     \* bound: connections created
          MaxLines,     \* bound: lines that arrive on each
          MaxRequests,  \* bound: calls of connect() and disconnect()
          MaxStarts     \* bound: calls of start()

ASSUME SessionAssumption ==
    /\ NoPort \notin Ports
    /\ MaxConns \in Nat /\ MaxLines \in Nat
    /\ MaxRequests \in Nat /\ MaxStarts \in Nat

Conns == 1..MaxConns        \* in the order of their creation
NoConn == 0                 \* a null m_connection
Line == Conns \X (1..MaxLines)
Request == [port : Ports] \cup {[stop |-> FALSE], [stop |-> TRUE]}

VARIABLES gui,          \* where the GUI thread is in the session's methods
          ioPc, pump,   \* where the other threads are
          io,           \* the streams and the io_context's queue of handlers
          reader,       \* the connection whose line is being handled
          connection,   \* m_connection
          created,      \* number of connections created
          snap,         \* m_snapshot
          messages,     \* m_messages
          handed,       \* the lines given to Model::pushMessage
          requests, starts

bounds == <<requests, starts>>
vars == <<gui, ioPc, pump, io, reader, connection, created, snap, messages, handed,
          bounds>>

C == INSTANCE Connection WITH Posted <- Request
Q == INSTANCE TSQueue WITH Threads <- {"io", "pump"}, Items <- Line, queue <- messages

running == gui # "stopped"                                        \* m_running
stopRequested == gui \in {"joinPump", "joinIo", "stopped"}        \* stopToken
contextStopped == gui \in {"joinIo", "stopped"}                   \* m_context

Snapshot == [state : {"Disconnected", "Connecting", "Connected", "Error"},
             port : Ports \cup {NoPort},
             error : {"", "open", "fail", "badfd"}]

Init ==
    /\ gui = "stopped" /\ ioPc = "off" /\ pump = "off"
    /\ C!Init /\ Q!Init
    /\ connection = NoConn /\ created = 0
    /\ snap = [state |-> "Disconnected", port |-> NoPort, error |-> ""]
    /\ reader = NoConn /\ handed = <<>> /\ requests = 0 /\ starts = 0

-----------------------------------------------------------------------------
(* The GUI thread.                                                         *)

Start ==
    /\ ~running
    /\ starts < MaxStarts
    /\ starts' = starts + 1
    /\ gui' = "idle" /\ ioPc' = "run" /\ pump' = "loop"
    /\ UNCHANGED <<io, reader, connection, created, snap, messages, handed, requests>>

Post(request) == io' = C!Post(io, request)

Connect(port) ==
    /\ running /\ port # NoPort
    /\ gui = "idle"
    /\ requests < MaxRequests
    /\ requests' = requests + 1
    /\ Post([port |-> port])
    /\ UNCHANGED <<gui, ioPc, pump, reader, connection, created, snap, messages, handed, starts>>

Disconnect ==
    /\ running
    /\ gui = "idle"
    /\ requests < MaxRequests
    /\ requests' = requests + 1
    /\ Post([stop |-> FALSE])
    /\ UNCHANGED <<gui, ioPc, pump, reader, connection, created, snap, messages, handed, starts>>

\* stop(): post the last handler and wait for its future; ...
\* Mutant: does not wait.
StopWithoutWaiting ==
    /\ running
    /\ gui = "idle"
    /\ gui' = "closed"
    /\ Post([stop |-> TRUE])
    /\ UNCHANGED <<ioPc, pump, reader, connection, created, snap, messages, handed, bounds>>

\* Mutant: its handler overtakes the requests that wait.
StopOvertakes ==
    /\ running
    /\ gui = "idle"
    /\ gui' = "closing"
    /\ io' = [io EXCEPT !.ready = <<[stop |-> TRUE]>> \o @]
    /\ UNCHANGED <<ioPc, pump, reader, connection, created, snap, messages, handed, bounds>>

Stop ==
    /\ running
    /\ gui = "idle"
    /\ gui' = "closing"
    /\ Post([stop |-> TRUE])
    /\ UNCHANGED <<ioPc, pump, reader, connection, created, snap, messages, handed, bounds>>

\* ... then stop and join the pump, ...
RequestPumpStop ==
    /\ gui = "closed"
    /\ gui' = "joinPump"
    /\ UNCHANGED <<ioPc, pump, io, reader, connection, created, snap, messages, handed, bounds>>

\* ... then stop the io_context, and join its thread.
StopContext ==
    /\ gui = "joinPump" /\ pump = "off"
    /\ gui' = "joinIo"
    /\ UNCHANGED <<ioPc, pump, io, reader, connection, created, snap, messages, handed, bounds>>

JoinIo ==
    /\ gui = "joinIo" /\ ioPc = "off"
    /\ gui' = "stopped"
    /\ UNCHANGED <<ioPc, pump, io, reader, connection, created, snap, messages, handed, bounds>>

-----------------------------------------------------------------------------
(* m_ioThread: m_context.run().                                            *)

\* The next handler, if the io_context may still run one.
Runs(kind) == /\ ioPc = "run" /\ ~contextStopped
              /\ io.ready # <<>>
              /\ kind \in DOMAIN Head(io.ready)

closeConnection(s) == IF connection = NoConn THEN s ELSE C!disconnect(s, connection)

\* connect()'s handler, first part: close, and announce the new port.
\* Mutant: leaves the connection that is open to its reads.
HandleConnectWithoutClose ==
    /\ Runs("port")
    /\ io' = C!Pop(io)
    /\ connection' = NoConn
    /\ snap' = [state |-> "Connecting", port |-> Head(io.ready).port, error |-> ""]
    /\ ioPc' = "open"
    /\ UNCHANGED <<gui, pump, reader, created, messages, handed, bounds>>

HandleConnect ==
    /\ Runs("port")
    /\ io' = closeConnection(C!Pop(io))
    /\ connection' = NoConn
    /\ snap' = [state |-> "Connecting", port |-> Head(io.ready).port, error |-> ""]
    /\ ioPc' = "open"
    /\ UNCHANGED <<gui, pump, reader, created, messages, handed, bounds>>

\* Second part, the port opens: the factory's connection starts to read.
\* Mutant: Connected is announced and no read started.
OpenPortWithoutReading ==
    /\ ioPc = "open"
    /\ created < MaxConns
    /\ created' = created + 1 /\ connection' = created + 1
    /\ io' = C!Open(io, created + 1)
    /\ snap' = [snap EXCEPT !.state = "Connected"]
    /\ ioPc' = "run"
    /\ UNCHANGED <<gui, pump, reader, messages, handed, bounds>>

OpenPort ==
    /\ ioPc = "open"
    /\ created < MaxConns
    /\ created' = created + 1 /\ connection' = created + 1
    /\ io' \in C!connectToClient(C!Open(io, created + 1), created + 1)
    /\ snap' = [snap EXCEPT !.state = "Connected"]
    /\ ioPc' = "run"
    /\ UNCHANGED <<gui, pump, reader, messages, handed, bounds>>

\* ... or it does not, and the factory throws.
\* Mutant: the exception is caught and not shown.
OpenFailsSilently ==
    /\ ioPc = "open"
    /\ ioPc' = "run"
    /\ UNCHANGED <<gui, pump, io, reader, connection, created, snap, messages, handed, bounds>>

OpenFails ==
    /\ ioPc = "open"
    /\ snap' = [snap EXCEPT !.state = "Error", !.error = "open"]
    /\ ioPc' = "run"
    /\ UNCHANGED <<gui, pump, io, reader, connection, created, messages, handed, bounds>>

\* The handlers of disconnect() and stop(); stop()'s also fulfils the promise.
\* Mutant: forgets the connection without closing it.
HandleCloseWithoutClose ==
    /\ Runs("stop")
    /\ io' = C!Pop(io)
    /\ connection' = NoConn
    /\ snap' = [state |-> "Disconnected", port |-> NoPort, error |-> ""]
    /\ gui' = IF Head(io.ready).stop THEN "closed" ELSE gui
    /\ UNCHANGED <<ioPc, pump, reader, created, messages, handed, bounds>>

HandleClose ==
    /\ Runs("stop")
    /\ io' = closeConnection(C!Pop(io))
    /\ connection' = NoConn
    /\ snap' = [state |-> "Disconnected", port |-> NoPort, error |-> ""]
    /\ gui' = IF Head(io.ready).stop THEN "closed" ELSE gui
    /\ UNCHANGED <<ioPc, pump, reader, created, messages, handed, bounds>>

\* A read has returned a line: push it ...
HandleLine ==
    /\ Runs("conn") /\ Head(io.ready).result = "line"
    /\ LET c == Head(io.ready).conn
           taken == C!BeginHandler(io) IN
          /\ io' = taken
          /\ reader' = c
          /\ Q!PushBack("io", <<c, taken.streams[c].taken>>)
    /\ ioPc' = "readOn"
    /\ UNCHANGED <<gui, pump, connection, created, snap, handed, bounds>>

\* ... notify the pump, and read on.
\* Mutant: does not read on.
ReadOnlyOnce ==
    /\ ioPc = "readOn"
    /\ Q!NotifyOne("io")
    /\ reader' = NoConn
    /\ ioPc' = "run"
    /\ UNCHANGED <<gui, pump, io, connection, created, snap, handed, bounds>>

ReadOn ==
    /\ ioPc = "readOn"
    /\ Q!NotifyOne("io")
    /\ io' \in C!Read(io, reader)
    /\ reader' = NoConn
    /\ ioPc' = "run"
    /\ UNCHANGED <<gui, pump, connection, created, snap, handed, bounds>>

\* A read has failed: setError() ignores a cancellation, then the stream is closed.
HandleError ==
    /\ Runs("conn") /\ Head(io.ready).result # "line"
    /\ LET done == Head(io.ready) IN
          /\ snap' = IF done.result = "aborted" THEN snap
                     ELSE [snap EXCEPT !.state = "Error", !.error = done.result]
          /\ io' = C!Close(C!BeginHandler(io), done.conn)
    /\ UNCHANGED <<gui, ioPc, pump, reader, connection, created, messages, handed, bounds>>

IoExit ==
    /\ ioPc = "run" /\ contextStopped
    /\ ioPc' = "off"
    /\ UNCHANGED <<gui, pump, io, reader, connection, created, snap, messages, handed, bounds>>

-----------------------------------------------------------------------------
(* m_messagePump.                                                          *)

PumpUnchanged == UNCHANGED <<gui, ioPc, io, reader, connection, created, snap, bounds>>

PumpTest ==
    /\ pump = "loop"
    /\ pump' = IF stopRequested THEN "off" ELSE "wait"
    /\ UNCHANGED <<messages, handed>> /\ PumpUnchanged

\* wait_for(100ms)
PumpWait ==
    /\ pump = "wait"
    /\ \/ Q!WaitForReturns("pump", TRUE) /\ pump' = "drain"
       \/ Q!WaitForReturns("pump", FALSE) /\ pump' = "loop"
       \/ Q!WaitBlocks("pump", FALSE) /\ UNCHANGED pump
    /\ UNCHANGED handed /\ PumpUnchanged

PumpTimeoutNever == FALSE  \* Mutant: wait() instead of wait_for().

PumpTimeout == Q!Expire("pump") /\ UNCHANGED <<pump, handed>> /\ PumpUnchanged
PumpSpuriousWakeup ==
    Q!SpuriousWakeup("pump") /\ UNCHANGED <<pump, handed>> /\ PumpUnchanged

PumpDrained ==
    /\ pump = "drain" /\ messages.deq = <<>>
    /\ pump' = "loop"
    /\ UNCHANGED <<messages, handed>> /\ PumpUnchanged

\* Mutant: takes the newest line first.
PumpPushNewest ==
    /\ pump = "drain"
    /\ Q!PopBack("pump")
    /\ handed' = Append(handed, messages.deq[Len(messages.deq)])
    /\ UNCHANGED pump /\ PumpUnchanged

PumpPush ==
    /\ pump = "drain"
    /\ Q!PopFront("pump")
    /\ handed' = Append(handed, Head(messages.deq))
    /\ UNCHANGED pump /\ PumpUnchanged

-----------------------------------------------------------------------------
(* The devices.                                                            *)

Device ==
    /\ \E c \in Conns : C!LinesArrive(c) \/ C!ReadFails(c)
    /\ UNCHANGED <<gui, ioPc, pump, reader, connection, created, snap, messages, handed, bounds>>

StopSteps == RequestPumpStop \/ StopContext \/ JoinIo
IoThread == \/ HandleConnect \/ OpenPort \/ OpenFails \/ HandleClose
            \/ HandleLine \/ ReadOn \/ HandleError \/ IoExit
PumpThread == PumpTest \/ PumpWait \/ PumpTimeout \/ PumpDrained \/ PumpPush

Next ==
    \/ Start \/ (\E port \in Ports : Connect(port)) \/ Disconnect \/ Stop
    \/ StopSteps \/ IoThread \/ PumpThread \/ PumpSpuriousWakeup \/ Device

\* Every thread that can take a step is scheduled.  wait_for() has an absolute
\* deadline, which spurious wakeups do not postpone.  Nothing makes the user act,
\* or a device send.
Fairness == /\ WF_vars(StopSteps) /\ WF_vars(IoThread) /\ WF_vars(PumpThread)
            /\ SF_vars(PumpTimeout)

Spec == Init /\ [][Next]_vars /\ Fairness

-----------------------------------------------------------------------------
TypeOK ==
    /\ gui \in {"stopped", "idle", "closing", "closed", "joinPump", "joinIo"}
    /\ ioPc \in {"off", "run", "open", "readOn"}
    /\ pump \in {"off", "loop", "wait", "drain"}
    /\ C!TypeOK /\ Q!TypeOK
    /\ reader \in Conns \cup {NoConn} /\ (ioPc = "readOn" <=> reader # NoConn)
    /\ connection \in Conns \cup {NoConn} /\ created \in 0..MaxConns
    /\ snap \in Snapshot /\ handed \in Seq(Line)
    /\ requests \in 0..MaxRequests /\ starts \in 0..MaxStarts

open == {c \in Conns : io.streams[c].open}

\* The only port that is ever open is that of m_connection, whatever requests are
\* queued and whatever reads of earlier connections are still to complete.
OnlyCurrentOpen == open \subseteq {connection}

\* When the snapshot says Connected and no handler is running, the connection is
\* there, its port is open and a read is under way: a line that arrives is read.
ConnectedMeansReading ==
    ioPc \in {"run", "off"} /\ snap.state = "Connected" =>
        connection \in open /\ io.streams[connection].read # "none"

\* No stream is ever read twice at a time, through errors, reconnections and restarts.
OneReadPerStream == C!OneReadPerStream

\* When stop() goes on to the threads, every connect() and disconnect() made before
\* it has been served: none is left to open a port when the session starts again.
RequestsServedBeforeStop ==
    gui \in {"closed", "joinPump", "joinIo", "stopped"} =>
        \A i \in 1..Len(io.ready) : "conn" \in DOMAIN io.ready[i]

\* After stop() no port is open, no read is in progress and no thread runs.
StoppedIsQuiet ==
    gui = "stopped" =>
        /\ open = {} /\ connection = NoConn
        /\ \A c \in Conns : io.streams[c].read # "pending"
        /\ ioPc = "off" /\ pump = "off"

\* The model gets the lines of a connection in the order they were read, each once,
\* also those that are read or queued after the connection was closed.
LinesInOrder ==
    LET moved == handed \o messages.deq IN
    /\ \A i, j \in 1..Len(moved) :
          i < j /\ moved[i][1] = moved[j][1] => moved[i][2] < moved[j][2]
    /\ \A line \in Line :
          Contains(moved, line) <=> line[2] <= io.streams[line[1]].taken

\* The session implements ExclusivePort.
Exclusive == INSTANCE ExclusivePort
                 WITH held <- open, closed <- 1..created \ open
ImplementsExclusivePort == Exclusive!Spec

\* stop() returns, from any state of the connection and of the queues.
StopReturns == gui = "closing" ~> gui = "stopped"

\* The reads of a connection that was replaced or dropped come to an end, so that
\* the connection that they keep alive is destroyed.
DroppedReadsEnd ==
    \A c \in Conns :
        (c <= created /\ c # connection /\ gui = "idle")
            ~> (io.streams[c].read = "none" \/ gui # "idle")

\* A line that arrives is handed to the model, unless its port is closed, before the line
\* is read or while it is on its way, or the session is stopped.
EveryLineHanded ==
    \A line \in Line :
        (io.streams[line[1]].arrived >= line[2])
            ~> (\/ Contains(handed, line)
                \/ line[1] \notin open \/ gui # "idle")
=============================================================================
