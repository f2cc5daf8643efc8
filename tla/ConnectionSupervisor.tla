------------------------ MODULE ConnectionSupervisor -------------------------
(***************************************************************************)
(* netlib::core::ConnectionSupervisor as AppConnectionSupervisor uses it:  *)
(* at each tick of a timer, a connection to every endpoint that is there.  *)
(*                                                                         *)
(*   "owner"  calls start(), stop(), startMessagePump(), stopMessagePump() *)
(*            and at last the destructor; no two calls overlap.            *)
(*   "io"     m_threadContext runs the io_context: the timer's handler,    *)
(*            and the completions of the connections' reads.               *)
(*   "pump"   m_monitor calls update(nMaxMessages, true) in a loop.        *)
(*                                                                         *)
(* Ids count up from 21000 in the order of m_deqConnections, so that the   *)
(* place of a connection there stands for its id.                          *)
(***************************************************************************)
EXTENDS Integers, Sequences, FiniteSets, SequencesExt

CONSTANTS nMaxMessages,  \* what the pump passes to update()
          MaxEndpoints,  \* bound: endpoints present at a tick
          MaxConns,      \* bound: connections created
          MaxLines,      \* bound: lines that arrive on each
          MaxStarts      \* bound: calls of start() and of startMessagePump()

ASSUME SupervisorAssumption ==
    /\ nMaxMessages \in Int
    /\ {MaxEndpoints, MaxConns, MaxLines, MaxStarts} \subseteq Nat

Conns == 1..MaxConns
NoConn == 0
Line == Conns \X (1..MaxLines)
Tick == [tick : {"ok", "aborted"}]   \* the timer's handler and its error code

VARIABLES owner, starts, pumpStarts,
          ioPc, reader, todo,  \* the io thread; endpoints left in this tick
          contextStopped,      \* the io_context was stopped
          timer,               \* m_asyncTimer
          io,                  \* the streams and the handlers that are ready
          connections,         \* m_deqConnections
          created,
          pump, count,         \* the pump, and nMessageCount in update()
          messages,            \* m_qMsgIn
          handled              \* what onMessage() was given

ownerVars == <<owner, starts, pumpStarts>>
ioVars == <<ioPc, reader, todo, timer, io, connections, created>>
pumpVars == <<pump, count, handled>>
vars == <<ownerVars, ioVars, contextStopped, pumpVars, messages>>

C == INSTANCE Connection WITH Posted <- Tick
Q == INSTANCE TSQueue WITH Threads <- {"io", "pump"}, Items <- Line, queue <- messages

stopRequested == owner \in {"joinPump", "dtorPump"}   \* m_monitor's stop token

Init ==
    /\ owner = "idle" /\ starts = 0 /\ pumpStarts = 0
    /\ ioPc = "off" /\ reader = NoConn /\ todo = 0 /\ contextStopped = FALSE
    /\ timer = "idle" /\ C!Init /\ connections = <<>> /\ created = 0
    /\ pump = "off" /\ count = 0 /\ Q!Init /\ handled = <<>>

-----------------------------------------------------------------------------
\* waitForClientConnection(): expires_after() aborts a wait that is in progress.
waitForClientConnection(s) ==
    /\ io' = IF timer = "armed" THEN C!Post(s, [tick |-> "aborted"]) ELSE s
    /\ timer' = "armed"

-----------------------------------------------------------------------------
(* The owner.  A call of start() while m_threadContext is joinable would   *)
(* end in std::terminate(): the owner makes none.                          *)

\* Mutant: the io_context is restarted, its old handlers still queued.
StartRestarts ==
    /\ owner = "idle" /\ ioPc = "off" /\ starts < MaxStarts
    /\ starts' = starts + 1
    /\ waitForClientConnection(io)
    /\ ioPc' = "run" /\ contextStopped' = FALSE
    /\ UNCHANGED <<owner, pumpStarts, reader, todo, connections, created, pumpVars, messages>>

Start ==
    /\ owner = "idle" /\ ioPc = "off" /\ starts < MaxStarts
    /\ starts' = starts + 1
    /\ waitForClientConnection(io)
    /\ ioPc' = "run"
    /\ UNCHANGED <<owner, pumpStarts, reader, todo, contextStopped, connections, created,
                   pumpVars, messages>>

\* stop(): stop the event loop, then join its thread.
Stop ==
    /\ owner = "idle" /\ owner' = "joinIo"
    /\ contextStopped' = TRUE
    /\ UNCHANGED <<starts, pumpStarts, ioVars, pumpVars, messages>>

JoinIo ==
    /\ owner \in {"joinIo", "dtorIo"}
    /\ ioPc \in {"off", "ended"}
    /\ ioPc' = "off"
    /\ owner' = IF owner = "dtorIo" THEN "gone" ELSE "idle"
    /\ UNCHANGED <<starts, pumpStarts, reader, todo, timer, io, connections, created,
                   contextStopped, pumpVars, messages>>

\* Returns early if m_monitor is joinable.
startMessagePump ==
    /\ owner = "idle" /\ pump = "off" /\ pumpStarts < MaxStarts
    /\ pumpStarts' = pumpStarts + 1
    /\ pump' = "loop"
    /\ UNCHANGED <<owner, starts, ioVars, contextStopped, count, handled, messages>>

stopMessagePump ==
    /\ owner = "idle" /\ pump # "off"
    /\ owner' = "joinPump"
    /\ UNCHANGED <<starts, pumpStarts, ioVars, contextStopped, pumpVars, messages>>

\* ~AppConnectionSupervisor() stops the pump, ...
\* Mutant: goes on to the base class at once.
DestroyBaseFirst ==
    /\ owner = "idle" /\ owner' = "dtorIo"
    /\ contextStopped' = TRUE
    /\ UNCHANGED <<starts, pumpStarts, ioVars, pumpVars, messages>>

Destroy ==
    /\ owner = "idle" /\ owner' = "dtorPump"
    /\ UNCHANGED <<starts, pumpStarts, ioVars, contextStopped, pumpVars, messages>>

JoinPump ==
    /\ owner = "joinPump" /\ pump = "off"
    /\ owner' = "idle"
    /\ UNCHANGED <<starts, pumpStarts, ioVars, contextStopped, pumpVars, messages>>

\* ... then the object is a ConnectionSupervisor, whose destructor calls stop().
BaseDestructor ==
    /\ owner = "dtorPump" /\ pump = "off"
    /\ owner' = "dtorBase"
    /\ UNCHANGED <<starts, pumpStarts, ioVars, contextStopped, pumpVars, messages>>

DestructorStops ==
    /\ owner = "dtorBase" /\ owner' = "dtorIo"
    /\ contextStopped' = TRUE
    /\ UNCHANGED <<starts, pumpStarts, ioVars, pumpVars, messages>>

OwnerSteps == JoinIo \/ JoinPump \/ BaseDestructor \/ DestructorStops

-----------------------------------------------------------------------------
(* The io thread.  run() does not run out of work before it is stopped:    *)
(* TimerPrimed.                                                            *)

Runs(kind) == /\ ioPc = "run" /\ ~contextStopped
              /\ io.ready # <<>>
              /\ kind \in DOMAIN Head(io.ready)

IoUnchanged == UNCHANGED <<ownerVars, contextStopped, pumpVars>>

\* The timer's handler asks for the endpoints, unless it got an error, ...
BeginTick ==
    /\ Runs("tick")
    /\ io' = C!Pop(io)
    /\ todo' \in IF Head(io.ready).tick = "ok" THEN 0..MaxEndpoints ELSE {0}
    /\ ioPc' = "tick"
    /\ UNCHANGED <<reader, timer, connections, created, messages>> /\ IoUnchanged

\* onClientConnect(): AppConnectionSupervisor accepts, its base class does not.  Once
\* the base's destructor has begun, the call races with the change of class.
onClientConnect == IF owner \in {"dtorBase", "dtorIo"} THEN BOOLEAN ELSE {TRUE}

\* ... and for each of them opens a connection and keeps it, ...
Accept ==
    /\ ioPc = "tick" /\ todo > 0 /\ created < MaxConns
    /\ TRUE \in onClientConnect
    /\ created' = created + 1
    /\ connections' = Append(connections, created + 1)
    /\ io' \in C!connectToClient(C!Open(io, created + 1), created + 1)
    /\ todo' = todo - 1
    /\ UNCHANGED <<ioPc, reader, timer, messages>> /\ IoUnchanged

\* ... or, where it is denied, closes it again, ...
\* Mutant: forgets to.
DenyWithoutClosing ==
    /\ ioPc = "tick" /\ todo > 0 /\ created < MaxConns
    /\ FALSE \in onClientConnect
    /\ created' = created + 1
    /\ io' = C!Open(io, created + 1)
    /\ todo' = todo - 1
    /\ UNCHANGED <<ioPc, reader, timer, connections, messages>> /\ IoUnchanged

Deny ==
    /\ ioPc = "tick" /\ todo > 0 /\ created < MaxConns
    /\ FALSE \in onClientConnect
    /\ created' = created + 1
    /\ io' = C!disconnect(C!Open(io, created + 1), created + 1)
    /\ todo' = todo - 1
    /\ UNCHANGED <<ioPc, reader, timer, connections, messages>> /\ IoUnchanged

\* ... or goes on with the next if the factory throws.
CreateFails ==
    /\ ioPc = "tick" /\ todo > 0
    /\ todo' = todo - 1
    /\ UNCHANGED <<ioPc, reader, timer, io, connections, created, messages>> /\ IoUnchanged

\* The handler ends by waiting again.
EndTick ==
    /\ ioPc = "tick" /\ todo = 0
    /\ waitForClientConnection(io)
    /\ ioPc' = "run"
    /\ UNCHANGED <<reader, todo, connections, created, messages>> /\ IoUnchanged

\* A read has returned a line: push it, then notify the pump and read on.
HandleLine ==
    /\ Runs("conn") /\ Head(io.ready).result = "line"
    /\ LET c == Head(io.ready).conn
           taken == C!BeginHandler(io) IN
          /\ io' = taken
          /\ reader' = c
          /\ Q!PushBack("io", <<c, taken.streams[c].taken>>)
    /\ ioPc' = "readOn"
    /\ UNCHANGED <<todo, timer, connections, created>> /\ IoUnchanged

ReadOn ==
    /\ ioPc = "readOn"
    /\ Q!NotifyOne("io")
    /\ io' \in C!Read(io, reader)
    /\ reader' = NoConn /\ ioPc' = "run"
    /\ UNCHANGED <<todo, timer, connections, created>> /\ IoUnchanged

\* A read has failed.  The supervisor sets no error handler: the stream is closed.
HandleError ==
    /\ Runs("conn") /\ Head(io.ready).result # "line"
    /\ io' = C!Close(C!BeginHandler(io), Head(io.ready).conn)
    /\ UNCHANGED <<ioPc, reader, todo, timer, connections, created, messages>> /\ IoUnchanged

IoExit ==
    /\ ioPc = "run" /\ contextStopped
    /\ ioPc' = "ended"
    /\ UNCHANGED <<reader, todo, timer, io, connections, created, messages>> /\ IoUnchanged

\* Time and the devices reach the program through the running loop.
looping == ioPc # "off" /\ ~contextStopped

TimerFires ==
    /\ looping /\ timer = "armed"
    /\ timer' = "idle"
    /\ io' = C!Post(io, [tick |-> "ok"])
    /\ UNCHANGED <<ioPc, reader, todo, connections, created, messages>> /\ IoUnchanged

Device ==
    /\ looping
    /\ \E c \in Conns : C!LinesArrive(c) \/ C!ReadFails(c)
    /\ UNCHANGED <<ioPc, reader, todo, timer, connections, created, messages>> /\ IoUnchanged

-----------------------------------------------------------------------------
(* The pump: update(nMaxMessages, true) until it is told to stop.          *)

PumpUnchanged == UNCHANGED <<ownerVars, ioVars, contextStopped>>

PumpTest ==
    /\ pump = "loop"
    /\ pump' = IF stopRequested THEN "off" ELSE "wait"
    /\ count' = 0
    /\ UNCHANGED <<handled, messages>> /\ PumpUnchanged

\* wait_for(500ms)
UpdateWait ==
    /\ pump = "wait"
    /\ \/ Q!WaitForReturns("pump", TRUE) /\ pump' = "drain"
       \/ Q!WaitForReturns("pump", FALSE) /\ pump' = "check"
       \/ Q!WaitBlocks("pump", FALSE) /\ UNCHANGED pump
    /\ UNCHANGED <<count, handled>> /\ PumpUnchanged

UpdateTimeoutNever == FALSE  \* Mutant: wait() instead of wait_for().

UpdateTimeout == Q!Expire("pump") /\ UNCHANGED pumpVars /\ PumpUnchanged
SpuriousWakeup == Q!SpuriousWakeup("pump") /\ UNCHANGED pumpVars /\ PumpUnchanged

\* update() returns early if the wait failed and nothing has come since.
UpdateCheck ==
    /\ pump = "check"
    /\ pump' = IF messages.deq = <<>> THEN "loop" ELSE "drain"
    /\ UNCHANGED <<count, handled, messages>> /\ PumpUnchanged

\* Mutant: the messages over the limit are dropped.
UpdateDropsRest ==
    /\ pump = "drain"
    /\ \/ /\ count < nMaxMessages
          /\ Q!PopFront("pump")
          /\ handled' = Append(handled, Head(messages.deq))
          /\ count' = count + 1 /\ UNCHANGED pump
       \/ /\ ~(count < nMaxMessages /\ messages.deq # <<>>)
          /\ messages' = [messages EXCEPT !.deq = <<>>]
          /\ pump' = "loop" /\ UNCHANGED <<count, handled>>
    /\ PumpUnchanged

\* while (nMessageCount < nMaxMessages && !m_qMsgIn.empty()) onMessage(pop_front())
Update ==
    /\ pump = "drain"
    /\ \/ /\ count < nMaxMessages
          /\ Q!PopFront("pump")
          /\ handled' = Append(handled, Head(messages.deq))
          /\ count' = count + 1 /\ UNCHANGED pump
       \/ /\ ~(count < nMaxMessages /\ messages.deq # <<>>)
          /\ pump' = "loop" /\ UNCHANGED <<count, handled, messages>>
    /\ PumpUnchanged

-----------------------------------------------------------------------------
IoThread == \/ BeginTick \/ Accept \/ Deny \/ CreateFails \/ EndTick
            \/ HandleLine \/ ReadOn \/ HandleError \/ IoExit
PumpThread == PumpTest \/ UpdateWait \/ UpdateTimeout \/ UpdateCheck \/ Update

Next == \/ Start \/ Stop \/ startMessagePump \/ stopMessagePump \/ Destroy \/ OwnerSteps
        \/ IoThread \/ TimerFires \/ Device
        \/ PumpThread \/ SpuriousWakeup

\* Every thread that can take a step is scheduled, the timer fires, and the deadline
\* of wait_for() passes.  Nothing makes the owner call, or a device send.
Fairness == /\ WF_vars(OwnerSteps) /\ WF_vars(IoThread) /\ WF_vars(TimerFires)
            /\ WF_vars(PumpThread) /\ SF_vars(UpdateTimeout)

Spec == Init /\ [][Next]_vars /\ Fairness

-----------------------------------------------------------------------------
TypeOK ==
    /\ owner \in {"idle", "joinPump", "joinIo", "dtorPump", "dtorBase", "dtorIo", "gone"}
    /\ starts \in 0..MaxStarts /\ pumpStarts \in 0..MaxStarts
    /\ ioPc \in {"off", "run", "tick", "readOn", "ended"}
    /\ reader \in Conns \cup {NoConn} /\ (ioPc = "readOn" <=> reader # NoConn)
    /\ todo \in 0..MaxEndpoints /\ contextStopped \in BOOLEAN
    /\ timer \in {"idle", "armed"}
    /\ C!TypeOK /\ connections \in Seq(Conns) /\ created \in 0..MaxConns
    /\ pump \in {"off", "loop", "wait", "check", "drain"} /\ count \in Nat
    /\ Q!TypeOK /\ handled \in Seq(Line)

open == {c \in Conns : io.streams[c].open}
accepted == Range(connections)
ticks == {i \in 1..Len(io.ready) : "tick" \in DOMAIN io.ready[i]}

\* The io_context always has the timer as work, and it ticks in a single chain: between
\* two handlers, either the one wait is in progress or its handler is queued.  Two
\* waits would abort each other for ever, because an aborted handler waits again.
TimerPrimed ==
    ioPc = "run" /\ ~contextStopped =>
        Cardinality(ticks) = IF timer = "armed" THEN 0 ELSE 1

\* A port that the supervisor has open belongs to a connection it keeps and reads:
\* one that was denied is closed, and no accepted one is left without a read.
OpenAreRead ==
    /\ open \subseteq accepted
    /\ \A c \in open \ {reader} : io.streams[c].read # "none"

\* No thread runs in a part of the object that is destroyed: the pump, which calls
\* the virtual onMessage(), ends before ~ConnectionSupervisor() begins, and the io
\* thread before it ends.
NoThreadOutlives ==
    /\ owner \in {"dtorBase", "dtorIo", "gone"} => pump = "off"
    /\ owner = "gone" => ioPc = "off"

\* The owner's calls return: stop() and the destructor in the middle of a tick too,
\* stopMessagePump() although the pump may sleep beside an empty queue.
CallsReturn == owner \notin {"idle", "gone"} ~> owner \in {"idle", "gone"}

\* A line that has been read is handled while the pump goes on, however many
\* updates it takes.
EveryLineHandled ==
    \A line \in Line :
        (io.streams[line[1]].taken >= line[2] /\ pump # "off")
            ~> (Contains(handled, line) \/ pump = "off" \/ stopRequested)

-----------------------------------------------------------------------------
(* What comments of the code say of it and the code does not do.           *)

\* "prime the context with work, and stop it from exiting immediately": the thread
\* that start() has launched runs the context until somebody stops it.
StartRunsContext == [][IoExit => owner # "idle"]_vars

\* "Container of active validated connections": no closed connection is in it.
ActiveConnections == ioPc = "run" => accepted \subseteq open

\* "Force server to process incoming messages": an update() that finds messages
\* processes at least one.
UpdateProcesses ==
    [][pump = "drain" /\ pump' = "loop" => count > 0 \/ messages.deq = <<>>]_vars
=============================================================================
