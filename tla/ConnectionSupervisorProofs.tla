--------------------- MODULE ConnectionSupervisorProofs ----------------------
(* Proofs about ConnectionSupervisor: for any number of connections, lines, *)
(* endpoints and calls of the owner, the timer ticks in a single chain,     *)
(* every open port is kept and read, and no thread outlives the object.     *)
EXTENDS ConnectionSupervisor, SequenceTheorems, FiniteSetTheorems, TLAPS

LC == INSTANCE ConnectionProofs WITH Posted <- Tick

\* The lemmas of ConnectionProofs are about the operations that the actions call.
LEMMA SameOperations ==
    \A s, c :
       /\ C!Open(s, c) = LC!Open(s, c) /\ C!Close(s, c) = LC!Close(s, c)
       /\ C!Read(s, c) = LC!Read(s, c) /\ C!Post(s, c) = LC!Post(s, c)
       /\ C!BeginHandler(s) = LC!BeginHandler(s) /\ C!Pop(s) = LC!Pop(s)
  BY DEF C!Open, LC!Open, C!Close, LC!Close, C!Read, LC!Read, C!Complete, LC!Complete,
         C!AtOnce, LC!AtOnce, C!Post, LC!Post, C!BeginHandler, LC!BeginHandler,
         C!Pop, LC!Pop

\* The connections of the supervisor are as the lemmas of ConnectionProofs assume.
LEMMA ConnAssumptionHolds == LC!ConnAssumption
  BY SupervisorAssumption DEF LC!ConnAssumption, LC!IsRead, Tick

-----------------------------------------------------------------------------
(* The threads.                                                             *)

\* The owner joins a thread only after it has told it to end, and nothing starts one
\* while a call is under way.
ThreadsInv ==
    /\ owner \in {"joinIo", "dtorIo", "gone"} \/ ioPc = "ended" => contextStopped
    /\ NoThreadOutlives

\* ThreadsInv is inductive.
LEMMA ThreadsStep == ThreadsInv /\ [Next]_vars => ThreadsInv'
<1> SUFFICES ASSUME ThreadsInv, [Next]_vars PROVE ThreadsInv'
  OBVIOUS
<1> USE DEF ThreadsInv, NoThreadOutlives
<1>1. CASE Start \/ Stop \/ startMessagePump \/ stopMessagePump \/ Destroy
  BY <1>1 DEF Start, Stop, startMessagePump, stopMessagePump, Destroy, ioVars, pumpVars
<1>2. CASE OwnerSteps
  BY <1>2 DEF OwnerSteps, JoinIo, JoinPump, BaseDestructor, DestructorStops, ioVars,
              pumpVars
<1>3. CASE IoThread
  BY <1>3 DEF IoThread, BeginTick, Accept, Deny, CreateFails, EndTick, HandleLine, ReadOn,
              HandleError, IoExit, Runs, IoUnchanged, ownerVars, pumpVars
<1>4. CASE TimerFires \/ Device
  BY <1>4 DEF TimerFires, Device, IoUnchanged, ownerVars, pumpVars
<1>5. CASE PumpThread \/ SpuriousWakeup
  BY <1>5 DEF PumpThread, PumpTest, UpdateWait, UpdateTimeout, UpdateCheck, Update,
              SpuriousWakeup, PumpUnchanged, ownerVars, ioVars, pumpVars
<1>6. CASE UNCHANGED vars
  BY <1>6 DEF vars, ownerVars, ioVars, pumpVars
<1> QED BY <1>1, <1>2, <1>3, <1>4, <1>5, <1>6 DEF Next

\* So it holds of every state of the supervisor.
LEMMA ThreadsInvariant == Spec => []ThreadsInv
<1>1. Init => ThreadsInv
  BY DEF Init, ThreadsInv, NoThreadOutlives
<1> QED BY <1>1, ThreadsStep, PTL DEF Spec

\* However the calls of the owner follow each other, the pump has ended before the base
\* class is destroyed, and the io thread before the object is gone.
THEOREM ThreadsEnd == Spec => []NoThreadOutlives
<1>1. ThreadsInv => NoThreadOutlives
  BY DEF ThreadsInv
<1> QED BY <1>1, ThreadsInvariant, PTL

-----------------------------------------------------------------------------
(* The handlers of the timer in the queue.                                  *)

IsTick(handler) == "tick" \in DOMAIN handler
NoTick(ready) == \A i \in 1..Len(ready) : ~IsTick(ready[i])
OneTick(ready) == \A i, j \in 1..Len(ready) : IsTick(ready[i]) /\ IsTick(ready[j]) => i = j

\* The completion of a read is none of them.
LEMMA QueuesReadTicks ==
    ASSUME NEW q \in Seq(LC!Handler), NEW c, NEW results, NEW r,
           LC!QueuesRead(q, r, c, results)
    PROVE  (NoTick(r) <=> NoTick(q)) /\ (OneTick(q) => OneTick(r))
<1>1. CASE r = q
  BY <1>1
<1>2. ASSUME NEW h, ~IsTick(h), r = Append(q, h)
      PROVE  (NoTick(r) <=> NoTick(q)) /\ (OneTick(q) => OneTick(r))
  <2>1. /\ Len(q) \in Nat /\ Len(r) = Len(q) + 1 /\ r[Len(q) + 1] = h
        /\ \A i \in 1..Len(q) : r[i] = q[i]
    BY <1>2, AppendProperties, LenProperties
  <2> QED BY <1>2, <2>1 DEF NoTick, OneTick
<1>3. \A result : ~IsTick([conn |-> c, result |-> result])
  BY DEF IsTick
<1> QED BY <1>1, <1>2, <1>3 DEF LC!QueuesRead

\* The timer's handler joins a queue where there is none.
LEMMA TickJoins ==
    ASSUME NEW q \in Seq(LC!Handler), NoTick(q), NEW h \in Tick
    PROVE  OneTick(Append(q, h)) /\ ~NoTick(Append(q, h))
<1>1. IsTick(h)
  BY DEF IsTick, Tick
<1>2. /\ Len(q) \in Nat /\ Len(Append(q, h)) = Len(q) + 1
      /\ Append(q, h)[Len(q) + 1] = h
      /\ \A i \in 1..Len(q) : Append(q, h)[i] = q[i]
  BY LenProperties
<1> QED BY <1>1, <1>2 DEF NoTick, OneTick

\* The first handler leaves the queue.
LEMMA TailTicks ==
    ASSUME NEW q \in Seq(LC!Handler), q # <<>>, OneTick(q)
    PROVE  /\ OneTick(Tail(q))
           /\ IsTick(Head(q)) => NoTick(Tail(q)) /\ ~NoTick(q)
           /\ ~IsTick(Head(q)) => (NoTick(Tail(q)) <=> NoTick(q))
<1>1. /\ Len(q) \in Nat \ {0} /\ Len(Tail(q)) = Len(q) - 1 /\ Head(q) = q[1]
      /\ \A i \in 1..Len(Tail(q)) : Tail(q)[i] = q[i + 1]
  BY HeadTailProperties, LenProperties, EmptySeq
<1>2. \A i \in 1..Len(Tail(q)) : i + 1 \in 1..Len(q) /\ i + 1 # 1 /\ Tail(q)[i] = q[i + 1]
  BY <1>1
<1>3. OneTick(Tail(q))
  <2> SUFFICES ASSUME NEW i \in 1..Len(Tail(q)), NEW j \in 1..Len(Tail(q)),
                      IsTick(Tail(q)[i]), IsTick(Tail(q)[j])
               PROVE  i = j
    BY DEF OneTick
  <2>1. i + 1 = j + 1
    BY <1>2 DEF OneTick
  <2> QED BY <2>1
<1>4. ASSUME IsTick(Head(q)) PROVE NoTick(Tail(q)) /\ ~NoTick(q)
  BY <1>1, <1>2, <1>4 DEF OneTick, NoTick
<1>5. ASSUME ~IsTick(Head(q)) PROVE NoTick(Tail(q)) <=> NoTick(q)
  <2>1. \A i \in 1..Len(q) : i = 1 \/ (i - 1 \in 1..Len(Tail(q)) /\ q[i] = Tail(q)[i - 1])
    BY <1>1
  <2> QED BY <1>1, <1>2, <1>5, <2>1 DEF NoTick
<1> QED BY <1>3, <1>4, <1>5

-----------------------------------------------------------------------------
(* The invariant of the io thread.                                          *)

\* A connection that was not created has done nothing, and the one whose line is being
\* handled has no read.
StreamsInv ==
    /\ LC!ConnInv(io)
    /\ created \in 0..MaxConns /\ connections \in Seq(Conns)
    /\ reader \in Conns \cup {NoConn} /\ (ioPc = "readOn" <=> reader # NoConn)
    /\ reader <= created
    /\ timer \in {"idle", "armed"}
    /\ \A c \in Conns :
          /\ c > created => io.streams[c].read = "none" /\ ~io.streams[c].open
          /\ c = reader => io.streams[c].read = "none"
          /\ io.streams[c].open /\ c # reader => io.streams[c].read # "none"
          /\ io.streams[c].open => c \in accepted

\* The timer has one wait in progress, or one handler in the queue, or the handler is
\* running, from the first start() until the io_context is stopped.
TimerInv ==
    ~contextStopped =>
        /\ ioPc # "ended"
        /\ ioPc \in {"off", "tick"} => timer = "idle" /\ NoTick(io.ready)
        /\ ioPc \in {"run", "readOn"} =>
              OneTick(io.ready) /\ (timer = "armed" <=> NoTick(io.ready))

IoInv == StreamsInv /\ TimerInv

\* The parts of the state of io.
LEMMA ReadyOf ==
    ASSUME IoInv
    PROVE  io.ready \in Seq(LC!Handler) /\ LC!Shaped(io)
  BY DEF IoInv, StreamsInv, LC!ConnInv, LC!Shaped

\* The handler that runs next.
LEMMA HandlerRuns ==
    ASSUME IoInv, NEW kind, Runs(kind)
    PROVE  /\ ioPc = "run" /\ ~contextStopped /\ reader = NoConn
           /\ io.ready # <<>> /\ Head(io.ready) \in LC!Handler
           /\ kind = "conn" => LC!IsRead(Head(io.ready)) /\ ~IsTick(Head(io.ready))
           /\ kind = "tick" => IsTick(Head(io.ready)) /\ ~LC!IsRead(Head(io.ready))
<1>1. /\ ioPc = "run" /\ ~contextStopped /\ io.ready # <<>>
      /\ kind \in DOMAIN Head(io.ready)
  BY DEF Runs
<1>2. Head(io.ready) \in LC!Handler
  BY <1>1, ReadyOf, HeadTailProperties
<1>3. \A h \in LC!Handler : ~(LC!IsRead(h) /\ IsTick(h))
  BY DEF LC!Handler, LC!Completion, Tick, LC!IsRead, IsTick
<1> QED BY <1>1, <1>2, <1>3 DEF IoInv, StreamsInv, LC!IsRead, IsTick

\* Only the stream of c and the queue change.
LEMMA OneStreamKeeps ==
    ASSUME StreamsInv, NEW c \in Conns, LC!ConnInv(io'), LC!Others(io, io', c),
           UNCHANGED <<created, connections>>, timer' \in {"idle", "armed"},
           reader' \in Conns \cup {NoConn}, reader' <= created, ioPc' = "readOn" <=> reader' # NoConn,
           reader' # NoConn => reader' = c \/ reader' = reader,
           reader # NoConn /\ reader' # reader => reader = c,
           c > created => io'.streams[c].read = "none" /\ ~io'.streams[c].open,
           c = reader' => io'.streams[c].read = "none",
           io'.streams[c].open /\ c # reader' => io'.streams[c].read # "none",
           io'.streams[c].open => io.streams[c].open
    PROVE  StreamsInv'
<1>1. accepted' = accepted
  BY DEF accepted
<1>2. ASSUME NEW d \in Conns
      PROVE  /\ d > created => io'.streams[d].read = "none" /\ ~io'.streams[d].open
             /\ d = reader' => io'.streams[d].read = "none"
             /\ io'.streams[d].open /\ d # reader' => io'.streams[d].read # "none"
             /\ io'.streams[d].open => d \in accepted
  <2>1. CASE d = c
    BY <2>1 DEF StreamsInv
  <2>2. CASE d # c
    <3>1. io'.streams[d] = io.streams[d]
      BY <2>2 DEF LC!Others
    <3>2. NoConn \notin Conns
      BY DEF NoConn, Conns
    <3> QED BY <2>2, <3>1, <3>2 DEF StreamsInv
  <2> QED BY <2>1, <2>2
<1> QED BY <1>1, <1>2 DEF StreamsInv
\* The owner's steps but Start, the pump's, and the end of the io thread.
LEMMA QuietStepKeeps ==
    ASSUME IoInv, ThreadsInv,
           \/ Stop \/ startMessagePump \/ stopMessagePump \/ Destroy \/ OwnerSteps
           \/ IoExit \/ PumpThread \/ SpuriousWakeup \/ UNCHANGED vars
    PROVE  IoInv'
<1>1. /\ UNCHANGED <<io, created, connections, reader, timer>>
      /\ contextStopped' = contextStopped \/ contextStopped'
      /\ ioPc' = ioPc \/ (ioPc \in {"off", "ended", "run"} /\ ioPc' # "readOn" /\ contextStopped')
  BY DEF ThreadsInv, Stop, startMessagePump, stopMessagePump, Destroy, OwnerSteps, JoinIo,
         JoinPump, BaseDestructor, DestructorStops, IoExit, PumpThread, PumpTest,
         UpdateWait, UpdateTimeout, UpdateCheck, Update, SpuriousWakeup, IoUnchanged,
         PumpUnchanged, ownerVars, ioVars, vars
<1>2. LC!ConnInv(io)'
  BY <1>1 DEF IoInv, StreamsInv
<1>3. StreamsInv'
  BY <1>1, <1>2 DEF IoInv, StreamsInv, accepted
<1>4. TimerInv'
  BY <1>1 DEF IoInv, TimerInv
<1> QED BY <1>3, <1>4 DEF IoInv

\* A handler of the timer is posted.
LEMMA TickPosted ==
    ASSUME IoInv, NEW h \in Tick, io' = C!Post(io, h)
    PROVE  /\ LC!ConnInv(io') /\ io'.streams = io.streams
           /\ io'.ready = Append(io.ready, h)
<1>1. io' = LC!Post(io, h) /\ LC!ConnInv(io)
  BY SameOperations DEF IoInv, StreamsInv
<1> QED BY <1>1, ConnAssumptionHolds, LC!PostKeeps

\* The streams stay as they are.
LEMMA SameStreams ==
    ASSUME StreamsInv, LC!ConnInv(io'), io'.streams = io.streams,
           UNCHANGED <<created, connections, reader>>, timer' \in {"idle", "armed"},
           ioPc' = "readOn" <=> ioPc = "readOn"
    PROVE  StreamsInv'
  BY DEF StreamsInv, accepted

\* start() makes the first wait of the timer; no tick is queued then.
LEMMA StartKeeps == ASSUME IoInv, ThreadsInv, Start PROVE IoInv'
<1>1. /\ ioPc = "off" /\ ioPc' = "run" /\ waitForClientConnection(io)
      /\ UNCHANGED <<created, connections, reader, contextStopped>>
  BY DEF Start
<1>2. CASE timer = "armed"
  <2> DEFINE h == [tick |-> "aborted"]
  <2>1. io' = C!Post(io, h) /\ h \in Tick /\ timer' = "armed"
    BY <1>1, <1>2 DEF waitForClientConnection, Tick
  <2>2. LC!ConnInv(io') /\ io'.streams = io.streams
    BY <2>1, TickPosted
  <2>3. StreamsInv'
    BY <1>1, <2>1, <2>2, SameStreams DEF IoInv
  <2>4. contextStopped'
    BY <1>1, <1>2 DEF IoInv, TimerInv
  <2> QED BY <2>3, <2>4 DEF IoInv, TimerInv
<1>3. CASE timer # "armed"
  <2>1. io' = io /\ timer' = "armed"
    BY <1>1, <1>3 DEF waitForClientConnection
  <2>2. StreamsInv'
    BY <1>1, <2>1, SameStreams DEF IoInv, StreamsInv
  <2>3. TimerInv'
    <3>1. NoTick(io.ready) => OneTick(io.ready)
      BY DEF NoTick, OneTick
    <3> QED BY <1>1, <2>1, <3>1 DEF IoInv, TimerInv
  <2> QED BY <2>2, <2>3 DEF IoInv
<1> QED BY <1>2, <1>3

\* The end of a tick arms the next wait, and no tick is queued then.
LEMMA EndTickKeeps == ASSUME IoInv, EndTick PROVE IoInv'
<1>1. /\ ioPc = "tick" /\ ioPc' = "run" /\ waitForClientConnection(io)
      /\ UNCHANGED <<created, connections, reader, contextStopped>>
  BY DEF EndTick, IoUnchanged
<1>2. CASE timer = "armed"
  <2> DEFINE h == [tick |-> "aborted"]
  <2>1. io' = C!Post(io, h) /\ h \in Tick /\ timer' = "armed"
    BY <1>1, <1>2 DEF waitForClientConnection, Tick
  <2>2. LC!ConnInv(io') /\ io'.streams = io.streams
    BY <2>1, TickPosted
  <2>3. StreamsInv'
    BY <1>1, <2>1, <2>2, SameStreams DEF IoInv
  <2>4. contextStopped'
    BY <1>1, <1>2 DEF IoInv, TimerInv
  <2> QED BY <2>3, <2>4 DEF IoInv, TimerInv
<1>3. CASE timer # "armed"
  <2>1. io' = io /\ timer' = "armed"
    BY <1>1, <1>3 DEF waitForClientConnection
  <2>2. StreamsInv'
    BY <1>1, <2>1, SameStreams DEF IoInv, StreamsInv
  <2>3. TimerInv'
    <3>1. NoTick(io.ready) => OneTick(io.ready)
      BY DEF NoTick, OneTick
    <3> QED BY <1>1, <2>1, <3>1 DEF IoInv, TimerInv
  <2> QED BY <2>2, <2>3 DEF IoInv
<1> QED BY <1>2, <1>3

\* A tick takes the one handler of the timer from the queue.
LEMMA BeginTickKeeps == ASSUME IoInv, BeginTick PROVE IoInv'
<1>1. /\ Runs("tick") /\ io' = LC!Pop(io) /\ ioPc' = "tick"
      /\ UNCHANGED <<created, connections, reader, timer, contextStopped>>
  BY SameOperations DEF BeginTick, IoUnchanged
<1>2. /\ ioPc = "run" /\ ~contextStopped /\ io.ready # <<>>
      /\ IsTick(Head(io.ready)) /\ ~LC!IsRead(Head(io.ready))
  BY <1>1, HandlerRuns
<1>3. /\ LC!ConnInv(io') /\ io'.streams = io.streams /\ io'.ready = Tail(io.ready)
  <2>1. LC!ConnInv(io)
    BY DEF IoInv, StreamsInv
  <2> QED BY <1>1, <1>2, <2>1, ConnAssumptionHolds, LC!PopKeeps
<1>4. StreamsInv'
  BY <1>1, <1>2, <1>3, SameStreams DEF IoInv, StreamsInv
<1>5. NoTick(io'.ready) /\ ~NoTick(io.ready)
  BY <1>2, <1>3, ReadyOf, TailTicks DEF IoInv, TimerInv
<1>6. TimerInv'
  <2>1. timer # "armed"
    BY <1>2, <1>5 DEF IoInv, TimerInv
  <2>2. timer \in {"idle", "armed"}
    BY DEF IoInv, StreamsInv
  <2> QED BY <1>1, <1>5, <2>1, <2>2 DEF TimerInv
<1> QED BY <1>4, <1>6 DEF IoInv

\* A wait that ends queues the one handler of the timer.
LEMMA TimerFiresKeeps == ASSUME IoInv, TimerFires PROVE IoInv'
<1> DEFINE h == [tick |-> "ok"]
<1>1. /\ looping /\ timer = "armed" /\ timer' = "idle" /\ io' = C!Post(io, h)
      /\ UNCHANGED <<ioPc, created, connections, reader, contextStopped>>
  BY DEF TimerFires, IoUnchanged
<1>2. h \in Tick
  BY DEF Tick
<1> HIDE DEF h
<1>3. LC!ConnInv(io') /\ io'.streams = io.streams /\ io'.ready = Append(io.ready, h)
  BY <1>1, <1>2, TickPosted
<1>4. StreamsInv'
  BY <1>1, <1>3, SameStreams DEF IoInv
<1>5. ioPc \notin {"off", "tick", "ended"} /\ (ioPc \in {"run", "readOn"} => NoTick(io.ready))
  BY <1>1 DEF IoInv, TimerInv, looping
<1>6. NoTick(io.ready) => OneTick(io'.ready) /\ ~NoTick(io'.ready)
  BY <1>2, <1>3, ReadyOf, TickJoins
<1>7. TimerInv'
  BY <1>1, <1>5, <1>6 DEF TimerInv
<1> QED BY <1>4, <1>7 DEF IoInv

\* A port that cannot be opened leaves the connections as they are.
LEMMA CreateFailsKeeps == ASSUME IoInv, CreateFails PROVE IoInv'
<1>1. UNCHANGED <<ioPc, io, created, connections, reader, timer, contextStopped>>
  BY DEF CreateFails, IoUnchanged
<1>2. StreamsInv'
  BY <1>1, SameStreams DEF IoInv, StreamsInv
<1>3. TimerInv'
  BY <1>1 DEF IoInv, TimerInv
<1> QED BY <1>2, <1>3 DEF IoInv

\* An operation on the streams in a tick changes nothing of the timer.
LEMMA ReadsKeepTimer ==
    ASSUME IoInv, NEW c, NEW results, LC!QueuesRead(io.ready, io'.ready, c, results),
           UNCHANGED <<timer, contextStopped>>,
           ioPc' = ioPc \/ {ioPc, ioPc'} = {"run", "readOn"}
    PROVE  TimerInv'
<1>1. (NoTick(io'.ready) <=> NoTick(io.ready)) /\ (OneTick(io.ready) => OneTick(io'.ready))
  BY ReadyOf, QueuesReadTicks
<1>2. /\ ioPc' \in {"off", "tick"} => ioPc' = ioPc
      /\ ioPc' = "ended" => ioPc' = ioPc
      /\ ioPc' \in {"run", "readOn"} => ioPc \in {"run", "readOn"}
  OBVIOUS
<1> QED BY <1>1, <1>2 DEF IoInv, TimerInv

\* A connection is opened, and either kept and read or closed.
LEMMA AcceptKeeps == ASSUME IoInv, Accept PROVE IoInv'
<1> DEFINE c == created + 1
           opened == LC!Open(io, c)
<1>1. /\ ioPc = "tick" /\ ioPc' = "tick" /\ created < MaxConns /\ created' = c
      /\ connections' = Append(connections, c)
      /\ io' \in C!connectToClient(opened, c)
      /\ UNCHANGED <<reader, timer, contextStopped>>
  BY SameOperations DEF Accept, IoUnchanged
<1>2. /\ c \in Conns /\ created \in Nat /\ LC!ConnInv(io) /\ connections \in Seq(Conns)
      /\ reader = NoConn /\ io.streams[c].read = "none"
  <2>1. c \in Conns /\ created \in Nat /\ c > created
    BY <1>1, SupervisorAssumption DEF IoInv, StreamsInv, Conns
  <2> HIDE DEF c
  <2> QED BY <1>1, <2>1 DEF IoInv, StreamsInv
<1>3. /\ LC!ConnInv(opened) /\ LC!Others(io, opened, c) /\ opened.ready = io.ready
      /\ opened.streams[c].open /\ opened.streams[c].read = "none"
  <2>1. io.streams[c] \in LC!Stream
    BY <1>2, LC!StreamOf DEF LC!ConnInv
  <2>2. /\ LC!ConnInv(opened) /\ LC!Others(io, opened, c) /\ opened.ready = io.ready
        /\ opened.streams[c] = [io.streams[c] EXCEPT !.open = TRUE]
    <3> HIDE DEF c
    <3> QED BY <1>2, ConnAssumptionHolds, LC!OpenKeeps
  <2> HIDE DEF c, opened
  <2> QED BY <1>2, <2>1, <2>2 DEF LC!Stream
<1> HIDE DEF opened
<1>4. io' \in LC!Read(opened, c)
  BY <1>1, <1>3, SameOperations DEF C!connectToClient, C!isConnected
<1>5. c > created /\ c \in Nat /\ \A d \in Conns : d > c => d > created /\ d # c
  BY <1>2 DEF Conns
<1> HIDE DEF c
<1>6. /\ LC!ConnInv(io') /\ LC!Others(opened, io', c) /\ io'.streams[c].read # "none"
      /\ LC!QueuesRead(opened.ready, io'.ready, c, {"line", "badfd"})
  BY <1>2, <1>3, <1>4, ConnAssumptionHolds, LC!ReadKeeps
<1>7. LC!Others(io, io', c)
  BY <1>3, <1>6 DEF LC!Others
<1>8. accepted' = accepted \cup {c}
  <2>1. /\ Len(connections') = Len(connections) + 1 /\ Len(connections) \in Nat
        /\ connections'[Len(connections) + 1] = c
        /\ \A i \in 1..Len(connections) : connections'[i] = connections[i]
        /\ DOMAIN connections = 1..Len(connections)
        /\ DOMAIN connections' = 1..Len(connections')
    BY <1>1, <1>2, AppendProperties, LenProperties
  <2> QED BY <2>1 DEF accepted, Range
<1>9. StreamsInv'
  <2>1. connections' \in Seq(Conns)
    BY <1>1, <1>2, AppendProperties
  <2>2. created' \in 0..MaxConns
    BY <1>1, <1>2 DEF Conns
  <2>3. ASSUME NEW d \in Conns
        PROVE  /\ d > created' => io'.streams[d].read = "none" /\ ~io'.streams[d].open
               /\ d = reader' => io'.streams[d].read = "none"
               /\ io'.streams[d].open /\ d # reader' => io'.streams[d].read # "none"
               /\ io'.streams[d].open => d \in accepted'
    <3>1. d # reader'
      BY <1>1, <1>2 DEF NoConn, Conns
    <3>2. CASE d = c
      BY <1>1, <1>2, <1>5, <1>6, <1>8, <3>1, <3>2 DEF Conns
    <3>3. CASE d # c
      <4>1. io'.streams[d] = io.streams[d]
        BY <1>7, <3>3 DEF LC!Others
      <4> QED BY <1>1, <1>5, <1>8, <3>1, <4>1 DEF IoInv, StreamsInv
    <3> QED BY <3>2, <3>3
  <2>4. /\ timer' \in {"idle", "armed"} /\ reader' = NoConn /\ ioPc' # "readOn"
        /\ reader' <= created'
    BY <1>1, <1>2, <2>2 DEF IoInv, StreamsInv, NoConn
  <2> QED BY <1>6, <2>1, <2>2, <2>3, <2>4 DEF StreamsInv
<1>10. TimerInv'
  BY <1>1, <1>3, <1>6, ReadsKeepTimer
<1> QED BY <1>9, <1>10 DEF IoInv

\* A connection that is denied is opened and closed, without a read.
LEMMA DenyKeeps == ASSUME IoInv, Deny PROVE IoInv'
<1> DEFINE c == created + 1
           opened == LC!Open(io, c)
<1>1. /\ ioPc = "tick" /\ ioPc' = "tick" /\ created < MaxConns /\ created' = c
      /\ io' = C!disconnect(opened, c)
      /\ UNCHANGED <<connections, reader, timer, contextStopped>>
  BY SameOperations DEF Deny, IoUnchanged
<1>2. /\ c \in Conns /\ created \in Nat /\ LC!ConnInv(io) /\ connections \in Seq(Conns)
      /\ reader = NoConn /\ io.streams[c].read = "none"
  <2>1. c \in Conns /\ created \in Nat /\ c > created
    BY <1>1, SupervisorAssumption DEF IoInv, StreamsInv, Conns
  <2> HIDE DEF c
  <2> QED BY <1>1, <2>1 DEF IoInv, StreamsInv
<1>3. /\ LC!ConnInv(opened) /\ LC!Others(io, opened, c) /\ opened.ready = io.ready
      /\ opened.streams[c].open /\ opened.streams[c].read = "none"
  <2>1. io.streams[c] \in LC!Stream
    BY <1>2, LC!StreamOf DEF LC!ConnInv
  <2>2. /\ LC!ConnInv(opened) /\ LC!Others(io, opened, c) /\ opened.ready = io.ready
        /\ opened.streams[c] = [io.streams[c] EXCEPT !.open = TRUE]
    <3> HIDE DEF c
    <3> QED BY <1>2, ConnAssumptionHolds, LC!OpenKeeps
  <2> HIDE DEF c, opened
  <2> QED BY <1>2, <2>1, <2>2 DEF LC!Stream
<1> HIDE DEF opened
<1>4. io' = LC!Close(opened, c)
  BY <1>1, <1>3, SameOperations DEF C!disconnect, C!isConnected
<1>5. c \in Nat /\ \A d \in Conns : d > c => d > created /\ d # c
  BY <1>2 DEF Conns
<1> HIDE DEF c
<1>6. /\ LC!ConnInv(io') /\ LC!Others(opened, io', c) /\ ~io'.streams[c].open
      /\ io'.streams[c].read = "none" /\ io'.ready = opened.ready
  BY <1>2, <1>3, <1>4, ConnAssumptionHolds, LC!CloseKeeps
<1>7. LC!Others(io, io', c)
  BY <1>3, <1>6 DEF LC!Others
<1>8. accepted' = accepted
  BY <1>1 DEF accepted
<1>9. StreamsInv'
  <2>1. created' \in 0..MaxConns
    BY <1>1, <1>2 DEF Conns
  <2>2. ASSUME NEW d \in Conns
        PROVE  /\ d > created' => io'.streams[d].read = "none" /\ ~io'.streams[d].open
               /\ d = reader' => io'.streams[d].read = "none"
               /\ io'.streams[d].open /\ d # reader' => io'.streams[d].read # "none"
               /\ io'.streams[d].open => d \in accepted'
    <3>1. CASE d = c
      BY <1>6, <3>1
    <3>2. CASE d # c
      <4>1. io'.streams[d] = io.streams[d]
        BY <1>7, <3>2 DEF LC!Others
      <4> QED BY <1>1, <1>5, <1>8, <4>1 DEF IoInv, StreamsInv
    <3> QED BY <3>1, <3>2
  <2>3. /\ timer' \in {"idle", "armed"} /\ reader' = NoConn /\ ioPc' # "readOn"
        /\ reader' <= created'
        /\ connections' \in Seq(Conns)
    BY <1>1, <1>2, <2>1 DEF IoInv, StreamsInv, NoConn
  <2> QED BY <1>2, <1>6, <2>1, <2>2, <2>3 DEF StreamsInv
<1>10. TimerInv'
  <2>1. LC!QueuesRead(io.ready, io'.ready, c, {})
    BY <1>3, <1>6 DEF LC!QueuesRead
  <2> QED BY <1>1, <2>1, ReadsKeepTimer
<1> QED BY <1>9, <1>10 DEF IoInv

\* The completion of a read leaves the queue: the timer's handlers stay.
LEMMA TailKeepsTimer ==
    ASSUME IoInv, Runs("conn"), NEW c, NEW results,
           LC!QueuesRead(Tail(io.ready), io'.ready, c, results),
           UNCHANGED <<timer, contextStopped>>, ioPc' \in {"run", "readOn"}
    PROVE  TimerInv'
<1>1. /\ ioPc = "run" /\ ~contextStopped /\ io.ready # <<>> /\ ~IsTick(Head(io.ready))
  BY HandlerRuns
<1>2. /\ io.ready \in Seq(LC!Handler) /\ Tail(io.ready) \in Seq(LC!Handler)
  BY <1>1, ReadyOf, HeadTailProperties
<1>3. /\ NoTick(Tail(io.ready)) <=> NoTick(io.ready)
      /\ OneTick(io.ready) => OneTick(Tail(io.ready))
  BY <1>1, <1>2, TailTicks DEF IoInv, TimerInv
<1>4. /\ NoTick(io'.ready) <=> NoTick(Tail(io.ready))
      /\ OneTick(Tail(io.ready)) => OneTick(io'.ready)
  BY <1>2, QueuesReadTicks
<1> QED BY <1>1, <1>3, <1>4 DEF IoInv, TimerInv

\* The connection whose line is handled has no read until it is read on.
LEMMA HandleLineKeeps == ASSUME IoInv, HandleLine PROVE IoInv'
<1> DEFINE c == Head(io.ready).conn
<1>1. /\ Runs("conn") /\ io' = LC!BeginHandler(io) /\ reader' = c /\ ioPc' = "readOn"
      /\ UNCHANGED <<timer, connections, created, contextStopped>>
  BY SameOperations DEF HandleLine, IoUnchanged
<1>2. io.ready # <<>> /\ LC!IsRead(Head(io.ready)) /\ reader = NoConn /\ LC!ConnInv(io)
  BY <1>1, HandlerRuns DEF IoInv, StreamsInv
<1>3. /\ LC!ConnInv(io') /\ LC!Others(io, io', c) /\ io'.ready = Tail(io.ready)
      /\ c \in Conns /\ io.streams[c].read = "queued"
      /\ io'.streams[c].open = io.streams[c].open /\ io'.streams[c].read = "none"
  BY <1>1, <1>2, ConnAssumptionHolds, LC!BeginHandlerKeeps
<1> HIDE DEF c
<1>4. StreamsInv'
  <2>1. NoConn \notin Conns
    BY DEF NoConn, Conns
  <2>2. /\ StreamsInv /\ timer' \in {"idle", "armed"}
        /\ c <= created
    BY <1>1, <1>3 DEF IoInv, StreamsInv, Conns
  <2>3. ~(c > created)
    BY <1>3, <2>2 DEF IoInv, StreamsInv, Conns
  <2> QED BY <1>1, <1>2, <1>3, <2>1, <2>2, <2>3, OneStreamKeeps
<1>5. TimerInv'
  <2>1. LC!QueuesRead(Tail(io.ready), io'.ready, c, {})
    BY <1>3 DEF LC!QueuesRead
  <2> QED BY <1>1, <2>1, TailKeepsTimer
<1> QED BY <1>4, <1>5 DEF IoInv

\* A connection that is read on has its read again.
LEMMA ReadOnKeeps == ASSUME IoInv, ReadOn PROVE IoInv'
<1>1. /\ ioPc = "readOn" /\ ioPc' = "run" /\ io' \in LC!Read(io, reader)
      /\ reader' = NoConn
      /\ UNCHANGED <<timer, connections, created, contextStopped>>
  BY SameOperations DEF ReadOn, IoUnchanged
<1>2. /\ reader \in Conns /\ LC!ConnInv(io) /\ io.streams[reader].read = "none"
  BY <1>1 DEF IoInv, StreamsInv
<1>3. /\ LC!ConnInv(io') /\ LC!Others(io, io', reader)
      /\ io'.streams[reader].open = io.streams[reader].open
      /\ io'.streams[reader].read # "none"
      /\ LC!QueuesRead(io.ready, io'.ready, reader, {"line", "badfd"})
  BY <1>1, <1>2, ConnAssumptionHolds, LC!ReadKeeps
<1>4. StreamsInv'
  <2>1. NoConn \notin Conns /\ NoConn <= created
    BY DEF IoInv, StreamsInv, NoConn, Conns
  <2>2. /\ StreamsInv /\ timer' \in {"idle", "armed"} /\ ~(reader > created)
    BY <1>1, <1>2 DEF IoInv, StreamsInv, Conns
  <2> QED BY <1>1, <1>2, <1>3, <2>1, <2>2, OneStreamKeeps
<1>5. TimerInv'
  BY <1>1, <1>3, ReadsKeepTimer
<1> QED BY <1>4, <1>5 DEF IoInv

\* A read that failed closes the port, so that nothing open is left unread.
LEMMA HandleErrorKeeps == ASSUME IoInv, HandleError PROVE IoInv'
<1> DEFINE c == Head(io.ready).conn
           begun == LC!BeginHandler(io)
<1>1. /\ Runs("conn") /\ io' = LC!Close(begun, c)
      /\ UNCHANGED <<ioPc, reader, timer, connections, created, contextStopped>>
  BY SameOperations DEF HandleError, IoUnchanged
<1>2. /\ io.ready # <<>> /\ LC!IsRead(Head(io.ready)) /\ reader = NoConn /\ LC!ConnInv(io)
      /\ ioPc = "run"
  BY <1>1, HandlerRuns DEF IoInv, StreamsInv
<1>3. /\ LC!ConnInv(begun) /\ LC!Others(io, begun, c) /\ begun.ready = Tail(io.ready)
      /\ c \in Conns /\ begun.streams[c].read = "none"
  BY <1>2, ConnAssumptionHolds, LC!BeginHandlerKeeps
<1> HIDE DEF c, begun
<1>4. /\ LC!ConnInv(io') /\ LC!Others(begun, io', c) /\ ~io'.streams[c].open
      /\ io'.streams[c].read = "none" /\ io'.ready = begun.ready
  BY <1>1, <1>3, ConnAssumptionHolds, LC!CloseKeeps
<1>5. LC!Others(io, io', c)
  BY <1>3, <1>4 DEF LC!Others
<1>6. StreamsInv'
  <2>1. NoConn \notin Conns /\ NoConn <= created
    BY DEF IoInv, StreamsInv, NoConn, Conns
  <2>2. StreamsInv /\ timer' \in {"idle", "armed"} /\ ioPc' # "readOn"
    BY <1>1, <1>2 DEF IoInv, StreamsInv
  <2> QED BY <1>1, <1>2, <1>3, <1>4, <1>5, <2>1, <2>2, OneStreamKeeps
<1>7. TimerInv'
  <2>1. LC!QueuesRead(Tail(io.ready), io'.ready, c, {}) /\ ioPc' \in {"run", "readOn"}
    BY <1>1, <1>2, <1>3, <1>4 DEF LC!QueuesRead
  <2> QED BY <1>1, <2>1, TailKeepsTimer
<1> QED BY <1>6, <1>7 DEF IoInv

\* A device completes a read that is under way; the read then waits for its handler.
LEMMA DeviceStepKeeps == ASSUME IoInv, Device PROVE IoInv'
<1>1. PICK c \in Conns : LC!LinesArrive(c) \/ LC!ReadFails(c)
  BY DEF Device, C!LinesArrive, LC!LinesArrive, C!ReadFails, LC!ReadFails, C!Complete,
         LC!Complete, C!Post, LC!Post
<1>2. /\ UNCHANGED <<ioPc, reader, timer, connections, created, contextStopped>>
      /\ LC!ConnInv(io)
  BY DEF Device, IoUnchanged, IoInv, StreamsInv
<1>3. /\ LC!ConnInv(io') /\ LC!Others(io, io', c)
      /\ io.streams[c].read = "pending" /\ io'.streams[c].read = "queued"
      /\ io'.streams[c].open = io.streams[c].open
      /\ LC!QueuesRead(io.ready, io'.ready, c, {"line", "fail"})
  BY <1>1, <1>2, ConnAssumptionHolds, LC!DeviceKeeps
<1>4. StreamsInv'
  <2>1. /\ StreamsInv /\ timer' \in {"idle", "armed"}
        /\ reader' \in Conns \cup {NoConn} /\ reader' <= created
        /\ ioPc' = "readOn" <=> reader' # NoConn
    BY <1>2 DEF IoInv, StreamsInv
  <2>2. ~(c > created) /\ c # reader
    BY <1>3 DEF IoInv, StreamsInv
  <2> QED BY <1>2, <1>3, <2>1, <2>2, OneStreamKeeps
<1>5. TimerInv'
  BY <1>2, <1>3, ReadsKeepTimer
<1> QED BY <1>4, <1>5 DEF IoInv

-----------------------------------------------------------------------------
\* IoInv is inductive beside ThreadsInv.
LEMMA IoStep == ThreadsInv /\ IoInv /\ [Next]_vars => IoInv'
<1> SUFFICES ASSUME ThreadsInv, IoInv, [Next]_vars PROVE IoInv'
  OBVIOUS
<1>1. CASE Start
  BY <1>1, StartKeeps
<1>2. CASE BeginTick \/ Accept \/ Deny \/ CreateFails \/ EndTick
  BY <1>2, BeginTickKeeps, AcceptKeeps, DenyKeeps, CreateFailsKeeps, EndTickKeeps
<1>3. CASE HandleLine \/ ReadOn \/ HandleError
  BY <1>3, HandleLineKeeps, ReadOnKeeps, HandleErrorKeeps
<1>4. CASE TimerFires \/ Device
  BY <1>4, TimerFiresKeeps, DeviceStepKeeps
<1>5. CASE \/ Stop \/ startMessagePump \/ stopMessagePump \/ Destroy \/ OwnerSteps
           \/ IoExit \/ PumpThread \/ SpuriousWakeup \/ UNCHANGED vars
  BY <1>5, QuietStepKeeps
<1> QED BY <1>1, <1>2, <1>3, <1>4, <1>5 DEF Next, IoThread

\* Before start() there is no connection, no handler and no wait.
LEMMA IoStart == Init => IoInv
<1> SUFFICES ASSUME Init PROVE IoInv
  OBVIOUS
<1>1. LC!ConnInv(io) /\ io.ready = <<>>
      /\ \A c \in Conns : io.streams[c].read = "none" /\ ~io.streams[c].open
  BY ConnAssumptionHolds, LC!InitKeeps DEF Init, C!Init, LC!Init
<1>2. StreamsInv
  <2>1. connections \in Seq(Conns) /\ created \in 0..MaxConns /\ reader <= created
    BY SupervisorAssumption DEF Init, NoConn
  <2> QED BY <1>1, <2>1 DEF Init, StreamsInv, NoConn, Conns
<1>3. NoTick(io.ready)
  BY <1>1 DEF NoTick
<1> QED BY <1>2, <1>3 DEF IoInv, TimerInv, Init

\* So IoInv holds of every state of the supervisor.
LEMMA IoInvariant == Spec => []IoInv
BY IoStart, IoStep, ThreadsInvariant, PTL DEF Spec

\* Until somebody stops the io_context it has the timer as work, in a single chain:
\* between two handlers one wait is in progress or one handler of it is queued.
THEOREM TimerTicks == Spec => []TimerPrimed
<1>1. IoInv => TimerPrimed
  <2> SUFFICES ASSUME IoInv, ioPc = "run", ~contextStopped
               PROVE  Cardinality(ticks) = IF timer = "armed" THEN 0 ELSE 1
    BY DEF TimerPrimed
  <2>1. OneTick(io.ready) /\ (timer = "armed" <=> NoTick(io.ready))
    BY DEF IoInv, TimerInv
  <2>2. ticks = {i \in 1..Len(io.ready) : IsTick(io.ready[i])}
    BY DEF ticks, IsTick
  <2>3. CASE NoTick(io.ready)
    <3>1. ticks = {}
      BY <2>2, <2>3 DEF NoTick
    <3> QED BY <2>1, <2>3, <3>1, FS_EmptySet
  <2>4. CASE ~NoTick(io.ready)
    <3>1. PICK i \in 1..Len(io.ready) : IsTick(io.ready[i])
      BY <2>4 DEF NoTick
    <3>2. ticks = {i}
      BY <2>1, <2>2, <3>1 DEF OneTick
    <3> QED BY <2>1, <2>4, <3>2, FS_Singleton
  <2> QED BY <2>3, <2>4
<1> QED BY <1>1, IoInvariant, PTL

\* Every port that is open was accepted, and is read or about to be read on.
THEOREM PortsAreRead == Spec => []OpenAreRead
<1>1. IoInv => OpenAreRead
  BY DEF IoInv, StreamsInv, OpenAreRead, open
<1> QED BY <1>1, IoInvariant, PTL
=============================================================================
