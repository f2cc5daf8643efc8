------------------------- MODULE SerialSessionProofs -------------------------
(* Proofs about SerialSession: for any number of connections, lines,        *)
(* requests and restarts, the only port open is that of m_connection and it *)
(* is read while the snapshot says Connected, stop() leaves nothing behind, *)
(* the model gets every line once and in order, and the session implements  *)
(* ExclusivePort.                                                           *)
EXTENDS SerialSession, SequenceTheorems, TLAPS

LC == INSTANCE ConnectionProofs WITH Posted <- Request
LQ == INSTANCE TSQueueProofs
          WITH Threads <- {"io", "pump"}, Items <- Line, queue <- messages

IsStop(handler) == "stop" \in DOMAIN handler /\ handler.stop

\* The lemmas of ConnectionProofs are about the operations that the actions call.
LEMMA SameOperations ==
    \A s, c :
       /\ C!Open(s, c) = LC!Open(s, c) /\ C!Close(s, c) = LC!Close(s, c)
       /\ C!Read(s, c) = LC!Read(s, c) /\ C!Post(s, c) = LC!Post(s, c)
       /\ C!BeginHandler(s) = LC!BeginHandler(s) /\ C!Pop(s) = LC!Pop(s)
  BY DEF C!Open, LC!Open, C!Close, LC!Close, C!Read, LC!Read, C!Complete, LC!Complete,
         C!AtOnce, LC!AtOnce, C!Post, LC!Post, C!BeginHandler, LC!BeginHandler,
         C!Pop, LC!Pop

\* A request is not the completion of a read.
LEMMA ConnAssumptionHolds == LC!ConnAssumption
  BY SessionAssumption DEF LC!ConnAssumption, LC!IsRead, Request

\* A completion is no request.
LEMMA HandlerKinds ==
    ASSUME NEW h \in LC!Handler
    PROVE  /\ LC!IsRead(h) => h \in LC!Completion /\ ~IsStop(h) /\ "port" \notin DOMAIN h
           /\ ~LC!IsRead(h) => h \in Request
  BY DEF LC!Handler, LC!Completion, Request, LC!IsRead, IsStop

-----------------------------------------------------------------------------
(* The queue of handlers.                                                   *)

AllRead(q) == \A i \in 1..Len(q) : LC!IsRead(q[i])
NoStop(q) == \A i \in 1..Len(q) : ~IsStop(q[i])

\* stop()'s handler is the last of the posted ones.
StopsLast(q) ==
    \A i \in 1..Len(q) : IsStop(q[i]) => \A j \in 1..Len(q) : i < j => LC!IsRead(q[j])

\* The completion of a read changes nothing in the order of the requests.
LEMMA QueuesReadKeepsStops ==
    ASSUME NEW q \in Seq(LC!Handler), NEW c, NEW results, NEW r,
           LC!QueuesRead(q, r, c, results)
    PROVE  /\ AllRead(q) => AllRead(r)
           /\ NoStop(q) => NoStop(r)
           /\ StopsLast(q) => StopsLast(r)
<1>1. CASE r = q
  BY <1>1
<1>2. ASSUME NEW h, LC!IsRead(h), ~IsStop(h), r = Append(q, h)
      PROVE  /\ AllRead(q) => AllRead(r)
             /\ NoStop(q) => NoStop(r)
             /\ StopsLast(q) => StopsLast(r)
  <2>1. /\ Len(r) = Len(q) + 1 /\ Len(q) \in Nat /\ r[Len(q) + 1] = h
        /\ \A i \in 1..Len(q) : r[i] = q[i]
    BY <1>2, AppendProperties, LenProperties
  <2> QED BY <1>2, <2>1 DEF AllRead, NoStop, StopsLast
<1>3. \A result : LC!IsRead([conn |-> c, result |-> result])
                  /\ ~IsStop([conn |-> c, result |-> result])
  BY DEF LC!IsRead, IsStop
<1> QED BY <1>1, <1>2, <1>3 DEF LC!QueuesRead

\* Nor does running a handler; behind that of stop() there are only reads.
LEMMA TailKeepsStops ==
    ASSUME NEW q \in Seq(LC!Handler), q # <<>>
    PROVE  /\ AllRead(q) => AllRead(Tail(q))
           /\ NoStop(q) => NoStop(Tail(q))
           /\ StopsLast(q) => StopsLast(Tail(q))
           /\ StopsLast(q) /\ IsStop(Head(q)) => AllRead(Tail(q)) /\ NoStop(Tail(q))
<1>1. /\ Len(Tail(q)) = Len(q) - 1 /\ Len(q) \in Nat \ {0} /\ Head(q) = q[1]
      /\ \A i \in 1..Len(Tail(q)) : Tail(q)[i] = q[i + 1]
  BY HeadTailProperties, LenProperties, EmptySeq
<1>2. AllRead(q) => AllRead(Tail(q))
  BY <1>1 DEF AllRead
<1>3. NoStop(q) => NoStop(Tail(q))
  BY <1>1 DEF NoStop
<1>4. StopsLast(q) => StopsLast(Tail(q))
  BY <1>1 DEF StopsLast
<1>5. ASSUME StopsLast(q), IsStop(Head(q)) PROVE AllRead(Tail(q)) /\ NoStop(Tail(q))
  <2>1. \A i \in 1..Len(Tail(q)) : LC!IsRead(Tail(q)[i])
    BY <1>1, <1>5 DEF StopsLast
  <2>2. \A i \in 1..Len(Tail(q)) : Tail(q)[i] \in LC!Handler
    BY HeadTailProperties, ElementOfSeq
  <2> QED BY <2>1, <2>2, HandlerKinds DEF AllRead, NoStop
<1> QED BY <1>2, <1>3, <1>4, <1>5

\* A request may join the queue where stop()'s handler is not in it.
LEMMA RequestJoins ==
    ASSUME NEW q \in Seq(LC!Handler), NEW h, NoStop(q)
    PROVE  /\ StopsLast(Append(q, h))
           /\ ~IsStop(h) => NoStop(Append(q, h))
<1>1. /\ Len(Append(q, h)) = Len(q) + 1 /\ Len(q) \in Nat
      /\ Append(q, h)[Len(q) + 1] = h
      /\ \A i \in 1..Len(q) : Append(q, h)[i] = q[i]
  BY LenProperties
<1> QED BY <1>1 DEF NoStop, StopsLast

\* The port that a request asks for, and that the last of a queue asks for a given one.
AskedBy(request) == IF "port" \in DOMAIN request THEN request.port ELSE NoPort
LastAsks(q, port) ==
    \A i \in 1..Len(q) :
        ~LC!IsRead(q[i]) /\ (\A j \in 1..Len(q) : i < j => LC!IsRead(q[j]))
            => AskedBy(q[i]) = port

\* A request that joins the queue is the last.
LEMMA RequestIsLast ==
    ASSUME NEW q \in Seq(LC!Handler), NEW h, ~LC!IsRead(h)
    PROVE  LastAsks(Append(q, h), AskedBy(h)) /\ ~AllRead(Append(q, h))
<1>1. /\ Len(Append(q, h)) = Len(q) + 1 /\ Len(q) \in Nat
      /\ Append(q, h)[Len(q) + 1] = h
      /\ \A i \in 1..Len(q) : Append(q, h)[i] = q[i]
  BY LenProperties
<1> QED BY <1>1 DEF LastAsks, AllRead

\* The completion of a read leaves the last request where it is.
LEMMA QueuesReadKeepsLast ==
    ASSUME NEW q \in Seq(LC!Handler), NEW c, NEW results, NEW r,
           LC!QueuesRead(q, r, c, results)
    PROVE  /\ AllRead(r) => AllRead(q)
           /\ \A port : LastAsks(q, port) => LastAsks(r, port)
<1>1. CASE r = q
  BY <1>1
<1>2. ASSUME NEW h, LC!IsRead(h), r = Append(q, h)
      PROVE  /\ AllRead(r) => AllRead(q)
             /\ \A port : LastAsks(q, port) => LastAsks(r, port)
  <2>1. /\ Len(r) = Len(q) + 1 /\ Len(q) \in Nat /\ r[Len(q) + 1] = h
        /\ \A i \in 1..Len(q) : r[i] = q[i]
    BY <1>2, AppendProperties, LenProperties
  <2> QED BY <1>2, <2>1 DEF AllRead, LastAsks
<1>3. \A result : LC!IsRead([conn |-> c, result |-> result])
  BY DEF LC!IsRead
<1> QED BY <1>1, <1>2, <1>3 DEF LC!QueuesRead

\* So does the handler at the head of the queue, unless it is that request.
LEMMA TailKeepsLast ==
    ASSUME NEW q \in Seq(LC!Handler), q # <<>>, NEW port, LastAsks(q, port)
    PROVE  /\ LastAsks(Tail(q), port)
           /\ LC!IsRead(Head(q)) /\ AllRead(Tail(q)) => AllRead(q)
           /\ ~LC!IsRead(Head(q)) /\ AllRead(Tail(q)) => AskedBy(Head(q)) = port
<1>1. /\ Len(Tail(q)) = Len(q) - 1 /\ Len(q) \in Nat \ {0} /\ Head(q) = q[1]
      /\ \A i \in 1..Len(Tail(q)) : Tail(q)[i] = q[i + 1]
  BY HeadTailProperties, LenProperties, EmptySeq
<1>2. \A j \in 1..Len(q) : 1 < j => j - 1 \in 1..Len(Tail(q)) /\ Tail(q)[j - 1] = q[j]
  BY <1>1
<1>3. LastAsks(Tail(q), port)
  <2> SUFFICES ASSUME NEW i \in 1..Len(Tail(q)), ~LC!IsRead(Tail(q)[i]),
                      \A j \in 1..Len(Tail(q)) : i < j => LC!IsRead(Tail(q)[j])
               PROVE  AskedBy(Tail(q)[i]) = port
    BY DEF LastAsks
  <2>1. i + 1 \in 1..Len(q) /\ Tail(q)[i] = q[i + 1]
    BY <1>1
  <2>2. \A j \in 1..Len(q) : i + 1 < j => LC!IsRead(q[j])
    BY <1>1, <1>2
  <2> QED BY <2>1, <2>2 DEF LastAsks
<1>4. LC!IsRead(Head(q)) /\ AllRead(Tail(q)) => AllRead(q)
  BY <1>1, <1>2 DEF AllRead
<1>5. ~LC!IsRead(Head(q)) /\ AllRead(Tail(q)) => AskedBy(Head(q)) = port
  <2> SUFFICES ASSUME ~LC!IsRead(q[1]), AllRead(Tail(q)) PROVE AskedBy(q[1]) = port
    BY <1>1
  <2>1. 1 \in 1..Len(q) /\ \A j \in 1..Len(q) : 1 < j => LC!IsRead(q[j])
    BY <1>1, <1>2 DEF AllRead
  <2> QED BY <2>1 DEF LastAsks
<1> QED BY <1>3, <1>4, <1>5

-----------------------------------------------------------------------------
(* The streams.                                                             *)

\* A read that ended with a cancellation is of a closed port.
AbortedClosed(s) ==
    \A i \in 1..Len(s.ready) :
        LC!IsRead(s.ready[i]) /\ s.ready[i].result = "aborted" =>
            ~s.streams[s.ready[i].conn].open

\* What every handler and every device keeps of the streams and the queue.
StreamsOk(s) == LC!ConnInv(s) /\ AbortedClosed(s)

\* Both queues have the same handlers, but the first may have more in front and the
\* second a completion behind.
Follows(q, r, c, results) ==
    \A i \in 1..Len(r) :
        \/ \E j \in 1..Len(q) : r[i] = q[j]
        \/ \E result \in results : r[i] = [conn |-> c, result |-> result]

\* A read completes.
LEMMA QueuesReadFollows ==
    ASSUME NEW q \in Seq(LC!Handler), NEW c, NEW results, NEW r,
           LC!QueuesRead(q, r, c, results)
    PROVE  Follows(q, r, c, results)
<1>1. CASE r = q
  BY <1>1 DEF Follows
<1>2. ASSUME NEW result \in results, NEW h, h = [conn |-> c, result |-> result],
             r = Append(q, h)
      PROVE  Follows(q, r, c, results)
  <2>1. /\ Len(r) = Len(q) + 1 /\ Len(q) \in Nat /\ r[Len(q) + 1] = h
        /\ \A i \in 1..Len(q) : r[i] = q[i]
    BY <1>2, AppendProperties, LenProperties
  <2>2. \A i \in 1..Len(r) : i \in 1..Len(q) \/ i = Len(q) + 1
    BY <2>1
  <2> QED BY <1>2, <2>1, <2>2 DEF Follows
<1> QED BY <1>1, <1>2 DEF LC!QueuesRead

\* The first handler leaves the queue.
LEMMA TailFollows ==
    ASSUME NEW q \in Seq(LC!Handler), q # <<>>, NEW c
    PROVE  Follows(q, Tail(q), c, {})
<1>1. /\ Len(Tail(q)) = Len(q) - 1 /\ Len(q) \in Nat
      /\ \A i \in 1..Len(Tail(q)) : Tail(q)[i] = q[i + 1]
  BY HeadTailProperties, LenProperties, EmptySeq
<1>2. \A i \in 1..Len(Tail(q)) : i + 1 \in 1..Len(q) /\ Tail(q)[i] = q[i + 1]
  BY <1>1
<1> QED BY <1>2 DEF Follows

\* A cancelled read stays that of a closed port, for nothing opens a port twice.
LEMMA AbortedStays ==
    ASSUME NEW s, LC!ConnInv(s), AbortedClosed(s), NEW t, NEW c, NEW results,
           Follows(s.ready, t.ready, c, results),
           \A d \in Conns : t.streams[d].open => s.streams[d].open,
           "aborted" \in results => ~t.streams[c].open
    PROVE  AbortedClosed(t)
<1> SUFFICES ASSUME NEW i \in 1..Len(t.ready),
                    LC!IsRead(t.ready[i]), t.ready[i].result = "aborted"
             PROVE  ~t.streams[t.ready[i].conn].open
  BY DEF AbortedClosed
<1>1. CASE \E result \in results : t.ready[i] = [conn |-> c, result |-> result]
  BY <1>1
<1>2. ASSUME NEW j \in 1..Len(s.ready), t.ready[i] = s.ready[j]
      PROVE  ~t.streams[t.ready[i].conn].open
  <2>1. s.ready[j] \in LC!Handler
    BY ElementOfSeq DEF LC!ConnInv, LC!Shaped
  <2>2. s.ready[j].conn \in Conns
    BY <1>2, <2>1, HandlerKinds DEF LC!Completion
  <2> QED BY <1>2, <2>2 DEF AbortedClosed
<1> QED BY <1>1, <1>2 DEF Follows

\* The streams of two states have given the same lines.
SameTaken(s, t) == \A c \in Conns : t.streams[c].taken = s.streams[c].taken

\* A request leaves the queue.
LEMMA PopEffect ==
    ASSUME NEW s, StreamsOk(s), s.ready # <<>>, ~LC!IsRead(Head(s.ready))
    PROVE  LET t == LC!Pop(s) IN
           StreamsOk(t) /\ t.streams = s.streams /\ t.ready = Tail(s.ready)
<1> DEFINE t == LC!Pop(s)
<1>1. LC!ConnInv(t) /\ t.streams = s.streams /\ t.ready = Tail(s.ready)
  BY ConnAssumptionHolds, LC!PopKeeps DEF StreamsOk
<1> HIDE DEF t
<1>2. s.ready \in Seq(LC!Handler)
  BY DEF StreamsOk, LC!ConnInv, LC!Shaped
<1>3. AbortedClosed(t)
  BY <1>1, <1>2, TailFollows, AbortedStays DEF StreamsOk
<1> QED BY <1>1, <1>3 DEF StreamsOk, t

\* A port is closed.
LEMMA CloseEffect ==
    ASSUME NEW s, StreamsOk(s), NEW c \in Conns
    PROVE  LET t == LC!Close(s, c) IN
           /\ StreamsOk(t) /\ LC!Others(s, t, c) /\ SameTaken(s, t)
           /\ ~t.streams[c].open /\ (s.streams[c].read = "none" <=> t.streams[c].read = "none")
           /\ LC!QueuesRead(s.ready, t.ready, c, {"aborted"})
           /\ s.streams[c].read = "none" => t.ready = s.ready
<1> DEFINE t == LC!Close(s, c)
<1>1. /\ LC!ConnInv(t) /\ LC!Others(s, t, c) /\ ~t.streams[c].open
      /\ t.streams[c].read =
            IF s.streams[c].read = "pending" THEN "queued" ELSE s.streams[c].read
      /\ t.streams[c].taken = s.streams[c].taken
      /\ LC!QueuesRead(s.ready, t.ready, c, {"aborted"})
      /\ s.streams[c].read # "pending" => t.ready = s.ready
  BY ConnAssumptionHolds, LC!CloseKeeps DEF StreamsOk
<1> HIDE DEF t
<1>2. s.ready \in Seq(LC!Handler)
  BY DEF StreamsOk, LC!ConnInv, LC!Shaped
<1>3. AbortedClosed(t)
  <2>1. Follows(s.ready, t.ready, c, {"aborted"})
    BY <1>1, <1>2, QueuesReadFollows
  <2>2. \A d \in Conns : t.streams[d].open => s.streams[d].open
    BY <1>1 DEF LC!Others
  <2> QED BY <1>1, <2>1, <2>2, AbortedStays DEF StreamsOk
<1>4. SameTaken(s, t)
  BY <1>1 DEF SameTaken, LC!Others
<1> QED BY <1>1, <1>3, <1>4 DEF StreamsOk, t

\* A read is started.
LEMMA ReadEffect ==
    ASSUME NEW s, StreamsOk(s), NEW c \in Conns, s.streams[c].read = "none",
           NEW t \in LC!Read(s, c)
    PROVE  /\ StreamsOk(t) /\ LC!Others(s, t, c) /\ SameTaken(s, t)
           /\ t.streams[c].open = s.streams[c].open /\ t.streams[c].read # "none"
           /\ LC!QueuesRead(s.ready, t.ready, c, {"line", "badfd"})
<1>1. /\ LC!ConnInv(t) /\ LC!Others(s, t, c)
      /\ t.streams[c].open = s.streams[c].open /\ t.streams[c].read # "none"
      /\ t.streams[c].taken = s.streams[c].taken
      /\ LC!QueuesRead(s.ready, t.ready, c, {"line", "badfd"})
  BY ConnAssumptionHolds, LC!ReadKeeps DEF StreamsOk
<1>2. s.ready \in Seq(LC!Handler)
  BY DEF StreamsOk, LC!ConnInv, LC!Shaped
<1>3. AbortedClosed(t)
  <2>1. Follows(s.ready, t.ready, c, {"line", "badfd"})
    BY <1>1, <1>2, QueuesReadFollows
  <2>2. \A d \in Conns : t.streams[d].open => s.streams[d].open
    BY <1>1 DEF LC!Others
  <2> QED BY <2>1, <2>2, AbortedStays DEF StreamsOk
<1>4. SameTaken(s, t)
  BY <1>1 DEF SameTaken, LC!Others
<1> QED BY <1>1, <1>3, <1>4 DEF StreamsOk

\* The port of a new connection opens: none of its reads was cancelled.
LEMMA OpenEffect ==
    ASSUME NEW s, StreamsOk(s), NEW c \in Conns, s.streams[c].read = "none"
    PROVE  LET t == LC!Open(s, c) IN
           /\ StreamsOk(t) /\ LC!Others(s, t, c) /\ SameTaken(s, t) /\ t.ready = s.ready
           /\ t.streams[c].open /\ t.streams[c].read = "none"
<1> DEFINE t == LC!Open(s, c)
<1>1. s.streams[c] \in LC!Stream
  BY LC!StreamOf DEF StreamsOk, LC!ConnInv
<1>2. /\ LC!ConnInv(t) /\ LC!Others(s, t, c) /\ t.ready = s.ready
      /\ t.streams[c] = [s.streams[c] EXCEPT !.open = TRUE]
  BY ConnAssumptionHolds, LC!OpenKeeps DEF StreamsOk
<1> HIDE DEF t
<1>3. t.streams[c].open /\ t.streams[c].read = "none"
      /\ t.streams[c].taken = s.streams[c].taken
  BY <1>1, <1>2 DEF LC!Stream
<1>4. AbortedClosed(t)
  <2> SUFFICES ASSUME NEW i \in 1..Len(s.ready),
                      LC!IsRead(s.ready[i]), s.ready[i].result = "aborted"
               PROVE  ~t.streams[s.ready[i].conn].open
    BY <1>2 DEF AbortedClosed
  <2>1. s.ready[i] \in LC!Handler
    BY ElementOfSeq DEF StreamsOk, LC!ConnInv, LC!Shaped
  <2>2. s.ready[i].conn \in Conns
    BY <2>1, HandlerKinds DEF LC!Completion
  <2>3. s.ready[i].conn # c /\ ~s.streams[s.ready[i].conn].open
    BY DEF StreamsOk, LC!ConnInv, LC!CompletionOk, AbortedClosed
  <2> QED BY <1>2, <2>2, <2>3 DEF LC!Others
<1>5. SameTaken(s, t)
  BY <1>2, <1>3 DEF SameTaken, LC!Others
<1> QED BY <1>2, <1>3, <1>4, <1>5 DEF StreamsOk, t

\* The handler of a read begins.
LEMMA BeginHandlerEffect ==
    ASSUME NEW s, StreamsOk(s), s.ready # <<>>, LC!IsRead(Head(s.ready))
    PROVE  LET t == LC!BeginHandler(s)
               done == Head(s.ready)
               c == done.conn IN
           /\ StreamsOk(t) /\ LC!Others(s, t, c) /\ t.ready = Tail(s.ready)
           /\ done \in LC!Completion /\ c \in Conns /\ s.streams[c].read = "queued"
           /\ done.result = "aborted" => ~s.streams[c].open
           /\ t.streams[c].open = s.streams[c].open /\ t.streams[c].read = "none"
           /\ t.streams[c].taken = IF done.result = "line" THEN s.streams[c].taken + 1
                                   ELSE s.streams[c].taken
           /\ t.streams[c].taken \in 0..MaxLines /\ s.streams[c].taken \in 0..MaxLines
<1> DEFINE t == LC!BeginHandler(s)
           done == Head(s.ready)
           c == done.conn
<1>1. /\ LC!ConnInv(t) /\ LC!Others(s, t, c) /\ t.ready = Tail(s.ready)
      /\ done \in LC!Completion /\ c \in Conns /\ s.streams[c].read = "queued"
      /\ t.streams[c].open = s.streams[c].open /\ t.streams[c].read = "none"
      /\ t.streams[c].taken = IF done.result = "line" THEN s.streams[c].taken + 1
                              ELSE s.streams[c].taken
      /\ t.streams[c].taken \in 0..MaxLines
  BY ConnAssumptionHolds, LC!BeginHandlerKeeps DEF StreamsOk
<1> HIDE DEF t
<1>2. s.ready \in Seq(LC!Handler) /\ LC!Shaped(s)
  BY DEF StreamsOk, LC!ConnInv, LC!Shaped
<1>3. AbortedClosed(t)
  <2>1. Follows(s.ready, t.ready, c, {})
    BY <1>1, <1>2, TailFollows
  <2>2. \A d \in Conns : t.streams[d].open => s.streams[d].open
    BY <1>1 DEF LC!Others
  <2> QED BY <2>1, <2>2, AbortedStays DEF StreamsOk
<1>4. done.result = "aborted" => ~s.streams[c].open
  <2>1. 1 \in 1..Len(s.ready) /\ s.ready[1] = done
    BY <1>2, HeadTailProperties, LenProperties, EmptySeq
  <2> QED BY <2>1 DEF StreamsOk, AbortedClosed
<1>5. s.streams[c].taken \in 0..MaxLines
  BY <1>1, <1>2, LC!StreamOf DEF LC!Stream
<1> QED BY <1>1, <1>3, <1>4, <1>5 DEF StreamsOk, t, done, c

-----------------------------------------------------------------------------
(* The invariant.                                                           *)

\* No port is open while the next one is about to be opened, for closeConnection()
\* leaves m_connection null.  A connection that was not created has no read, nor has
\* the one whose line is being handled.
PortInv ==
    /\ StreamsOk(io)
    /\ created \in 0..MaxConns /\ connection \in 0..created
    /\ reader \in 0..created /\ (ioPc = "readOn" <=> reader # NoConn)
    /\ ioPc = "open" => connection = NoConn
    /\ \A c \in Conns :
          /\ c > created => io.streams[c].read = "none"
          /\ c = reader => io.streams[c].read = "none"
          /\ io.streams[c].open => c = connection

ThreadsInv ==
    /\ gui \in {"stopped", "idle", "closing", "closed", "joinPump", "joinIo"}
    /\ ioPc \in {"off", "run", "open", "readOn"}
    /\ pump \in {"off", "loop", "wait", "drain"}
    /\ snap \in Snapshot
    /\ gui \in {"joinIo", "stopped"} => pump = "off"
    /\ gui = "stopped" => ioPc = "off"

\* The GUI thread is past the wait for stop()'s handler, or has not started.
Stopped == gui \notin {"idle", "closing"}

\* Nothing is posted behind stop()'s handler, and once that has run no request is
\* left and no connection.
StopInv ==
    /\ StopsLast(io.ready)
    /\ gui # "closing" => NoStop(io.ready)
    /\ Stopped => AllRead(io.ready) /\ ioPc # "open" /\ connection = NoConn

\* While the snapshot says Connected, the port of m_connection is open, and is being
\* read unless the io thread is in the handler of its last line.
ConnectedInv ==
    snap.state = "Connected" =>
        /\ ioPc # "open" /\ connection \in open
        /\ io.streams[connection].read # "none" \/ (ioPc = "readOn" /\ reader = connection)

SessionInv == PortInv /\ ThreadsInv /\ StopInv /\ ConnectedInv

\* A step leaves the ports alone, or closes one, or opens the first.
PortStep ==
    \/ open' \subseteq open /\ created' = created
    \/ open = {} /\ created < MaxConns /\ created' = created + 1 /\ open' = {created + 1}

\* What every step keeps; that which handles a line takes it, the others take none.
Keeps == SessionInv' /\ PortStep
KeepsLines == Keeps /\ SameTaken(io, io')

\* What a step that posts no request does to the requests and to the port shown: only
\* the handler of a request changes that, to the port asked for, when no other is open.
Serves ==
    \/ /\ \E c, results : LC!QueuesRead(io.ready, io'.ready, c, results)
       /\ snap'.port = snap.port
    \/ /\ io.ready # <<>> /\ LC!IsRead(Head(io.ready)) /\ io'.ready = Tail(io.ready)
       /\ snap'.port = snap.port
    \/ /\ io.ready # <<>> /\ ~LC!IsRead(Head(io.ready))
       /\ \E c, results : LC!QueuesRead(Tail(io.ready), io'.ready, c, results)
       /\ snap'.port = AskedBy(Head(io.ready)) /\ open' = {}

\* The parts of the state.
LEMMA PartsOf ==
    ASSUME PortInv
    PROVE  /\ io.ready \in Seq(LC!Handler) /\ StreamsOk(io) /\ LC!ConnInv(io)
           /\ created \in Nat /\ created <= MaxConns /\ MaxConns \in Nat
           /\ connection \in Conns \cup {NoConn} /\ reader \in Conns \cup {NoConn}
           /\ NoConn \notin Conns
  BY SessionAssumption
     DEF PortInv, StreamsOk, LC!ConnInv, LC!Shaped, Conns, NoConn

\* The streams and the connections stay as they are.
LEMMA SameStreams ==
    ASSUME PortInv, StreamsOk(io'), io'.streams = io.streams,
           UNCHANGED <<created, connection, reader>>,
           ioPc' = "readOn" <=> ioPc = "readOn", ioPc' = "open" => ioPc = "open"
    PROVE  PortInv' /\ PortStep /\ SameTaken(io, io') /\ open' = open
  BY DEF PortInv, PortStep, SameTaken, open

\* Only the stream of c and the queue change.
LEMMA OneStreamKeeps ==
    ASSUME PortInv, NEW c \in Conns, StreamsOk(io'), LC!Others(io, io', c),
           UNCHANGED <<created, connection>>,
           reader' \in 0..created, ioPc' = "readOn" <=> reader' # NoConn,
           ioPc' = "open" => ioPc = "open", reader' \in {reader, c, NoConn},
           c > created => io'.streams[c].read = "none",
           c = reader' => io'.streams[c].read = "none",
           io'.streams[c].open => io.streams[c].open
    PROVE  PortInv' /\ PortStep
<1>1. NoConn \notin Conns
  BY PartsOf
<1>2. ASSUME NEW d \in Conns
      PROVE  /\ d > created => io'.streams[d].read = "none"
             /\ d = reader' => io'.streams[d].read = "none"
             /\ io'.streams[d].open => d = connection
             /\ io'.streams[d].open => io.streams[d].open
  <2>1. CASE d = c
    BY <2>1 DEF PortInv
  <2>2. CASE d # c
    BY <1>1, <2>2 DEF PortInv, LC!Others
  <2> QED BY <2>1, <2>2
<1> QED BY <1>2 DEF PortInv, PortStep, open

-----------------------------------------------------------------------------
(* The steps of the GUI thread, of the pump, and the ends.                  *)

\* A request is posted, that of stop() as the last.
LEMMA PostKeeps ==
    ASSUME SessionInv, (\E port \in Ports : Connect(port)) \/ Disconnect \/ Stop
    PROVE  KeepsLines /\ open' = open
<1> USE DEF SessionInv, Keeps, KeepsLines
<1>1. PICK h \in Request : io' = C!Post(io, h) /\ gui = "idle" /\
         \/ gui' = "idle" /\ ~IsStop(h)
         \/ gui' = "closing"
  <2>1. ASSUME NEW port \in Ports, Connect(port)
        PROVE  /\ [port |-> port] \in Request /\ io' = C!Post(io, [port |-> port])
               /\ gui = "idle" /\ gui' = "idle" /\ ~IsStop([port |-> port])
    BY <2>1 DEF Connect, Post, Request, IsStop
  <2>2. CASE Disconnect
    <3>1. /\ [stop |-> FALSE] \in Request /\ io' = C!Post(io, [stop |-> FALSE])
          /\ gui = "idle" /\ gui' = "idle" /\ ~IsStop([stop |-> FALSE])
      BY <2>2 DEF Disconnect, Post, Request, IsStop
    <3> QED BY <3>1
  <2>3. CASE Stop
    <3>1. /\ [stop |-> TRUE] \in Request /\ io' = C!Post(io, [stop |-> TRUE])
          /\ gui = "idle" /\ gui' = "closing"
      BY <2>3 DEF Stop, Post, Request
    <3> QED BY <3>1
  <2> QED BY <2>1, <2>2, <2>3
<1>2. UNCHANGED <<ioPc, pump, snap, connection, created, reader>>
  BY DEF Connect, Disconnect, Stop
<1>3. /\ LC!ConnInv(io') /\ io'.streams = io.streams /\ io'.ready = Append(io.ready, h)
      /\ io.ready \in Seq(LC!Handler)
  BY <1>1, ConnAssumptionHolds, SameOperations, LC!PostKeeps, PartsOf
<1>4. AbortedClosed(io')
  <2>1. /\ Len(io'.ready) = Len(io.ready) + 1 /\ Len(io.ready) \in Nat
        /\ io'.ready[Len(io.ready) + 1] = h
        /\ \A k \in 1..Len(io.ready) : io'.ready[k] = io.ready[k]
    BY <1>3, LenProperties
  <2>2. ~LC!IsRead(h) /\ AbortedClosed(io)
    BY PartsOf DEF Request, LC!IsRead, StreamsOk
  <2>3. \A i \in 1..Len(io'.ready) : i \in 1..Len(io.ready) \/ i = Len(io.ready) + 1
    BY <2>1
  <2> QED BY <1>3, <2>1, <2>2, <2>3 DEF AbortedClosed
<1>5. PortInv' /\ PortStep /\ SameTaken(io, io') /\ open' = open
  BY <1>2, <1>3, <1>4, SameStreams DEF StreamsOk
<1>6. ThreadsInv'
  BY <1>1, <1>2 DEF ThreadsInv
<1>7. StopInv'
  BY <1>1, <1>3, RequestJoins DEF StopInv, Stopped
<1>8. ConnectedInv'
  BY <1>2, <1>3, <1>5 DEF ConnectedInv
<1> QED BY <1>5, <1>6, <1>7, <1>8

\* The other steps that leave the handlers and the connection alone.
LEMMA QuietStepKeeps ==
    ASSUME SessionInv,
           \/ Start \/ RequestPumpStop \/ StopContext \/ JoinIo \/ OpenFails \/ IoExit
           \/ PumpThread \/ PumpSpuriousWakeup \/ UNCHANGED vars
    PROVE  KeepsLines /\ Serves
<1> USE DEF SessionInv, Keeps, KeepsLines
<1>1. UNCHANGED <<io, connection, created, reader>>
  BY DEF Start, RequestPumpStop, StopContext, JoinIo, OpenFails, IoExit, PumpThread,
         PumpTest, PumpWait, PumpTimeout, PumpDrained, PumpPush, PumpSpuriousWakeup,
         PumpUnchanged, vars
<1>2. ASSUME ioPc' = "readOn" <=> ioPc = "readOn", ioPc' = "open" => ioPc = "open"
      PROVE  PortInv' /\ PortStep /\ SameTaken(io, io') /\ open' = open
  <2>1. StreamsOk(io') /\ io'.streams = io.streams
    BY <1>1 DEF PortInv
  <2> QED BY <1>1, <1>2, <2>1, SameStreams
<1>3. Serves
  <2>1. snap'.port = snap.port
    BY DEF Start, RequestPumpStop, StopContext, JoinIo, OpenFails, IoExit, PumpThread,
           PumpTest, PumpWait, PumpTimeout, PumpDrained, PumpPush, PumpSpuriousWakeup,
           PumpUnchanged, vars, ThreadsInv, Snapshot
  <2> QED BY <1>1, <2>1 DEF Serves, LC!QueuesRead
<1>4. CASE Start
  BY <1>1, <1>2, <1>3, <1>4
     DEF Start, running, ThreadsInv, StopInv, Stopped, ConnectedInv
<1>5. CASE RequestPumpStop \/ StopContext \/ JoinIo
  BY <1>1, <1>2, <1>3, <1>5
     DEF RequestPumpStop, StopContext, JoinIo, ThreadsInv, StopInv, Stopped, ConnectedInv
<1>6. CASE OpenFails
  <2>1. snap' \in Snapshot /\ snap'.state = "Error" /\ gui' = gui /\ pump' = pump
        /\ ioPc = "open" /\ ioPc' = "run"
    BY <1>6 DEF OpenFails, ThreadsInv, Snapshot
  <2> QED BY <1>1, <1>2, <1>3, <2>1 DEF ThreadsInv, StopInv, Stopped, ConnectedInv
<1>7. CASE IoExit
  BY <1>1, <1>2, <1>3, <1>7
     DEF IoExit, ThreadsInv, StopInv, Stopped, ConnectedInv
<1>8. CASE PumpThread \/ PumpSpuriousWakeup \/ UNCHANGED vars
  <2>1. UNCHANGED <<gui, ioPc, snap>>
    BY <1>8 DEF PumpThread, PumpTest, PumpWait, PumpTimeout, PumpDrained, PumpPush,
                PumpSpuriousWakeup, PumpUnchanged, vars
  <2>2. /\ pump = "off" => pump' = "off"
        /\ pump' \in {"off", "loop", "wait", "drain", pump}
    BY <1>8 DEF PumpThread, PumpTest, PumpWait, PumpTimeout, PumpDrained, PumpPush,
                PumpSpuriousWakeup, vars, Q!Expire, Q!SpuriousWakeup
  <2> QED BY <1>1, <1>2, <1>3, <2>1, <2>2 DEF ThreadsInv, StopInv, Stopped, ConnectedInv
<1> QED BY <1>4, <1>5, <1>6, <1>7, <1>8

-----------------------------------------------------------------------------
(* The handlers.                                                            *)

\* A handler runs only until stop() has stopped the context.
LEMMA HandlerRuns ==
    ASSUME SessionInv, NEW kind, Runs(kind)
    PROVE  /\ gui \in {"idle", "closing", "closed", "joinPump"} /\ ioPc = "run"
           /\ reader = NoConn
           /\ io.ready \in Seq(LC!Handler) /\ io.ready # <<>>
           /\ Head(io.ready) = io.ready[1] /\ 1 \in 1..Len(io.ready)
           /\ Head(io.ready) \in LC!Handler /\ kind \in DOMAIN Head(io.ready)
<1>1. io.ready \in Seq(LC!Handler) /\ io.ready # <<>>
  BY PartsOf DEF Runs, SessionInv
<1>2. /\ Head(io.ready) = io.ready[1] /\ 1 \in 1..Len(io.ready)
      /\ Head(io.ready) \in LC!Handler
  BY <1>1, HeadTailProperties, LenProperties, EmptySeq
<1> QED BY <1>1, <1>2 DEF Runs, SessionInv, ThreadsInv, PortInv, contextStopped

\* The first half of both handlers of requests: leave the queue, close the connection.
LEMMA RequestCloses ==
    ASSUME SessionInv, NEW kind \in {"port", "stop"}, Runs(kind),
           io' = closeConnection(C!Pop(io)), connection' = NoConn,
           UNCHANGED <<created, reader>>, ioPc' \in {"run", "open"}
    PROVE  /\ PortInv' /\ PortStep /\ SameTaken(io, io')
           /\ Head(io.ready) \in Request /\ ~LC!IsRead(io.ready[1])
           /\ StopsLast(io'.ready)
           /\ NoStop(io.ready) => NoStop(io'.ready)
           /\ IsStop(Head(io.ready)) => AllRead(io'.ready) /\ NoStop(io'.ready)
           /\ snap'.port = AskedBy(Head(io.ready)) => Serves
<1> USE DEF SessionInv
<1> DEFINE popped == LC!Pop(io)
<1>1. /\ io.ready \in Seq(LC!Handler) /\ io.ready # <<>> /\ reader = NoConn
      /\ Head(io.ready) = io.ready[1] /\ Head(io.ready) \in Request
      /\ ~LC!IsRead(Head(io.ready))
  <2>1. \A h \in LC!Handler : kind \in DOMAIN h => ~LC!IsRead(h)
    BY DEF LC!Handler, LC!Completion, Request, LC!IsRead
  <2> QED BY <2>1, HandlerRuns, HandlerKinds
<1>2. StreamsOk(popped) /\ popped.streams = io.streams /\ popped.ready = Tail(io.ready)
  BY <1>1, PopEffect, PartsOf
<1>3. io' = IF connection # NoConn /\ popped.streams[connection].open
            THEN LC!Close(popped, connection) ELSE popped
  BY SameOperations DEF closeConnection, C!disconnect, C!isConnected
<1> HIDE DEF popped
<1>4. /\ StreamsOk(io') /\ SameTaken(popped, io')
      /\ LC!QueuesRead(popped.ready, io'.ready, connection, {"aborted"})
      /\ \A c \in Conns : ~io'.streams[c].open
      /\ \A c \in Conns : popped.streams[c].read = "none" => io'.streams[c].read = "none"
  <2>1. CASE connection # NoConn /\ popped.streams[connection].open
    <3>1. connection \in Conns /\ io' = LC!Close(popped, connection)
      BY <1>3, <2>1, PartsOf
    <3>2. /\ StreamsOk(io') /\ LC!Others(popped, io', connection) /\ SameTaken(popped, io')
          /\ ~io'.streams[connection].open
          /\ popped.streams[connection].read = "none" => io'.streams[connection].read = "none"
          /\ LC!QueuesRead(popped.ready, io'.ready, connection, {"aborted"})
      BY <1>2, <3>1, CloseEffect
    <3> QED BY <1>2, <3>2 DEF LC!Others, PortInv
  <2>2. CASE ~(connection # NoConn /\ popped.streams[connection].open)
    <3>1. io' = popped
      BY <1>3, <2>2
    <3>2. \A c \in Conns : ~popped.streams[c].open
      BY <1>2, <2>2, PartsOf DEF PortInv
    <3> QED BY <1>2, <3>1, <3>2 DEF SameTaken, LC!QueuesRead
  <2> QED BY <2>1, <2>2
<1>5. PortInv'
  <2>1. NoConn \in 0..created
    BY DEF PortInv, NoConn
  <2>2. reader' = NoConn /\ ioPc' # "readOn" /\ NoConn \notin Conns
    BY <1>1, PartsOf
  <2> QED BY <1>2, <1>4, <2>1, <2>2 DEF PortInv
<1>6. PortStep
  BY <1>4 DEF PortStep, open
<1>7. SameTaken(io, io')
  BY <1>2, <1>4 DEF SameTaken
<1>8. /\ Tail(io.ready) \in Seq(LC!Handler) /\ StopsLast(io.ready)
      /\ StopsLast(Tail(io.ready))
      /\ NoStop(io.ready) => NoStop(Tail(io.ready))
      /\ IsStop(Head(io.ready)) => AllRead(Tail(io.ready)) /\ NoStop(Tail(io.ready))
  BY <1>1, TailKeepsStops, HeadTailProperties DEF StopInv
<1>9. LC!QueuesRead(Tail(io.ready), io'.ready, connection, {"aborted"})
  BY <1>2, <1>4
<1>10. snap'.port = AskedBy(Head(io.ready)) => Serves
  BY <1>1, <1>4, <1>9 DEF Serves, open
<1> QED BY <1>1, <1>5, <1>6, <1>7, <1>8, <1>9, <1>10, QueuesReadKeepsStops

\* connect()'s handler runs before that of stop(), and leaves no port open.
LEMMA HandleConnectKeeps == ASSUME SessionInv, HandleConnect PROVE KeepsLines /\ Serves
<1> USE DEF SessionInv, Keeps, KeepsLines
<1> DEFINE h == Head(io.ready)
<1>1. /\ Runs("port") /\ io' = closeConnection(C!Pop(io)) /\ connection' = NoConn
      /\ snap' = [state |-> "Connecting", port |-> h.port, error |-> ""]
      /\ ioPc' = "open" /\ UNCHANGED <<gui, pump, created, reader>>
  BY DEF HandleConnect
<1>2. /\ PortInv' /\ PortStep /\ SameTaken(io, io') /\ StopsLast(io'.ready)
      /\ NoStop(io.ready) => NoStop(io'.ready)
      /\ h \in Request /\ ~LC!IsRead(io.ready[1])
  BY <1>1, RequestCloses
<1>3. gui \in {"idle", "closing"} /\ "port" \in DOMAIN h
  BY <1>1, <1>2, HandlerRuns DEF StopInv, Stopped, AllRead
<1>4. snap' \in Snapshot /\ snap'.state = "Connecting"
  <2>1. h.port \in Ports
    <3> HIDE DEF h
    <3> QED BY <1>2, <1>3 DEF Request
  <2> QED BY <1>1, <2>1 DEF Snapshot
<1> HIDE DEF h
<1>5. ThreadsInv'
  BY <1>1, <1>3, <1>4 DEF ThreadsInv
<1>6. StopInv'
  BY <1>1, <1>2, <1>3 DEF StopInv, Stopped
<1>7. Serves
  <2>1. snap'.port = AskedBy(Head(io.ready))
    BY <1>1, <1>3 DEF AskedBy, h
  <2> QED BY <1>1, <2>1, RequestCloses
<1> QED BY <1>2, <1>4, <1>5, <1>6, <1>7 DEF ConnectedInv

\* Behind stop()'s handler no request is left.
LEMMA HandleCloseKeeps == ASSUME SessionInv, HandleClose PROVE KeepsLines /\ Serves
<1> USE DEF SessionInv, Keeps, KeepsLines
<1> DEFINE h == Head(io.ready)
<1>1. /\ Runs("stop") /\ io' = closeConnection(C!Pop(io)) /\ connection' = NoConn
      /\ snap' = [state |-> "Disconnected", port |-> NoPort, error |-> ""]
      /\ gui' = (IF h.stop THEN "closed" ELSE gui)
      /\ UNCHANGED <<ioPc, pump, created, reader>>
  BY DEF HandleClose
<1>2. /\ gui \in {"idle", "closing", "closed", "joinPump"} /\ ioPc = "run"
      /\ "stop" \in DOMAIN h /\ h = io.ready[1] /\ 1 \in 1..Len(io.ready)
  BY <1>1, HandlerRuns
<1>3. /\ PortInv' /\ PortStep /\ SameTaken(io, io') /\ StopsLast(io'.ready)
      /\ NoStop(io.ready) => NoStop(io'.ready)
      /\ IsStop(h) => AllRead(io'.ready) /\ NoStop(io'.ready)
      /\ h \in Request /\ ~LC!IsRead(h)
  BY <1>1, <1>2, RequestCloses
<1>4. /\ h.stop <=> IsStop(h)
      /\ gui \in {"idle", "closing"} /\ (h.stop => gui = "closing")
  BY <1>2, <1>3 DEF IsStop, StopInv, Stopped, AllRead, NoStop
<1>5. snap' \in Snapshot /\ snap'.state = "Disconnected"
  BY <1>1 DEF Snapshot
<1> HIDE DEF h
<1>6. ThreadsInv'
  BY <1>1, <1>2, <1>4, <1>5 DEF ThreadsInv
<1>7. StopInv'
  BY <1>1, <1>2, <1>3, <1>4 DEF StopInv, Stopped
<1>8. Serves
  <2>1. "port" \notin DOMAIN h
    BY <1>2, <1>3 DEF Request
  <2>2. snap'.port = AskedBy(h)
    BY <1>1, <2>1 DEF AskedBy
  <2>3. Runs("stop") /\ io' = closeConnection(C!Pop(io)) /\ connection' = NoConn
        /\ UNCHANGED <<created, reader>> /\ ioPc' = "run"
    BY <1>1, <1>2
  <2> QED BY <2>2, <2>3, RequestCloses DEF h
<1> QED BY <1>3, <1>5, <1>6, <1>7, <1>8 DEF ConnectedInv

\* The port opens, and its first read is under way when Connected is announced.
LEMMA OpenPortKeeps == ASSUME SessionInv, OpenPort PROVE KeepsLines /\ Serves
<1> USE DEF SessionInv, Keeps, KeepsLines
<1> DEFINE c == created + 1
           opened == LC!Open(io, c)
<1>1. /\ ioPc = "open" /\ ioPc' = "run" /\ created < MaxConns
      /\ created' = c /\ connection' = c /\ UNCHANGED <<gui, pump, reader>>
      /\ io' \in C!connectToClient(opened, c)
      /\ snap' = [snap EXCEPT !.state = "Connected"]
  BY SameOperations DEF OpenPort
<1>2. /\ created \in Nat /\ c \in Conns /\ c > created /\ c \in 0..MaxConns
      /\ connection = NoConn /\ reader = NoConn /\ NoConn \notin Conns
      /\ NoConn \in 0..c
  BY <1>1, PartsOf DEF PortInv, Conns, NoConn
<1>3. /\ StreamsOk(opened) /\ LC!Others(io, opened, c) /\ SameTaken(io, opened)
      /\ opened.ready = io.ready /\ opened.streams[c].open
      /\ opened.streams[c].read = "none"
  <2> HIDE DEF c
  <2>1. StreamsOk(io) /\ io.streams[c].read = "none"
    BY <1>2 DEF PortInv
  <2> QED BY <1>2, <2>1, OpenEffect
<1> HIDE DEF opened
<1>4. io' \in LC!Read(opened, c)
  BY <1>1, <1>3, SameOperations DEF C!connectToClient, C!isConnected
<1>5. \A d \in Conns : d > c => d > created /\ d # c
  BY <1>2 DEF Conns
<1>6. created < MaxConns /\ created' = created + 1 /\ c \in 0..c
  BY <1>1, <1>2
<1> HIDE DEF c
<1>7. /\ StreamsOk(io') /\ LC!Others(opened, io', c) /\ SameTaken(opened, io')
      /\ io'.streams[c].open /\ io'.streams[c].read # "none"
      /\ LC!QueuesRead(io.ready, io'.ready, c, {"line", "badfd"})
  BY <1>2, <1>3, <1>4, ReadEffect
<1>8. \A d \in Conns \ {c} : io'.streams[d] = io.streams[d] /\ ~io.streams[d].open
  BY <1>2, <1>3, <1>7 DEF LC!Others, PortInv
<1>9. PortInv'
  <2>1. /\ created' \in 0..MaxConns /\ connection' \in 0..created'
        /\ reader' \in 0..created' /\ reader' = NoConn /\ ioPc' = "run"
    BY <1>1, <1>2, <1>6
  <2>2. ASSUME NEW d \in Conns
        PROVE  /\ d > created' => io'.streams[d].read = "none"
               /\ d = reader' => io'.streams[d].read = "none"
               /\ io'.streams[d].open => d = connection'
    BY <1>1, <1>2, <1>5, <1>8, <2>1 DEF PortInv
  <2> QED BY <1>7, <2>1, <2>2 DEF PortInv
<1>10. PortStep
  <2>1. open = {}
    BY <1>2 DEF PortInv, open
  <2>2. open' = {c}
    BY <1>2, <1>7, <1>8 DEF open
  <2> QED BY <1>1, <1>6, <2>1, <2>2 DEF PortStep
<1>11. SameTaken(io, io')
  BY <1>3, <1>7 DEF SameTaken
<1>12. /\ StopsLast(io'.ready) /\ (NoStop(io.ready) => NoStop(io'.ready))
  BY <1>7, PartsOf, QueuesReadKeepsStops DEF StopInv
<1>13. ThreadsInv'
  BY <1>1 DEF ThreadsInv, Snapshot
<1>14. StopInv'
  BY <1>1, <1>12 DEF StopInv, Stopped
<1>15. ConnectedInv'
  BY <1>1, <1>2, <1>7 DEF ConnectedInv, open
<1>16. Serves
  BY <1>1, <1>7 DEF Serves, ThreadsInv, Snapshot
<1> QED BY <1>9, <1>10, <1>11, <1>13, <1>14, <1>15, <1>16

\* A line leaves the buffer of its stream.
LEMMA HandleLineKeeps ==
    ASSUME SessionInv, HandleLine
    PROVE  /\ Keeps
           /\ reader' \in Conns /\ LC!Others(io, io', reader')
           /\ io.streams[reader'].taken \in 0..MaxLines
           /\ io'.streams[reader'].taken \in 0..MaxLines
           /\ io'.streams[reader'].taken = io.streams[reader'].taken + 1
           /\ Q!PushBack("io", <<reader', io'.streams[reader'].taken>>)
           /\ Serves
<1> USE DEF SessionInv, Keeps
<1> DEFINE c == Head(io.ready).conn
<1>1. /\ Runs("conn") /\ Head(io.ready).result = "line"
      /\ io' = LC!BeginHandler(io) /\ reader' = c /\ ioPc' = "readOn"
      /\ UNCHANGED <<gui, pump, connection, created, snap>>
      /\ Q!PushBack("io", <<c, io'.streams[c].taken>>)
  BY SameOperations DEF HandleLine
<1>2. /\ gui \in {"idle", "closing", "closed", "joinPump"} /\ ioPc = "run"
      /\ reader = NoConn /\ io.ready \in Seq(LC!Handler) /\ io.ready # <<>>
      /\ LC!IsRead(Head(io.ready))
  BY <1>1, HandlerRuns DEF LC!IsRead
<1>3. /\ StreamsOk(io') /\ LC!Others(io, io', c) /\ io'.ready = Tail(io.ready)
      /\ c \in Conns /\ io.streams[c].read = "queued"
      /\ io'.streams[c].open = io.streams[c].open /\ io'.streams[c].read = "none"
      /\ io'.streams[c].taken = io.streams[c].taken + 1
      /\ io.streams[c].taken \in 0..MaxLines /\ io'.streams[c].taken \in 0..MaxLines
  BY <1>1, <1>2, BeginHandlerEffect, PartsOf
<1> HIDE DEF c
<1>4. c \in 0..created /\ c # NoConn
  BY <1>3, PartsOf DEF PortInv, Conns
<1>5. PortInv' /\ PortStep
  BY <1>1, <1>3, <1>4, OneStreamKeeps
<1>6. /\ StopsLast(io'.ready)
      /\ NoStop(io.ready) => NoStop(io'.ready)
      /\ AllRead(io.ready) => AllRead(io'.ready)
  BY <1>2, <1>3, TailKeepsStops DEF StopInv
<1>7. ThreadsInv'
  BY <1>1, <1>2 DEF ThreadsInv
<1>8. StopInv'
  BY <1>1, <1>6 DEF StopInv, Stopped
<1>9. ConnectedInv'
  <2> SUFFICES ASSUME snap'.state = "Connected"
               PROVE  /\ connection \in open'
                      /\ io'.streams[connection].read # "none" \/ reader' = connection
    BY <1>1 DEF ConnectedInv
  <2>1. /\ connection \in Conns /\ io.streams[connection].open
        /\ io.streams[connection].read # "none"
    BY <1>1, <1>2 DEF ConnectedInv, open
  <2> QED BY <1>1, <1>3, <2>1 DEF open, LC!Others
<1>10. Serves
  BY <1>1, <1>2, <1>3 DEF Serves
<1> QED BY <1>1, <1>3, <1>5, <1>7, <1>8, <1>9, <1>10

\* The handler of a line ends by reading on.
LEMMA ReadOnKeeps == ASSUME SessionInv, ReadOn PROVE KeepsLines /\ Serves
<1> USE DEF SessionInv, Keeps, KeepsLines
<1>1. /\ ioPc = "readOn" /\ ioPc' = "run" /\ io' \in LC!Read(io, reader)
      /\ reader' = NoConn /\ UNCHANGED <<gui, pump, connection, created, snap>>
  BY SameOperations DEF ReadOn
<1>2. reader \in Conns /\ io.streams[reader].read = "none" /\ ~(reader > created)
  BY <1>1, PartsOf DEF PortInv
<1>3. /\ StreamsOk(io') /\ LC!Others(io, io', reader) /\ SameTaken(io, io')
      /\ io'.streams[reader].open = io.streams[reader].open
      /\ io'.streams[reader].read # "none"
      /\ LC!QueuesRead(io.ready, io'.ready, reader, {"line", "badfd"})
  BY <1>1, <1>2, PartsOf, ReadEffect
<1>4. PortInv' /\ PortStep
  <2>1. NoConn \in 0..created /\ NoConn \notin Conns
    BY PartsOf DEF PortInv, NoConn
  <2> QED BY <1>1, <1>2, <1>3, <2>1, OneStreamKeeps
<1>5. /\ StopsLast(io'.ready)
      /\ NoStop(io.ready) => NoStop(io'.ready)
      /\ AllRead(io.ready) => AllRead(io'.ready)
  BY <1>3, PartsOf, QueuesReadKeepsStops DEF StopInv
<1>6. ThreadsInv'
  BY <1>1 DEF ThreadsInv
<1>7. StopInv'
  BY <1>1, <1>5 DEF StopInv, Stopped
<1>8. ConnectedInv'
  BY <1>1, <1>2, <1>3 DEF ConnectedInv, open, LC!Others
<1>9. Serves
  BY <1>1, <1>3 DEF Serves
<1> QED BY <1>3, <1>4, <1>6, <1>7, <1>8, <1>9

\* An error that is shown ends Connected; one that is not is of a closed port.
LEMMA HandleErrorKeeps ==
    ASSUME SessionInv, HandleError
    PROVE  KeepsLines /\ Serves /\ Head(io.ready).conn \in Conns \ open'
<1> USE DEF SessionInv, Keeps, KeepsLines
<1> DEFINE h == Head(io.ready)
           c == h.conn
           begun == LC!BeginHandler(io)
<1>1. /\ Runs("conn") /\ h.result # "line" /\ io' = LC!Close(begun, c)
      /\ snap' = (IF h.result = "aborted" THEN snap
                  ELSE [snap EXCEPT !.state = "Error", !.error = h.result])
      /\ UNCHANGED <<gui, ioPc, pump, reader, connection, created>>
  BY SameOperations DEF HandleError
<1>2. /\ ioPc = "run" /\ reader = NoConn
      /\ io.ready \in Seq(LC!Handler) /\ io.ready # <<>> /\ LC!IsRead(h)
  BY <1>1, HandlerRuns DEF LC!IsRead
<1>3. /\ StreamsOk(begun) /\ LC!Others(io, begun, c) /\ begun.ready = Tail(io.ready)
      /\ h \in LC!Completion /\ c \in Conns
      /\ h.result = "aborted" => ~io.streams[c].open
      /\ begun.streams[c].read = "none"
      /\ begun.streams[c].taken = io.streams[c].taken
  BY <1>1, <1>2, BeginHandlerEffect, PartsOf
<1> HIDE DEF begun
<1>4. snap' \in Snapshot /\ (snap'.state = "Connected" => h.result = "aborted" /\ snap' = snap)
  BY <1>1, <1>3 DEF ThreadsInv, Snapshot, LC!Completion, LC!Result
<1> HIDE DEF h, c
<1>5. /\ StreamsOk(io') /\ LC!Others(begun, io', c) /\ SameTaken(begun, io')
      /\ ~io'.streams[c].open /\ io'.streams[c].read = "none" /\ io'.ready = begun.ready
  BY <1>1, <1>3, CloseEffect
<1>6. LC!Others(io, io', c) /\ SameTaken(io, io')
  BY <1>3, <1>5 DEF LC!Others, SameTaken
<1>7. PortInv' /\ PortStep
  <2>1. NoConn \in 0..created /\ NoConn \notin Conns
    BY PartsOf DEF PortInv, NoConn
  <2> QED BY <1>1, <1>2, <1>3, <1>5, <1>6, <2>1, OneStreamKeeps
<1>8. /\ StopsLast(io'.ready)
      /\ NoStop(io.ready) => NoStop(io'.ready)
      /\ AllRead(io.ready) => AllRead(io'.ready)
  BY <1>2, <1>3, <1>5, TailKeepsStops DEF StopInv
<1>9. ThreadsInv'
  BY <1>1, <1>4 DEF ThreadsInv
<1>10. StopInv'
  BY <1>1, <1>8 DEF StopInv, Stopped
<1>11. ConnectedInv'
  BY <1>1, <1>3, <1>4, <1>6 DEF ConnectedInv, open, LC!Others
<1>12. Serves
  <2>1. snap'.port = snap.port
    BY <1>1 DEF ThreadsInv, Snapshot
  <2> QED BY <1>2, <1>3, <1>5, <2>1 DEF Serves, h
<1>13. c \in Conns \ open'
  BY <1>3, <1>5 DEF open
<1> QED BY <1>6, <1>7, <1>9, <1>10, <1>11, <1>12, <1>13 DEF c, h

\* A device completes a read that waits, which is not that of the handler that runs.
LEMMA DeviceStepKeeps == ASSUME SessionInv, Device PROVE KeepsLines /\ Serves
<1> USE DEF SessionInv, Keeps, KeepsLines
<1>1. PICK c \in Conns : LC!LinesArrive(c) \/ LC!ReadFails(c)
  BY DEF Device, C!LinesArrive, LC!LinesArrive, C!ReadFails, LC!ReadFails, C!Complete,
         LC!Complete, C!Post, LC!Post
<1>2. UNCHANGED <<gui, ioPc, pump, reader, connection, created, snap>>
  BY DEF Device
<1>3. /\ LC!ConnInv(io') /\ LC!Others(io, io', c)
      /\ io.streams[c].read = "pending" /\ io'.streams[c].read = "queued"
      /\ io'.streams[c].open = io.streams[c].open
      /\ io'.streams[c].taken = io.streams[c].taken
      /\ LC!QueuesRead(io.ready, io'.ready, c, {"line", "fail"})
  BY <1>1, ConnAssumptionHolds, PartsOf, LC!DeviceKeeps
<1>4. AbortedClosed(io')
  <2>1. Follows(io.ready, io'.ready, c, {"line", "fail"})
    BY <1>3, PartsOf, QueuesReadFollows
  <2>2. \A d \in Conns : io'.streams[d].open => io.streams[d].open
    BY <1>3 DEF LC!Others
  <2> QED BY <2>1, <2>2, AbortedStays, PartsOf DEF StreamsOk
<1>5. SameTaken(io, io')
  BY <1>3 DEF SameTaken, LC!Others
<1>6. PortInv' /\ PortStep
  <2>1. ~(c > created) /\ c # reader
    BY <1>3 DEF PortInv
  <2>2. reader' \in 0..created /\ (ioPc' = "readOn" <=> reader' # NoConn)
    BY <1>2 DEF PortInv
  <2>3. StreamsOk(io')
    BY <1>3, <1>4 DEF StreamsOk
  <2> QED BY <1>2, <1>3, <2>1, <2>2, <2>3, OneStreamKeeps
<1>7. /\ StopsLast(io'.ready)
      /\ NoStop(io.ready) => NoStop(io'.ready)
      /\ AllRead(io.ready) => AllRead(io'.ready)
  BY <1>3, PartsOf, QueuesReadKeepsStops DEF StopInv
<1>8. ThreadsInv'
  BY <1>2 DEF ThreadsInv
<1>9. StopInv'
  BY <1>2, <1>7 DEF StopInv, Stopped
<1>10. ConnectedInv'
  BY <1>2, <1>3 DEF ConnectedInv, open, LC!Others
<1>11. Serves
  BY <1>2, <1>3 DEF Serves
<1> QED BY <1>5, <1>6, <1>8, <1>9, <1>10, <1>11

-----------------------------------------------------------------------------
(* The theorems about the ports and the threads.                            *)

\* The session begins with nothing posted, read or open.
LEMMA SessionInvInit == Init => SessionInv /\ open = {} /\ created = 0
<1> SUFFICES ASSUME Init PROVE SessionInv /\ open = {} /\ created = 0
  OBVIOUS
<1>1. /\ LC!ConnInv(io) /\ io.ready = <<>>
      /\ \A c \in Conns : io.streams[c].read = "none" /\ ~io.streams[c].open
  BY ConnAssumptionHolds, LC!InitKeeps DEF Init, C!Init, LC!Init
<1>2. /\ gui = "stopped" /\ ioPc = "off" /\ pump = "off" /\ connection = NoConn
      /\ reader = NoConn /\ created = 0
      /\ snap = [state |-> "Disconnected", port |-> NoPort, error |-> ""]
  BY DEF Init
<1>3. \A i \in 1..Len(io.ready) : FALSE
  <2>1. Len(io.ready) = 0
    BY <1>1, EmptySeq
  <2> QED BY <2>1
<1>4. PortInv /\ open = {}
  <2>1. NoConn \in 0..created /\ created \in 0..MaxConns
    <3>1. NoConn \in 0..0 /\ 0 \in 0..MaxConns
      BY SessionAssumption DEF NoConn
    <3> QED BY <1>2, <3>1
  <2>2. StreamsOk(io)
    BY <1>1, <1>3 DEF StreamsOk, AbortedClosed
  <2> QED BY <1>1, <1>2, <2>1, <2>2 DEF PortInv, open
<1>5. ThreadsInv /\ ConnectedInv
  BY <1>2 DEF ThreadsInv, ConnectedInv, Snapshot
<1>6. StopInv
  BY <1>2, <1>3 DEF StopInv, StopsLast, NoStop, AllRead
<1> QED BY <1>2, <1>4, <1>5, <1>6 DEF SessionInv

\* SessionInv is inductive, and every step is one that PortStep allows.
LEMMA SessionInvStep == SessionInv /\ [Next]_vars => SessionInv' /\ PortStep
<1> SUFFICES ASSUME SessionInv, [Next]_vars PROVE Keeps
  BY DEF Keeps
<1>1. HandleLine => Keeps
  BY HandleLineKeeps
<1>2. ~HandleLine => KeepsLines
  BY PostKeeps, QuietStepKeeps, HandleConnectKeeps, HandleCloseKeeps, OpenPortKeeps,
     ReadOnKeeps, HandleErrorKeeps, DeviceStepKeeps
     DEF Next, StopSteps, IoThread
<1> QED BY <1>1, <1>2 DEF KeepsLines

\* So SessionInv holds of every state of the session.
LEMMA SessionInvariant == Spec => []SessionInv
  BY SessionInvInit, SessionInvStep, PTL DEF Spec

\* A port other than that of m_connection is never open, whatever is queued.
THEOREM OnlyOneOpen == Spec => []OnlyCurrentOpen
<1>1. SessionInv => OnlyCurrentOpen
  BY DEF SessionInv, PortInv, OnlyCurrentOpen, open
<1> QED BY <1>1, SessionInvariant, PTL

\* Whatever fails, is replaced or is restarted, no stream has two reads.
THEOREM OneReadEach == Spec => []OneReadPerStream
<1>1. SessionInv => OneReadPerStream
  <2> SUFFICES ASSUME SessionInv PROVE C!OneReadPerStream
    BY DEF OneReadPerStream
  <2>1. LC!OneReadPerStream
    BY ConnAssumptionHolds, LC!ConnInvImplies, PartsOf DEF SessionInv
  <2> QED BY <2>1 DEF LC!OneReadPerStream, C!OneReadPerStream
<1> QED BY <1>1, SessionInvariant, PTL

\* The session opens a port only when none is open, and closes it before the next.
THEOREM Implementation == Spec => ImplementsExclusivePort
<1>1. Init => Exclusive!Init
  BY SessionInvInit DEF Exclusive!Init
<1>2. SessionInv /\ PortStep => [Exclusive!Next]_<<open, 1..created \ open>>
  <2> SUFFICES ASSUME SessionInv, PortStep
               PROVE  [Exclusive!Next]_<<open, 1..created \ open>>
    OBVIOUS
  <2>0. /\ open \subseteq {connection} /\ open \subseteq Conns
        /\ connection \in 0..created /\ created \in Nat
    BY PartsOf DEF SessionInv, PortInv, open
  <2>1. CASE open' = open /\ created' = created
    BY <2>1
  <2>2. CASE open' # open /\ open' \subseteq open /\ created' = created
    <3>1. open = {connection} /\ open' = {} /\ connection \in Conns
      BY <2>2, <2>0
    <3>2. 1..created' \ open' = (1..created \ open) \cup {connection}
      BY <3>1, <2>0, <2>2 DEF Conns
    <3> QED BY <3>1, <3>2 DEF Exclusive!Next, Exclusive!Close
  <2>3. CASE /\ open = {} /\ created < MaxConns
             /\ created' = created + 1 /\ open' = {created + 1}
    <3>1. /\ created + 1 \in Conns /\ created + 1 \notin 1..created \ open
          /\ 1..created' \ open' = 1..created \ open
      BY <2>0, <2>3, SessionAssumption DEF Conns
    <3> QED BY <3>1, <2>3 DEF Exclusive!Next, Exclusive!Open
  <2> QED BY <2>1, <2>2, <2>3 DEF PortStep
<1> QED
  BY <1>1, <1>2, SessionInvariant, SessionInvStep, PTL
     DEF Spec, ImplementsExclusivePort, Exclusive!Spec

\* When stop() goes on to the threads, no connect() or disconnect() is left in the
\* queue to be served by a later start(), however many there were and whatever was
\* still being read.
THEOREM AllRequestsServed == Spec => []RequestsServedBeforeStop
<1>1. SessionInv => RequestsServedBeforeStop
  BY DEF SessionInv, StopInv, Stopped, AllRead, LC!IsRead, RequestsServedBeforeStop
<1> QED BY <1>1, SessionInvariant, PTL

\* Where stop() has returned, SessionInv leaves nothing open and nothing to run.
LEMMA QuietOf == SessionInv => StoppedIsQuiet
<1> SUFFICES ASSUME SessionInv, gui = "stopped"
             PROVE  /\ open = {} /\ connection = NoConn
                    /\ \A c \in Conns : io.streams[c].read # "pending"
                    /\ ioPc = "off" /\ pump = "off"
  BY DEF StoppedIsQuiet
<1>1. connection = NoConn /\ ioPc = "off" /\ pump = "off"
  BY DEF SessionInv, StopInv, Stopped, ThreadsInv
<1>2. \A c \in Conns : ~io.streams[c].open
  BY <1>1, PartsOf DEF SessionInv, PortInv
<1>3. \A c \in Conns : io.streams[c].read # "pending"
  BY <1>2, PartsOf DEF SessionInv, LC!ConnInv, LC!StreamOk
<1> QED BY <1>1, <1>2, <1>3 DEF open

\* Once stop() has returned, no port is open, nothing is read and no thread runs.
THEOREM QuietAfterStop == Spec => []StoppedIsQuiet
  BY QuietOf, SessionInvariant, PTL

\* Between two handlers, Connected means that the port is open and being read,
\* through any number of reconnections and of late errors of earlier connections.
THEOREM ConnectedIsRead == Spec => []ConnectedMeansReading
<1>1. SessionInv => ConnectedMeansReading
  BY DEF SessionInv, ConnectedInv, ConnectedMeansReading
<1> QED BY <1>1, SessionInvariant, PTL

-----------------------------------------------------------------------------
(* What the requests lead to, for the panel that makes them.                *)

\* What connect() and disconnect() ask for is the last thing that is asked for.
LEMMA AsksLast ==
    ASSUME SessionInv
    PROVE  /\ \A port \in Ports : Connect(port) =>
                 LastAsks(io'.ready, port) /\ ~AllRead(io'.ready)
           /\ Disconnect => LastAsks(io'.ready, NoPort) /\ ~AllRead(io'.ready)
<1>1. /\ \A h : C!Post(io, h).ready = Append(io.ready, h)
      /\ io.ready \in Seq(LC!Handler)
  BY PartsOf DEF C!Post, SessionInv, LC!ConnInv, LC!Shaped
<1>2. ASSUME NEW port \in Ports, Connect(port)
      PROVE  LastAsks(io'.ready, port) /\ ~AllRead(io'.ready)
  <2> DEFINE h == [port |-> port]
  <2>1. io'.ready = Append(io.ready, h)
    BY <1>1, <1>2 DEF Connect, Post
  <2>2. ~LC!IsRead(h) /\ AskedBy(h) = port
    BY DEF LC!IsRead, AskedBy
  <2> HIDE DEF h
  <2> QED BY <1>1, <2>1, <2>2, RequestIsLast
<1>3. ASSUME Disconnect PROVE LastAsks(io'.ready, NoPort) /\ ~AllRead(io'.ready)
  <2> DEFINE h == [stop |-> FALSE]
  <2>1. io'.ready = Append(io.ready, h)
    BY <1>1, <1>3 DEF Disconnect, Post
  <2>2. ~LC!IsRead(h) /\ AskedBy(h) = NoPort
    BY DEF LC!IsRead, AskedBy
  <2> HIDE DEF h
  <2> QED BY <1>1, <2>1, <2>2, RequestIsLast
<1> QED BY <1>2, <1>3

\* The other steps of the session do not change what was asked for last, and when no
\* request is left the snapshot names that port.
LEMMA ServesLast ==
    ASSUME SessionInv, Serves, NEW port, LastAsks(io.ready, port),
           AllRead(io.ready) => snap.port = port
    PROVE  LastAsks(io'.ready, port) /\ (AllRead(io'.ready) => snap'.port = port)
<1>1. io.ready \in Seq(LC!Handler)
  BY PartsOf DEF SessionInv
<1>2. CASE /\ \E c, results : LC!QueuesRead(io.ready, io'.ready, c, results)
           /\ snap'.port = snap.port
  BY <1>1, <1>2, QueuesReadKeepsLast
<1>3. CASE /\ io.ready # <<>> /\ LC!IsRead(Head(io.ready)) /\ io'.ready = Tail(io.ready)
           /\ snap'.port = snap.port
  BY <1>1, <1>3, TailKeepsLast
<1>4. CASE /\ io.ready # <<>> /\ ~LC!IsRead(Head(io.ready))
           /\ \E c, results : LC!QueuesRead(Tail(io.ready), io'.ready, c, results)
           /\ snap'.port = AskedBy(Head(io.ready)) /\ open' = {}
  <2>1. /\ LastAsks(Tail(io.ready), port) /\ Tail(io.ready) \in Seq(LC!Handler)
        /\ AllRead(Tail(io.ready)) => AskedBy(Head(io.ready)) = port
    BY <1>1, <1>4, TailKeepsLast, HeadTailProperties
  <2> QED BY <1>4, <2>1, QueuesReadKeepsLast
<1> QED BY <1>2, <1>3, <1>4 DEF Serves

\* The steps of the session that post no request, which the panel passes on.
LEMMA ServingSteps ==
    ASSUME SessionInv,
           \/ Start \/ StopSteps \/ IoThread \/ PumpThread \/ PumpSpuriousWakeup \/ Device
           \/ UNCHANGED vars
    PROVE  Serves
  BY QuietStepKeeps, HandleConnectKeeps, HandleCloseKeeps, OpenPortKeeps, HandleLineKeeps,
     ReadOnKeeps, HandleErrorKeeps, DeviceStepKeeps DEF StopSteps, IoThread

-----------------------------------------------------------------------------
(* The lines on their way to the model.                                     *)

\* The part of TypeOK that SessionInv does not say.
DataInv ==
    /\ Q!TypeOK /\ handed \in Seq(Line)
    /\ requests \in 0..MaxRequests /\ starts \in 0..MaxStarts

moved == handed \o messages.deq

\* Every step on m_messages is a critical section of its class, and a step moves a line
\* from the stream to the queue, or from the queue to the model, or none.
LEMMA LineSteps ==
    ASSUME SessionInv, DataInv, [Next]_vars
    PROVE  /\ DataInv'
           /\ \/ /\ handed' = handed /\ reader' \in Conns
                 /\ LC!Others(io, io', reader')
                 /\ io.streams[reader'].taken \in Nat
                 /\ io'.streams[reader'].taken = io.streams[reader'].taken + 1
                 /\ <<reader', io'.streams[reader'].taken>> \in Line
                 /\ messages'.deq =
                       Append(messages.deq, <<reader', io'.streams[reader'].taken>>)
              \/ /\ messages.deq # <<>> /\ messages'.deq = Tail(messages.deq)
                 /\ handed' = Append(handed, Head(messages.deq))
                 /\ SameTaken(io, io')
              \/ /\ messages'.deq = messages.deq /\ handed' = handed
                 /\ SameTaken(io, io')
<1>0. /\ messages \in [deq : Seq(Line), cv : [{"io", "pump"} -> Q!CvState]]
      /\ handed \in Seq(Line) /\ messages.deq \in Seq(Line)
      /\ MaxRequests \in Nat /\ MaxStarts \in Nat
  BY SessionAssumption DEF DataInv, Q!TypeOK
<1>1. CASE HandleLine
  <2> DEFINE line == <<reader', io'.streams[reader'].taken>>
  <2>1. /\ reader' \in Conns /\ LC!Others(io, io', reader')
        /\ io.streams[reader'].taken \in 0..MaxLines
        /\ io'.streams[reader'].taken \in 0..MaxLines
        /\ io'.streams[reader'].taken = io.streams[reader'].taken + 1
        /\ Q!PushBack("io", line)
    BY <1>1, HandleLineKeeps
  <2>2. line \in Line
    BY <2>1, SessionAssumption DEF Line
  <2>3. UNCHANGED <<handed, requests, starts>>
    BY <1>1 DEF HandleLine, bounds
  <2> HIDE DEF line
  <2>4. messages'.deq = Append(messages.deq, line)
    BY <1>0, <2>1 DEF Q!PushBack, Q!Section
  <2>5. Q!TypeOK'
    <3>1. LQ!Operation("pump", "io", line, FALSE, FALSE) /\ LQ!TypeOK
      BY <2>1, <2>2 DEF LQ!Operation, Q!PushBack, LQ!PushBack, Q!Section, LQ!Section,
                       DataInv, Q!TypeOK, LQ!TypeOK, Q!CvState, LQ!CvState
    <3>2. LQ!TypeOK'
      BY <3>1, LQ!OperationType
    <3> QED BY <3>2 DEF Q!TypeOK, LQ!TypeOK, Q!CvState, LQ!CvState
  <2> QED BY <1>0, <2>1, <2>2, <2>3, <2>4, <2>5 DEF DataInv, line
<1>2. CASE ReadOn \/ PumpWait \/ PumpTimeout \/ PumpSpuriousWakeup
  <2>1. SameTaken(io, io')
    BY <1>2, ReadOnKeeps, QuietStepKeeps DEF KeepsLines, PumpThread
  <2>2. UNCHANGED <<handed, requests, starts>>
    BY <1>2 DEF ReadOn, PumpWait, PumpTimeout, PumpSpuriousWakeup, PumpUnchanged, bounds
  <2>3. \/ \E w \in {"io", "pump"}, state \in Q!CvState : Q!Goto(w, state)
        \/ \E w \in {"io", "pump"} :
              messages' = [messages EXCEPT !.cv["io"] = "out", !.cv[w] = "awake"]
    BY <1>2 DEF ReadOn, PumpWait, PumpTimeout, PumpSpuriousWakeup, Q!NotifyOne,
                Q!WaitForReturns, Q!WaitBlocks, Q!Expire, Q!SpuriousWakeup, Q!CvState
  <2>4. messages'.deq = messages.deq /\ Q!TypeOK'
    <3>1. ASSUME NEW w \in {"io", "pump"}, NEW state \in Q!CvState, Q!Goto(w, state)
        PROVE  messages'.deq = messages.deq /\ Q!TypeOK'
    BY <1>0, <3>1 DEF Q!Goto, Q!TypeOK
  <3>2. ASSUME NEW w \in {"io", "pump"},
               messages' = [messages EXCEPT !.cv["io"] = "out", !.cv[w] = "awake"]
        PROVE  messages'.deq = messages.deq /\ Q!TypeOK'
    BY <1>0, <3>2 DEF Q!TypeOK, Q!CvState
  <3> QED BY <2>3, <3>1, <3>2
  <2> QED BY <1>0, <2>1, <2>2, <2>4 DEF DataInv
<1>3. CASE PumpPush
  <2>1. SameTaken(io, io')
    BY <1>3, QuietStepKeeps DEF KeepsLines, PumpThread
  <2>2. /\ UNCHANGED <<requests, starts>> /\ messages.deq # <<>>
        /\ handed' = Append(handed, Head(messages.deq))
        /\ messages' = [messages EXCEPT !.deq = Tail(messages.deq), !.cv["pump"] = "out"]
    BY <1>3 DEF PumpPush, PumpUnchanged, bounds, Q!PopFront, Q!Section
  <2>3. Head(messages.deq) \in Line /\ Tail(messages.deq) \in Seq(Line)
    BY <1>0, <2>2, HeadTailProperties
  <2>4. messages'.deq = Tail(messages.deq) /\ Q!TypeOK'
    BY <1>0, <2>2, <2>3 DEF Q!TypeOK, Q!CvState
  <2>5. handed' \in Seq(Line)
    BY <1>0, <2>2, <2>3, AppendProperties
  <2> QED BY <1>0, <2>1, <2>2, <2>4, <2>5 DEF DataInv
<1>4. CASE ~(HandleLine \/ ReadOn \/ PumpWait \/ PumpTimeout \/ PumpSpuriousWakeup \/ PumpPush)
  <2>1. SameTaken(io, io')
    BY <1>4, PostKeeps, QuietStepKeeps, HandleConnectKeeps, HandleCloseKeeps,
       OpenPortKeeps, HandleErrorKeeps, DeviceStepKeeps
       DEF KeepsLines, Next, StopSteps, IoThread
  <2>2. UNCHANGED <<handed, messages>>
    BY <1>4 DEF Next, StopSteps, IoThread, PumpThread, Start, Connect, Disconnect, Stop,
                RequestPumpStop, StopContext, JoinIo, HandleConnect, OpenPort, OpenFails,
                HandleClose, HandleError, IoExit, PumpTest, PumpDrained, Device, vars
  <2>3. requests' \in 0..MaxRequests /\ starts' \in 0..MaxStarts
    <3>1. /\ requests' = requests \/ (requests < MaxRequests /\ requests' = requests + 1)
          /\ starts' = starts \/ (starts < MaxStarts /\ starts' = starts + 1)
      BY <1>4 DEF Next, StopSteps, IoThread, PumpThread, Start, Connect, Disconnect, Stop,
                  RequestPumpStop, StopContext, JoinIo, HandleConnect, OpenPort, OpenFails,
                  HandleClose, HandleError, IoExit, PumpTest, PumpDrained, PumpUnchanged,
                  Device, bounds, vars
    <3> QED BY <1>0, <3>1 DEF DataInv
  <2> QED BY <2>1, <2>2, <2>3 DEF DataInv, Q!TypeOK
<1> QED BY <1>1, <1>2, <1>3, <1>4

\* A line that is taken is newer than all of its connection that were moved before.
LEMMA NewLineKeepsOrder ==
    ASSUME DataInv, LinesInOrder, NEW c \in Conns, NEW n \in Nat, <<c, n + 1>> \in Line,
           io.streams[c].taken = n, io'.streams[c].taken = n + 1,
           LC!Others(io, io', c), moved' = Append(moved, <<c, n + 1>>)
    PROVE  LinesInOrder'
<1> DEFINE new == <<c, n + 1>>
<1>0. moved \in Seq(Line)
  BY ConcatProperties DEF DataInv, Q!TypeOK, moved
<1>1. /\ \A i, j \in 1..Len(moved) :
            i < j /\ moved[i][1] = moved[j][1] => moved[i][2] < moved[j][2]
      /\ \A line \in Line : Contains(moved, line) <=> line[2] <= io.streams[line[1]].taken
  BY DEF LinesInOrder, moved
<1>2. new[1] = c /\ new[2] = n + 1 /\ new \in Line
  OBVIOUS
<1> HIDE DEF new
<1>3. /\ Len(moved) \in Nat /\ Len(moved') = Len(moved) + 1
      /\ moved'[Len(moved) + 1] = new
      /\ \A i \in 1..Len(moved) : moved'[i] = moved[i] /\ moved[i] \in Line
  BY <1>0, AppendProperties, ElementOfSeq, LenProperties DEF new
<1>4. \A i \in 1..Len(moved') : i \in 1..Len(moved) \/ i = Len(moved) + 1
  BY <1>3
<1>5. ASSUME NEW i \in 1..Len(moved), moved[i][1] = c PROVE moved[i][2] < n + 1
  <2>1. moved[i][2] <= n
    BY <1>1, <1>3, <1>5 DEF Contains
  <2> QED BY <1>3, <2>1 DEF Line
<1>6. ASSUME NEW i \in 1..Len(moved'), NEW j \in 1..Len(moved'),
             i < j, moved'[i][1] = moved'[j][1]
      PROVE  moved'[i][2] < moved'[j][2]
  <2>1. i \in 1..Len(moved)
    BY <1>3, <1>6
  <2>2. CASE j \in 1..Len(moved)
    BY <1>1, <1>3, <1>6, <2>1, <2>2
  <2>3. CASE j = Len(moved) + 1
    BY <1>2, <1>3, <1>5, <1>6, <2>1, <2>3
  <2> QED BY <1>4, <2>2, <2>3
<1>7. ASSUME NEW line \in Line
      PROVE  Contains(moved', line) <=> line[2] <= io'.streams[line[1]].taken
  <2>1. Contains(moved', line) <=> Contains(moved, line) \/ line = new
    <3>1. Len(moved) + 1 \in 1..Len(moved') /\ \A i \in 1..Len(moved) : i \in 1..Len(moved')
      BY <1>3
    <3> QED BY <1>3, <1>4, <3>1 DEF Contains
  <2>2. line[1] \in Conns /\ line[2] \in Nat /\ line = <<line[1], line[2]>>
    BY DEF Line
  <2>3. CASE line[1] = c
    <3>1. Contains(moved, line) <=> line[2] <= n
      BY <1>1, <2>3
    <3>2. line = new <=> line[2] = n + 1
      BY <2>2, <2>3 DEF new
    <3> QED BY <2>1, <2>2, <2>3, <3>1, <3>2
  <2>4. CASE line[1] # c
    <3>1. line # new /\ io'.streams[line[1]] = io.streams[line[1]]
      BY <1>2, <2>2, <2>4 DEF LC!Others
    <3> QED BY <1>1, <2>1, <3>1
  <2> QED BY <2>3, <2>4
<1> QED BY <1>6, <1>7 DEF LinesInOrder, moved

\* LinesInOrder is inductive beside the other two.
LEMMA LinesStep ==
    SessionInv /\ DataInv /\ LinesInOrder /\ [Next]_vars => DataInv' /\ LinesInOrder'
<1> SUFFICES ASSUME SessionInv, DataInv, LinesInOrder, [Next]_vars
             PROVE  DataInv' /\ LinesInOrder'
  OBVIOUS
<1>0. handed \in Seq(Line) /\ messages.deq \in Seq(Line)
  BY DEF DataInv, Q!TypeOK
<1>1. ASSUME moved' = moved, SameTaken(io, io') PROVE LinesInOrder'
  BY <1>1 DEF LinesInOrder, moved, SameTaken, Line
<1>2. CASE /\ handed' = handed /\ reader' \in Conns
           /\ LC!Others(io, io', reader')
           /\ io.streams[reader'].taken \in Nat
           /\ io'.streams[reader'].taken = io.streams[reader'].taken + 1
           /\ <<reader', io'.streams[reader'].taken>> \in Line
           /\ messages'.deq =
                 Append(messages.deq, <<reader', io'.streams[reader'].taken>>)
  <2> DEFINE line == <<reader', io'.streams[reader'].taken>>
  <2>1. moved' = Append(moved, line)
    <3>1. line \in Line /\ messages'.deq = Append(messages.deq, line)
      BY <1>2
    <3> HIDE DEF line
    <3>2. handed \o Append(messages.deq, line) = Append(handed \o messages.deq, line)
      BY <1>0, <3>1, LQ!AppendBehind
    <3> QED BY <1>2, <3>1, <3>2 DEF moved
  <2> QED BY <1>2, <2>1, NewLineKeepsOrder, LineSteps
<1>3. CASE /\ messages.deq # <<>> /\ messages'.deq = Tail(messages.deq)
           /\ handed' = Append(handed, Head(messages.deq)) /\ SameTaken(io, io')
  <2>1. moved' = moved
    BY <1>0, <1>3, LQ!HeadToBack DEF moved
  <2> QED BY <1>1, <1>3, <2>1, LineSteps
<1>4. CASE messages'.deq = messages.deq /\ handed' = handed /\ SameTaken(io, io')
  BY <1>1, <1>4, LineSteps DEF moved
<1> QED BY <1>2, <1>3, <1>4, LineSteps

\* The session begins with no line moved or taken.
LEMMA LinesInit == Init => DataInv /\ LinesInOrder
<1> SUFFICES ASSUME Init PROVE DataInv /\ LinesInOrder
  OBVIOUS
<1>1. moved = <<>> /\ Len(moved) = 0
  BY EmptySeq, ConcatEmptySeq DEF Init, moved, Q!Init
<1>2. \A c \in Conns : io.streams[c].taken = 0
  BY DEF Init, C!Init
<1>3. LinesInOrder
  BY <1>1, <1>2 DEF LinesInOrder, moved, Contains, Line
<1>4. DataInv
  <2>1. 0 \in 0..MaxRequests /\ 0 \in 0..MaxStarts
    BY SessionAssumption
  <2>2. <<>> \in Seq(Line)
    BY EmptySeq
  <2>3. Q!TypeOK
    BY <2>2 DEF Init, Q!Init, Q!TypeOK, Q!CvState
  <2> QED BY <2>1, <2>2, <2>3 DEF Init, DataInv
<1> QED BY <1>3, <1>4

\* So all three hold of every state of the session.
LEMMA LinesInvariant == Spec => [](SessionInv /\ DataInv /\ LinesInOrder)
  BY SessionInvInit, SessionInvStep, LinesInit, LinesStep, PTL DEF Spec

\* Through reconnections, restarts and late completions, the model gets the lines of a
\* connection each once and in the order they were read, and none of them is lost.
THEOREM LinesKeepOrder == Spec => []LinesInOrder
  BY LinesInvariant, PTL

\* The two invariants hold all that TypeOK says.
LEMMA TypesOf == SessionInv /\ DataInv => TypeOK
<1> SUFFICES ASSUME SessionInv, DataInv PROVE TypeOK
  OBVIOUS
<1>1. LC!TypeOK
  BY ConnAssumptionHolds, LC!ConnInvImplies, PartsOf DEF SessionInv
<1>2. C!TypeOK
  BY <1>1 DEF C!TypeOK, LC!TypeOK, C!Stream, LC!Stream, C!Completion, LC!Completion,
              C!Result, LC!Result
<1> QED BY <1>2, PartsOf DEF TypeOK, SessionInv, PortInv, ThreadsInv, DataInv

\* The session's variables keep their types, the two halves of the io thread's handler
\* included.
THEOREM TypeCorrect == Spec => []TypeOK
  BY TypesOf, LinesInvariant, PTL
=============================================================================
