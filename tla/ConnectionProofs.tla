-------------------------- MODULE ConnectionProofs ---------------------------
(* Proofs about Connection, for any number of connections and lines: what   *)
(* its operations do to a stream and to the queue of handlers, and that     *)
(* they keep one read per stream, which ends with the line that it took.    *)
(* The threads that call the operations cite these lemmas.                  *)
EXTENDS Connection, SequenceTheorems, TLAPS

Handler == Completion \cup Posted
IsRead(handler) == "conn" \in DOMAIN handler

\* What the modules that use this one assume of its constants: no handler that the
\* program posts is the completion of a read.
ConnAssumption == MaxLines \in Nat /\ \A handler \in Posted : ~IsRead(handler)

\* TypeOK of a state of io.
Shaped(s) == s \in [streams : [Conns -> Stream], ready : Seq(Handler)]

\* Only the stream of c differs.
Others(s, t, c) == \A d \in Conns \ {c} : t.streams[d] = s.streams[d]

\* The queue is the same, or a read of c has completed with one of the results.
QueuesRead(ready, next, c, results) ==
    \/ next = ready
    \/ \E result \in results : next = Append(ready, [conn |-> c, result |-> result])

\* A read waits on an open port only, and no more is taken than has arrived.
StreamOk(stream) ==
    /\ stream.read = "pending" => stream.open
    /\ stream.taken <= stream.arrived

\* A completion in the queue is that of the one read of its stream; if it brings a
\* line, the line is still in the buffer.
CompletionOk(s, handler) ==
    LET stream == s.streams[handler.conn] IN
    /\ stream.read = "queued"
    /\ handler.result = "line" => stream.taken < stream.arrived

\* Two completions of one stream are the same one.
OnePerStream(ready) ==
    \A i, j \in 1..Len(ready) :
        IsRead(ready[i]) /\ IsRead(ready[j]) /\ ready[i].conn = ready[j].conn => i = j

\* What every operation keeps, if the callers keep to one read at a time.
ConnInv(s) ==
    /\ Shaped(s)
    /\ \A c \in Conns : StreamOk(s.streams[c])
    /\ \A i \in 1..Len(s.ready) : IsRead(s.ready[i]) => CompletionOk(s, s.ready[i])
    /\ OnePerStream(s.ready)
    /\ \A c \in Conns : s.streams[c].read = "queued" =>
          \E i \in 1..Len(s.ready) : IsRead(s.ready[i]) /\ s.ready[i].conn = c

-----------------------------------------------------------------------------
(* The parts of a state.                                                    *)

\* A connection has a stream.
LEMMA StreamOf ==
    ASSUME NEW s, Shaped(s), NEW c \in Conns
    PROVE  s.streams[c] \in Stream
  BY DEF Shaped

\* A completion names a connection.
LEMMA CompletionOf ==
    ASSUME ConnAssumption, NEW handler \in Handler, IsRead(handler)
    PROVE  handler \in Completion /\ handler.conn \in Conns
  BY DEF ConnAssumption, Handler, Completion

\* The handlers of the queue.
LEMMA HandlerOf ==
    ASSUME ConnAssumption, NEW s, Shaped(s), NEW i \in 1..Len(s.ready)
    PROVE  /\ s.ready[i] \in Handler
           /\ IsRead(s.ready[i]) => s.ready[i].conn \in Conns
<1>1. s.ready[i] \in Handler
  BY ElementOfSeq DEF Shaped
<1> QED BY <1>1, CompletionOf

\* Another stream of c.
LEMMA StreamSet ==
    ASSUME NEW s, Shaped(s), NEW c \in Conns, NEW stream \in Stream
    PROVE  LET t == [s EXCEPT !.streams[c] = stream] IN
           /\ Shaped(t) /\ t.streams[c] = stream /\ Others(s, t, c)
           /\ t.ready = s.ready
<1> DEFINE t == [s EXCEPT !.streams[c] = stream]
<1>1. /\ t.streams = [s.streams EXCEPT ![c] = stream] /\ t.ready = s.ready
      /\ t \in [streams : {t.streams}, ready : {s.ready}] /\ s.ready \in Seq(Handler)
  BY DEF Shaped
<1> HIDE DEF t
<1>2. s.streams \in [Conns -> Stream]
  BY DEF Shaped
<1>3. t.streams \in [Conns -> Stream]
  BY <1>1, <1>2
<1>4. Shaped(t)
  BY <1>1, <1>3 DEF Shaped
<1>5. t.streams[c] = stream /\ Others(s, t, c)
  BY <1>1, <1>2 DEF Others
<1> QED BY <1>1, <1>4, <1>5 DEF t

\* Another queue.
LEMMA QueueSet ==
    ASSUME NEW s, Shaped(s), NEW ready \in Seq(Handler)
    PROVE  LET t == [s EXCEPT !.ready = ready] IN
           Shaped(t) /\ t.streams = s.streams /\ t.ready = ready
<1> DEFINE t == [s EXCEPT !.ready = ready]
<1>1. t.streams = s.streams /\ t \in [streams : {s.streams}, ready : {ready}]
      /\ t.ready = ready
  BY DEF Shaped
<1> HIDE DEF t
<1>2. s.streams \in [Conns -> Stream]
  BY DEF Shaped
<1>3. Shaped(t)
  BY <1>1, <1>2 DEF Shaped
<1> QED BY <1>1, <1>3 DEF t

-----------------------------------------------------------------------------
(* What keeps ConnInv.                                                      *)

\* A change to a stream that leaves its read in the queue, or out of it.
LEMMA StreamChangeKeeps ==
    ASSUME ConnAssumption, NEW s, ConnInv(s), NEW c \in Conns, NEW t, Shaped(t),
           Others(s, t, c), t.ready = s.ready, StreamOk(t.streams[c]),
           t.streams[c].read = "queued" <=> s.streams[c].read = "queued",
           s.streams[c].read = "queued" =>
              /\ t.streams[c].taken = s.streams[c].taken
              /\ t.streams[c].arrived = s.streams[c].arrived
    PROVE  ConnInv(t)
<1>1. \A d \in Conns :
         /\ StreamOk(t.streams[d])
         /\ t.streams[d].read = "queued" <=> s.streams[d].read = "queued"
         /\ s.streams[d].read = "queued" =>
               /\ t.streams[d].taken = s.streams[d].taken
               /\ t.streams[d].arrived = s.streams[d].arrived
  BY DEF ConnInv, Others
<1>2. ASSUME NEW i \in 1..Len(t.ready), IsRead(t.ready[i])
      PROVE  CompletionOk(t, t.ready[i])
  <2>1. t.ready[i] = s.ready[i] /\ s.ready[i].conn \in Conns
    BY <1>2, HandlerOf DEF ConnInv
  <2>2. CompletionOk(s, s.ready[i])
    BY <1>2, <2>1 DEF ConnInv
  <2> QED BY <1>1, <2>1, <2>2 DEF CompletionOk
<1> QED BY <1>1, <1>2 DEF ConnInv

\* A read that was not in the queue completes.
LEMMA CompletionKeeps ==
    ASSUME ConnAssumption, NEW s, ConnInv(s), NEW c \in Conns, NEW result \in Result,
           NEW t, Shaped(t), Others(s, t, c),
           t.ready = Append(s.ready, [conn |-> c, result |-> result]),
           s.streams[c].read # "queued", t.streams[c].read = "queued",
           StreamOk(t.streams[c]),
           result = "line" => t.streams[c].taken < t.streams[c].arrived
    PROVE  ConnInv(t)
<1> DEFINE handler == [conn |-> c, result |-> result]
           n == Len(s.ready)
<1>1. handler.conn = c /\ handler.result = result /\ IsRead(handler)
  BY DEF IsRead
<1> HIDE DEF handler
<1>2. /\ n \in Nat /\ Len(t.ready) = n + 1 /\ t.ready[n + 1] = handler
      /\ \A i \in 1..n : t.ready[i] = s.ready[i]
  BY AppendProperties, LenProperties DEF ConnInv, Shaped, handler
<1> HIDE DEF n
<1>3. ASSUME NEW i \in 1..n, IsRead(s.ready[i])
      PROVE  /\ s.ready[i].conn \in Conns \ {c}
             /\ CompletionOk(t, s.ready[i])
  <2>1. s.ready[i].conn \in Conns /\ CompletionOk(s, s.ready[i])
    BY <1>3, HandlerOf DEF ConnInv, n
  <2>2. s.ready[i].conn # c
    BY <2>1 DEF CompletionOk
  <2> QED BY <2>1, <2>2 DEF CompletionOk, Others
<1>4. \A d \in Conns : StreamOk(t.streams[d])
  BY DEF ConnInv, Others
<1>5. \A i \in 1..Len(t.ready) : IsRead(t.ready[i]) => CompletionOk(t, t.ready[i])
  <2>1. CompletionOk(t, handler)
    BY <1>1 DEF CompletionOk
  <2>2. \A i \in 1..Len(t.ready) : i = n + 1 \/ i \in 1..n
    BY <1>2
  <2> QED BY <1>2, <1>3, <2>1, <2>2
<1>6. OnePerStream(t.ready)
  <2> SUFFICES ASSUME NEW i \in 1..Len(t.ready), NEW j \in 1..Len(t.ready),
                      IsRead(t.ready[i]), IsRead(t.ready[j]),
                      t.ready[i].conn = t.ready[j].conn
               PROVE  i = j
    BY DEF OnePerStream
  <2>1. (i = n + 1 \/ i \in 1..n) /\ (j = n + 1 \/ j \in 1..n)
    BY <1>2
  <2>2. CASE i \in 1..n /\ j \in 1..n
    BY <1>2, <2>2 DEF ConnInv, OnePerStream, n
  <2>3. CASE i = n + 1 /\ j \in 1..n
    BY <1>1, <1>2, <1>3, <2>3
  <2>4. CASE i \in 1..n /\ j = n + 1
    BY <1>1, <1>2, <1>3, <2>4
  <2> QED BY <2>1, <2>2, <2>3, <2>4
<1>7. ASSUME NEW d \in Conns, t.streams[d].read = "queued"
      PROVE  \E i \in 1..Len(t.ready) : IsRead(t.ready[i]) /\ t.ready[i].conn = d
  <2>1. CASE d = c
    BY <1>1, <1>2, <2>1
  <2>2. CASE d # c
    <3>1. s.streams[d].read = "queued"
      BY <1>7, <2>2 DEF Others
    <3>2. PICK i \in 1..n : IsRead(s.ready[i]) /\ s.ready[i].conn = d
      BY <3>1 DEF ConnInv, n
    <3> QED BY <1>2, <3>2
  <2> QED BY <2>1, <2>2
<1> QED BY <1>4, <1>5, <1>6, <1>7 DEF ConnInv

\* A queue without its head.
LEMMA TailOf ==
    ASSUME NEW s, Shaped(s), s.ready # <<>>
    PROVE  /\ Tail(s.ready) \in Seq(Handler) /\ Head(s.ready) = s.ready[1]
           /\ Len(s.ready) \in Nat \ {0} /\ Len(Tail(s.ready)) = Len(s.ready) - 1
           /\ \A i \in 1..Len(Tail(s.ready)) :
                 i + 1 \in 1..Len(s.ready) /\ Tail(s.ready)[i] = s.ready[i + 1]
           /\ \A i \in 1..Len(s.ready) : i = 1 \/ i - 1 \in 1..Len(Tail(s.ready))
<1>1. /\ Tail(s.ready) \in Seq(Handler) /\ Head(s.ready) = s.ready[1]
      /\ Len(s.ready) \in Nat \ {0} /\ Len(Tail(s.ready)) = Len(s.ready) - 1
      /\ \A i \in 1..Len(Tail(s.ready)) : Tail(s.ready)[i] = s.ready[i + 1]
  BY HeadTailProperties, LenProperties, EmptySeq DEF Shaped
<1> QED BY <1>1

\* The first handler leaves the queue; if it is a read, its stream has none any more.
LEMMA TailKeeps ==
    ASSUME ConnAssumption, NEW s, ConnInv(s), s.ready # <<>>, NEW t, Shaped(t),
           t.ready = Tail(s.ready),
           \A d \in Conns :
              IF IsRead(Head(s.ready)) /\ d = Head(s.ready).conn
              THEN t.streams[d].read = "none" /\ StreamOk(t.streams[d])
              ELSE t.streams[d] = s.streams[d]
    PROVE  ConnInv(t)
<1>0. /\ Len(s.ready) \in Nat \ {0} /\ Head(s.ready) = s.ready[1]
      /\ \A i \in 1..Len(t.ready) : i + 1 \in 1..Len(s.ready) /\ t.ready[i] = s.ready[i + 1]
      /\ \A i \in 1..Len(s.ready) : i = 1 \/ i - 1 \in 1..Len(t.ready)
      /\ 1 \in 1..Len(s.ready) /\ Len(t.ready) \in Nat
  <2>1. Shaped(s)
    BY DEF ConnInv
  <2> QED BY <2>1, TailOf
<1>1. \A d \in Conns : StreamOk(t.streams[d])
  BY DEF ConnInv
<1>2. ASSUME NEW i \in 1..Len(t.ready), IsRead(t.ready[i])
      PROVE  CompletionOk(t, t.ready[i])
  <2>1. i + 1 \in 1..Len(s.ready) /\ t.ready[i] = s.ready[i + 1] /\ i + 1 # 1
    BY <1>0
  <2>2. s.ready[i + 1].conn \in Conns /\ CompletionOk(s, s.ready[i + 1])
    BY <1>2, <2>1, HandlerOf DEF ConnInv
  <2>3. ~(IsRead(Head(s.ready)) /\ s.ready[i + 1].conn = Head(s.ready).conn)
    BY <1>0, <1>2, <2>1 DEF ConnInv, OnePerStream
  <2> QED BY <2>1, <2>2, <2>3 DEF CompletionOk
<1>3. OnePerStream(t.ready)
  <2> SUFFICES ASSUME NEW i \in 1..Len(t.ready), NEW j \in 1..Len(t.ready),
                      IsRead(t.ready[i]), IsRead(t.ready[j]),
                      t.ready[i].conn = t.ready[j].conn
               PROVE  i = j
    BY DEF OnePerStream
  <2>1. /\ i + 1 \in 1..Len(s.ready) /\ t.ready[i] = s.ready[i + 1]
        /\ j + 1 \in 1..Len(s.ready) /\ t.ready[j] = s.ready[j + 1]
    BY <1>0
  <2>2. OnePerStream(s.ready)
    BY DEF ConnInv
  <2>3. i + 1 = j + 1
    BY <2>1, <2>2 DEF OnePerStream
  <2> QED BY <2>3
<1>4. ASSUME NEW d \in Conns, t.streams[d].read = "queued"
      PROVE  \E i \in 1..Len(t.ready) : IsRead(t.ready[i]) /\ t.ready[i].conn = d
  <2>1. s.streams[d].read = "queued" /\ ~(IsRead(Head(s.ready)) /\ d = Head(s.ready).conn)
    BY <1>4
  <2>2. PICK i \in 1..Len(s.ready) : IsRead(s.ready[i]) /\ s.ready[i].conn = d
    BY <2>1 DEF ConnInv
  <2>3. i - 1 \in 1..Len(t.ready) /\ (i - 1) + 1 = i
    BY <1>0, <2>1, <2>2
  <2>4. t.ready[i - 1] = s.ready[i]
    BY <1>0, <2>3
  <2> QED BY <2>2, <2>3, <2>4
<1> QED BY <1>1, <1>2, <1>3, <1>4 DEF ConnInv
-----------------------------------------------------------------------------
(* The operations.                                                          *)

\* The io_context begins with no stream open and nothing queued.
LEMMA InitKeeps ==
    ASSUME ConnAssumption, Init
    PROVE  ConnInv(io) /\ io.ready = <<>>
<1> DEFINE stream == [open |-> FALSE, read |-> "none", arrived |-> 0, taken |-> 0]
<1>1. io = [streams |-> [c \in Conns |-> stream], ready |-> <<>>]
  BY DEF Init
<1>2. stream \in Stream /\ StreamOk(stream) /\ stream.read = "none"
  BY DEF ConnAssumption, Stream, StreamOk
<1> HIDE DEF stream
<1>3. io.ready = <<>> /\ Len(io.ready) = 0
  BY <1>1, EmptySeq
<1>4. Shaped(io) /\ \A c \in Conns : io.streams[c] = stream
  BY <1>1, <1>2, EmptySeq DEF Shaped
<1> QED BY <1>2, <1>3, <1>4 DEF ConnInv, OnePerStream

\* The program posts a handler.
LEMMA PostKeeps ==
    ASSUME ConnAssumption, NEW s, ConnInv(s), NEW handler \in Posted
    PROVE  LET t == Post(s, handler) IN
           /\ ConnInv(t) /\ t.streams = s.streams
           /\ t.ready = Append(s.ready, handler)
<1> DEFINE t == Post(s, handler)
           n == Len(s.ready)
<1>1. Append(s.ready, handler) \in Seq(Handler) /\ Shaped(s)
  BY AppendProperties DEF ConnInv, Shaped, Handler
<1>2. Shaped(t) /\ t.streams = s.streams /\ t.ready = Append(s.ready, handler)
  <2>1. t = [s EXCEPT !.ready = Append(s.ready, handler)]
    BY DEF Post
  <2> HIDE DEF t
  <2> QED BY <1>1, <2>1, QueueSet
<1> HIDE DEF t
<1>3. /\ n \in Nat /\ Len(t.ready) = n + 1 /\ t.ready[n + 1] = handler
      /\ \A i \in 1..n : t.ready[i] = s.ready[i]
  BY <1>2, AppendProperties, LenProperties DEF ConnInv, Shaped, Handler
<1> HIDE DEF n
<1>5. ~IsRead(handler)
  BY DEF ConnAssumption
<1>6. \A i \in 1..Len(t.ready) :
         IsRead(t.ready[i]) => i \in 1..n /\ t.ready[i] = s.ready[i]
  BY <1>3, <1>5
<1>7. \A i \in 1..Len(t.ready) : IsRead(t.ready[i]) => CompletionOk(t, t.ready[i])
  BY <1>2, <1>6 DEF ConnInv, CompletionOk, n
<1>8. OnePerStream(t.ready)
  BY <1>6 DEF ConnInv, OnePerStream, n
<1>9. \A c \in Conns : t.streams[c].read = "queued" =>
         \E i \in 1..Len(t.ready) : IsRead(t.ready[i]) /\ t.ready[i].conn = c
  <2> SUFFICES ASSUME NEW c \in Conns, t.streams[c].read = "queued"
               PROVE  \E i \in 1..Len(t.ready) : IsRead(t.ready[i]) /\ t.ready[i].conn = c
    OBVIOUS
  <2>1. PICK i \in 1..n : IsRead(s.ready[i]) /\ s.ready[i].conn = c
    BY <1>2 DEF ConnInv, n
  <2>2. i \in 1..Len(t.ready) /\ t.ready[i] = s.ready[i]
    BY <1>3
  <2> QED BY <2>1, <2>2
<1>10. ConnInv(t)
  BY <1>2, <1>7, <1>8, <1>9 DEF ConnInv
<1> QED BY <1>2, <1>10 DEF t

\* A posted handler leaves the queue to run.
LEMMA PopKeeps ==
    ASSUME ConnAssumption, NEW s, ConnInv(s), s.ready # <<>>, ~IsRead(Head(s.ready))
    PROVE  LET t == Pop(s) IN
           ConnInv(t) /\ t.streams = s.streams /\ t.ready = Tail(s.ready)
<1> DEFINE t == Pop(s)
<1>1. t = [s EXCEPT !.ready = Tail(s.ready)]
  BY DEF Pop
<1>2. Tail(s.ready) \in Seq(Handler) /\ Shaped(s)
  BY TailOf DEF ConnInv
<1> HIDE DEF t
<1>3. Shaped(t) /\ t.streams = s.streams /\ t.ready = Tail(s.ready)
  BY <1>1, <1>2, QueueSet
<1>4. ConnInv(t)
  BY <1>3, TailKeeps
<1> QED BY <1>3, <1>4 DEF t

\* What Complete does to the parts of a state.
LEMMA CompleteEffect ==
    ASSUME NEW s, Shaped(s), NEW c \in Conns, NEW result \in Result
    PROVE  LET t == Complete(s, c, result) IN
           /\ Shaped(t) /\ Others(s, t, c)
           /\ t.streams[c] = [s.streams[c] EXCEPT !.read = "queued"]
           /\ t.ready = Append(s.ready, [conn |-> c, result |-> result])
<1> DEFINE stream == [s.streams[c] EXCEPT !.read = "queued"]
           handler == [conn |-> c, result |-> result]
           ready == Append(s.ready, handler)
           u == [s EXCEPT !.streams[c] = stream]
<1>1. stream \in Stream
  BY StreamOf DEF Stream
<1>2. [s EXCEPT !.streams[c].read = "queued"] = u
  OBVIOUS
<1>3. handler \in Handler
  BY DEF Handler, Completion
<1> HIDE DEF stream, handler
<1>4. Shaped(u) /\ u.streams[c] = stream /\ Others(s, u, c) /\ u.ready = s.ready
  BY <1>1, StreamSet
<1> HIDE DEF u
<1>5. Complete(s, c, result) = [u EXCEPT !.ready = ready]
  BY <1>2, <1>4 DEF Complete, Post, handler
<1>6. ready \in Seq(Handler)
  BY <1>3, AppendProperties DEF Shaped
<1> HIDE DEF ready
<1>7. LET t == [u EXCEPT !.ready = ready] IN
      Shaped(t) /\ t.streams = u.streams /\ t.ready = ready
  BY <1>4, <1>6, QueueSet
<1>8. LET t == Complete(s, c, result) IN
      Shaped(t) /\ t.streams = u.streams /\ t.ready = ready
  BY <1>5, <1>7
<1> QED BY <1>4, <1>8 DEF stream, ready, handler, Others

\* The port of c is opened.
LEMMA OpenKeeps ==
    ASSUME ConnAssumption, NEW s, ConnInv(s), NEW c \in Conns
    PROVE  LET t == Open(s, c) IN
           /\ ConnInv(t) /\ Others(s, t, c) /\ t.ready = s.ready
           /\ t.streams[c] = [s.streams[c] EXCEPT !.open = TRUE]
<1> DEFINE stream == [s.streams[c] EXCEPT !.open = TRUE]
           t == Open(s, c)
<1>0. Shaped(s) /\ s.streams[c] \in Stream
  BY StreamOf DEF ConnInv
<1>1. /\ stream \in Stream /\ stream.read = s.streams[c].read /\ stream.open
      /\ stream.arrived = s.streams[c].arrived /\ stream.taken = s.streams[c].taken
  BY <1>0 DEF Stream
<1>2. t = [s EXCEPT !.streams[c] = stream]
  BY DEF Open
<1> HIDE DEF stream, t
<1>3. Shaped(t) /\ t.streams[c] = stream /\ Others(s, t, c) /\ t.ready = s.ready
  BY <1>0, <1>1, <1>2, StreamSet
<1>4. StreamOk(t.streams[c])
  BY <1>1, <1>3 DEF ConnInv, StreamOk
<1>5. ConnInv(t)
  BY <1>1, <1>3, <1>4, StreamChangeKeeps
<1> QED BY <1>3, <1>5 DEF stream, t

\* The port of c is closed; a read in progress is cancelled.
LEMMA CloseKeeps ==
    ASSUME ConnAssumption, NEW s, ConnInv(s), NEW c \in Conns
    PROVE  LET t == Close(s, c) IN
           /\ ConnInv(t) /\ Others(s, t, c) /\ ~t.streams[c].open
           /\ t.streams[c].read =
                 IF s.streams[c].read = "pending" THEN "queued" ELSE s.streams[c].read
           /\ t.streams[c].taken = s.streams[c].taken
           /\ QueuesRead(s.ready, t.ready, c, {"aborted"})
           /\ s.streams[c].read # "pending" => t.ready = s.ready
<1> DEFINE stream == [s.streams[c] EXCEPT !.open = FALSE]
           closed == [s EXCEPT !.streams[c] = stream]
<1>0. Shaped(s) /\ s.streams[c] \in Stream
  BY StreamOf DEF ConnInv
<1>1. /\ stream \in Stream /\ stream.read = s.streams[c].read /\ ~stream.open
      /\ stream.arrived = s.streams[c].arrived /\ stream.taken = s.streams[c].taken
  BY <1>0 DEF Stream
<1>2. Close(s, c) = IF s.streams[c].read = "pending"
                    THEN Complete(closed, c, "aborted") ELSE closed
  <2>1. [s EXCEPT !.streams[c].open = FALSE] = closed
    OBVIOUS
  <2> HIDE DEF closed
  <2> QED BY <2>1 DEF Close
<1> HIDE DEF stream
<1>3. Shaped(closed) /\ closed.streams[c] = stream /\ Others(s, closed, c)
      /\ closed.ready = s.ready
  BY <1>0, <1>1, StreamSet
<1> HIDE DEF closed
<1>4. stream.taken <= stream.arrived
  BY <1>1 DEF ConnInv, StreamOk
<1>5. CASE s.streams[c].read # "pending"
  <2>1. StreamOk(closed.streams[c])
    BY <1>1, <1>3, <1>4, <1>5 DEF StreamOk
  <2>2. ConnInv(closed)
    BY <1>1, <1>3, <2>1, StreamChangeKeeps
  <2> QED BY <1>1, <1>2, <1>3, <1>5, <2>2 DEF QueuesRead
<1>6. CASE s.streams[c].read = "pending"
  <2> DEFINE t == Complete(closed, c, "aborted")
  <2>1. /\ Shaped(t) /\ Others(closed, t, c)
        /\ t.streams[c] = [stream EXCEPT !.read = "queued"]
        /\ t.ready = Append(s.ready, [conn |-> c, result |-> "aborted"])
    <3>1. "aborted" \in Result
      BY DEF Result
    <3> QED BY <1>3, <3>1, CompleteEffect
  <2> HIDE DEF t
  <2>2. /\ t.streams[c].read = "queued" /\ ~t.streams[c].open
        /\ t.streams[c].taken = stream.taken /\ t.streams[c].arrived = stream.arrived
    BY <1>1, <2>1 DEF Stream
  <2>3. StreamOk(t.streams[c])
    BY <1>4, <2>2 DEF StreamOk
  <2>4. Others(s, t, c)
    BY <1>3, <2>1 DEF Others
  <2>5. ConnInv(t)
    BY <1>6, <2>1, <2>2, <2>3, <2>4, CompletionKeeps DEF Result
  <2> QED BY <1>1, <1>2, <1>6, <2>1, <2>2, <2>4, <2>5 DEF QueuesRead, t
<1> QED BY <1>5, <1>6

\* asyncReadLine() of a stream that has no read.
LEMMA ReadKeeps ==
    ASSUME ConnAssumption, NEW s, ConnInv(s), NEW c \in Conns, s.streams[c].read = "none",
           NEW t \in Read(s, c)
    PROVE  /\ ConnInv(t) /\ Others(s, t, c)
           /\ t.streams[c].open = s.streams[c].open
           /\ t.streams[c].read # "none"
           /\ t.streams[c].taken = s.streams[c].taken
           /\ QueuesRead(s.ready, t.ready, c, {"line", "badfd"})
<1>0. Shaped(s) /\ s.streams[c] \in Stream
      /\ s.streams[c].taken <= s.streams[c].arrived
  BY StreamOf DEF ConnInv, StreamOk
<1>1. CASE AtOnce(s.streams[c]) = {}
  <2> DEFINE stream == [s.streams[c] EXCEPT !.read = "pending"]
  <2>1. t = [s EXCEPT !.streams[c] = stream]
    BY <1>1 DEF Read
  <2>2. s.streams[c].open
    BY <1>1 DEF AtOnce
  <2>3. /\ stream \in Stream /\ stream.read = "pending" /\ stream.open
        /\ stream.arrived = s.streams[c].arrived /\ stream.taken = s.streams[c].taken
    BY <1>0, <2>2 DEF Stream
  <2> HIDE DEF stream
  <2>4. Shaped(t) /\ t.streams[c] = stream /\ Others(s, t, c) /\ t.ready = s.ready
    BY <1>0, <2>1, <2>3, StreamSet
  <2>5. StreamOk(t.streams[c])
    BY <1>0, <2>3, <2>4 DEF StreamOk
  <2>6. ConnInv(t)
    BY <2>3, <2>4, <2>5, StreamChangeKeeps
  <2> QED BY <2>2, <2>3, <2>4, <2>6 DEF QueuesRead
<1>2. CASE AtOnce(s.streams[c]) # {}
  <2>1. PICK result \in AtOnce(s.streams[c]) : t = Complete(s, c, result)
    BY <1>2 DEF Read
  <2>2. /\ result \in {"line", "badfd"} /\ result \in Result
        /\ result = "line" => s.streams[c].arrived > s.streams[c].taken
    BY <2>1 DEF AtOnce, Result
  <2>3. /\ Shaped(t) /\ Others(s, t, c)
        /\ t.streams[c] = [s.streams[c] EXCEPT !.read = "queued"]
        /\ t.ready = Append(s.ready, [conn |-> c, result |-> result])
    BY <1>0, <2>1, <2>2, CompleteEffect
  <2>4. /\ t.streams[c].read = "queued" /\ t.streams[c].open = s.streams[c].open
        /\ t.streams[c].taken = s.streams[c].taken
        /\ t.streams[c].arrived = s.streams[c].arrived
    BY <1>0, <2>3 DEF Stream
  <2>5. StreamOk(t.streams[c])
    BY <1>0, <2>4 DEF StreamOk
  <2>6. result = "line" => t.streams[c].taken < t.streams[c].arrived
    BY <1>0, <2>2, <2>4 DEF Stream
  <2>7. ConnInv(t)
    BY <2>2, <2>3, <2>4, <2>5, <2>6, CompletionKeeps
  <2>8. QueuesRead(s.ready, t.ready, c, {"line", "badfd"})
    BY <2>2, <2>3 DEF QueuesRead
  <2> QED BY <2>3, <2>4, <2>7, <2>8
<1> QED BY <1>1, <1>2

\* The first part of the handler of a read.
LEMMA BeginHandlerKeeps ==
    ASSUME ConnAssumption, NEW s, ConnInv(s), s.ready # <<>>, IsRead(Head(s.ready))
    PROVE  LET t == BeginHandler(s)
               done == Head(s.ready)
               c == done.conn IN
           /\ ConnInv(t) /\ Others(s, t, c) /\ t.ready = Tail(s.ready)
           /\ done \in Completion /\ c \in Conns /\ s.streams[c].read = "queued"
           /\ t.streams[c].open = s.streams[c].open
           /\ t.streams[c].read = "none"
           /\ t.streams[c].taken = IF done.result = "line" THEN s.streams[c].taken + 1
                                   ELSE s.streams[c].taken
           /\ t.streams[c].taken \in 0..MaxLines
<1> DEFINE done == Head(s.ready)
           c == done.conn
           u == [s EXCEPT !.ready = Tail(s.ready)]
           old == s.streams[c]
           taken == IF done.result = "line" THEN old.taken + 1 ELSE old.taken
           stream == [old EXCEPT !.read = "none", !.taken = taken]
           t == BeginHandler(s)
<1>0. Shaped(s) /\ Tail(s.ready) \in Seq(Handler)
      /\ done = s.ready[1] /\ 1 \in 1..Len(s.ready)
  BY TailOf DEF ConnInv
<1>1. done \in Completion /\ c \in Conns
  BY <1>0, HandlerOf, CompletionOf
<1>2. CompletionOk(s, done)
  BY <1>0 DEF ConnInv
<1>3. Shaped(u) /\ u.streams = s.streams /\ u.ready = Tail(s.ready)
  BY <1>0, QueueSet
<1>4. t = [u EXCEPT !.streams[c] = stream]
  <2>1. Pop(s) = u /\ u.streams[c] = old
    BY <1>3 DEF Pop
  <2> HIDE DEF u
  <2> QED BY <2>1 DEF BeginHandler
<1> HIDE DEF done, t, u
<1>5. old \in Stream /\ StreamOk(old) /\ old.read = "queued"
  BY <1>0, <1>1, <1>2, StreamOf DEF ConnInv, CompletionOk
<1>6. taken \in 0..MaxLines /\ taken <= old.arrived
  <2>1. done.result = "line" => old.taken < old.arrived
    BY <1>2 DEF CompletionOk
  <2>2. old.taken \in 0..MaxLines /\ old.arrived \in 0..MaxLines /\ old.taken <= old.arrived
    BY <1>5 DEF Stream, StreamOk
  <2> HIDE DEF old, done
  <2> QED BY <2>1, <2>2 DEF ConnAssumption
<1> HIDE DEF taken, old
<1>7. /\ stream \in Stream /\ stream.read = "none" /\ stream.open = old.open
      /\ stream.arrived = old.arrived /\ stream.taken = taken
  BY <1>5, <1>6 DEF Stream
<1> HIDE DEF stream, c
<1>8. Shaped(t) /\ t.streams[c] = stream /\ Others(u, t, c) /\ t.ready = u.ready
  BY <1>1, <1>3, <1>4, <1>7, StreamSet
<1>9. Others(s, t, c) /\ t.ready = Tail(s.ready)
  BY <1>3, <1>8 DEF Others
<1>10. StreamOk(t.streams[c])
  BY <1>6, <1>7, <1>8 DEF StreamOk
<1>11. ConnInv(t)
  <2>1. ASSUME NEW d \in Conns
        PROVE  IF IsRead(Head(s.ready)) /\ d = Head(s.ready).conn
               THEN t.streams[d].read = "none" /\ StreamOk(t.streams[d])
               ELSE t.streams[d] = s.streams[d]
    BY <1>7, <1>8, <1>9, <1>10 DEF Others, c, done
  <2> QED BY <1>8, <1>9, <2>1, TailKeeps
<1> QED BY <1>1, <1>5, <1>6, <1>7, <1>8, <1>9, <1>11 DEF t, c, done, old, taken

\* Lines arrive for a read that waits, or it fails.
LEMMA DeviceKeeps ==
    ASSUME ConnAssumption, ConnInv(io), NEW c \in Conns, LinesArrive(c) \/ ReadFails(c)
    PROVE  /\ ConnInv(io') /\ Others(io, io', c)
           /\ io.streams[c].read = "pending" /\ io'.streams[c].read = "queued"
           /\ io'.streams[c].open = io.streams[c].open
           /\ io'.streams[c].taken = io.streams[c].taken
           /\ QueuesRead(io.ready, io'.ready, c, {"line", "fail"})
<1>0. Shaped(io) /\ io.streams[c] \in Stream
      /\ StreamOk(io.streams[c]) /\ io.streams[c].read = "pending"
  BY StreamOf DEF ConnInv, LinesArrive, ReadFails
<1>1. PICK total \in 0..MaxLines, result \in {"line", "fail"} :
         /\ io' = Complete([io EXCEPT !.streams[c].arrived = total], c, result)
         /\ total >= io.streams[c].arrived
         /\ result = "line" => total > io.streams[c].arrived
  <2>1. io.streams[c].arrived \in 0..MaxLines
    BY <1>0 DEF Stream
  <2>2. CASE LinesArrive(c)
    <3>1. PICK total \in io.streams[c].arrived + 1 .. MaxLines :
             io' = Complete([io EXCEPT !.streams[c].arrived = total], c, "line")
      BY <2>2 DEF LinesArrive
    <3>2. total \in 0..MaxLines /\ total > io.streams[c].arrived
      BY <2>1, <3>1
    <3> QED BY <2>1, <3>1, <3>2
  <2>3. CASE ReadFails(c)
    <3> DEFINE n == io.streams[c].arrived
    <3>1. [io EXCEPT !.streams[c].arrived = n] = io
      <4>1. [io.streams[c] EXCEPT !.arrived = n] = io.streams[c]
        BY <1>0 DEF Stream
      <4>2. [io.streams EXCEPT ![c] = io.streams[c]] = io.streams
        BY <1>0 DEF Shaped
      <4>3. [io EXCEPT !.streams = io.streams] = io
        BY <1>0 DEF Shaped
      <4> QED BY <4>1, <4>2, <4>3
    <3>2. io' = Complete([io EXCEPT !.streams[c].arrived = n], c, "fail")
      BY <2>3, <3>1 DEF ReadFails
    <3> QED BY <2>1, <3>2
  <2> QED BY <2>2, <2>3
<1> DEFINE stream == [io.streams[c] EXCEPT !.arrived = total]
           s == [io EXCEPT !.streams[c] = stream]
<1>2. /\ stream \in Stream /\ stream.open = io.streams[c].open /\ stream.open
      /\ stream.arrived = total /\ stream.taken = io.streams[c].taken
      /\ stream.taken <= io.streams[c].arrived
      /\ stream.taken \in 0..MaxLines /\ io.streams[c].arrived \in 0..MaxLines
  BY <1>0 DEF Stream, StreamOk
<1>3. [io EXCEPT !.streams[c].arrived = total] = s
  OBVIOUS
<1> HIDE DEF stream
<1>4. Shaped(s) /\ s.streams[c] = stream /\ Others(io, s, c) /\ s.ready = io.ready
  BY <1>0, <1>2, StreamSet
<1> HIDE DEF s
<1>5. /\ Shaped(io') /\ Others(s, io', c)
      /\ io'.streams[c] = [stream EXCEPT !.read = "queued"]
      /\ io'.ready = Append(io.ready, [conn |-> c, result |-> result])
  <2>1. result \in Result /\ io' = Complete(s, c, result)
    BY <1>1, <1>3 DEF Result
  <2> QED BY <1>4, <2>1, CompleteEffect
<1>6. /\ io'.streams[c].read = "queued" /\ io'.streams[c].open = io.streams[c].open
      /\ io'.streams[c].taken = io.streams[c].taken /\ io'.streams[c].arrived = total
  BY <1>2, <1>5 DEF Stream
<1>7. /\ StreamOk(io'.streams[c])
      /\ result = "line" => io'.streams[c].taken < io'.streams[c].arrived
  BY <1>1, <1>2, <1>6 DEF StreamOk
<1>8. Others(io, io', c)
  BY <1>4, <1>5 DEF Others
<1>9. ConnInv(io')
  BY <1>0, <1>5, <1>6, <1>7, <1>8, CompletionKeeps DEF Result
<1>10. QueuesRead(io.ready, io'.ready, c, {"line", "fail"})
  BY <1>5 DEF QueuesRead
<1> QED BY <1>0, <1>6, <1>8, <1>9, <1>10

\* ConnInv is what the module promises of io: its type, and one read per stream.
LEMMA ConnInvImplies ==
    ASSUME ConnAssumption, ConnInv(io)
    PROVE  TypeOK /\ OneReadPerStream
<1>1. TypeOK
  BY DEF ConnInv, Shaped, TypeOK, Handler
<1>2. ASSUME NEW c \in Conns
      PROVE  LET queued == {i \in 1..Len(io.ready) : /\ "conn" \in DOMAIN io.ready[i]
                                                      /\ io.ready[i].conn = c} IN
             /\ \A i, j \in queued : i = j
             /\ io.streams[c].read = "queued" <=> queued # {}
  BY <1>2 DEF ConnInv, OnePerStream, CompletionOk, IsRead
<1> QED BY <1>1, <1>2 DEF OneReadPerStream
=============================================================================
