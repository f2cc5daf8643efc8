----------------------------- MODULE Connection ------------------------------
(***************************************************************************)
(* netlib::core::Connection over an AsioSerialTextStream, as the thread    *)
(* that runs the io_context sees them: the streams, and the FIFO of        *)
(* handlers that are ready to run, where reads complete and other threads  *)
(* post().  No lock is involved: only the io_context's thread runs         *)
(* handlers, one after the other, so an operation here is an operator from *)
(* one state of the pair to the next and its callers combine several.      *)
(*                                                                         *)
(* A stream reads lines.  Its bytes are counted in lines: `arrived' have   *)
(* come out of the port, `taken' of them were handed to the connection,    *)
(* and m_streamBuffer holds the rest.                                      *)
(***************************************************************************)
EXTENDS Integers, Sequences

CONSTANTS Conns,     \* the connections the factory may create
          Posted,    \* the handlers that the program posts
          MaxLines   \* bound: lines that arrive on one port

VARIABLE io          \* [streams, ready]

Result == {"line", "fail", "badfd", "aborted"}
Stream == [open : BOOLEAN, read : {"none", "pending", "queued"},
           arrived : 0..MaxLines, taken : 0..MaxLines]

\* A completed read in the queue of handlers.
Completion == [conn : Conns, result : Result]

TypeOK == io \in [streams : [Conns -> Stream], ready : Seq(Completion \cup Posted)]

Init == io = [streams |-> [c \in Conns |-> [open |-> FALSE, read |-> "none",
                                            arrived |-> 0, taken |-> 0]],
              ready |-> <<>>]

-----------------------------------------------------------------------------
Post(s, handler) == [s EXCEPT !.ready = Append(@, handler)]
Pop(s) == [s EXCEPT !.ready = Tail(@)]

\* The read of c completes; its handler is queued with a result that nothing
\* that happens before it runs can change.
Complete(s, c, result) ==
    Post([s EXCEPT !.streams[c].read = "queued"], [conn |-> c, result |-> result])

Open(s, c) == [s EXCEPT !.streams[c].open = TRUE]

\* AsioSerialTextStream::close(): a read in progress ends with operation_aborted.
\* Mutant: closes the port without cancelling.
CloseWithoutCancel(s, c) == [s EXCEPT !.streams[c].open = FALSE]

Close(s, c) ==
    LET closed == [s EXCEPT !.streams[c].open = FALSE] IN
    IF s.streams[c].read = "pending" THEN Complete(closed, c, "aborted") ELSE closed

\* What asyncReadLine() completes with at once.  A line that the buffer holds needs
\* no I/O; on a closed port only POSIX still returns it, Windows fails.
AtOnce(stream) ==
    IF stream.arrived > stream.taken
    THEN IF stream.open THEN {"line"} ELSE {"line", "badfd"}
    ELSE IF stream.open THEN {} ELSE {"badfd"}

\* asyncReadLine(): the states it may lead to.
Read(s, c) ==
    IF AtOnce(s.streams[c]) = {} THEN {[s EXCEPT !.streams[c].read = "pending"]}
    ELSE {Complete(s, c, result) : result \in AtOnce(s.streams[c])}

isConnected(s, c) == s.streams[c].open

\* connectToClient() starts the first read, disconnect() closes; neither does
\* anything to a closed connection.
connectToClient(s, c) == IF isConnected(s, c) THEN Read(s, c) ELSE {s}
disconnect(s, c) == IF isConnected(s, c) THEN Close(s, c) ELSE s

\* The handler of _readBody(), first part: the completion leaves the queue, and a
\* line the buffer.  For a line, push_back() to m_qMessagesIn and _readBody() follow;
\* for an error, the error handler and close().
\* Mutant: takes a line out of the buffer whatever the result.
BeginHandlerAlwaysTakes(s) ==
    LET c == Head(s.ready).conn IN
    [Pop(s) EXCEPT !.streams[c].read = "none", !.streams[c].taken = @ + 1]

BeginHandler(s) ==
    LET done == Head(s.ready)
        c == done.conn IN
    [Pop(s) EXCEPT !.streams[c].read = "none",
                   !.streams[c].taken = IF done.result = "line" THEN @ + 1 ELSE @]

-----------------------------------------------------------------------------
(* The device.                                                             *)

\* One or more lines arrive while a read waits for one.
LinesArrive(c) ==
    /\ io.streams[c].read = "pending"
    /\ \E total \in io.streams[c].arrived + 1 .. MaxLines :
          io' = Complete([io EXCEPT !.streams[c].arrived = total], c, "line")

\* The read fails: the device was unplugged, or end of file.
ReadFails(c) ==
    /\ io.streams[c].read = "pending"
    /\ io' = Complete(io, c, "fail")

-----------------------------------------------------------------------------
\* No two reads of one stream are ever outstanding: they would share m_streamBuffer.
OneReadPerStream ==
    \A c \in Conns :
        LET queued == {i \in 1..Len(io.ready) : /\ "conn" \in DOMAIN io.ready[i]
                                                /\ io.ready[i].conn = c} IN
        /\ \A i, j \in queued : i = j
        /\ io.streams[c].read = "queued" <=> queued # {}
=============================================================================
