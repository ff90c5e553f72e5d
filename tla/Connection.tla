----------------------------- MODULE Connection -----------------------------
(***************************************************************************)
(* detail::Connection (src/connection.cpp): one FastCGI connection of the  *)
(* server, from the moment the listener started its first read.  The       *)
(* module models the read loop, the two write buffers, the deferred        *)
(* disconnect and close(), together with the asio operations they start    *)
(* and the fcgi::Responder the class derives from (both external).         *)
(*                                                                         *)
(* An asio operation completes in two stages: the result is decided        *)
(* ("data", "eof", "ok", "error", ...) and the handler is queued; later    *)
(* the io thread runs the handler.  Closing the socket aborts only the     *)
(* operations whose result is still open.  The handlers of a connection    *)
(* all run on the thread of its io_context, so each is one action.         *)
(***************************************************************************)
EXTENDS Integers, Sequences

CONSTANTS
    Byte,      \* the bytes a response is made of
    Record,    \* the encoded FastCGI records: non-empty strings of bytes
    MaxReads   \* bound: how many times the peer makes the socket readable

ASSUME RecordAssumption == Record \subseteq Seq(Byte) \ {<<>>}
ASSUME MaxReadsAssumption == MaxReads \in Nat

VARIABLES
    conn,      \* the members of the Connection and its two asio operations
    awaiting,  \* the current request has a response that is not sent yet
    peer,      \* "up", or "down" once the web server dropped the connection
    reads,     \* how many reads the peer has satisfied
    accepted,  \* history: every byte given to sendData() on an open socket
    wire,      \* history: the bytes that left for the peer
    closedBy   \* history: what closed the socket first, "nothing" before

vars == <<conn, awaiting, peer, reads, accepted, wire, closedBy>>

ReadStates == {"none", "pending", "data", "eof", "badfd", "aborted"}
WriteStates == {"none", "pending", "ok", "error"}

ConnectionType ==
    [ isOpen              : BOOLEAN,      \* socket_.is_open()
      reading             : ReadStates,   \* the async_read_some of process()
      writing             : WriteStates,  \* the async_write of sendData()
      writeSize           : Nat,          \* size asio::buffer() captured
      written             : Nat,          \* bytes of it already transferred
      writeBuffer         : Seq(Byte),
      nextWriteBuffer     : Seq(Byte),
      bytesToWrite        : Nat,
      disconnectRequested : BOOLEAN ]

(***************************************************************************)
(* The methods of the class, as functions of its state.                    *)
(***************************************************************************)

\* Mutant: a closed socket is read from as if it were open.
ProcessBlindly(c) == [c EXCEPT !.reading = "pending"]

\* process(): a read on a closed socket completes with bad_descriptor.
Process(c) ==
    [c EXCEPT !.reading = IF c.isOpen THEN "pending" ELSE "badfd"]

\* Mutant: the buffer is replaced although a write is under way.
SendDataUnguarded(c, data) ==
    [c EXCEPT !.writeBuffer = data,
              !.bytesToWrite = @ + Len(data),
              !.writeSize = Len(data),
              !.written = 0,
              !.writing = IF c.isOpen THEN "pending" ELSE "error"]

\* Mutant: += became =, so what already waited is lost.
SendDataOverwriting(c, data) ==
    IF c.bytesToWrite > 0
    THEN [c EXCEPT !.nextWriteBuffer = data]
    ELSE LET buffer == c.nextWriteBuffer \o data
         IN  [c EXCEPT !.writeBuffer = buffer,
                       !.nextWriteBuffer = <<>>,
                       !.bytesToWrite = @ + Len(buffer),
                       !.writeSize = Len(buffer),
                       !.written = 0,
                       !.writing = IF c.isOpen THEN "pending" ELSE "error"]

\* sendData(): one async_write at a time, the rest waits in nextWriteBuffer_.
\* The operation refers to writeBuffer_, it has no copy of it.
SendData(c, data) ==
    IF c.bytesToWrite > 0
    THEN [c EXCEPT !.nextWriteBuffer = @ \o data]
    ELSE LET buffer == c.nextWriteBuffer \o data
         IN  [c EXCEPT !.writeBuffer = buffer,
                       !.nextWriteBuffer = <<>>,
                       !.bytesToWrite = @ + Len(buffer),
                       !.writeSize = Len(buffer),
                       !.written = 0,
                       !.writing = IF c.isOpen THEN "pending" ELSE "error"]

\* close(): shutdown and close the socket; pending operations are aborted.
Close(c) ==
    [c EXCEPT !.isOpen = FALSE,
              !.reading = IF @ = "pending" THEN "aborted" ELSE @,
              !.writing = IF @ = "pending" THEN "error" ELSE @,
              !.disconnectRequested = FALSE]

\* Mutant: closes without waiting for the pending writes.
DisconnectAtOnce(c) == Close([c EXCEPT !.disconnectRequested = TRUE])

\* disconnect(): closes now, or leaves it to the end of the pending writes.
Disconnect(c) ==
    LET requested == [c EXCEPT !.disconnectRequested = TRUE]
    IN  IF c.bytesToWrite > 0 THEN requested ELSE Close(requested)

\* Mutant: a deferred disconnect is looked for only after a flush.
OnBytesWrittenForgetful(c, numOfBytes) ==
    LET rest == [c EXCEPT !.bytesToWrite = @ - numOfBytes]
    IN  IF rest.bytesToWrite = 0 /\ rest.nextWriteBuffer # <<>>
        THEN SendData(rest, <<>>)
        ELSE rest

\* Mutant: nothing flushes nextWriteBuffer_.
OnBytesWrittenNoFlush(c, numOfBytes) ==
    LET rest == [c EXCEPT !.bytesToWrite = @ - numOfBytes]
    IN  IF rest.bytesToWrite = 0 /\ rest.disconnectRequested
        THEN Close(rest)
        ELSE rest

\* onBytesWritten(): flush what waited meanwhile, or do a deferred disconnect.
OnBytesWritten(c, numOfBytes) ==
    LET rest == [c EXCEPT !.bytesToWrite = @ - numOfBytes]
    IN  IF rest.bytesToWrite > 0 THEN rest
        ELSE IF rest.nextWriteBuffer # <<>> THEN SendData(rest, <<>>)
        ELSE IF rest.disconnectRequested THEN Close(rest)
        ELSE rest

\* fcgi::Response::send() (external): the output and the end-of-request
\* record are sent, then the connection ends unless the peer asked to keep it.
SendResponse(c, output, end, keepConnection) ==
    LET sent == SendData(SendData(c, output), end)
    IN  IF keepConnection THEN sent ELSE Disconnect(sent)

\* The object lives as long as a handler that captured `self`.
Alive(c) == c.reading # "none" \/ c.writing # "none"

-----------------------------------------------------------------------------

\* ConnectionListener::onConnected() called process() on the new connection.
Init ==
    /\ conn = Process([ isOpen |-> TRUE, reading |-> "none", writing |-> "none",
                        writeSize |-> 0, written |-> 0,
                        writeBuffer |-> <<>>, nextWriteBuffer |-> <<>>,
                        bytesToWrite |-> 0, disconnectRequested |-> FALSE ])
    /\ awaiting = FALSE
    /\ peer = "up"
    /\ reads = 0
    /\ accepted = <<>>
    /\ wire = <<>>
    /\ closedBy = "nothing"

\* The histories after a handler that gave data to sendData().
Accepts(data) ==
    accepted' = IF conn.isOpen THEN accepted \o data ELSE accepted

ClosedFor(reason) ==
    closedBy' = IF conn.isOpen /\ ~conn'.isOpen THEN reason ELSE closedBy

(***************************************************************************)
(* The peer and the operating system (external).                           *)
(***************************************************************************)
PeerSends ==
    /\ peer = "up"
    /\ reads < MaxReads
    /\ conn.reading = "pending"
    /\ conn' = [conn EXCEPT !.reading = "data"]
    /\ reads' = reads + 1
    /\ UNCHANGED <<awaiting, peer, accepted, wire, closedBy>>

PeerDrops ==
    /\ peer = "up"
    /\ peer' = "down"
    /\ UNCHANGED <<conn, awaiting, reads, accepted, wire, closedBy>>

ReadFails ==
    /\ peer = "down"
    /\ conn.reading = "pending"
    /\ conn' = [conn EXCEPT !.reading = "eof"]
    /\ UNCHANGED <<awaiting, peer, reads, accepted, wire, closedBy>>

\* async_write transfers from writeBuffer_ as the socket takes the bytes.
Transfer ==
    /\ conn.writing = "pending"
    /\ wire' = Append(wire, conn.writeBuffer[conn.written + 1])
    /\ conn' = [conn EXCEPT !.written = @ + 1,
                            !.writing = IF conn.written + 1 = conn.writeSize
                                        THEN "ok" ELSE "pending"]
    /\ UNCHANGED <<awaiting, peer, reads, accepted, closedBy>>

WriteFails ==
    /\ peer = "down"
    /\ conn.writing = "pending"
    /\ conn' = [conn EXCEPT !.writing = "error"]
    /\ UNCHANGED <<awaiting, peer, reads, accepted, wire, closedBy>>

(***************************************************************************)
(* The handlers.  A readable socket feeds fcgi::Responder::receiveData();  *)
(* what it calls back depends on the bytes: each case is an action, and    *)
(* every one ends with process().                                          *)
(***************************************************************************)
ReadData(handled) ==
    /\ conn.reading = "data"
    /\ conn' = Process(handled)
    /\ UNCHANGED <<peer, reads, wire>>

\* An incomplete record.
ReadIncomplete ==
    /\ ReadData(conn)
    /\ UNCHANGED <<awaiting, accepted, closedBy>>

\* A management record, answered at once; no request is involved.
ReadManagement(reply) ==
    /\ ReadData(SendData(conn, reply))
    /\ Accepts(reply)
    /\ UNCHANGED <<awaiting, closedBy>>

\* processRequest() with a processor that answers later: responseContext_ and
\* responseSender_ now belong to this request.
ReadRequest ==
    /\ ReadData(conn)
    /\ awaiting' = TRUE
    /\ UNCHANGED <<accepted, closedBy>>

\* processRequest() with a processor that answers, or throws and gets a 500.
ReadRequestAndRespond(output, end, keepConnection) ==
    /\ ReadData(SendResponse(conn, output, end, keepConnection))
    /\ awaiting' = FALSE
    /\ Accepts(output \o end)
    /\ ClosedFor("disconnect")

\* The protocol engine gives the connection up without a word.
ReadHangup ==
    /\ ReadData(Disconnect(conn))
    /\ ClosedFor("disconnect")
    /\ UNCHANGED <<awaiting, accepted>>

\* Mutant: the error is reported but the socket stays open.
ReadErrorWithoutClose ==
    /\ conn.reading \in {"eof", "badfd", "aborted"}
    /\ conn' = [conn EXCEPT !.reading = "none"]
    /\ UNCHANGED <<awaiting, peer, reads, accepted, wire, closedBy>>

\* process()'s handler with an error: operation_aborted is not reported.
ReadError ==
    /\ conn.reading \in {"eof", "badfd", "aborted"}
    /\ LET done == [conn EXCEPT !.reading = "none"]
       IN  conn' = IF conn.reading = "aborted" THEN done ELSE Close(done)
    /\ ClosedFor("error")
    /\ UNCHANGED <<awaiting, peer, reads, accepted, wire>>

\* sendData()'s handler.
WriteDone ==
    /\ conn.writing = "ok"
    /\ conn' = OnBytesWritten([conn EXCEPT !.writing = "none"], conn.writeSize)
    /\ ClosedFor("disconnect")
    /\ UNCHANGED <<awaiting, peer, reads, accepted, wire>>

WriteError ==
    /\ conn.writing = "error"
    /\ conn' = Close([conn EXCEPT !.writing = "none"])
    /\ ClosedFor("error")
    /\ UNCHANGED <<awaiting, peer, reads, accepted, wire>>

\* A timer, client or dispatcher callback sends the awaited response; the
\* response context can be locked only while the connection owns it.
RespondLater(output, end, keepConnection) ==
    /\ awaiting
    /\ Alive(conn)
    /\ conn' = SendResponse(conn, output, end, keepConnection)
    /\ awaiting' = FALSE
    /\ Accepts(output \o end)
    /\ ClosedFor("disconnect")
    /\ UNCHANGED <<peer, reads, wire>>

-----------------------------------------------------------------------------

Environment == PeerSends \/ PeerDrops \/ ReadFails \/ Transfer \/ WriteFails

ReadHandler ==
    \/ ReadIncomplete
    \/ \E reply \in Record : ReadManagement(reply)
    \/ ReadRequest
    \/ \E output, end \in Record, keepConnection \in BOOLEAN :
            ReadRequestAndRespond(output, end, keepConnection)
    \/ ReadHangup
    \/ ReadError

WriteHandler == WriteDone \/ WriteError

Responding ==
    \E output, end \in Record, keepConnection \in BOOLEAN :
        RespondLater(output, end, keepConnection)

Next == Environment \/ ReadHandler \/ WriteHandler \/ Responding

Spec == Init /\ [][Next]_vars

\* The io thread runs queued handlers, the peer drains what is written to it
\* (or is down, and the write fails).
Fairness ==
    /\ WF_vars(ReadHandler)
    /\ WF_vars(WriteHandler)
    /\ WF_vars(Transfer \/ WriteFails)

FairSpec == Spec /\ Fairness

-----------------------------------------------------------------------------
(***************************************************************************)
(* Properties.                                                             *)
(***************************************************************************)

\* The members of the connection and the histories have their types.
TypeOK ==
    /\ conn \in ConnectionType
    /\ awaiting \in BOOLEAN
    /\ peer \in {"up", "down"}
    /\ reads \in Nat
    /\ accepted \in Seq(Byte)
    /\ wire \in Seq(Byte)
    /\ closedBy \in {"nothing", "disconnect", "error"}

\* bytesToWrite_ counts exactly the buffer of the write under way, so that
\* onBytesWritten() never subtracts more than is there (a size_t would wrap),
\* and on an open socket nothing is counted without a write under way.
WriteAccounting ==
    /\ conn.writing # "none" =>
            /\ conn.bytesToWrite = Len(conn.writeBuffer)
            /\ conn.writeSize = Len(conn.writeBuffer)
            /\ conn.written <= conn.writeSize
    /\ conn.writing = "ok" => conn.written = conn.writeSize
    /\ conn.writing = "none" /\ conn.isOpen => conn.bytesToWrite = 0

\* Something that waits for the end of a write has a write to wait for: on an
\* open socket neither bytes in nextWriteBuffer_ nor a deferred disconnect are
\* left behind without a handler that will look at them.
NothingStranded ==
    conn.isOpen /\ (conn.nextWriteBuffer # <<>> \/ conn.disconnectRequested)
        => conn.writing # "none"

\* The read loop never stops on an open socket, or the end of the connection
\* would go unnoticed.
ReadLoopArmed == conn.isOpen => conn.reading # "none"

\* The bytes still owed to the peer, in their order.
Unsent(c) ==
    IF c.writing = "none"
    THEN c.nextWriteBuffer
    ELSE SubSeq(c.writeBuffer, c.written + 1, Len(c.writeBuffer))
            \o c.nextWriteBuffer

\* While the socket is open, what left and what is buffered make up exactly
\* what was given to sendData(): nothing lost, repeated or reordered.
NoByteLost == conn.isOpen => accepted = wire \o Unsent(conn)

\* asio reads from writeBuffer_ until the write is decided: no method may
\* touch it before.
BufferUntouched ==
    [][conn.writing = "pending" => conn'.writeBuffer = conn.writeBuffer]_vars

\* The connection implements the response stream: a disconnect closes the
\* socket only when every byte has left.
Status ==
    IF conn.isOpen THEN "open"
    ELSE IF closedBy = "disconnect" THEN "finished"
    ELSE "broken"

Stream == INSTANCE ResponseStream WITH status <- Status

StreamSpec == Stream!Spec

\* A requested disconnect is carried out once the writes have ended.
DisconnectCompletes == conn.disconnectRequested ~> ~conn.isOpen

\* What is given to sendData() leaves, unless the socket is closed first.
EveryByteDelivered ==
    (conn.isOpen /\ Len(wire) < Len(accepted)) ~> (wire = accepted \/ ~conn.isOpen)

\* A closed connection lets go of itself: no handler keeps it for ever.
ConnectionReleased == ~conn.isOpen ~> [](~Alive(conn))

-----------------------------------------------------------------------------
(***************************************************************************)
(* The inductive invariant behind the safety properties.  Buffered holds   *)
(* of the buffers whatever the state of the socket; Settled adds what a    *)
(* handler that leaves the socket open has to restore.                     *)
(***************************************************************************)
Buffered(c) ==
    /\ c.writing # "none" =>
            /\ c.bytesToWrite = Len(c.writeBuffer)
            /\ c.writeSize = Len(c.writeBuffer)
            /\ c.written <= c.writeSize
            /\ c.bytesToWrite > 0
    /\ c.writing = "pending" => c.isOpen /\ c.written < c.writeSize
    /\ c.writing = "ok" => c.written = c.writeSize
    /\ c.bytesToWrite = 0 => c.nextWriteBuffer = <<>>

Settled(c) ==
    c.isOpen =>
        /\ c.writing = "none" => c.bytesToWrite = 0
        /\ c.disconnectRequested => c.bytesToWrite > 0

\* Every byte is accounted for, and every wait has something to wait for.
IInv ==
    /\ TypeOK
    /\ Buffered(conn)
    /\ Settled(conn)
    /\ conn.isOpen => conn.reading \in {"pending", "data", "eof"}
    /\ NoByteLost
    /\ closedBy = "nothing" <=> conn.isOpen

=============================================================================
