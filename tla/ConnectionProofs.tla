-------------------------- MODULE ConnectionProofs --------------------------
(***************************************************************************)
(* The safety of a connection, for every alphabet, every set of records    *)
(* and every number of reads: IInv is inductive, and the connection        *)
(* implements ResponseStream.                                              *)
(***************************************************************************)
EXTENDS Connection, SequenceTheorems, TLAPS

\* Concatenating byte strings is associative.
LEMMA BytesAssociative ==
    \A s, t, u \in Seq(Byte) : (s \o t) \o u = s \o (t \o u)
OBVIOUS

\* The encoded records are non-empty strings of bytes.
LEMMA RecordFacts ==
    ASSUME NEW r \in Record
    PROVE  r \in Seq(Byte) /\ r # <<>>
BY RecordAssumption

(***************************************************************************)
(* The methods.                                                            *)
(***************************************************************************)

\* close() keeps the buffers as they are, ends the pending operations, and
\* leaves the handler of the read (if there is one) in place.
LEMMA CloseLemma ==
    ASSUME NEW c \in ConnectionType, Buffered(c)
    PROVE  /\ Close(c) \in ConnectionType
           /\ Buffered(Close(c))
           /\ ~Close(c).isOpen
BY DEF Close, Buffered, ConnectionType, ReadStates, WriteStates

\* sendData() while a write is under way: the data waits.
LEMMA SendDataQueues ==
    ASSUME NEW c \in ConnectionType, Buffered(c), c.bytesToWrite > 0,
           NEW data \in Seq(Byte)
    PROVE  /\ SendData(c, data) \in ConnectionType
           /\ Buffered(SendData(c, data))
           /\ SendData(c, data) =
                [c EXCEPT !.nextWriteBuffer = c.nextWriteBuffer \o data]
<1> DEFINE buffer == c.nextWriteBuffer \o data
<1>1. buffer \in Seq(Byte)
  BY DEF ConnectionType
<1>2. SendData(c, data) = [c EXCEPT !.nextWriteBuffer = buffer]
  BY DEF SendData
<1> HIDE DEF buffer
<1>3. [c EXCEPT !.nextWriteBuffer = buffer] \in ConnectionType
  BY <1>1 DEF ConnectionType
<1>4. Buffered([c EXCEPT !.nextWriteBuffer = buffer])
  BY <1>1 DEF ConnectionType, Buffered
<1> QED
  BY <1>2, <1>3, <1>4 DEF buffer

\* The members after sendData() started a write of n bytes.
Started(c, b, e, n, w) ==
    [c EXCEPT !.writeBuffer = b, !.nextWriteBuffer = e, !.bytesToWrite = n,
              !.writeSize = n, !.written = 0, !.writing = w]

\* sendData() without a write under way: one is started with everything that
\* waited, followed by the data.
LEMMA SendDataStarts ==
    ASSUME NEW c \in ConnectionType, c.bytesToWrite = 0, c.writing = "none",
           NEW data \in Seq(Byte), c.nextWriteBuffer \o data # <<>>
    PROVE  /\ SendData(c, data) \in ConnectionType
           /\ Buffered(SendData(c, data))
           /\ SendData(c, data).isOpen = c.isOpen
           /\ SendData(c, data).reading = c.reading
           /\ SendData(c, data).disconnectRequested = c.disconnectRequested
           /\ SendData(c, data).writing # "none"
           /\ SendData(c, data).bytesToWrite > 0
           /\ Unsent(SendData(c, data)) = c.nextWriteBuffer \o data
<1> DEFINE buffer == c.nextWriteBuffer \o data
           d == SendData(c, data)
<1>1. buffer \in Seq(Byte)
  BY DEF ConnectionType
<1>2. Len(buffer) \in Nat /\ Len(buffer) > 0
  BY <1>1, EmptySeq, LenProperties
<1> HIDE DEF buffer
<1>3. <<>> \in Seq(Byte)
  BY EmptySeq
<1> DEFINE w == IF c.isOpen THEN "pending" ELSE "error"
<1>w. w \in WriteStates /\ (w = "pending" => c.isOpen) /\ w \in {"pending", "error"}
  BY DEF WriteStates
<1> HIDE DEF w
<1>4. /\ d \in ConnectionType
      /\ d.isOpen = c.isOpen
      /\ d.reading = c.reading
      /\ d.disconnectRequested = c.disconnectRequested
      /\ d.writing = w
      /\ d.writeBuffer = buffer
      /\ d.nextWriteBuffer = <<>>
      /\ d.bytesToWrite = Len(buffer)
      /\ d.writeSize = Len(buffer)
      /\ d.written = 0
  <2>1. d = Started(c, buffer, <<>>, Len(buffer), w)
    BY <1>2 DEF SendData, Started, buffer, w
  <2> DEFINE n == Len(buffer)
             e == <<>>
  <2>2. n \in Nat /\ e \in Seq(Byte) /\ d = Started(c, buffer, e, n, w)
    BY <1>2, <1>3, <2>1
  <2> HIDE DEF d, n, e
  <2>3. /\ d \in ConnectionType
        /\ d.isOpen = c.isOpen
        /\ d.reading = c.reading
        /\ d.disconnectRequested = c.disconnectRequested
        /\ d.writing = w
        /\ d.writeBuffer = buffer
        /\ d.nextWriteBuffer = e
        /\ d.bytesToWrite = n
        /\ d.writeSize = n
        /\ d.written = 0
    BY <1>1, <1>w, <2>2 DEF Started, ConnectionType
  <2> QED
    BY <2>3 DEF n, e
<1>5. Buffered(d)
  BY <1>2, <1>4, <1>w DEF Buffered
<1>6. Unsent(d) = SubSeq(buffer, 1, Len(buffer)) \o <<>>
  BY <1>2, <1>4, <1>w DEF Unsent
<1>7. Unsent(d) = buffer
  BY <1>1, <1>6, SubSeqFull, ConcatEmptySeq
<1> QED
  BY <1>2, <1>4, <1>5, <1>7, <1>w DEF buffer

\* sendData() as the other methods see it: the data joins the end of what is
\* owed to the peer, and a write is under way afterwards.
LEMMA SendDataLemma ==
    ASSUME NEW c \in ConnectionType, Buffered(c), Settled(c),
           NEW data \in Seq(Byte), data # <<>>
    PROVE  /\ SendData(c, data) \in ConnectionType
           /\ Buffered(SendData(c, data))
           /\ Settled(SendData(c, data))
           /\ SendData(c, data).isOpen = c.isOpen
           /\ SendData(c, data).reading = c.reading
           /\ SendData(c, data).bytesToWrite > 0
           /\ c.bytesToWrite > 0 =>
                SendData(c, data).writeBuffer = c.writeBuffer
           /\ c.isOpen => Unsent(SendData(c, data)) = Unsent(c) \o data
<1> DEFINE d == SendData(c, data)
<1>1. CASE c.bytesToWrite > 0
  <2> DEFINE buffer == c.nextWriteBuffer \o data
  <2>1. d \in ConnectionType /\ Buffered(d) /\ d = [c EXCEPT !.nextWriteBuffer = buffer]
    BY <1>1, SendDataQueues
  <2> HIDE DEF d, buffer
  <2>2. /\ d.isOpen = c.isOpen
        /\ d.reading = c.reading
        /\ d.writing = c.writing
        /\ d.written = c.written
        /\ d.writeBuffer = c.writeBuffer
        /\ d.bytesToWrite = c.bytesToWrite
        /\ d.disconnectRequested = c.disconnectRequested
        /\ d.nextWriteBuffer = buffer
    BY <2>1 DEF ConnectionType
  <2>3. Settled(d)
    BY <2>2 DEF Settled
  <2>4. ASSUME c.isOpen PROVE Unsent(d) = Unsent(c) \o data
    <3>1. c.writing # "none"
      BY <1>1, <2>4 DEF Settled
    <3> DEFINE rest == SubSeq(c.writeBuffer, c.written + 1, Len(c.writeBuffer))
    <3>2. Unsent(c) = rest \o c.nextWriteBuffer /\ Unsent(d) = rest \o buffer
      BY <2>2, <3>1 DEF Unsent
    <3>3. c.writeBuffer \in Seq(Byte) /\ c.written \in Nat /\ c.nextWriteBuffer \in Seq(Byte)
      BY DEF ConnectionType
    <3>4. rest \in Seq(Byte)
      BY <3>3, SubSeqProperties, LenProperties
    <3> HIDE DEF rest
    <3>5. (rest \o c.nextWriteBuffer) \o data = rest \o (c.nextWriteBuffer \o data)
      BY <3>3, <3>4, BytesAssociative, Zenon
    <3> QED
      BY <3>2, <3>5 DEF buffer
  <2> QED
    BY <1>1, <2>1, <2>2, <2>3, <2>4 DEF d
<1>2. CASE c.bytesToWrite = 0
  <2>1. c.writing = "none" /\ c.nextWriteBuffer = <<>>
    BY <1>2 DEF Buffered
  <2>2. c.nextWriteBuffer \o data = data /\ Unsent(c) \o data = data
    BY <2>1, ConcatEmptySeq DEF Unsent
  <2>3. /\ d \in ConnectionType
        /\ Buffered(d)
        /\ d.isOpen = c.isOpen
        /\ d.reading = c.reading
        /\ d.writing # "none"
        /\ d.bytesToWrite > 0
        /\ Unsent(d) = c.nextWriteBuffer \o data
    BY <1>2, <2>1, <2>2, SendDataStarts
  <2> HIDE DEF d
  <2>4. Settled(d)
    BY <2>3 DEF Settled
  <2> QED
    BY <1>2, <2>1, <2>2, <2>3, <2>4 DEF d
<1> QED
  BY <1>1, <1>2 DEF ConnectionType

\* disconnect() waits for the writes, and closes only when there are none.
LEMMA DisconnectLemma ==
    ASSUME NEW c \in ConnectionType, Buffered(c), Settled(c)
    PROVE  /\ Disconnect(c) \in ConnectionType
           /\ Buffered(Disconnect(c))
           /\ Settled(Disconnect(c))
           /\ c.bytesToWrite > 0 =>
                /\ Disconnect(c).isOpen = c.isOpen
                /\ Disconnect(c).reading = c.reading
                /\ Disconnect(c).writeBuffer = c.writeBuffer
                /\ Unsent(Disconnect(c)) = Unsent(c)
           /\ c.bytesToWrite = 0 =>
                /\ ~Disconnect(c).isOpen
                /\ Unsent(c) = <<>>
<1> DEFINE requested == [c EXCEPT !.disconnectRequested = TRUE]
<1>1. requested \in ConnectionType /\ Buffered(requested)
  BY DEF ConnectionType, Buffered
<1>2. CASE c.bytesToWrite > 0
  <2>1. Disconnect(c) = requested
    BY <1>2 DEF Disconnect
  <2>2. Settled(requested) /\ Unsent(requested) = Unsent(c)
    BY <1>2 DEF Settled, Unsent, ConnectionType
  <2>3. /\ requested.isOpen = c.isOpen
        /\ requested.reading = c.reading
        /\ requested.writeBuffer = c.writeBuffer
    BY DEF ConnectionType
  <2> QED
    BY <1>1, <1>2, <2>1, <2>2, <2>3
<1>3. CASE c.bytesToWrite = 0
  <2>1. Disconnect(c) = Close(requested)
    BY <1>3 DEF Disconnect
  <2>2. /\ Close(requested) \in ConnectionType
        /\ Buffered(Close(requested))
        /\ ~Close(requested).isOpen
    BY <1>1, CloseLemma
  <2>3. Unsent(c) = <<>>
    BY <1>3 DEF Buffered, Unsent
  <2> QED
    BY <1>3, <2>1, <2>2, <2>3 DEF Settled
<1> QED
  BY <1>2, <1>3 DEF ConnectionType

\* What is owed to the peer is a string of bytes.
LEMMA UnsentType ==
    ASSUME NEW c \in ConnectionType
    PROVE  Unsent(c) \in Seq(Byte)
<1> DEFINE rest == SubSeq(c.writeBuffer, c.written + 1, Len(c.writeBuffer))
<1>1. c.writeBuffer \in Seq(Byte) /\ c.written \in Nat /\ c.nextWriteBuffer \in Seq(Byte)
  BY DEF ConnectionType
<1>2. rest \in Seq(Byte)
  BY <1>1, SubSeqProperties, LenProperties
<1> HIDE DEF rest
<1>3. Unsent(c) = IF c.writing = "none" THEN c.nextWriteBuffer ELSE rest \o c.nextWriteBuffer
  BY DEF Unsent, rest
<1> QED
  BY <1>1, <1>2, <1>3

\* send(): both records join the stream in one go, and a disconnect that may
\* follow them has to wait for them.
LEMMA SendResponseLemma ==
    ASSUME NEW c \in ConnectionType, Buffered(c), Settled(c),
           NEW output \in Record, NEW end \in Record,
           NEW keepConnection \in BOOLEAN
    PROVE  /\ SendResponse(c, output, end, keepConnection) \in ConnectionType
           /\ Buffered(SendResponse(c, output, end, keepConnection))
           /\ Settled(SendResponse(c, output, end, keepConnection))
           /\ SendResponse(c, output, end, keepConnection).isOpen = c.isOpen
           /\ SendResponse(c, output, end, keepConnection).reading = c.reading
           /\ c.bytesToWrite > 0 =>
                SendResponse(c, output, end, keepConnection).writeBuffer = c.writeBuffer
           /\ c.isOpen => Unsent(SendResponse(c, output, end, keepConnection))
                            = Unsent(c) \o (output \o end)
<1> DEFINE one == SendData(c, output)
           two == SendData(one, end)
           d == SendResponse(c, output, end, keepConnection)
<1>1. d = IF keepConnection THEN two ELSE Disconnect(two)
  BY DEF SendResponse
<1>r. output \in Seq(Byte) /\ output # <<>> /\ end \in Seq(Byte) /\ end # <<>>
  BY RecordFacts
<1>2. /\ one \in ConnectionType /\ Buffered(one) /\ Settled(one)
      /\ one.isOpen = c.isOpen /\ one.reading = c.reading
      /\ one.bytesToWrite > 0
      /\ c.bytesToWrite > 0 => one.writeBuffer = c.writeBuffer
      /\ c.isOpen => Unsent(one) = Unsent(c) \o output
  BY <1>r, SendDataLemma
<1> HIDE DEF one
<1>3. /\ two \in ConnectionType /\ Buffered(two) /\ Settled(two)
      /\ two.isOpen = one.isOpen /\ two.reading = one.reading
      /\ two.bytesToWrite > 0
      /\ one.bytesToWrite > 0 => two.writeBuffer = one.writeBuffer
      /\ one.isOpen => Unsent(two) = Unsent(one) \o end
  BY <1>r, <1>2, SendDataLemma
<1> HIDE DEF two
<1>4. /\ Disconnect(two) \in ConnectionType
      /\ Buffered(Disconnect(two)) /\ Settled(Disconnect(two))
      /\ Disconnect(two).isOpen = two.isOpen
      /\ Disconnect(two).reading = two.reading
      /\ Disconnect(two).writeBuffer = two.writeBuffer
      /\ Unsent(Disconnect(two)) = Unsent(two)
  BY <1>3, DisconnectLemma
<1>5. /\ d \in ConnectionType /\ Buffered(d) /\ Settled(d)
      /\ d.isOpen = two.isOpen
      /\ d.reading = two.reading
      /\ d.writeBuffer = two.writeBuffer
      /\ Unsent(d) = Unsent(two)
  BY <1>1, <1>3, <1>4, Zenon
<1>6. ASSUME c.isOpen PROVE Unsent(d) = Unsent(c) \o (output \o end)
  <2>1. Unsent(d) = (Unsent(c) \o output) \o end
    BY <1>2, <1>3, <1>5, <1>6, Zenon
  <2>2. (Unsent(c) \o output) \o end = Unsent(c) \o (output \o end)
    BY <1>r, UnsentType, BytesAssociative, Zenon
  <2> QED
    BY <2>1, <2>2, Zenon
<1> HIDE DEF d
<1>7. c.bytesToWrite > 0 => d.writeBuffer = c.writeBuffer
  BY <1>2, <1>3, <1>5, Zenon
<1>8. d.isOpen = c.isOpen /\ d.reading = c.reading
  BY <1>2, <1>3, <1>5, Zenon
<1> QED
  BY <1>5, <1>6, <1>7, <1>8, Zenon DEF d

\* onBytesWritten() at the end of a write: either the stream goes on as it
\* was, or it was empty and the connection closes.
LEMMA OnBytesWrittenLemma ==
    ASSUME NEW c \in ConnectionType, Buffered(c), Settled(c), c.writing = "ok",
           NEW d, d = OnBytesWritten([c EXCEPT !.writing = "none"], c.writeSize)
    PROVE  /\ d \in ConnectionType
           /\ Buffered(d)
           /\ Settled(d)
           /\ \/ d.isOpen = c.isOpen /\ d.reading = c.reading /\ Unsent(d) = Unsent(c)
              \/ ~d.isOpen /\ Unsent(c) = <<>>
<1> DEFINE idle == [c EXCEPT !.writing = "none"]
           rest == [idle EXCEPT !.bytesToWrite = @ - c.writeSize]
<1>1. /\ idle \in ConnectionType
      /\ idle.bytesToWrite - c.writeSize = 0
      /\ idle.writing = "none"
      /\ idle.isOpen = c.isOpen
      /\ idle.reading = c.reading
      /\ idle.nextWriteBuffer = c.nextWriteBuffer
      /\ idle.disconnectRequested = c.disconnectRequested
  BY DEF Buffered, ConnectionType, WriteStates
<1>2. d = IF rest.bytesToWrite > 0 THEN rest
          ELSE IF rest.nextWriteBuffer # <<>> THEN SendData(rest, <<>>)
          ELSE IF rest.disconnectRequested THEN Close(rest)
          ELSE rest
  BY DEF OnBytesWritten
<1> HIDE DEF idle
<1>r. rest = [idle EXCEPT !.bytesToWrite = 0]
  BY <1>1
<1> HIDE DEF rest
<1>3. /\ rest \in ConnectionType
      /\ rest.bytesToWrite = 0
      /\ rest.writing = "none"
      /\ rest.isOpen = c.isOpen
      /\ rest.reading = c.reading
      /\ rest.nextWriteBuffer = c.nextWriteBuffer
      /\ rest.disconnectRequested = c.disconnectRequested
  BY <1>1, <1>r DEF ConnectionType
<1>4. d = IF rest.nextWriteBuffer # <<>> THEN SendData(rest, <<>>)
          ELSE IF rest.disconnectRequested THEN Close(rest)
          ELSE rest
  BY <1>2, <1>3
<1>5. Unsent(c) = c.nextWriteBuffer
  <2>1. c.written = Len(c.writeBuffer) /\ c.writeBuffer \in Seq(Byte)
    BY DEF Buffered, ConnectionType
  <2>2. SubSeq(c.writeBuffer, c.written + 1, Len(c.writeBuffer)) = <<>>
    BY <2>1, SubSeqEmpty, LenProperties
  <2> QED
    BY <2>2, ConcatEmptySeq DEF Unsent, ConnectionType
<1>6. CASE rest.nextWriteBuffer # <<>>
  <2>1. <<>> \in Seq(Byte) /\ rest.nextWriteBuffer \in Seq(Byte)
    BY <1>3, EmptySeq DEF ConnectionType
  <2>2. rest.nextWriteBuffer \o <<>> = rest.nextWriteBuffer
    BY <2>1, ConcatEmptySeq
  <2>3. d = SendData(rest, <<>>)
    BY <1>4, <1>6
  <2>4. /\ d \in ConnectionType
        /\ Buffered(d)
        /\ d.isOpen = rest.isOpen
        /\ d.reading = rest.reading
        /\ d.writing # "none"
        /\ d.bytesToWrite > 0
        /\ Unsent(d) = rest.nextWriteBuffer
    BY <1>3, <1>6, <2>1, <2>2, <2>3, SendDataStarts
  <2>5. Settled(d)
    BY <2>4 DEF Settled
  <2> QED
    BY <1>3, <1>5, <2>4, <2>5
<1>7. CASE rest.nextWriteBuffer = <<>>
  <2>1. Buffered(rest)
    BY <1>3, <1>7 DEF Buffered
  <2>2. CASE rest.disconnectRequested
    <3>1. d = Close(rest)
      BY <1>4, <1>7, <2>2
    <3>2. d \in ConnectionType /\ Buffered(d) /\ ~d.isOpen
      BY <1>3, <2>1, <3>1, CloseLemma
    <3> QED
      BY <1>3, <1>5, <1>7, <3>2 DEF Settled
  <2>3. CASE ~rest.disconnectRequested
    <3>1. d = rest
      BY <1>4, <1>7, <2>3
    <3>2. Settled(d)
      BY <1>3, <2>3, <3>1 DEF Settled
    <3>3. Unsent(d) = rest.nextWriteBuffer
      BY <1>3, <3>1 DEF Unsent
    <3> QED
      BY <1>3, <1>5, <2>1, <3>1, <3>2, <3>3
  <2> QED
    BY <2>2, <2>3
<1> QED
  BY <1>6, <1>7

\* Only the state of the read changes: the write side is as it was.
LEMMA ReadingLemma ==
    ASSUME NEW c \in ConnectionType, Buffered(c), Settled(c),
           NEW r \in ReadStates, NEW d, d = [c EXCEPT !.reading = r]
    PROVE  /\ d \in ConnectionType
           /\ Buffered(d)
           /\ Settled(d)
           /\ d.isOpen = c.isOpen
           /\ d.reading = r
           /\ d.writing = c.writing
           /\ d.writeBuffer = c.writeBuffer
           /\ Unsent(d) = Unsent(c)
<1>1. /\ d \in ConnectionType
      /\ d.isOpen = c.isOpen
      /\ d.reading = r
      /\ d.writing = c.writing
      /\ d.written = c.written
      /\ d.writeSize = c.writeSize
      /\ d.writeBuffer = c.writeBuffer
      /\ d.nextWriteBuffer = c.nextWriteBuffer
      /\ d.bytesToWrite = c.bytesToWrite
      /\ d.disconnectRequested = c.disconnectRequested
  BY DEF ConnectionType
<1>2. Buffered(d)
  BY <1>1 DEF Buffered
<1>3. Settled(d)
  BY <1>1 DEF Settled
<1>4. Unsent(d) = Unsent(c)
  BY <1>1 DEF Unsent
<1> QED
  BY <1>1, <1>2, <1>3, <1>4

\* process() arms the read again and touches nothing else.
LEMMA ProcessLemma ==
    ASSUME NEW c \in ConnectionType, Buffered(c), Settled(c)
    PROVE  /\ Process(c) \in ConnectionType
           /\ Buffered(Process(c))
           /\ Settled(Process(c))
           /\ Process(c).isOpen = c.isOpen
           /\ c.isOpen => Process(c).reading = "pending"
           /\ Process(c).writing = c.writing
           /\ Process(c).writeBuffer = c.writeBuffer
           /\ Unsent(Process(c)) = Unsent(c)
<1> DEFINE r == IF c.isOpen THEN "pending" ELSE "badfd"
<1>1. r \in ReadStates /\ (c.isOpen => r = "pending")
  BY DEF ReadStates
<1>2. Process(c) = [c EXCEPT !.reading = r]
  BY DEF Process
<1> HIDE DEF r
<1> QED
  BY <1>1, <1>2, ReadingLemma

\* Transfer takes the first of the bytes that are owed.
LEMMA TransferLemma ==
    ASSUME NEW c \in ConnectionType, Buffered(c), Settled(c), c.writing = "pending",
           NEW d, d = [c EXCEPT !.written = @ + 1,
                                !.writing = IF c.written + 1 = c.writeSize
                                            THEN "ok" ELSE "pending"]
    PROVE  /\ d \in ConnectionType
           /\ Buffered(d)
           /\ Settled(d)
           /\ d.isOpen = c.isOpen
           /\ d.reading = c.reading
           /\ d.writeBuffer = c.writeBuffer
           /\ c.writeBuffer[c.written + 1] \in Byte
           /\ Unsent(c) = <<c.writeBuffer[c.written + 1]>> \o Unsent(d)
<1> DEFINE w == IF c.written + 1 = c.writeSize THEN "ok" ELSE "pending"
           n == c.written + 1
           buffer == c.writeBuffer
<1>1. w \in WriteStates /\ w # "none"
  BY DEF WriteStates
<1>2. /\ c.written \in Nat /\ c.writeSize \in Nat /\ buffer \in Seq(Byte)
      /\ c.nextWriteBuffer \in Seq(Byte)
      /\ c.writeSize = Len(buffer) /\ c.written < c.writeSize
      /\ c.bytesToWrite = Len(buffer)
      /\ c.isOpen
  BY DEF ConnectionType, Buffered
<1>3. n \in Nat /\ n \in 1..Len(buffer)
  BY <1>2, LenProperties
<1>4. d = [c EXCEPT !.written = n, !.writing = w]
  OBVIOUS
<1>5. w = "ok" <=> n = c.writeSize
  OBVIOUS
<1>6. w # "ok" => w = "pending"
  OBVIOUS
<1> HIDE DEF w, n
<1>7. /\ d \in ConnectionType
      /\ d.isOpen = c.isOpen
      /\ d.reading = c.reading
      /\ d.writing = w
      /\ d.written = n
      /\ d.writeSize = c.writeSize
      /\ d.writeBuffer = buffer
      /\ d.nextWriteBuffer = c.nextWriteBuffer
      /\ d.bytesToWrite = c.bytesToWrite
      /\ d.disconnectRequested = c.disconnectRequested
  BY <1>1, <1>3, <1>4 DEF ConnectionType
<1> HIDE DEF buffer
<1>8. Buffered(d)
  BY <1>1, <1>2, <1>3, <1>5, <1>6, <1>7 DEF Buffered
<1>9. Settled(d)
  BY <1>1, <1>7 DEF Settled
<1>10. buffer[n] \in Byte
  BY <1>2, <1>3, ElementOfSeq
<1>11. Unsent(c) = <<buffer[n]>> \o Unsent(d)
  <2> DEFINE tail == SubSeq(buffer, n + 1, Len(buffer))
  <2>1. SubSeq(buffer, n, Len(buffer)) = <<buffer[n]>> \o tail
    <3>1. Len(buffer) \in n..Len(buffer)
      BY <1>2, <1>3, LenProperties
    <3> QED
      BY <1>2, <1>3, <3>1, SubSeqRecursiveFirst
  <2>2. tail \in Seq(Byte) /\ <<buffer[n]>> \in Seq(Byte)
    BY <1>2, <1>3, <1>10, SubSeqProperties, LenProperties
  <2>3. Unsent(c) = SubSeq(buffer, n, Len(buffer)) \o c.nextWriteBuffer
    BY DEF Unsent, n, buffer
  <2>4. Unsent(d) = tail \o c.nextWriteBuffer
    BY <1>1, <1>7 DEF Unsent
  <2> HIDE DEF tail
  <2>5. (<<buffer[n]>> \o tail) \o c.nextWriteBuffer = <<buffer[n]>> \o (tail \o c.nextWriteBuffer)
    BY <1>2, <2>2, BytesAssociative, Zenon
  <2> QED
    BY <2>1, <2>3, <2>4, <2>5
<1> QED
  BY <1>7, <1>8, <1>9, <1>10, <1>11 DEF n, buffer

\* A failed write still owes its bytes, until its handler has run.
LEMMA WriteFailsLemma ==
    ASSUME NEW c \in ConnectionType, Buffered(c), Settled(c), c.writing = "pending",
           NEW d, d = [c EXCEPT !.writing = "error"]
    PROVE  /\ d \in ConnectionType
           /\ Buffered(d)
           /\ Settled(d)
           /\ d.isOpen = c.isOpen
           /\ d.reading = c.reading
           /\ d.writeBuffer = c.writeBuffer
           /\ Unsent(d) = Unsent(c)
<1>1. /\ d \in ConnectionType
      /\ d.isOpen = c.isOpen
      /\ d.reading = c.reading
      /\ d.writing = "error"
      /\ d.written = c.written
      /\ d.writeSize = c.writeSize
      /\ d.writeBuffer = c.writeBuffer
      /\ d.nextWriteBuffer = c.nextWriteBuffer
      /\ d.bytesToWrite = c.bytesToWrite
      /\ d.disconnectRequested = c.disconnectRequested
  BY DEF ConnectionType, WriteStates
<1>2. Buffered(d)
  BY <1>1 DEF Buffered
<1>3. Settled(d)
  BY <1>1 DEF Settled
<1>4. Unsent(d) = Unsent(c)
  <2>1. d.writing # "none" /\ c.writing # "none"
    BY <1>1
  <2>2. Unsent(d) = SubSeq(d.writeBuffer, d.written + 1, Len(d.writeBuffer)) \o d.nextWriteBuffer
    BY <2>1 DEF Unsent
  <2>3. Unsent(c) = SubSeq(c.writeBuffer, c.written + 1, Len(c.writeBuffer)) \o c.nextWriteBuffer
    BY <2>1 DEF Unsent
  <2> QED
    BY <1>1, <2>2, <2>3
<1> QED
  BY <1>1, <1>2, <1>3, <1>4

(***************************************************************************)
(* The steps.  A handler does one of three things to the stream: it        *)
(* appends to it (often nothing), finishes it when nothing is owed, or     *)
(* breaks it.                                                              *)
(***************************************************************************)
StreamStep == [Stream!Next]_<<accepted, wire, Status>>

\* What every handler leaves behind.
Handled ==
    /\ conn' \in ConnectionType
    /\ Buffered(conn')
    /\ Settled(conn')
    /\ conn'.isOpen => conn'.reading \in {"pending", "data", "eof"}
    /\ awaiting' \in BOOLEAN
    /\ peer' \in {"up", "down"}
    /\ reads' \in Nat
    /\ wire' = wire

\* A string of bytes is a prefix of what is appended to it.
LEMMA PrefixOfConcat ==
    ASSUME NEW s \in Seq(Byte), NEW t \in Seq(Byte)
    PROVE  /\ s \o t \in Seq(Byte)
           /\ Len(s) <= Len(s \o t)
           /\ SubSeq(s \o t, 1, Len(s)) = s
<1>1. /\ s \o t \in Seq(Byte)
      /\ Len(s \o t) = Len(s) + Len(t)
      /\ \A i \in 1..Len(s) + Len(t) :
            (s \o t)[i] = IF i <= Len(s) THEN s[i] ELSE t[i - Len(s)]
  BY ConcatProperties
<1>2. Len(s) \in Nat /\ Len(t) \in Nat
  BY LenProperties
<1>3. \A i \in 1..Len(s) : s[i] \in Byte /\ (s \o t)[i] = s[i]
  BY <1>1, <1>2, ElementOfSeq
<1>4. /\ SubSeq(s \o t, 1, Len(s)) \in Seq(Byte)
      /\ Len(SubSeq(s \o t, 1, Len(s))) = Len(s)
      /\ \A i \in 1..Len(s) : SubSeq(s \o t, 1, Len(s))[i] = (s \o t)[i]
  BY <1>1, <1>2, <1>3, SubSeqProperties
<1>5. SubSeq(s \o t, 1, Len(s)) = s
  BY <1>3, <1>4, SeqEqual
<1> QED
  BY <1>1, <1>2, <1>5

\* A handler that appends data (possibly none) to the stream of an open
\* connection, or runs on a closed one.
LEMMA AppendStep ==
    ASSUME IInv, Handled, NEW data \in Seq(Byte),
           conn'.isOpen = conn.isOpen,
           closedBy' = closedBy,
           accepted' = IF conn.isOpen THEN accepted \o data ELSE accepted,
           conn.isOpen => Unsent(conn') = Unsent(conn) \o data
    PROVE  IInv' /\ StreamStep
<1>1. /\ conn \in ConnectionType /\ accepted \in Seq(Byte) /\ wire \in Seq(Byte)
      /\ closedBy \in {"nothing", "disconnect", "error"}
      /\ closedBy = "nothing" <=> conn.isOpen
  BY DEF IInv, TypeOK
<1>2. Status' = Status
  BY DEF Status
<1>3. CASE conn.isOpen
  <2>1. accepted' = accepted \o data
    BY <1>3
  <2>2. /\ accepted' \in Seq(Byte)
        /\ Len(accepted) <= Len(accepted')
        /\ SubSeq(accepted', 1, Len(accepted)) = accepted
    BY <1>1, <2>1, PrefixOfConcat
  <2>3. accepted = wire \o Unsent(conn)
    BY <1>3 DEF IInv, NoByteLost
  <2>4. accepted' = wire' \o Unsent(conn')
    <3>1. (wire \o Unsent(conn)) \o data = wire \o (Unsent(conn) \o data)
      BY <1>1, UnsentType, BytesAssociative, Zenon
    <3> QED
      BY <1>3, <2>1, <2>3, <3>1 DEF Handled
  <2>5. IInv'
    BY <1>1, <2>2, <2>4 DEF IInv, TypeOK, NoByteLost, Handled
  <2>6. Stream!Accept
    BY <1>2, <1>3, <2>2 DEF Stream!Accept, Status, Handled
  <2> QED
    BY <2>5, <2>6 DEF StreamStep, Stream!Next
<1>4. CASE ~conn.isOpen
  <2>1. accepted' = accepted /\ wire' = wire
    BY <1>4 DEF Handled
  <2>2. IInv'
    BY <1>1, <1>4, <2>1 DEF IInv, TypeOK, NoByteLost, Handled
  <2> QED
    BY <1>2, <2>1, <2>2 DEF StreamStep
<1> QED
  BY <1>3, <1>4

\* A handler that closes the open connection on purpose.
LEMMA FinishStep ==
    ASSUME IInv, Handled, conn.isOpen, ~conn'.isOpen,
           closedBy' = "disconnect", accepted' = accepted,
           Unsent(conn) = <<>>
    PROVE  IInv' /\ StreamStep
<1>1. accepted \in Seq(Byte) /\ wire \in Seq(Byte)
  BY DEF IInv, TypeOK
<1>2. accepted = wire
  BY <1>1, ConcatEmptySeq DEF IInv, NoByteLost
<1>3. Status = "open" /\ Status' = "finished"
  BY DEF Status
<1>4. Stream!Finish
  BY <1>2, <1>3 DEF Stream!Finish, Handled
<1>5. IInv'
  BY <1>1 DEF IInv, TypeOK, NoByteLost, Handled
<1> QED
  BY <1>4, <1>5 DEF StreamStep, Stream!Next

\* A handler that closes the open connection because of an error.
LEMMA BreakStep ==
    ASSUME IInv, Handled, conn.isOpen, ~conn'.isOpen,
           closedBy' = "error", accepted' = accepted
    PROVE  IInv' /\ StreamStep
<1>1. accepted \in Seq(Byte) /\ wire \in Seq(Byte)
  BY DEF IInv, TypeOK
<1>2. Status = "open" /\ Status' = "broken"
  BY DEF Status
<1>3. Stream!Break
  BY <1>2 DEF Stream!Break, Handled
<1>4. IInv'
  BY <1>1 DEF IInv, TypeOK, NoByteLost, Handled
<1> QED
  BY <1>3, <1>4 DEF StreamStep, Stream!Next

\* A step that neither gives data to sendData() nor opens or closes the socket.
LEMMA QuietStep ==
    ASSUME IInv, Handled, conn'.isOpen = conn.isOpen, closedBy' = closedBy,
           accepted' = accepted, Unsent(conn') = Unsent(conn)
    PROVE  IInv' /\ StreamStep
<1>1. <<>> \in Seq(Byte) /\ accepted \in Seq(Byte) /\ Unsent(conn) \in Seq(Byte)
  BY EmptySeq, UnsentType DEF IInv, TypeOK
<1>2. accepted \o <<>> = accepted /\ Unsent(conn) \o <<>> = Unsent(conn)
  BY <1>1, ConcatEmptySeq
<1> QED
  BY <1>1, <1>2, AppendStep

\* The facts about the current state that every handler starts from.
LEMMA Current ==
    ASSUME IInv
    PROVE  /\ conn \in ConnectionType /\ Buffered(conn) /\ Settled(conn)
           /\ awaiting \in BOOLEAN /\ peer \in {"up", "down"} /\ reads \in Nat
           /\ wire \in Seq(Byte) /\ accepted \in Seq(Byte)
           /\ conn.isOpen => conn.reading \in {"pending", "data", "eof"}
BY DEF IInv, TypeOK

\* The peer and the operating system.
LEMMA EnvironmentStep ==
    ASSUME IInv, Environment
    PROVE  IInv' /\ StreamStep
<1> USE Current
<1>1. CASE PeerSends
  <2>1. "data" \in ReadStates /\ conn' = [conn EXCEPT !.reading = "data"]
    BY <1>1 DEF PeerSends, ReadStates
  <2>2. /\ conn' \in ConnectionType /\ Buffered(conn') /\ Settled(conn')
        /\ conn'.isOpen = conn.isOpen /\ conn'.reading = "data"
        /\ Unsent(conn') = Unsent(conn)
    BY <2>1, ReadingLemma
  <2>3. Handled
    BY <1>1, <2>2 DEF Handled, PeerSends
  <2> QED
    BY <1>1, <2>2, <2>3, QuietStep DEF PeerSends
<1>2. CASE PeerDrops
  <2>1. Handled
    BY <1>2 DEF Handled, PeerDrops
  <2> QED
    BY <1>2, <2>1, QuietStep DEF PeerDrops
<1>3. CASE ReadFails
  <2>1. "eof" \in ReadStates /\ conn' = [conn EXCEPT !.reading = "eof"]
    BY <1>3 DEF ReadFails, ReadStates
  <2>2. /\ conn' \in ConnectionType /\ Buffered(conn') /\ Settled(conn')
        /\ conn'.isOpen = conn.isOpen /\ conn'.reading = "eof"
        /\ Unsent(conn') = Unsent(conn)
    BY <2>1, ReadingLemma
  <2>3. Handled
    BY <1>3, <2>2 DEF Handled, ReadFails
  <2> QED
    BY <1>3, <2>2, <2>3, QuietStep DEF ReadFails
<1>4. CASE Transfer
  <2> DEFINE b == conn.writeBuffer[conn.written + 1]
  <2>1. /\ conn' \in ConnectionType /\ Buffered(conn') /\ Settled(conn')
        /\ conn'.isOpen = conn.isOpen /\ conn'.reading = conn.reading
        /\ b \in Byte
        /\ Unsent(conn) = <<b>> \o Unsent(conn')
    BY <1>4, TransferLemma DEF Transfer
  <2>2. conn.isOpen
    BY <1>4 DEF Transfer, Buffered
  <2>3. wire' = Append(wire, b)
    BY <1>4 DEF Transfer
  <2> HIDE DEF b
  <2>4. wire' \in Seq(Byte) /\ wire' = wire \o <<b>>
    BY <2>1, <2>3, AppendProperties, AppendIsConcat
  <2>5. accepted = wire' \o Unsent(conn')
    <3>1. accepted = wire \o Unsent(conn)
      BY <2>2 DEF IInv, NoByteLost
    <3>2. <<b>> \in Seq(Byte) /\ Unsent(conn') \in Seq(Byte)
      BY <2>1, UnsentType
    <3>3. (wire \o <<b>>) \o Unsent(conn') = wire \o (<<b>> \o Unsent(conn'))
      BY <3>2, BytesAssociative, Zenon
    <3> QED
      BY <2>1, <2>4, <3>1, <3>3
  <2>6. Status = "open" /\ Status' = "open"
    BY <2>1, <2>2 DEF Status
  <2>7. IInv'
    BY <1>4, <2>1, <2>4, <2>5 DEF IInv, TypeOK, NoByteLost, Transfer
  <2>8. Len(wire) < Len(accepted) /\ accepted[Len(wire) + 1] = b
    <3>1. Unsent(conn') \in Seq(Byte) /\ wire \in Seq(Byte) /\ wire' \in Seq(Byte)
      BY <2>1, <2>4, UnsentType
    <3>2. Len(wire') = Len(wire) + 1 /\ wire'[Len(wire) + 1] = b
      BY <2>1, <2>3, AppendProperties
    <3>3. Len(accepted) = Len(wire') + Len(Unsent(conn'))
      BY <2>5, <3>1, ConcatProperties
    <3>4. /\ Len(wire) \in Nat /\ Len(wire') \in Nat /\ Len(Unsent(conn')) \in Nat
      BY <3>1, LenProperties
    <3>5. accepted[Len(wire')] = wire'[Len(wire')]
      BY <2>5, <3>1, <3>2, <3>4, ConcatProperties
    <3> QED
      BY <3>2, <3>3, <3>4, <3>5
  <2>9. Stream!Deliver
    BY <1>4, <2>3, <2>6, <2>8 DEF Stream!Deliver, Transfer
  <2> QED
    BY <2>7, <2>9 DEF StreamStep, Stream!Next
<1>5. CASE WriteFails
  <2>1. conn' = [conn EXCEPT !.writing = "error"] /\ conn.writing = "pending"
    BY <1>5 DEF WriteFails
  <2>2. /\ conn' \in ConnectionType /\ Buffered(conn') /\ Settled(conn')
        /\ conn'.isOpen = conn.isOpen /\ conn'.reading = conn.reading
        /\ Unsent(conn') = Unsent(conn)
    BY <2>1, WriteFailsLemma
  <2>3. Handled
    BY <1>5, <2>2 DEF Handled, WriteFails
  <2> QED
    BY <1>5, <2>2, <2>3, QuietStep DEF WriteFails
<1> QED
  BY <1>1, <1>2, <1>3, <1>4, <1>5 DEF Environment

\* A handler of a readable socket: process() after some method h of the
\* connection leaves what h left, and the read armed.
LEMMA ReadDataStep ==
    ASSUME NEW h \in ConnectionType, Buffered(h), Settled(h), ReadData(h),
           IInv, awaiting' \in BOOLEAN
    PROVE  /\ Handled
           /\ conn'.isOpen = h.isOpen
           /\ conn'.writeBuffer = h.writeBuffer
           /\ Unsent(conn') = Unsent(h)
<1>1. conn' = Process(h) /\ UNCHANGED <<peer, reads, wire>>
  BY DEF ReadData
<1>2. /\ conn' \in ConnectionType /\ Buffered(conn') /\ Settled(conn')
      /\ conn'.isOpen = h.isOpen
      /\ h.isOpen => conn'.reading = "pending"
      /\ conn'.writeBuffer = h.writeBuffer
      /\ Unsent(conn') = Unsent(h)
  BY <1>1, ProcessLemma
<1> QED
  BY <1>1, <1>2, Current DEF Handled

\* The handler of the read.
LEMMA ReadHandlerStep ==
    ASSUME IInv, ReadHandler
    PROVE  IInv' /\ StreamStep
<1> USE Current
<1>1. CASE ReadIncomplete
  <2>1. ReadData(conn) /\ UNCHANGED <<awaiting, accepted, closedBy>>
    BY <1>1 DEF ReadIncomplete
  <2>2. Handled /\ conn'.isOpen = conn.isOpen /\ Unsent(conn') = Unsent(conn)
    BY <2>1, ReadDataStep
  <2> QED
    BY <2>1, <2>2, QuietStep
<1>2. ASSUME NEW reply \in Record, ReadManagement(reply)
      PROVE  IInv' /\ StreamStep
  <2> DEFINE h == SendData(conn, reply)
  <2>1. ReadData(h) /\ Accepts(reply) /\ UNCHANGED <<awaiting, closedBy>>
    BY <1>2 DEF ReadManagement
  <2>2. reply \in Seq(Byte) /\ reply # <<>>
    BY RecordFacts
  <2>3. /\ h \in ConnectionType /\ Buffered(h) /\ Settled(h)
        /\ h.isOpen = conn.isOpen
        /\ conn.isOpen => Unsent(h) = Unsent(conn) \o reply
    BY <2>2, SendDataLemma
  <2> HIDE DEF h
  <2>4. Handled /\ conn'.isOpen = h.isOpen /\ Unsent(conn') = Unsent(h)
    BY <2>1, <2>3, ReadDataStep
  <2> QED
    BY <2>1, <2>2, <2>3, <2>4, AppendStep DEF Accepts
<1>3. CASE ReadRequest
  <2>1. ReadData(conn) /\ awaiting' \in BOOLEAN /\ UNCHANGED <<accepted, closedBy>>
    BY <1>3 DEF ReadRequest
  <2>2. Handled /\ conn'.isOpen = conn.isOpen /\ Unsent(conn') = Unsent(conn)
    BY <2>1, ReadDataStep
  <2> QED
    BY <2>1, <2>2, QuietStep
<1>4. ASSUME NEW output \in Record, NEW end \in Record, NEW keepConnection \in BOOLEAN,
             ReadRequestAndRespond(output, end, keepConnection)
      PROVE  IInv' /\ StreamStep
  <2> DEFINE h == SendResponse(conn, output, end, keepConnection)
  <2>1. ReadData(h) /\ awaiting' \in BOOLEAN /\ Accepts(output \o end) /\ ClosedFor("disconnect")
    BY <1>4 DEF ReadRequestAndRespond
  <2>2. output \o end \in Seq(Byte)
    BY RecordFacts, ConcatProperties
  <2>3. /\ h \in ConnectionType /\ Buffered(h) /\ Settled(h)
        /\ h.isOpen = conn.isOpen
        /\ conn.isOpen => Unsent(h) = Unsent(conn) \o (output \o end)
    BY SendResponseLemma
  <2> HIDE DEF h
  <2>4. Handled /\ conn'.isOpen = h.isOpen /\ Unsent(conn') = Unsent(h)
    BY <2>1, <2>3, ReadDataStep
  <2>5. closedBy' = closedBy
    BY <2>1, <2>3, <2>4 DEF ClosedFor
  <2> QED
    BY <2>1, <2>2, <2>3, <2>4, <2>5, AppendStep DEF Accepts
<1>5. CASE ReadHangup
  <2> DEFINE h == Disconnect(conn)
  <2>1. ReadData(h) /\ ClosedFor("disconnect") /\ UNCHANGED <<awaiting, accepted>>
    BY <1>5 DEF ReadHangup
  <2>2. /\ h \in ConnectionType /\ Buffered(h) /\ Settled(h)
        /\ conn.bytesToWrite > 0 => h.isOpen = conn.isOpen /\ Unsent(h) = Unsent(conn)
        /\ conn.bytesToWrite = 0 => ~h.isOpen /\ Unsent(conn) = <<>>
    BY DisconnectLemma
  <2> HIDE DEF h
  <2>3. Handled /\ conn'.isOpen = h.isOpen /\ Unsent(conn') = Unsent(h)
    BY <2>1, <2>2, ReadDataStep
  <2>4. CASE conn.bytesToWrite > 0
    BY <2>1, <2>2, <2>3, <2>4, QuietStep DEF ClosedFor
  <2>5. CASE conn.bytesToWrite = 0 /\ conn.isOpen
    BY <2>1, <2>2, <2>3, <2>5, FinishStep DEF ClosedFor
  <2>6. CASE conn.bytesToWrite = 0 /\ ~conn.isOpen
    <3>1. conn'.isOpen = conn.isOpen
      BY <2>2, <2>3, <2>6 DEF Handled, ConnectionType
    <3>2. closedBy' = closedBy /\ accepted' = accepted /\ <<>> \in Seq(Byte)
      BY <2>1, <2>6, EmptySeq DEF ClosedFor
    <3> QED
      BY <2>3, <2>6, <3>1, <3>2, AppendStep
  <2> QED
    BY <2>4, <2>5, <2>6 DEF ConnectionType
<1>6. CASE ReadError
  <2> DEFINE done == [conn EXCEPT !.reading = "none"]
  <2>1. /\ conn' = IF conn.reading = "aborted" THEN done ELSE Close(done)
        /\ ClosedFor("error")
        /\ UNCHANGED <<awaiting, peer, reads, accepted, wire>>
    BY <1>6 DEF ReadError
  <2>2. /\ done \in ConnectionType /\ Buffered(done) /\ Settled(done)
        /\ done.isOpen = conn.isOpen
    <3>1. "none" \in ReadStates
      BY DEF ReadStates
    <3> QED
      BY <3>1, ReadingLemma
  <2>3. Close(done) \in ConnectionType /\ Buffered(Close(done)) /\ ~Close(done).isOpen
    BY <2>2, CloseLemma
  <2>4. conn.reading = "aborted" => ~conn.isOpen
    OBVIOUS
  <2> HIDE DEF done
  <2>5. /\ conn' \in ConnectionType /\ Buffered(conn')
        /\ ~conn'.isOpen
    BY <2>1, <2>2, <2>3, <2>4
  <2>6. Handled
    BY <2>1, <2>5 DEF Handled, Settled
  <2>7. CASE conn.isOpen
    BY <2>1, <2>5, <2>6, <2>7, BreakStep DEF ClosedFor
  <2>8. CASE ~conn.isOpen
    <3>1. conn'.isOpen = conn.isOpen
      BY <2>5, <2>8 DEF ConnectionType
    <3>2. closedBy' = closedBy /\ accepted' = accepted /\ <<>> \in Seq(Byte)
      BY <2>1, <2>8, EmptySeq DEF ClosedFor
    <3> QED
      BY <2>6, <2>8, <3>1, <3>2, AppendStep
  <2> QED
    BY <2>7, <2>8
<1> QED
  BY <1>1, <1>2, <1>3, <1>4, <1>5, <1>6 DEF ReadHandler

\* The handler of the write.
LEMMA WriteHandlerStep ==
    ASSUME IInv, WriteHandler
    PROVE  IInv' /\ StreamStep
<1> USE Current
<1>1. CASE WriteDone
  <2>1. /\ conn.writing = "ok"
        /\ conn' = OnBytesWritten([conn EXCEPT !.writing = "none"], conn.writeSize)
        /\ ClosedFor("disconnect")
        /\ UNCHANGED <<awaiting, peer, reads, accepted, wire>>
    BY <1>1 DEF WriteDone
  <2>2. /\ conn' \in ConnectionType /\ Buffered(conn') /\ Settled(conn')
        /\ \/ /\ conn'.isOpen = conn.isOpen
              /\ conn'.reading = conn.reading
              /\ Unsent(conn') = Unsent(conn)
           \/ ~conn'.isOpen /\ Unsent(conn) = <<>>
    BY <2>1, OnBytesWrittenLemma
  <2>3. Handled
    BY <2>1, <2>2 DEF Handled
  <2>4. CASE conn'.isOpen = conn.isOpen /\ Unsent(conn') = Unsent(conn)
    BY <2>1, <2>3, <2>4, QuietStep DEF ClosedFor
  <2>5. CASE ~conn'.isOpen /\ conn.isOpen /\ Unsent(conn) = <<>>
    BY <2>1, <2>3, <2>5, FinishStep DEF ClosedFor
  <2>6. CASE ~conn'.isOpen /\ ~conn.isOpen
    <3>1. conn'.isOpen = conn.isOpen
      BY <2>2, <2>6 DEF ConnectionType
    <3>2. closedBy' = closedBy /\ accepted' = accepted /\ <<>> \in Seq(Byte)
      BY <2>1, <2>6, EmptySeq DEF ClosedFor
    <3> QED
      BY <2>3, <2>6, <3>1, <3>2, AppendStep
  <2> QED
    BY <2>2, <2>4, <2>5, <2>6
<1>2. CASE WriteError
  <2> DEFINE done == [conn EXCEPT !.writing = "none"]
  <2>1. /\ conn' = Close(done)
        /\ ClosedFor("error")
        /\ UNCHANGED <<awaiting, peer, reads, accepted, wire>>
    BY <1>2 DEF WriteError
  <2>2. done \in ConnectionType /\ Buffered(done)
    BY DEF ConnectionType, WriteStates, Buffered
  <2>3. conn' \in ConnectionType /\ Buffered(conn') /\ ~conn'.isOpen
    BY <2>1, <2>2, CloseLemma
  <2>4. Handled
    BY <2>1, <2>3 DEF Handled, Settled
  <2>5. CASE conn.isOpen
    BY <2>1, <2>3, <2>4, <2>5, BreakStep DEF ClosedFor
  <2>6. CASE ~conn.isOpen
    <3>1. conn'.isOpen = conn.isOpen
      BY <2>3, <2>6 DEF ConnectionType
    <3>2. closedBy' = closedBy /\ accepted' = accepted /\ <<>> \in Seq(Byte)
      BY <2>1, <2>6, EmptySeq DEF ClosedFor
    <3> QED
      BY <2>4, <2>6, <3>1, <3>2, AppendStep
  <2> QED
    BY <2>5, <2>6
<1> QED
  BY <1>1, <1>2 DEF WriteHandler

\* A callback that sends the response later.
LEMMA RespondingStep ==
    ASSUME IInv, Responding
    PROVE  IInv' /\ StreamStep
<1> USE Current
<1>1. PICK output \in Record, end \in Record, keepConnection \in BOOLEAN :
            RespondLater(output, end, keepConnection)
  BY DEF Responding
<1>2. /\ conn' = SendResponse(conn, output, end, keepConnection)
      /\ awaiting' = FALSE
      /\ Accepts(output \o end)
      /\ ClosedFor("disconnect")
      /\ UNCHANGED <<peer, reads, wire>>
  BY <1>1 DEF RespondLater
<1>3. output \o end \in Seq(Byte)
  BY RecordFacts, ConcatProperties
<1>4. /\ conn' \in ConnectionType /\ Buffered(conn') /\ Settled(conn')
      /\ conn'.isOpen = conn.isOpen
      /\ conn'.reading = conn.reading
      /\ conn.isOpen => Unsent(conn') = Unsent(conn) \o (output \o end)
  BY <1>2, SendResponseLemma
<1>5. Handled
  BY <1>2, <1>4 DEF Handled
<1>6. closedBy' = closedBy
  BY <1>2, <1>4 DEF ClosedFor
<1> QED
  BY <1>2, <1>3, <1>4, <1>5, <1>6, AppendStep DEF Accepts

(***************************************************************************)
(* The theorems.                                                           *)
(***************************************************************************)

\* The first read is armed and nothing is buffered.
LEMMA InitIInv == Init => IInv /\ Stream!Init
<1> SUFFICES ASSUME Init PROVE IInv /\ Stream!Init
  OBVIOUS
<1> DEFINE fresh == [ isOpen |-> TRUE, reading |-> "none", writing |-> "none",
                      writeSize |-> 0, written |-> 0,
                      writeBuffer |-> <<>>, nextWriteBuffer |-> <<>>,
                      bytesToWrite |-> 0, disconnectRequested |-> FALSE ]
<1>1. <<>> \in Seq(Byte)
  BY EmptySeq
<1>2. fresh \in ConnectionType
  BY <1>1 DEF ConnectionType, ReadStates, WriteStates
<1>3. Buffered(fresh) /\ Settled(fresh) /\ fresh.isOpen /\ Unsent(fresh) = <<>>
  BY DEF Buffered, Settled, Unsent
<1>4. conn = Process(fresh)
  BY DEF Init
<1> HIDE DEF fresh
<1>5. /\ conn \in ConnectionType /\ Buffered(conn) /\ Settled(conn)
      /\ conn.isOpen /\ conn.reading = "pending"
      /\ Unsent(conn) = <<>>
  BY <1>2, <1>3, <1>4, ProcessLemma
<1>6. accepted = wire \o Unsent(conn)
  BY <1>1, <1>5, ConcatEmptySeq DEF Init
<1>7. IInv
  BY <1>1, <1>5, <1>6 DEF Init, IInv, TypeOK, NoByteLost
<1>8. Stream!Init
  BY <1>5 DEF Init, Stream!Init, Status
<1> QED
  BY <1>7, <1>8

\* Every step preserves the invariant and is a step of the response stream.
LEMMA NextIInv == IInv /\ [Next]_vars => IInv' /\ StreamStep
<1> SUFFICES ASSUME IInv, [Next]_vars PROVE IInv' /\ StreamStep
  OBVIOUS
<1>1. CASE Next
  BY <1>1, EnvironmentStep, ReadHandlerStep, WriteHandlerStep, RespondingStep DEF Next
<1>2. CASE UNCHANGED vars
  <2>1. Handled
    BY <1>2, Current DEF vars, Handled
  <2> QED
    BY <1>2, <2>1, QuietStep DEF vars
<1> QED
  BY <1>1, <1>2

\* The members of a connection keep their types; in particular bytesToWrite_
\* never goes below zero, where the size_t of the code would wrap around.
THEOREM TypeCorrect == Spec => []TypeOK
<1>1. IInv => TypeOK
  BY DEF IInv
<1> QED
  BY <1>1, InitIInv, NextIInv, PTL DEF Spec

\* bytesToWrite_ always equals the size of the write under way.
THEOREM WritesAccountedFor == Spec => []WriteAccounting
<1>1. IInv => WriteAccounting
  BY DEF IInv, WriteAccounting, Buffered, Settled
<1> QED
  BY <1>1, InitIInv, NextIInv, PTL DEF Spec

\* Neither waiting bytes nor a deferred disconnect are ever left without the
\* completion handler that takes care of them.
THEOREM NothingIsStranded == Spec => []NothingStranded
<1>1. IInv => NothingStranded
  BY DEF IInv, TypeOK, ConnectionType, NothingStranded, Buffered, Settled
<1> QED
  BY <1>1, InitIInv, NextIInv, PTL DEF Spec

\* An open connection always has a read pending or its handler queued.
THEOREM ReadLoopNeverStops == Spec => []ReadLoopArmed
<1>1. IInv => ReadLoopArmed
  BY DEF IInv, ReadLoopArmed
<1> QED
  BY <1>1, InitIInv, NextIInv, PTL DEF Spec

\* No byte given to sendData() is lost, repeated or reordered while the
\* connection is open, however the buffers are switched.
THEOREM NoByteIsLost == Spec => []NoByteLost
<1>1. IInv => NoByteLost
  BY DEF IInv
<1> QED
  BY <1>1, InitIInv, NextIInv, PTL DEF Spec

\* The connection implements the response stream: a disconnect closes the
\* socket only after the last byte has left.
THEOREM ImplementsStream == Spec => StreamSpec
<1>1. StreamStep <=> [Stream!Next]_(Stream!vars)
  BY DEF StreamStep, Stream!vars
<1> QED
  BY <1>1, InitIInv, NextIInv, PTL DEF Spec, StreamSpec, Stream!Spec

\* While asio still reads from writeBuffer_, no handler touches it.
LEMMA BufferStep ==
    ASSUME IInv, Next, conn.writing = "pending"
    PROVE  conn'.writeBuffer = conn.writeBuffer
<1> USE Current
<1>1. conn.bytesToWrite > 0
  BY DEF Buffered
<1>2. ASSUME NEW c \in ConnectionType
      PROVE  /\ Process(c).writeBuffer = c.writeBuffer
             /\ Close(c).writeBuffer = c.writeBuffer
             /\ Disconnect(c).writeBuffer = c.writeBuffer
  BY DEF Process, Close, Disconnect, ConnectionType
<1>3. CASE Environment
  BY <1>3 DEF Environment, PeerSends, PeerDrops, ReadFails, Transfer, WriteFails, ConnectionType
<1>4. CASE ReadIncomplete \/ ReadRequest
  BY <1>2, <1>4 DEF ReadIncomplete, ReadRequest, ReadData
<1>5. ASSUME NEW reply \in Record, ReadManagement(reply)
      PROVE  conn'.writeBuffer = conn.writeBuffer
  <2>1. /\ SendData(conn, reply) \in ConnectionType
        /\ SendData(conn, reply).writeBuffer = conn.writeBuffer
    BY <1>1, RecordFacts, SendDataLemma
  <2> QED
    BY <1>2, <1>5, <2>1 DEF ReadManagement, ReadData
<1>6. ASSUME NEW output \in Record, NEW end \in Record, NEW keepConnection \in BOOLEAN,
             \/ ReadRequestAndRespond(output, end, keepConnection)
             \/ RespondLater(output, end, keepConnection)
      PROVE  conn'.writeBuffer = conn.writeBuffer
  <2> DEFINE sent == SendResponse(conn, output, end, keepConnection)
  <2>1. sent \in ConnectionType /\ sent.writeBuffer = conn.writeBuffer
    BY <1>1, SendResponseLemma
  <2>2. conn' = Process(sent) \/ conn' = sent
    BY <1>6 DEF ReadRequestAndRespond, RespondLater, ReadData
  <2> HIDE DEF sent
  <2> QED
    BY <1>2, <2>1, <2>2
<1>7. CASE ReadHangup
  BY <1>2, <1>7, DisconnectLemma DEF ReadHangup, ReadData
<1>8. CASE ReadError
  BY <1>8 DEF ReadError, Close, ConnectionType
<1>9. CASE WriteHandler
  BY <1>9 DEF WriteHandler, WriteDone, WriteError
<1> QED
  BY <1>3, <1>4, <1>5, <1>6, <1>7, <1>8, <1>9 DEF Next, ReadHandler, Responding

\* sendData() never modifies the buffer of an asio::async_write that is still
\* transferring it.
THEOREM BufferIsUntouched == Spec => BufferUntouched
<1>1. IInv /\ [Next]_vars
        => [conn.writing = "pending" => conn'.writeBuffer = conn.writeBuffer]_vars
  BY BufferStep
<1> QED
  BY <1>1, InitIInv, NextIInv, PTL DEF Spec, BufferUntouched

=============================================================================
