------------------------- MODULE ClientRequestProofs -------------------------
(***************************************************************************)
(* Proofs that a client request keeps its promises, for local and TCP      *)
(* endpoints and whether or not user code disconnects the client.          *)
(***************************************************************************)
EXTENDS ClientRequest, TLAPS

\* The methods of ClientConnection keep the members in their types.
LEMMA MethodTypes ==
    ASSUME NEW s \in SocketType
    PROVE  /\ ProcessReading(s) \in SocketType
           /\ SendData(s) \in SocketType
           /\ Close(s) \in SocketType
           /\ Disconnect(s) \in SocketType
           /\ OnBytesWritten(s) \in SocketType
<1>1. Close(s) \in SocketType
  BY DEF SocketType, Close
<1>2. SendData(s) \in SocketType
  BY DEF SocketType, SendData
<1>3. ProcessReading(s) \in SocketType
  BY DEF SocketType, ProcessReading
<1>4. Disconnect(s) \in SocketType
  BY DEF SocketType, Disconnect, Close
<1>5. OnBytesWritten(s) \in SocketType
  BY DEF SocketType, OnBytesWritten, SendData, Close
<1> QED
  BY <1>1, <1>2, <1>3, <1>4, <1>5

\* None of them starts a connect or decides one that succeeded.
LEMMA MethodsConnect ==
    ASSUME NEW s \in SocketType
    PROVE  /\ ProcessReading(s).connecting = s.connecting
           /\ SendData(s).connecting = s.connecting
           /\ s.connecting = "none" => Disconnect(s).connecting = "none"
           /\ s.connecting = "none" => OnBytesWritten(s).connecting = "none"
BY DEF SocketType, ProcessReading, SendData, Disconnect, OnBytesWritten, Close

\* They count what they write, and keep what waits for its turn.
LEMMA MethodsCount ==
    ASSUME NEW s \in SocketType, Counted(s)
    PROVE  /\ Counted(ProcessReading(s))
           /\ Counted(SendData(s))
           /\ Counted(Close(s))
           /\ Counted(Disconnect(s))
           /\ s.writing = "none" => Counted(OnBytesWritten(s))
<1> USE DEF SocketType, Counted
<1>1. Counted(ProcessReading(s)) /\ Counted(SendData(s)) /\ Counted(Close(s))
  BY DEF ProcessReading, SendData, Close
<1>2. Counted(Disconnect(s))
  BY DEF Disconnect, Close
<1>3. s.writing = "none" => Counted(OnBytesWritten(s))
  BY DEF OnBytesWritten, SendData, Close
<1> QED
  BY <1>1, <1>2, <1>3

\* A request that was just made owes its handler a call.
LEMMA InitIInv == Init => IInv
<1> SUFFICES ASSUME Init PROVE IInv
  OBVIOUS
<1>1. socket \in SocketType
  BY DEF Init, SocketType
<1>2. exists \in BOOLEAN /\ busy \in BOOLEAN /\ dangling \in BOOLEAN
  BY Zenon DEF Init
<1>3. /\ request \in {"none", "sent", "ended"}
      /\ cancel \in {"nothing", "cancel"}
      /\ timer \in {"idle", "armed", "expired"}
      /\ peer \in {"up", "down"}
      /\ handled \in 0..1
  BY DEF Init
<1>4. HandlerOwed /\ WritesCounted /\ NothingComesBack /\ IdleDisconnectIsSafe
  BY DEF Init, HandlerOwed, WritesCounted, Counted, NothingComesBack, IdleDisconnectIsSafe
<1> QED
  BY <1>1, <1>2, <1>3, <1>4 DEF IInv, TypeOK

\* Every handler, and disconnect(), keeps the invariant.
LEMMA NextIInv == IInv /\ [Next]_vars => IInv'
<1> SUFFICES ASSUME IInv, [Next]_vars PROVE IInv'
  OBVIOUS
<1> USE DEF IInv, HandlerOwed, WritesCounted, NothingComesBack, IdleDisconnectIsSafe
<1>t. socket \in SocketType /\ TypeOK /\ Counted(socket)
  BY DEF TypeOK
<1>1. CASE ConnectDecided
  BY <1>1, <1>t DEF ConnectDecided, Decided, TypeOK, SocketType, Counted
<1>2. CASE PeerSends
  BY <1>2, <1>t DEF PeerSends, Decided, TypeOK, SocketType, Counted
<1>3. CASE PeerDrops
  BY <1>3, <1>t DEF PeerDrops, TypeOK
<1>4. CASE ReadFails
  BY <1>4, <1>t DEF ReadFails, Decided, TypeOK, SocketType, Counted
<1>5. CASE WriteDecided
  BY <1>5, <1>t DEF WriteDecided, Decided, TypeOK, SocketType, Counted
<1>6. CASE TimerExpires
  BY <1>6, <1>t DEF TimerExpires, TypeOK
<1>7. CASE ConnectError
  BY <1>7, <1>t DEF ConnectError, OnResponseReceived, TypeOK, SocketType, Counted
<1>8. CASE ConnectDone
  <2>1. Connected \in SocketType /\ Connected.connecting = "none" /\ Counted(Connected)
    BY <1>t DEF Connected, SocketType, Counted
  <2>2. CASE Uses(RequestSent)
    <3>1. /\ socket' \in SocketType
          /\ socket'.connecting = "none"
          /\ Counted(socket')
      BY <2>1, <2>2, MethodTypes, MethodsConnect, MethodsCount DEF Uses, RequestSent
    <3> QED
      BY <1>8, <2>2, <3>1, <1>t DEF Uses, RequestSent, ConnectDone, TypeOK
  <2>3. CASE Uses(RequestRefused)
    <3>1. /\ socket' \in SocketType
          /\ socket'.connecting = "none"
          /\ Counted(socket')
      BY <2>1, <2>3, MethodTypes, MethodsConnect, MethodsCount DEF Uses, RequestRefused
    <3> QED
      BY <1>8, <2>3, <3>1, <1>t
      DEF Uses, RequestRefused, OnResponseReceived, ConnectDone, TypeOK
  <2>4. CASE Dangles(Connected)
    BY <1>8, <2>1, <2>4, <1>t DEF Dangles, ConnectDone, TypeOK
  <2> QED
    BY <1>8, <2>2, <2>3, <2>4 DEF ConnectDone
<1>9. CASE ReadDone
  <2>1. Read \in SocketType /\ Read.connecting = socket.connecting /\ Counted(Read)
    BY <1>t DEF Read, SocketType, Counted
  <2>2. CASE Uses(ReadMore)
    <3>1. /\ socket' \in SocketType
          /\ socket'.connecting = socket.connecting
          /\ Counted(socket')
      BY <2>1, <2>2, MethodTypes, MethodsConnect, MethodsCount DEF Uses, ReadMore
    <3> QED
      BY <2>2, <3>1, <1>t DEF Uses, ReadMore, TypeOK
  <2>3. CASE Uses(ReadResponse)
    <3>1. request = "sent" /\ socket.connecting = "none" /\ handled = 0
      BY <2>3, <1>t DEF Uses, ReadResponse, EndRequest
    <3>2. /\ socket' \in SocketType
          /\ socket'.connecting = "none"
          /\ Counted(socket')
      BY <2>1, <2>3, <3>1, MethodTypes, MethodsConnect, MethodsCount
      DEF Uses, ReadResponse, EndRequest
    <3> QED
      BY <2>3, <3>1, <3>2, <1>t
      DEF Uses, ReadResponse, EndRequest, OnResponseReceived, TypeOK
  <2>4. CASE Dangles(Read)
    BY <1>9, <2>1, <2>4, <1>t DEF Dangles, ReadDone, TypeOK
  <2> QED
    BY <1>9, <2>2, <2>3, <2>4 DEF ReadDone
<1>10. CASE ReadError
  <2>1. Read \in SocketType /\ Read.connecting = socket.connecting /\ Counted(Read)
    BY <1>t DEF Read, SocketType, Counted
  <2>2. CASE Uses(socket' = Read /\ UNCHANGED <<request, cancel, timer, handled>>)
    BY <2>1, <2>2, <1>t DEF Uses, TypeOK
  <2>3. CASE Dangles(Read)
    BY <1>10, <2>1, <2>3, <1>t DEF Dangles, ReadError, TypeOK
  <2> QED
    BY <1>10, <2>2, <2>3 DEF ReadError
<1>11. CASE ReadAborted
  BY <1>11, <1>t DEF ReadAborted, Decided, Read, TypeOK, SocketType, Counted
<1>12. CASE WriteDone
  <2>1. /\ Written \in SocketType /\ Written.connecting = socket.connecting
        /\ Counted(Written) /\ Written.writing = "none"
    BY <1>t DEF Written, SocketType, Counted
  <2>2. CASE Uses(socket' = OnBytesWritten(Written) /\ UNCHANGED <<request, cancel, timer, handled>>)
    <3>1. socket' \in SocketType /\ Counted(socket')
      BY <2>1, <2>2, MethodTypes, MethodsCount DEF Uses
    <3>2. socket'.connecting # "none" => socket.connecting # "none"
      BY <2>1, <2>2, MethodsConnect DEF Uses
    <3> QED
      BY <2>2, <3>1, <3>2, <1>t DEF Uses, TypeOK
  <2>3. CASE Dangles(Written)
    BY <1>12, <2>1, <2>3, <1>t DEF Dangles, WriteDone, TypeOK
  <2> QED
    BY <1>12, <2>2, <2>3 DEF WriteDone
<1>13. CASE WriteError
  <2>1. /\ Written \in SocketType /\ Written.connecting = socket.connecting
        /\ Counted(Written) /\ Written.writing = "none"
    BY <1>t DEF Written, SocketType, Counted
  <2>2. CASE Uses(socket' = Written /\ UNCHANGED <<request, cancel, timer, handled>>)
    BY <2>1, <2>2, <1>t DEF Uses, TypeOK
  <2>3. CASE Dangles(Written)
    BY <1>13, <2>1, <2>3, <1>t DEF Dangles, WriteError, TypeOK
  <2> QED
    BY <1>13, <2>2, <2>3 DEF WriteError
<1>14. CASE Timeout
  <2>1. CASE cancel = "cancel" /\ request = "sent" /\ exists
    <3>1. socket.connecting = "none" /\ handled = 0
      BY <2>1, <1>t
    <3>2. socket' = Disconnect(SendData(socket))
      BY <1>14, <2>1 DEF Timeout
    <3>3. /\ SendData(socket) \in SocketType
          /\ SendData(socket).connecting = "none"
          /\ Counted(SendData(socket))
      BY <3>1, <1>t, MethodTypes, MethodsConnect, MethodsCount
    <3>4. /\ socket' \in SocketType
          /\ socket'.connecting = "none"
          /\ Counted(socket')
      BY <3>2, <3>3, MethodTypes, MethodsConnect, MethodsCount
    <3> QED
      BY <1>14, <2>1, <3>1, <3>4, <1>t DEF Timeout, TypeOK
  <2>2. CASE ~(cancel = "cancel" /\ request = "sent" /\ exists)
    BY <1>14, <2>2, <1>t DEF Timeout, TypeOK
  <2> QED
    BY <2>1, <2>2
<1>15. CASE DisconnectClient
  <2>1. Close(socket) \in SocketType
    BY <1>t, MethodTypes
  <2>2. exists' \in BOOLEAN /\ busy' \in BOOLEAN
    BY <1>15, <1>t DEF DisconnectClient, TypeOK
  <2>3. TypeOK'
    BY <1>15, <2>1, <2>2, <1>t DEF DisconnectClient, TypeOK
  <2>4. socket'.connecting # "none" => socket.connecting # "none"
    BY <1>15, <1>t DEF DisconnectClient, Close, SocketType
  <2>5. HandlerOwed'
    BY <1>15, <2>4 DEF DisconnectClient
  <2>8. WritesCounted'
    BY <1>15, <1>t, MethodsCount DEF DisconnectClient
  <2>6. IdleDisconnectIsSafe'
    BY <1>15 DEF DisconnectClient
  <2>7. NothingComesBack'
    <3> SUFFICES ASSUME ~exists', ~busy' PROVE NothingComesBack'
      OBVIOUS
    <3>1. socket' = Close(socket)
      BY <1>15 DEF DisconnectClient
    <3>2. /\ socket.connecting # "ok"
          /\ socket.reading \notin {"data", "eof"}
          /\ socket.writing = "none"
      BY <1>15 DEF DisconnectClient
    <3> QED
      BY <3>1, <3>2, <1>t DEF Close, SocketType
  <2> QED
    BY <2>3, <2>5, <2>6, <2>7, <2>8
<1>16. CASE UNCHANGED vars
  BY <1>16, <1>t DEF vars, TypeOK
<1> QED
  BY <1>1, <1>2, <1>3, <1>4, <1>5, <1>6, <1>7, <1>8, <1>9, <1>10, <1>11, <1>12,
     <1>13, <1>14, <1>15, <1>16
  DEF Next, Environment, SocketHandler

\* The invariant holds throughout.
THEOREM IInvHolds == Spec => []IInv
BY InitIInv, NextIInv, PTL DEF Spec

\* The members of ClientConnection and the request keep their types.
THEOREM TypeCorrect == Spec => []TypeOK
BY IInvHolds, PTL DEF IInv

\* However the response, the timeout, a failed connect and disconnect() fall
\* together, ClientService calls the response handler once at most.
THEOREM HandlerIsCalledOnce == Spec => []HandlerCalledOnce
<1>1. IInv => HandlerCalledOnce
  BY DEF IInv, TypeOK, HandlerCalledOnce
<1> QED
  BY <1>1, IInvHolds, PTL

\* disconnect() and onBytesWritten() close the socket only when nothing is left
\* to write; nothing else closes it but the end of the connection.
LEMMA ClosedWhenWritten ==
    ASSUME NEW s \in SocketType, Counted(s), s.isOpen
    PROVE  /\ ProcessReading(s).isOpen /\ SendData(s).isOpen
           /\ LET t == Disconnect(s)
              IN  ~t.isOpen => ~t.bytesToWrite /\ ~t.nextWriteBuffer /\ t.writing = "none"
           /\ LET t == OnBytesWritten(s)
              IN  s.writing = "none" /\ ~t.isOpen =>
                      ~t.bytesToWrite /\ ~t.nextWriteBuffer /\ t.writing = "none"
<1> USE DEF SocketType, Counted
<1>1. ProcessReading(s).isOpen /\ SendData(s).isOpen
  BY DEF ProcessReading, SendData
<1>2. LET t == Disconnect(s)
      IN  ~t.isOpen => ~t.bytesToWrite /\ ~t.nextWriteBuffer /\ t.writing = "none"
  BY DEF Disconnect, Close
<1>3. LET t == OnBytesWritten(s)
      IN  s.writing = "none" /\ ~t.isOpen =>
              ~t.bytesToWrite /\ ~t.nextWriteBuffer /\ t.writing = "none"
  BY DEF OnBytesWritten, SendData, Close
<1> QED
  BY <1>1, <1>2, <1>3

\* processReading() does nothing to a socket that is closed.
LEMMA ReadingIsOver == \A s : ~s.isOpen => ProcessReading(s) = s
BY DEF ProcessReading

\* No step of a client request closes a socket that has something to write, its
\* destruction apart.
LEMMA NextClosesWhenWritten ==
    ASSUME IInv, [Next]_vars, exists', socket.isOpen, ~socket'.isOpen
    PROVE  ~socket'.bytesToWrite /\ ~socket'.nextWriteBuffer /\ socket'.writing = "none"
<1>t. socket \in SocketType /\ Counted(socket)
  BY DEF IInv, TypeOK, WritesCounted
<1>1. /\ Connected \in SocketType /\ Counted(Connected) /\ Connected.isOpen
      /\ Read \in SocketType /\ Counted(Read) /\ Read.isOpen
      /\ Written \in SocketType /\ Counted(Written) /\ Written.isOpen /\ Written.writing = "none"
  BY <1>t DEF Connected, Read, Written, SocketType, Counted
<1>2. CASE Environment
  BY <1>2, <1>t DEF Environment, ConnectDecided, PeerSends, PeerDrops, ReadFails, WriteDecided,
                    TimerExpires, Decided, SocketType
<1>3. CASE ConnectError \/ ReadError \/ ReadAborted \/ WriteError
  BY <1>1, <1>3, <1>t DEF ConnectError, ReadError, ReadAborted, WriteError, Uses, Dangles,
                          Decided, Read, Written, SocketType
<1>4. CASE ConnectDone
  <2>1. ProcessReading(Connected) \in SocketType /\ Counted(ProcessReading(Connected))
    BY <1>1, MethodTypes, MethodsCount
  <2>2. ProcessReading(Connected).isOpen
    BY <1>1, ClosedWhenWritten
  <2>3. SendData(ProcessReading(Connected)).isOpen
    BY <2>1, <2>2, ClosedWhenWritten
  <2> QED
    BY <1>1, <1>4, <2>2, <2>3 DEF ConnectDone, Uses, Dangles, RequestSent, RequestRefused
<1>5. CASE ReadDone
  <2>1. socket' \in {ProcessReading(Read), ProcessReading(Disconnect(Read)), Read}
    BY <1>5 DEF ReadDone, Uses, Dangles, ReadMore, ReadResponse, EndRequest
  <2>2. ProcessReading(Read).isOpen
    BY <1>1, ClosedWhenWritten
  <2>3. socket' = ProcessReading(Disconnect(Read))
    BY <1>1, <2>1, <2>2
  <2>4. Disconnect(Read) \in SocketType /\ Counted(Disconnect(Read))
    BY <1>1, MethodTypes, MethodsCount
  <2>5. ~Disconnect(Read).isOpen
    BY <2>3, <2>4, ClosedWhenWritten
  <2>6. socket' = Disconnect(Read)
    BY <2>3, <2>5, ReadingIsOver
  <2> QED
    BY <1>1, <2>5, <2>6, ClosedWhenWritten
<1>6. CASE WriteDone
  <2>1. socket' = OnBytesWritten(Written)
    BY <1>1, <1>6 DEF WriteDone, Uses, Dangles
  <2> QED
    BY <1>1, <2>1, ClosedWhenWritten
<1>7. CASE Timeout
  <2>1. socket' = Disconnect(SendData(socket))
    BY <1>7 DEF Timeout
  <2>2. SendData(socket) \in SocketType /\ Counted(SendData(socket)) /\ SendData(socket).isOpen
    BY <1>t, MethodTypes, MethodsCount, ClosedWhenWritten
  <2> QED
    BY <2>1, <2>2, ClosedWhenWritten
<1>8. CASE DisconnectClient
  BY <1>8 DEF DisconnectClient
<1>9. CASE UNCHANGED vars
  BY <1>9 DEF vars
<1> QED
  BY <1>2, <1>3, <1>4, <1>5, <1>6, <1>7, <1>8, <1>9 DEF Next, SocketHandler

\* ClientConnection closes its socket only when everything it was given, the
\* record of a cancellation included, is written.
THEOREM ClosingLosesNothing == Spec => CloseLosesNothing
<1> DEFINE Step == exists' /\ socket.isOpen /\ ~socket'.isOpen =>
                       /\ ~socket'.bytesToWrite
                       /\ ~socket'.nextWriteBuffer
                       /\ socket'.writing = "none"
<1>1. IInv /\ [Next]_vars => [Step]_vars
  BY NextClosesWhenWritten
<1> QED
  BY <1>1, IInvHolds, PTL DEF Spec, CloseLosesNothing

\* Destroying an idle ClientConnection leaves nothing behind that uses it.
THEOREM DisconnectIsSafeWhenIdle == Spec => []IdleDisconnectIsSafe
BY IInvHolds, PTL DEF IInv

=============================================================================
