---------------------------- MODULE ClientRequest ----------------------------
(***************************************************************************)
(* One request of a Client: ClientService::makeRequest() with its timeout  *)
(* timer, and the ClientConnection made for it, which derives from         *)
(* fcgi::Requester (external).  Every request has a connection, a timer    *)
(* and a handler of its own, so one stands for all of them; what a client  *)
(* of a Responder does to the request processor queue is in                *)
(* RequestProcessing.                                                      *)
(*                                                                         *)
(* As in Connection, an asio operation is decided first and its handler    *)
(* runs later, and closing the socket aborts only what is undecided.       *)
(* Unlike Connection, the handlers hold a plain `this`.                    *)
(***************************************************************************)
EXTENDS Integers

CONSTANTS
    Local,           \* a Unix domain endpoint (otherwise TCP)
    UserDisconnects  \* user code may call Client::disconnect()

ASSUME ClientAssumption == Local \in BOOLEAN /\ UserDisconnects \in BOOLEAN

VARIABLES
    socket,    \* the ClientConnection: socket, operations and write buffers
    exists,    \* the ClientConnection has not been destroyed
    request,   \* the fcgi::Requester's view: "none", "sent" or "ended"
    cancel,    \* *cancelRequestOnTimeout: "nothing" or "cancel"
    timer,     \* the timeout timer: "idle", "armed" or "expired" (queued)
    peer,      \* "up", or "down" once the FastCGI server dropped the connection
    handled,   \* how often the response handler was called
    busy,      \* history: Client::disconnect() found a handler it cannot recall
    dangling   \* history: the destroyed ClientConnection was used

vars == <<socket, exists, request, cancel, timer, peer, handled, busy, dangling>>

SocketType ==
    [ isOpen              : BOOLEAN,
      connecting          : {"none", "pending", "ok", "failed"},
      reading             : {"none", "pending", "data", "eof", "aborted"},
      writing             : {"none", "pending", "ok", "error"},
      bytesToWrite        : BOOLEAN,  \* bytesToWrite_ > 0
      nextWriteBuffer     : BOOLEAN,  \* !nextWriteBuffer_.empty()
      disconnectRequested : BOOLEAN ]

(***************************************************************************)
(* The methods of ClientConnection.                                        *)
(***************************************************************************)
ProcessReading(s) == IF s.isOpen THEN [s EXCEPT !.reading = "pending"] ELSE s

SendData(s) ==
    IF s.bytesToWrite
    THEN [s EXCEPT !.nextWriteBuffer = TRUE]
    ELSE [s EXCEPT !.bytesToWrite = TRUE,
                   !.nextWriteBuffer = FALSE,
                   !.writing = IF s.isOpen THEN "pending" ELSE "error"]

Close(s) ==
    [s EXCEPT !.isOpen = FALSE,
              !.connecting = IF @ = "pending" THEN "failed" ELSE @,
              !.reading = IF @ = "pending" THEN "aborted" ELSE @,
              !.writing = IF @ = "pending" THEN "error" ELSE @,
              !.disconnectRequested = FALSE]

Disconnect(s) ==
    LET requested == [s EXCEPT !.disconnectRequested = TRUE]
    IN  IF s.bytesToWrite THEN requested ELSE Close(requested)

\* Mutant: a deferred disconnect is forgotten.
OnBytesWrittenForgetful(s) ==
    LET rest == [s EXCEPT !.bytesToWrite = FALSE]
    IN  IF rest.nextWriteBuffer THEN SendData(rest) ELSE rest

\* Mutant: the deferred disconnect comes before what waits to be written.
OnBytesWrittenClosesFirst(s) ==
    LET rest == [s EXCEPT !.bytesToWrite = FALSE]
    IN  IF rest.disconnectRequested THEN Close(rest)
        ELSE IF rest.nextWriteBuffer THEN SendData(rest)
        ELSE rest

\* asio::async_write reports success only for the whole buffer.
OnBytesWritten(s) ==
    LET rest == [s EXCEPT !.bytesToWrite = FALSE]
    IN  IF rest.nextWriteBuffer THEN SendData(rest)
        ELSE IF rest.disconnectRequested THEN Close(rest)
        ELSE rest

(***************************************************************************)
(* The callbacks of ClientService::makeRequest().                          *)
(***************************************************************************)

\* onResponseReceived(): stop the timeout, call the user's handler.
OnResponseReceived ==
    /\ handled' = handled + 1
    /\ timer' = IF timer = "armed" THEN "idle" ELSE timer

-----------------------------------------------------------------------------

\* ClientService::makeRequest() starts the timeout, then async_connect().
Init ==
    /\ socket = [ isOpen |-> TRUE, connecting |-> "pending", reading |-> "none",
                  writing |-> "none", bytesToWrite |-> FALSE,
                  nextWriteBuffer |-> FALSE, disconnectRequested |-> FALSE ]
    /\ exists = TRUE
    /\ request = "none"
    /\ cancel = "nothing"
    /\ timer = "armed"
    /\ peer = "up"
    /\ handled = 0
    /\ busy = FALSE
    /\ dangling = FALSE

(***************************************************************************)
(* The peer and the operating system (external).                           *)
(***************************************************************************)
Decided(s) ==
    /\ socket' = s
    /\ UNCHANGED <<exists, request, cancel, timer, peer, handled, busy, dangling>>

ConnectDecided ==
    /\ socket.connecting = "pending"
    /\ \E result \in {"ok", "failed"} : Decided([socket EXCEPT !.connecting = result])

PeerSends ==
    /\ peer = "up"
    /\ socket.reading = "pending"
    /\ Decided([socket EXCEPT !.reading = "data"])

PeerDrops ==
    /\ peer = "up"
    /\ peer' = "down"
    /\ UNCHANGED <<socket, exists, request, cancel, timer, handled, busy, dangling>>

ReadFails ==
    /\ peer = "down"
    /\ socket.reading = "pending"
    /\ Decided([socket EXCEPT !.reading = "eof"])

WriteDecided ==
    /\ socket.writing = "pending"
    /\ \E result \in {"ok", "error"} :
        /\ result = "error" => peer = "down"
        /\ Decided([socket EXCEPT !.writing = result])

\* The timeout timer expires.
TimerExpires ==
    /\ timer = "armed"
    /\ timer' = "expired"
    /\ UNCHANGED <<socket, exists, request, cancel, peer, handled, busy, dangling>>

(***************************************************************************)
(* The handlers.  One that needs the ClientConnection after it was         *)
(* destroyed is recorded and does nothing else.                            *)
(***************************************************************************)
Uses(operation) ==
    /\ exists
    /\ operation
    /\ UNCHANGED <<exists, peer, busy, dangling>>

Dangles(after) ==
    /\ ~exists
    /\ dangling' = TRUE
    /\ socket' = after
    /\ UNCHANGED <<exists, request, cancel, timer, peer, handled, busy>>

\* The handler of async_connect() with an error needs no member.
ConnectError ==
    /\ socket.connecting = "failed"
    /\ socket' = [socket EXCEPT !.connecting = "none"]
    /\ OnResponseReceived
    /\ UNCHANGED <<exists, request, cancel, peer, busy, dangling>>

Connected == [socket EXCEPT !.connecting = "none"]

\* Mutant: the timeout is never given the request to cancel.
RequestSentWithoutCancel ==
    /\ socket' = SendData(ProcessReading(Connected))
    /\ request' = "sent"
    /\ UNCHANGED <<cancel, timer, handled>>

\* sendRequest() (external) starts the request and returns its handle, which
\* the timeout may cancel from now on ...
RequestSent ==
    /\ socket' = SendData(ProcessReading(Connected))
    /\ request' = "sent"
    /\ cancel' = "cancel"
    /\ UNCHANGED <<timer, handled>>

\* ... or refuses it.
RequestRefused ==
    /\ socket' = ProcessReading(Connected)
    /\ OnResponseReceived
    /\ UNCHANGED <<request, cancel>>

ConnectDone ==
    /\ socket.connecting = "ok"
    /\ \/ Uses(RequestSent)
       \/ Uses(RequestRefused)
       \/ Dangles(Connected)

\* The Requester ends the request: it lets the connection go and calls the
\* response handler.  A request that was ended is unknown to it.
EndRequest(s) ==
    /\ request = "sent"
    /\ request' = "ended"
    /\ socket' = s
    /\ OnResponseReceived

Read == [socket EXCEPT !.reading = "none"]

\* readData(): the response is still incomplete, or nobody waits for it.
ReadMore ==
    /\ socket' = ProcessReading(Read)
    /\ UNCHANGED <<request, cancel, timer, handled>>

\* readData(): the response is complete.
ReadResponse ==
    /\ EndRequest(ProcessReading(Disconnect(Read)))
    /\ UNCHANGED cancel

ReadDone ==
    /\ socket.reading = "data"
    /\ \/ Uses(ReadMore)
       \/ Uses(ReadResponse)
       \/ Dangles(Read)

\* The end of the connection is reported, but does not end the request.
ReadError ==
    /\ socket.reading = "eof"
    /\ \/ Uses(socket' = Read /\ UNCHANGED <<request, cancel, timer, handled>>)
       \/ Dangles(Read)

\* Mutant: operation_aborted is reported as well.
ReadAbortedReported ==
    /\ socket.reading = "aborted"
    /\ \/ Uses(socket' = Read /\ UNCHANGED <<request, cancel, timer, handled>>)
       \/ Dangles(Read)

\* operation_aborted: the handler returns without touching the object.
ReadAborted ==
    /\ socket.reading = "aborted"
    /\ Decided(Read)

Written == [socket EXCEPT !.writing = "none"]

WriteDone ==
    /\ socket.writing = "ok"
    /\ \/ Uses(socket' = OnBytesWritten(Written) /\ UNCHANGED <<request, cancel, timer, handled>>)
       \/ Dangles(Written)

\* A write error is reported; bytesToWrite_ keeps its value.
WriteError ==
    /\ socket.writing = "error"
    /\ \/ Uses(socket' = Written /\ UNCHANGED <<request, cancel, timer, handled>>)
       \/ Dangles(Written)

\* Mutant: the timeout tells the handler itself.
TimeoutBlindly ==
    /\ timer = "expired"
    /\ timer' = "idle"
    /\ handled' = handled + 1
    /\ UNCHANGED <<socket, exists, request, cancel, peer, busy, dangling>>

\* The timeout: (*cancelRequestOnTimeout)(), then the timer's own stop().  The
\* handle of a request that has ended, or whose Requester is gone, is inert.
Timeout ==
    /\ timer = "expired"
    /\ timer' = "idle"
    /\ IF cancel = "cancel" /\ request = "sent" /\ exists
       THEN /\ request' = "ended"
            /\ socket' = Disconnect(SendData(socket))
            /\ handled' = handled + 1
       ELSE UNCHANGED <<request, socket, handled>>
    /\ UNCHANGED <<exists, cancel, peer, busy, dangling>>

\* ClientService::disconnect() destroys the connections to Unix domain
\* endpoints; the destructor closes the socket.
DisconnectClient ==
    /\ UserDisconnects
    /\ exists
    /\ exists' = ~Local
    /\ socket' = IF Local THEN Close(socket) ELSE socket
    /\ busy' = (busy \/ socket.connecting = "ok" \/ socket.reading \in {"data", "eof"}
                     \/ socket.writing # "none")
    /\ UNCHANGED <<request, cancel, timer, peer, handled, dangling>>

-----------------------------------------------------------------------------

Environment ==
    ConnectDecided \/ PeerSends \/ PeerDrops \/ ReadFails \/ WriteDecided \/ TimerExpires

SocketHandler ==
    \/ ConnectError
    \/ ConnectDone
    \/ ReadDone
    \/ ReadError
    \/ ReadAborted
    \/ WriteDone
    \/ WriteError

Next == Environment \/ SocketHandler \/ Timeout \/ DisconnectClient

Spec == Init /\ [][Next]_vars

\* Connects and writes are decided by the operating system, time passes and
\* the io thread runs queued handlers; the peer may stay silent for ever.
FairSpec ==
    /\ Spec
    /\ WF_vars(ConnectDecided)
    /\ WF_vars(WriteDecided)
    /\ WF_vars(TimerExpires)
    /\ WF_vars(Timeout)
    /\ WF_vars(ConnectError \/ ConnectDone)
    /\ WF_vars(ReadDone \/ ReadError \/ ReadAborted)
    /\ WF_vars(WriteDone \/ WriteError)

-----------------------------------------------------------------------------
(***************************************************************************)
(* Properties.                                                             *)
(***************************************************************************)

\* The state has its type.
TypeOK ==
    /\ socket \in SocketType
    /\ exists \in BOOLEAN
    /\ request \in {"none", "sent", "ended"}
    /\ cancel \in {"nothing", "cancel"}
    /\ timer \in {"idle", "armed", "expired"}
    /\ peer \in {"up", "down"}
    /\ handled \in 0..1
    /\ busy \in BOOLEAN
    /\ dangling \in BOOLEAN

\* The response handler is called once at most, whichever of the response, the
\* timeout, a refused request and a failed connect come first and whatever of
\* them is queued already.
HandlerCalledOnce == handled <= 1

\* The connection closes its socket only when everything it was given is
\* written.  A timeout that strikes while the request is being written queues
\* the record that cancels it and then disconnects: the record still goes out,
\* and an answer that comes before its request is sent cuts nothing off.
CloseLosesNothing ==
    [][exists' /\ socket.isOpen /\ ~socket'.isOpen =>
            /\ ~socket'.bytesToWrite
            /\ ~socket'.nextWriteBuffer
            /\ socket'.writing = "none"]_vars

\* Client::disconnect() is safe whenever no handler of the connection has its
\* result already and no write is under way: what it aborts does not come back
\* to the destroyed connection.
IdleDisconnectIsSafe == dangling => busy

\* A request that was sent in time is answered or cancelled by the timeout,
\* however the peer behaves.
SentRequestEnds == (request = "sent" /\ timer = "armed") ~> (handled > 0 \/ ~exists)

\* A finished request lets its socket go, once the writes under way have ended,
\* unless a write failed.
FinishedRequestCloses ==
    request = "ended" ~> (~socket.isOpen \/ (socket.bytesToWrite /\ socket.writing = "none"))

\* README, example_client: the handler is called with a response or with
\* none ("No response"); client.h gives every request a timeout.
EveryRequestEnds == socket.connecting = "pending" ~> (handled > 0 \/ ~exists)

-----------------------------------------------------------------------------
(***************************************************************************)
(* The inductive invariant behind the safety properties.                   *)
(***************************************************************************)

\* The handler is owed as long as the connect or the request is undecided.
HandlerOwed ==
    /\ socket.connecting # "none" => request = "none" /\ handled = 0
    /\ request = "sent" => handled = 0

\* What waits to be written, or is being written, is counted.
Counted(s) == s.nextWriteBuffer \/ s.writing # "none" => s.bytesToWrite

WritesCounted == Counted(socket)

\* A connection that was destroyed while idle has no handler left that would
\* use it, and starts no operation.
NothingComesBack ==
    ~exists /\ ~busy =>
        /\ socket.connecting \in {"none", "failed"}
        /\ socket.reading \in {"none", "aborted"}
        /\ socket.writing = "none"

IInv ==
    /\ TypeOK
    /\ HandlerOwed
    /\ WritesCounted
    /\ NothingComesBack
    /\ IdleDisconnectIsSafe

=============================================================================
