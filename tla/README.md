# asyncgi in TLA+

asyncgi is a C++ library for FastCGI applications: an application listens on
sockets, a web server forwards requests over FastCGI connections, and *request
processors* written by the user answer them, at once or after timers, outgoing
client requests and dispatched tasks.  These modules model its connections,
request processing, request objects, timers, clients and io threads, and the
guest book it shows as a complete application; TLC checks them on small instances
and TLAPS proves their main safety properties for every instance.

Paths below are relative to the repository (`src/...` is its source directory).

## 1. Inventory

| Component | State | Operations | Interacts with |
|---|---|---|---|
| **Connection** (`src/connection.cpp`) | socket, `writeBuffer_`, `nextWriteBuffer_`, `bytesToWrite_`, `disconnectRequested_`, `responseContext_`, `responseSender_`, the services of the connection | `process`, `sendData`, `onBytesWritten`, `disconnect`, `close`, `processRequest` | asio, `fcgi::Responder` (base class), the user's `RequestProcessor` |
| **Request processing** (`router.h`, `requestprocessor.h`, `responder.h`, `responsecontext.cpp`, `responsesender.cpp`) | per request: a `ResponseContext` that owns the queue of matching processors; whether the response was sent | build the queue, `launch`, `stop`, `send`, 404 for unmatched requests, 500 for exceptions and bad route parameters | Connection, and the timer, client and dispatcher services, each of which holds a reference to the queue |
| **Timer** (`timer.cpp`, `timer.h`, `timerservice.cpp`, `timerprovider.cpp`) | a `steady_timer`; for a Responder's timer, a reference to the queue | `start`, `startPeriodic`, `stop`, `waitFuture` | the queue, user callbacks |
| **Client** (`client.cpp`, `clientservice.cpp`, `clientconnection.cpp`) | per request: a connection, a timeout timer, a cancel function; a reference to the queue | `makeRequest`, `disconnect`, and the connection's handlers | asio, `fcgi::Requester` (base class), the queue |
| **Task dispatch** (`asiodispatcher.cpp`, `asiodispatcherservice.cpp`, `taskcontext.cpp`) | a shared `PostAction` that launches the queue when its last copy is destroyed | `postTask` | asio, the queue |
| **IO threads** (`io.cpp`, `ioservice.cpp`) | io_contexts, work guards, threads, `ioIndex_`, the signal set | `run`, `stop`, `nextIO`, the signal handler | everything |
| **Listening** (`server.cpp`, `serverservice.cpp`, `connectionlistener.cpp`, factories) | acceptors, the connection that waits for a peer | `listen`, `waitForConnection`, `onConnected` | IO threads, Connection |
| **Request** (`request.cpp`, `lazyinitialized.h`) | a reference to the connection's `fcgi::Request`; a lazily made view of it | construction, copying, accessors | Connection, Router (which copies it into the queue), user callbacks that keep copies |
| **Guest book** (`examples/example_guestbook.cpp`) | the messages under a mutex; per request a `RouteContext` with a role | the processors of its nine routes | Router, four io threads |
| Event handler, service holder | a callback; a pointer | forwarding | - |

What is hard to get right here:

- an asio operation is decided before its handler runs, so handlers that were
  queued before a `close()`, `stop()` or destruction still run after it;
- a connection has no owner but its own handlers; timers, clients and tasks
  started by a processor may outlive it, or the request they belong to;
- a write may be under way when more is sent or a disconnect is asked for;
- the queue of processors is suspended and resumed by callbacks of three kinds,
  each with its own idea of which queue to resume;
- several parties may answer one request (a processor, a callback, the 404, two
  kinds of 500), and one of them must;
- a timer stops the queue on every start and tick, and an aborted wait does not
  launch it again;
- a `Request` is evaluated lazily through the object it was first made in, a local
  variable that is gone when a resumed processor or a callback reads its copy;
- timeouts race with answers, connects and disconnects;
- processors run on several io threads and share what the application gives them,
  while each request has a context of its own that earlier routes fill;
- `run()` joins threads that end only if a `stop()`, perhaps called by a handler
  of one of them, reaches all contexts.

`PROJECT.json` lists these hazards one by one, with the line and the properties
that cover each.

What makes each component correct:

- Connection: the bytes of the responses form one stream (`ResponseStream`);
  a disconnect comes after the last byte, and comes; a closed connection goes.
- Request processing: every request is answered, once; the chain of processors
  waits for the operations of the earlier ones; nothing destroyed is used.
- Timer: a callback is called as often as it was asked for; the queue it stopped is
  not left behind.
- Request: whoever may read one, reads the request it was made for.
- Guest book: no data race; an administrator deletes the message that was shown;
  nobody else deletes any.
- Client: the handler is called exactly once; the socket is let go.
- Server: connections are spread evenly and served; `stop()` ends `run()`, and
  `run()` returns after all threads.

## 2. Modules

| Module | Models |
|---|---|
| `ResponseStream` | abstract: what a connection promises about its bytes |
| `Connection` | one `detail::Connection`; implements `ResponseStream` |
| `Exchange` | abstract: what a connection promises about requests and answers |
| `RequestProcessing` | the requests of one connection: context, queue, processors, operations; implements `Exchange` |
| `RequestViews` | `Request` objects of one connection, and the copies of them |
| `Timer` | a timer created from `IO` or a Responder, with `waitFuture` |
| `ClientRequest` | one request of a client with its connection and timeout |
| `Server` | `IOService`, listeners, and where connections run |
| `GuestBook` | routes, processors and shared state of the guest book |
| `MCConnection`, `MCRequestProcessing` | values for the constants |
| `ConnectionProofs`, `RequestProcessingProofs`, `RequestUseProofs`, `RequestViewsProofs`, `TimerProofs`, `ClientRequestProofs`, `ServerProofs`, `GuestBookProofs` | theorems and proofs |

Definitions whose comment starts with "Mutant:" are plausible bugs of the
definition that follows them; no specification uses them.  Substituting one shows
that the property named with it in `PROJECT.json` can fail.

### Connection

`conn` is a record of the members of the C++ object plus its two asio operations.
`conn.reading` and `conn.writing` say how far an operation is: `pending`, or
decided (`data`, `eof`, `ok`, `error`, ...) with its handler queued.  `Close`
aborts only pending operations, as asio does.  The methods `Process`, `SendData`,
`Disconnect`, `Close` and `OnBytesWritten` are functions on that record, so a
handler that calls several of them, such as one that sends two records,
disconnects and reads again, is a single action that composes them: all handlers
of a connection run on the thread of its context.  `Transfer` moves one byte at a
time out of `writeBuffer_` as it is *now*: asio has a view of the buffer, not a
copy, and a handler that touched the buffer would corrupt the stream.

What `fcgi::Responder::receiveData()` does with the bytes is external and becomes
five actions: nothing yet, a management reply, a request answered later, a request
answered at once (an exception's 500 included), or giving the connection up.
`accepted`, `wire` and `closedBy` are history variables.  The refinement mapping to
`ResponseStream` is the identity on the first two and `Status` on the third.

### RequestProcessing

Requests and operations are numbered.  `thread` is the io thread: idle, in the loop
of `launch()`, or in the callback of an operation, with the *deeds* the user's code
has still to do.  Deeds are `reply`, `badParameters`, `throw` and starting a
`timer`, a `client` request or a `task`; a body is a sequence of them, chosen from
`ProcessorDoes` or `CallbackDoes`.  Each deed is one step, and no other handler runs
in between.

The model keeps what decides lifetimes in the code: the context and its queue
belong to the connection and are replaced by the next request (`Locked`,
`QueueExists`); a timer remembers by reference the queue it was created with, a
task holds a weak pointer to it, and `ClientService` launches whatever queue it
refers to when the answer comes.  `dangling` becomes true when a reference to a
destroyed object is used.  `Drop` is the end of the connection, whose destructor
cancels timers and closes client sockets, with the outcomes a handler already
decided leaves possible.  `crashed` records an exception that leaves
`io_context::run()`; what the rest of the program does after that is not modelled.
An exception of a task's callback first destroys the task: `~PostAction` launches the
queue while the stack unwinds, with processors running as usual (`ThrowFromTask`, the
launch `via` `unwinding`); the program has crashed when that launch ends or when
anything throws in it.  A `Timer`, `Client` or `AsioDispatcher` is made where it is used.

A task that its io_context destroys instead of running it is `RunCallback` with an
empty body: in both cases the last copy of its `TaskContext` goes and the queue is
launched, if it still exists.

`Exchange` is what the peer may rely on: requests come one after the other, only the
last one is open, its first answer is final, and a request that was overtaken by the
next one or by the end of the connection is never answered.  The refinement mapping
takes `alive` for `connected`, and `Status` for the status of a request: its answer
if it has one, otherwise `unasked`, `open` or `lost` as its number compares with the
current context.

### RequestViews

A `Request` object is a pair: the request it was made for, and the request its view
shows (0 while it is not initialised).  `request` is the local of `processRequest()`,
`queued` the copy in the queue of a Router, `kept` the copies of user callbacks.
`FcgiRequest` reads the member of the connection, whatever it holds by then.
`Initializer` evaluates through the local: after it is gone the outcome is undefined,
and the model lets it be the right answer or garbage.  What was initialised before
the next request or the end of the connection shows garbage afterwards.  Whether the
connection's processor is a Router (`routed`) matters because the Router reads the
path, and so initialises the view, before it makes its copies.

### Timer

`armed` is the wait of the `steady_timer`, `queued` the expired waits whose handlers
have yet to run, `job` what each callback was handed over for.  `queue` is the
request processor queue of a Responder's timer, `none` for one of the IO object:
every start and every tick of a periodic timer stops it, `stop()` and the end of a
one-shot handler launch it.  Callbacks of
`waitFuture` go from `computing` to `ready` to `taken` with their future.  User
code acts between handlers; a `start()` or `stop()` inside the timer's own callback
needs no action because the handler's last statement, `stop()` or
`startPeriodic()`, undoes it.

### ClientRequest

Every request has its own connection, timer and handler, so one request stands for
all.  `socket` is like `conn`, with buffers reduced to whether they are empty: their
content obeys the code modelled in `Connection`.  `Uses` and `Dangles` are the two
cases of a handler that holds a plain `this`: the connection exists or was
destroyed by `Client::disconnect()`.  `Local` chooses the endpoint type, because
`ClientService::disconnect()` clears only the connections to Unix domain endpoints.
A timeout may strike while the request is being written; `CloseLosesNothing` says that
the record that cancels it is still written before the socket closes.

### Server

Contexts are numbered from 0, the one run by the caller of `IO::run()` and used by
all acceptors.  `run()` is a program of its own (`main`): spawn the threads one by
one, run context 0, join one by one.  `stop()` stops one context per step, from a
handler (occupying its thread meanwhile) or from outside.  `ioIndex` is the atomic
counter of `nextIO()`.  A connection that was accepted reads; only when its peer has
sent something or dropped (`PeerActs`) does a handler serve it (`Serve`).

### GuestBook

`tab` is a browser with its request, if one is under way: where the routing is
(`next`), the role in its `RouteContext`, and whether its thread is inside
`GuestBookState`.  `Routes` lists the nine routes of `main()` in their order; a route
is matched when its turn comes, so `authorizeAdmin` decides which of the two delete
routes matches.  Taking the mutex and leaving it are two steps; computing a page from
the copy of the messages is part of the second, because nothing shared is read
after the copy.  A page remembers, as `buttons`, the messages it shows delete buttons
for, and a request remembers the page whose button was pressed: this is what relates
the index in a request to the message the administrator saw.  Whatever a page shows, any
client may post `/delete` with any index (`Requests`); what refuses it is the role matcher
of the routes.

## 3. Runs

| Run | Instance | Shows |
|---|---|---|
| `connection` | two records, of one and two bytes; the peer makes the socket readable three times | accounting of writes, order and completeness of the bytes, refinement of `ResponseStream`, deferred disconnects are carried out, closed connections go |
| `requests` | two requests, two processors, four operations; one operation per processor, next request after the answer | the chain waits; every request is answered unless a client request of it never ends; nothing destroyed is used |
| `requests_tasks` | two requests, three tasks; tasks start tasks, requests are pipelined, the peer may drop | tasks never use anything destroyed; refinement of `Exchange` |
| `requests_exception` | two processors, one of which may throw behind a timer | *violation*: an exception after a resumed launch is not caught |
| `requests_dropped` | one operation, the peer may drop | *violation*: handlers use services destroyed with the connection |
| `request_views` | three requests, two kept copies, with and without a Router | processors read their own request; copies made after a read stay readable until the next request |
| `timer` | three callbacks, one `stop()`, with and without a queue | each callback is called as often as asked for; a stopped queue has a handler that takes care of it |
| `timer_wait_future` | one callback | *violation*: the future is polled after its result was taken |
| `client_request` | Unix domain endpoint, `disconnect()` allowed | one call of the handler, everything written before the close (the cancelling record too), sockets closed, disconnecting an idle client is safe |
| `client_timeout` | TCP, no `disconnect()` | *violation*: a timeout that expires before the connect is spent |
| `server` | three threads, two listeners, four connections | even spread, one connection to accept with, shutdown, accepted connections read and what peers send is served |
| `guestbook` | two browsers, three messages | mutual exclusion, deletions by index, roles, every request is answered |

Bounds and why they are enough:

- `Connection`: at any time there is at most one write under way and one waiting
  buffer.  Three reads give a write under way, bytes that wait, and a third handler
  that adds to them or disconnects.  A record of two bytes lets a write be cut in
  the middle.  The proofs remove the bounds.
- `RequestProcessing`: a second request is what replaces the context of the first; a
  second processor is what a resumed chain goes on with; four operations let both
  processors of both requests start one.  In `requests_tasks` a third task is the
  one started by the callback of another while one more is under way.
- `Timer`: a queued handler, the one it is replaced by, and a third start around
  them; one `stop()` at any place among them.
- `Server`: with three threads `stop()` and the joins have a middle; four
  connections go around the pool once and reach the second round.
- `RequestViews`: a second request overwrites the first and a third overwrites it
  again; one copy can be made before, the other after the view was read.
- `GuestBook`: two browsers suffice for a race and for two roles at once; with three
  messages one can be removed from, and one added to, a page that another browser
  still shows.
- `ClientRequest` needs no bound.

Deadlock is checked for the guest book, whose browsers can always ask again.  It is
not for the others, which may come to rest (a connection that is closed, a timer
nobody starts, a server that has stopped).  That they do not rest too early is what
the liveness properties say.

### Fairness

- An io thread runs the handlers queued in its context (weak fairness of handler
  actions): this is `io_context::run()`, kept from returning by the work guards.
- The operating system decides connects and writes, and timers expire.  In
  `Connection` the peer drains what is written to it or is down; a peer that stays
  connected and never reads holds its response, as it does in the code, which has no
  write timeout.
- No fairness of anything a peer or user code chooses: sending, dropping, starting
  operations, calling `stop()`.  A FastCGI server that a client asks may stay silent
  for ever.
- `RequestProcessing` does not assume that client requests end: their timeout may be
  spent before the connect completes (`client_timeout`).  `EveryRequestAnswered` says that
  a request is answered unless a client request made for it never ends, and that the
  chain is taken up again whenever one does.  Timers expire and tasks get their turn;
  futures given to `waitFuture` are assumed to become ready.
- `Server` assumes nothing of peers: `PeerActs` has no fairness.  `AcceptedIsServed` says
  that an accepted connection comes to read, and that what its peer then does is served.
- `GuestBook` assumes only that each io thread makes progress (weak fairness).  A
  `std::mutex` promises no order among those that wait for it, so
  `EveryThreadAnswers` says that a request is answered unless its thread finds the
  mutex taken by another, and that whoever has it gives it back.

## 4. Theorems

TLC checks every inductive argument's conclusion on the instances above; TLAPS
proves the following for all constants that satisfy the named assumptions.

**`ConnectionProofs`** (from `RecordAssumption`: records are non-empty strings of
bytes; `MaxReadsAssumption`).  The invariant `IInv` adds to the properties what
makes them inductive: a write under way is never empty (`Buffered`; this is where
records must be non-empty, since a write of no bytes would leave
`bytesToWrite_` at zero with an operation pending); no bytes wait while
`bytesToWrite_` is zero; on an open socket a deferred disconnect implies pending
bytes (`Settled`); the socket is open exactly as long as nothing closed it.  Lemmas
say what `SendData`, `Disconnect`, `SendResponse` and `OnBytesWritten` preserve and
what they do to the bytes still owed (`Unsent`); each action then is a composition
of them.  `TypeCorrect`, `WritesAccountedFor`, `NothingIsStranded`,
`ReadLoopNeverStops`, `NoByteIsLost`, `BufferIsUntouched`, and `ImplementsStream`:
the connection implements `ResponseStream`.

**`RequestProcessingProofs`** (from `BoundsAssumption`, `BodiesAssumption`,
`PeerAssumption`).  For *any* bodies of processors and callbacks, also those whose
runs show violations of other properties: `TypeCorrect`; `RequestsNotForgotten`, an
unanswered request of a living connection always has an operation that will resume
it; `ImplementsExchange`, the refinement of `Exchange`.  `IInv` says that all services refer to the queue of the
current request and every operation remembers the queue of its own request
(`References`), that a used-up queue has answered (`Queues`), and who goes on with a
request between two steps (`SomebodyGoesOn`).  For the refinement, a request that has
not come yet has no answer (`Unasked`), and every action either takes on the next
request, answers the current one, ends the connection or changes none of `alive`,
`context` and `answer` (`StepShape`).

**`RequestUseProofs`**.  Some properties hold for some ways of using the library
only.  Each of these theorems names the use as a hypothesis on the bodies of user code
and on the peer, and holds for any number of requests, processors and operations:

- `OnlyTasks`, processors and callbacks start tasks only, with a peer that pipelines
  and drops as it likes: `TasksAreSafe`, that is `NoDanglingUse`.  The invariant is that
  no other operation is ever under way; a task locks a `weak_ptr` to its queue before it
  launches it.  `requests_tasks` is such an instance.
- `OneAtATime`, a processor that starts an operation does nothing else, callbacks start
  nothing, the peer waits for its answer: `OneAtATimeIsSafe` (`NoDanglingUse` with timers
  and clients too) and `ChainWaitsForOperation` (`ChainWaits`).  `OneAtATimeInv` says that
  an operation under way is the only one, belongs to the current, unanswered request, and
  excludes user code and a queue that goes on; hence its handler finds the
  connection and the queue.  `requests` is such an instance, `requests_dropped` is not,
  because its peer drops.
- `Synchronous`, processors start nothing: `SynchronousExceptionsCaught`
  (`ExceptionsCaught`), since user code then runs below `processRequest()` only.
  `requests_exception` shows what a timer changes.

**`RequestViewsProofs`** (from `RequestViewsAssumption`): `ProcessorsRead`,
`CopiesRead`.  The invariant says that the local shows the current request or nothing
(`LocalIsCurrent`), that the queue got an initialised copy (`QueuedIsInitialized`),
and which kept copies are initialised (`KeptIsCurrent`).

**`TimerProofs`** (from `TimerAssumption`): `CallbacksAreCalledOnce`,
`StoppedQueueIsHeld`.  `CalledOnce` is not inductive alone: a callback is owned by one
wait at most (`OneWait`), and one that may be called once has not been called while
its wait lasts (`NotYetCalled`).

**`ClientRequestProofs`** (from `ClientAssumption`): `TypeCorrect`,
`HandlerIsCalledOnce`, `ClosingLosesNothing`, `DisconnectIsSafeWhenIdle`.  The
invariant says while what is undecided the handler is owed a call (`HandlerOwed`),
and that a connection destroyed while idle has no handler that would come back to it
(`NothingComesBack`).  `ClosingLosesNothing` rests on `WritesCounted`: while a
write is under way or something waits behind it, `bytesToWrite_` is not zero, so that
`disconnect()` and `onBytesWritten()`, which close only at zero, have nothing left to
write.

**`ServerProofs`** (from `ThreadsAssumption`, `MaxConnectionsAssumption`):
`TypeCorrect`, `RunReturnsLast`, and four more:

- `ContextsInTurn`: the c-th connection gets context (c - 1) modulo the pool size.
- `ConnectionsAreBalanced` (`Balanced`): after some number of whole rounds exactly the
  contexts before the next one are one connection ahead (`DealtOut`).
- `OneConnectionToAccept` (`OneToAccept`), from `AcceptHolds`.
- `RunAndStopNeverBlock`, the safety side of `StopEndsRun`: once `stop()` was called,
  by a handler or from outside, either `stop()` has a context left to stop, or `run()`
  can take its next step, or the thread that it joins is in a stopped context and not
  itself inside `stop()` (`StopIsNotBlocked`).  `StopInOrder` says which contexts are
  stopped and which threads exist at each point of the two programs.  That this happens
  under fairness, and ends, is TLC's `StopEndsRun`.

**`GuestBookProofs`** (from `GuestBookAssumption`):

- `NoDataRaces` and `AdminsDeleteOnly`.  Whoever is inside `GuestBookState` holds the
  mutex, and the role Admin of a request under way is owed to a cookie that its browser
  still has.  Any client may ask to delete any index; the theorem rests on `MatchesRole`.
- `ButtonsDeleteWhatWasShown` (`DeletesWhatWasShown`).  Messages are kept in the order
  they came, and so is every page; a message that a page does not show is newer than
  all it shows (`PagesInv`).  The position of a message in such a sequence is the number of
  messages up to it (`PositionCounts`).  If all that was shown down to a button is still
  there, page and guest book agree up to it, so the message is where the button says.
- `RequestsAreNeverStuck`, the safety side of `EveryThreadAnswers` (`NobodyStuck`): a
  thread with a request always comes to a route and can take its next step, or waits for
  a mutex whose holder can.  `RoutingInv` says how far the routing may be and that
  whoever holds the mutex is inside an access.

Invariants named here that a model does not define are in its proof module.

Only model-checked: the liveness properties (TLAPS has no support for fairness and
`ENABLED` here).  Of two, what can be said without fairness is proved, as above.

## 5. Findings

Four runs show the code disagreeing with what the repository says of it
(`PROJECT.json` quotes the lines):

1. `waitFuture()` cannot stop the periodic timer it uses from inside its callback,
   and polls a future whose result it has taken (`timer_wait_future`).
2. Exceptions of processors that run after a resumed launch leave `io_context::run()`
   (`requests_exception`).
3. Handlers of timers and client requests started through a Responder use services
   that were destroyed with a dropped connection (`requests_dropped`).
4. A client timeout that expires before the connect completes is lost
   (`client_timeout`).

Two limits of the code that no document denies, and that the properties state:

- The handler of a timer or client request launches the queue after the callback,
  even if the callback has started another operation (`src/timerservice.cpp:31-32`,
  `src/clientservice.cpp:46-52`).  The next processor, or the 404, then runs while
  that operation is under way.  `ChainWaits` is checked and proved for callbacks that
  start nothing; a chain of operations has to be built with tasks, whose context can be
  kept.
- A copy of a `Request` that was made outside a Router before any of its HTTP
  accessors was called must not be read after the processor has returned
  (`CopiesReadTheirRequest`).

## 6. Not modelled

- What the accessors of `Request` parse, and the HTTP types: hot_teacup's.
- The markup, wording and escaping of the guest book.
- `EventHandlerProxy`, `ServiceHolder`: forwarding without state.  Whether an error
  is reported is left out; what else its path does is not.
- fcgi_responder, whaleroute, hot_teacup, sfun and asio are not part of the
  repository; they appear as external definitions, by how the code uses them.
- Route matching and parameter parsing are whaleroute's; a failed parse is a deed.
- The preparation of socket files and the range check of ports.
- A `Timer`, `Client` or `AsioDispatcher` object that is kept and used by a later callback.
- `run()` called twice; an `ioIndex_` that wraps at 2^64.
- What other threads do after an exception has left `io_context::run()`.
- The order in which the program's objects are destroyed after `run()` has returned:
  a task destroyed with its io_context may launch a queue that refers to a Router
  declared later than the IO object.
- The other examples and the functional tests: sequential uses of the library, read
  as documentation of the intended use.

## 7. Plan

Done, in this order: `Connection` with `ResponseStream`; `RequestProcessing` with
`Exchange`; `Timer`; `ClientRequest`; `Server`; `RequestViews`; `GuestBook`; the
proofs named above.

Next:

1. `Connection` composed with `RequestProcessing`: `Drop` and the arrival of requests
   decided by the read loop, responses by the queue; the composition then implements
   `Exchange` and `ResponseStream` at once;
2. several client requests that share a `ClientService` and its timer provider;
3. theorems: what the other liveness properties rest on, as for `StopEndsRun` and
   `EveryThreadAnswers`; that the steps of `run()` and `stop()` are bounded.
