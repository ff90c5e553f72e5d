-------------------------- MODULE RequestProcessing --------------------------
(***************************************************************************)
(* How one connection processes its requests: Connection::processRequest,  *)
(* Router::operator(), the ResponseContext with its request processor      *)
(* queue, and the operations a processor may start through its Responder:  *)
(* a timer (TimerService::start), a client request (ClientService::        *)
(* makeRequest) and a dispatched task (AsioDispatcherService::postTask).   *)
(*                                                                         *)
(* An operation stops the queue; its handler runs the user's callback and  *)
(* launches the queue again, which goes on with the next processor unless  *)
(* the response is sent.  Everything runs on one io thread; what user code *)
(* does there is a sequence of deeds chosen from ProcessorDoes or          *)
(* CallbackDoes.                                                           *)
(***************************************************************************)
EXTENDS Integers, Sequences, FiniteSets

CONSTANTS
    MaxOps,         \* bound: operations user code starts
    MaxRequests,    \* bound: requests the peer sends over the connection
    NumProcessors,  \* the processors that match a request's route
    ProcessorDoes,  \* the bodies a request processor may have
    CallbackDoes,   \* the bodies the callback of an operation may have
    Pipelined,      \* the peer may send a request before the last is answered
    PeerMayDrop     \* the peer may drop the connection before it is answered

Kind == {"timer", "client", "task"}
Deed == Kind \cup {"reply", "badParameters", "throw"}

ASSUME BoundsAssumption ==
    MaxOps \in Nat /\ MaxRequests \in Nat /\ NumProcessors \in Nat
ASSUME BodiesAssumption ==
    ProcessorDoes \subseteq Seq(Deed) /\ CallbackDoes \subseteq Seq(Deed)
ASSUME PeerAssumption == Pipelined \in BOOLEAN /\ PeerMayDrop \in BOOLEAN

Op == 1..MaxOps
Request == 1..MaxRequests

VARIABLES
    alive,     \* the Connection, and all its services, exist
    context,   \* the request responseContext_ belongs to, 0 before the first
    answer,    \* what was sent for each request
    queue,     \* the RequestProcessorQueue of each request
    queueOf,   \* the queue each service refers to, by its request; 0: none
    op,        \* the operations started by user code
    thread,    \* what the io thread is executing
    crashed,   \* an exception left io_context::run(), or met a destructor
    dangling   \* history: a destroyed object was used

vars == <<alive, context, answer, queue, queueOf, op, thread, crashed, dangling>>

Answers == {"none", "reply", "404", "500"}
Via == Kind \cup {"router", "unwinding"}  \* who launched the queue
QueueType == [next : 1..NumProcessors + 2, stopped : BOOLEAN]
OpType ==
    [kind  : Kind,
     req   : 0..MaxRequests,  \* the request whose processing started it
     queue : 0..MaxRequests,  \* the queue the timer or task remembers
     st    : {"unused", "waiting", "ready", "done"}]
ThreadType ==
    [doing : {"nothing", "launch", "callback"},
     req   : 0..MaxRequests,  \* the request user code works for
     via   : Via,
     queue : 0..MaxRequests,
     body  : Seq(Deed)]       \* what user code has still to do

Unused == [kind |-> "timer", req |-> 0, queue |-> 0, st |-> "unused"]
Idle == [doing |-> "nothing", req |-> 0, via |-> "router", queue |-> 0, body |-> <<>>]

Init ==
    /\ alive = TRUE
    /\ context = 0
    /\ answer = [r \in Request |-> "none"]
    /\ queue = [r \in Request |-> [next |-> 1, stopped |-> FALSE]]
    /\ queueOf = [k \in Kind |-> 0]
    /\ op = [o \in Op |-> Unused]
    /\ thread = Idle
    /\ crashed = FALSE
    /\ dangling = FALSE

(***************************************************************************)
(* Lifetimes and the Responder.                                            *)
(***************************************************************************)

\* responseContext_.lock(): only the connection owns the context.
Locked(r) == alive /\ context = r

\* The queue of a request is owned by its context alone.
QueueExists(r) == r # 0 /\ Locked(r)

\* Responder::isSent().
IsSent(r) == IF Locked(r) THEN answer[r] # "none" ELSE TRUE

\* The peer waits for the response to its last request.
Waiting == context # 0 /\ ~IsSent(context)

\* Mutant: ResponseSender forgets that the response was sent.
SendRepeatedly(r, what) ==
    answer' = IF Locked(r) THEN [answer EXCEPT ![r] = what] ELSE answer

\* Responder::send() and ResponseSender::send(): only a valid response is sent.
Send(r, what) ==
    answer' = IF Locked(r) /\ answer[r] = "none"
              THEN [answer EXCEPT ![r] = what] ELSE answer

(***************************************************************************)
(* The queue of request processors (whaleroute, external): stop() halts    *)
(* it, launch() goes on from the first processor that has not run.  The    *)
(* last one is the router's answer to unmatched requests.                  *)
(***************************************************************************)
Fallback == NumProcessors + 1

Stop(q) == [queue EXCEPT ![q].stopped = TRUE]

Launching(q, via) ==
    [doing |-> "launch", req |-> q, via |-> via, queue |-> q, body |-> <<>>]

Launch(q, via) ==
    /\ queue' = [queue EXCEPT ![q].stopped = FALSE]
    /\ thread' = Launching(q, via)

\* The loop of launch() is about to look at the next processor.
AtQueue == thread.doing = "launch" /\ thread.body = <<>>

GoesOn(q) == ~queue[q].stopped /\ ~IsSent(q) /\ queue[q].next <= Fallback

\* The bound MaxOps: user code starts no operation beyond it.
Room(body) ==
    Len(SelectSeq(body, LAMBDA deed : deed \in Kind))
        <= Cardinality({o \in Op : op[o] = Unused})

RunProcessor(body) ==
    LET q == thread.queue IN
    /\ AtQueue
    /\ Room(body)
    /\ GoesOn(q)
    /\ queue[q].next < Fallback
    /\ queue' = [queue EXCEPT ![q].next = @ + 1]
    /\ thread' = [thread EXCEPT !.body = body]
    /\ UNCHANGED <<alive, context, answer, queueOf, op, crashed, dangling>>

\* Mutant: the queue does not notice that its last processor has run.
ProcessUnmatchedRequestAgain ==
    LET q == thread.queue IN
    /\ AtQueue
    /\ ~queue[q].stopped
    /\ queue[q].next >= Fallback
    /\ queue' = [queue EXCEPT ![q].next = @ + 1]
    /\ Send(q, "404")
    /\ UNCHANGED <<alive, context, queueOf, op, thread, crashed, dangling>>

\* Router::processUnmatchedRequest().
ProcessUnmatchedRequest ==
    LET q == thread.queue IN
    /\ AtQueue
    /\ GoesOn(q)
    /\ queue[q].next = Fallback
    /\ queue' = [queue EXCEPT ![q].next = @ + 1]
    /\ Send(q, "404")
    /\ UNCHANGED <<alive, context, queueOf, op, thread, crashed, dangling>>

\* launch() returns, after an exception to go on unwinding the stack.
LaunchEnds ==
    /\ AtQueue
    /\ ~GoesOn(thread.queue)
    /\ thread' = Idle
    /\ crashed' = (crashed \/ thread.via = "unwinding")
    /\ UNCHANGED <<alive, context, answer, queue, queueOf, op, dangling>>

(***************************************************************************)
(* A new request.                                                          *)
(***************************************************************************)

\* Mutant: the client is not told about the new queue.
SetRequestProcessorQueueButClient(r) ==
    queueOf' = [k \in Kind |-> IF k = "client" /\ queueOf[k] # 0 THEN queueOf[k] ELSE r]

\* ResponseContext::setRequestProcessorQueue().
SetRequestProcessorQueue(r) == queueOf' = [k \in Kind |-> r]

\* Connection::processRequest() with a Router: the new response context
\* replaces the previous one, whose queue is destroyed with it.
ProcessRequest ==
    /\ alive
    /\ ~crashed
    /\ thread = Idle
    /\ context < MaxRequests
    /\ Waiting => Pipelined
    /\ context' = context + 1
    /\ SetRequestProcessorQueue(context + 1)
    /\ Launch(context + 1, "router")
    /\ UNCHANGED <<alive, answer, op, crashed, dangling>>

(***************************************************************************)
(* What user code does.                                                    *)
(***************************************************************************)
NextDeed(deed) ==
    /\ thread.body # <<>>
    /\ Head(thread.body) = deed

\* Operations are numbered in the order they are started.
NextOp(o) == op[o] = Unused /\ \A p \in Op : p < o => op[p] # Unused

Proceed == thread' = [thread EXCEPT !.body = Tail(@)]

\* responder.send(), or Router::onRouteParametersError() in its place.
Reply ==
    /\ NextDeed("reply")
    /\ Send(thread.req, "reply")
    /\ Proceed
    /\ UNCHANGED <<alive, context, queue, queueOf, op, crashed, dangling>>

OnRouteParametersError ==
    /\ NextDeed("badParameters")
    /\ Send(thread.req, "500")
    /\ Proceed
    /\ UNCHANGED <<alive, context, queue, queueOf, op, crashed, dangling>>

\* The callback of a task is running, and the task's queue exists.
InTask == thread.doing = "callback" /\ thread.via = "task" /\ QueueExists(thread.queue)

\* Unwinding destroys the TaskContext, whose PostAction launches the queue
\* before the exception leaves io_context::run().
ThrowFromTask ==
    /\ NextDeed("throw")
    /\ InTask
    /\ Launch(thread.queue, "unwinding")
    /\ UNCHANGED <<alive, context, answer, queueOf, op, crashed, dangling>>

\* Only processRequest() catches: an exception from a launch that a timer or a
\* client resumed, or from a callback, leaves io_context::run(), and one from a
\* launch in ~PostAction is std::terminate(): nothing more happens on this thread.
Throw ==
    /\ NextDeed("throw")
    /\ ~InTask
    /\ thread' = Idle
    /\ IF thread.doing = "launch" /\ thread.via = "router"
       THEN Send(thread.req, "500") /\ UNCHANGED crashed
       ELSE crashed' = TRUE /\ UNCHANGED answer
    /\ UNCHANGED <<alive, context, queue, queueOf, op, dangling>>

\* Client{responder}, Timer{responder} and AsioDispatcher{responder} hold the
\* connection's service, or nothing, and then their methods do nothing.
HasService(r) == Locked(r)

\* Mutant: the operation is started but the queue is not stopped.
StartWithoutStop(o, kind) ==
    LET r == thread.req IN
    /\ NextDeed(kind)
    /\ Proceed
    /\ NextOp(o)
    /\ op' = IF HasService(r)
             THEN [op EXCEPT ![o] = [kind |-> kind, req |-> r, queue |-> queueOf[kind],
                                     st |-> "waiting"]]
             ELSE op
    /\ UNCHANGED <<alive, context, answer, queue, queueOf, crashed, dangling>>

\* Timer{responder}.start(), Client{responder}.makeRequest() and
\* AsioDispatcher{responder}.postTask(): the queue the service refers to is
\* stopped and the operation begins.  The timer and the task remember that
\* queue.  The object is made where it is used; one that user code keeps and uses in
\* a later callback is not modelled.
Start(o, kind) ==
    LET r == thread.req
        q == queueOf[kind] IN
    /\ NextDeed(kind)
    /\ Proceed
    /\ NextOp(o)
    /\ IF HasService(r)
       THEN /\ op' = [op EXCEPT ![o] = [kind |-> kind, req |-> r, queue |-> q,
                                        st |-> "waiting"]]
            /\ queue' = IF QueueExists(q) THEN Stop(q) ELSE queue
            /\ dangling' = (dangling \/ (q # 0 /\ ~QueueExists(q)))
       ELSE UNCHANGED <<op, queue, dangling>>
    /\ UNCHANGED <<alive, context, answer, queueOf, crashed>>

(***************************************************************************)
(* The end of an operation.                                                *)
(***************************************************************************)

\* The timer expires, the client's request ends, the task's turn comes (for a
\* task that kept its TaskContext: the holder of the last copy does).
Completes(o) ==
    /\ op[o].st = "waiting"
    /\ op' = [op EXCEPT ![o].st = "ready"]
    /\ UNCHANGED <<alive, context, answer, queue, queueOf, thread, crashed, dangling>>

\* The handler of the operation starts with the user's callback.  The client's
\* first stops the timeout timer, a member of the connection's ClientService.  A
\* task that the io_context destroys at shutdown, without running it, does to
\* the queue what one with an empty callback does: its TaskContext goes.
RunCallback(o, body) ==
    /\ ~crashed
    /\ thread = Idle
    /\ op[o].st = "ready"
    /\ Room(body)
    /\ op' = [op EXCEPT ![o].st = "done"]
    /\ thread' = [doing |-> "callback", req |-> op[o].req, via |-> op[o].kind,
                  queue |-> op[o].queue, body |-> body]
    /\ dangling' = (dangling \/ (op[o].kind = "client" /\ ~alive))
    /\ UNCHANGED <<alive, context, answer, queue, queueOf, crashed>>

AfterCallback(kind) ==
    /\ thread.doing = "callback"
    /\ thread.via = kind
    /\ thread.body = <<>>
    /\ UNCHANGED <<alive, context, answer, queueOf, op, crashed>>

\* TimerService::stop() through `this` and the reference it was created with.
TimerResumes ==
    /\ AfterCallback("timer")
    /\ IF QueueExists(thread.queue)
       THEN Launch(thread.queue, "timer") /\ UNCHANGED dangling
       ELSE thread' = Idle /\ dangling' = TRUE /\ UNCHANGED queue

\* Mutant: the response handler returns without launching the queue.
ClientForgetsToResume ==
    /\ AfterCallback("client")
    /\ thread' = Idle
    /\ UNCHANGED <<queue, dangling>>

\* ClientService launches the queue it refers to now.
ClientResumes ==
    /\ AfterCallback("client")
    /\ IF QueueExists(queueOf["client"])
       THEN Launch(queueOf["client"], "client") /\ UNCHANGED dangling
       ELSE thread' = Idle /\ dangling' = TRUE /\ UNCHANGED queue

\* Mutant: PostAction keeps a plain reference to the queue.
TaskResumesByReference ==
    /\ AfterCallback("task")
    /\ IF QueueExists(thread.queue)
       THEN Launch(thread.queue, "task") /\ UNCHANGED dangling
       ELSE thread' = Idle /\ dangling' = TRUE /\ UNCHANGED queue

\* TaskContext::PostAction locks a weak_ptr to the queue.
TaskResumes ==
    /\ AfterCallback("task")
    /\ UNCHANGED dangling
    /\ IF QueueExists(thread.queue)
       THEN Launch(thread.queue, "task")
       ELSE thread' = Idle /\ UNCHANGED queue

(***************************************************************************)
(* The end of the connection: it was closed after the response, or the     *)
(* peer dropped it, and the last handler of the Connection is gone.  Its   *)
(* destructor cancels timers and closes client sockets.  A cancelled timer *)
(* returns at once; a client that was still connecting reports the abort   *)
(* to its response handler, one that waits for the answer does not.        *)
(* Handlers that are queued already run.                                   *)
(***************************************************************************)
Destroyed(o) ==
    IF op[o].st # "waiting" \/ op[o].kind = "task" THEN {op[o]}
    ELSE {[op[o] EXCEPT !.st = st] :
            st \in IF op[o].kind = "client" THEN {"ready", "done"} ELSE {"done"}}

Drop ==
    /\ alive
    /\ Waiting => PeerMayDrop
    /\ ~crashed
    /\ thread = Idle
    /\ alive' = FALSE
    /\ op' \in [Op -> UNION {Destroyed(o) : o \in Op}]
    /\ \A o \in Op : op'[o] \in Destroyed(o)
    /\ UNCHANGED <<context, answer, queue, queueOf, thread, crashed, dangling>>

-----------------------------------------------------------------------------

UserCode ==
    \/ \E body \in ProcessorDoes : RunProcessor(body)
    \/ Reply
    \/ OnRouteParametersError
    \/ Throw
    \/ ThrowFromTask
    \/ \E o \in Op, kind \in Kind : Start(o, kind)

Resume == TimerResumes \/ ClientResumes \/ TaskResumes

IoThread ==
    \/ UserCode
    \/ ProcessUnmatchedRequest
    \/ LaunchEnds
    \/ Resume

Callback(o) == \E body \in CallbackDoes : RunCallback(o, body)

Handler(o) == Completes(o) \/ Callback(o)

Next ==
    \/ ProcessRequest
    \/ IoThread
    \/ \E o \in Op : Handler(o)
    \/ Drop

Spec == Init /\ [][Next]_vars

\* The io thread does not sleep while it has something to do, timers expire and
\* tasks get their turn.  That a client request ends is up to its peer, for the
\* timeout may be spent before the connect completes (ClientRequest), and is not
\* assumed.
FairSpec ==
    /\ Spec
    /\ WF_vars(IoThread)
    /\ \A o \in Op :
        /\ WF_vars(op[o].kind # "client" /\ Completes(o))
        /\ WF_vars(Callback(o))

-----------------------------------------------------------------------------
(***************************************************************************)
(* Properties.                                                             *)
(***************************************************************************)
\* The state has its type.
TypeOK ==
    /\ alive \in BOOLEAN
    /\ context \in 0..MaxRequests
    /\ answer \in [Request -> Answers]
    /\ queue \in [Request -> QueueType]
    /\ queueOf \in [Kind -> 0..MaxRequests]
    /\ op \in [Op -> OpType]
    /\ thread \in ThreadType
    /\ crashed \in BOOLEAN
    /\ dangling \in BOOLEAN

\* An operation whose callback has yet to run.
Outstanding(o) == op[o].st \in {"waiting", "ready"}

\* A request is never left without anybody who will go on with it: when the io
\* thread comes to rest, the current request is answered or one of its
\* operations will launch its queue again.
NoRequestForgotten ==
    alive /\ ~crashed /\ thread = Idle /\ Waiting
        => \E o \in Op : Outstanding(o) /\ op[o].req = context

\* The router goes on to the next processor, or to its 404, only when no
\* operation of the processors before it is under way.
ChainWaits ==
    [][\A r \in Request : queue'[r].next # queue[r].next =>
            \A o \in Op : op[o].req = r => ~Outstanding(o)]_vars

\* How the exchange with the peer stands.
Status ==
    [r \in Request |->
        IF answer[r] # "none" THEN answer[r]
        ELSE IF r > context THEN "unasked"
        ELSE IF Locked(r) THEN "open" ELSE "lost"]

\* Processors, callbacks, the router's 404 and the 500 of an exception compete
\* to answer: the first one wins and its answer is final.  A request that was
\* replaced by the next one, or lost with the connection, is never answered,
\* whoever tries to later.
Peer == INSTANCE Exchange WITH
            Replies <- Answers \ {"none"}, connected <- alive, status <- Status

ExchangeSpec == Peer!Spec

\* No handler touches a queue or a service after it was destroyed.
NoDanglingUse == ~dangling

\* An exception is turned into a response; it never leaves io_context::run().
ExceptionsCaught == ~crashed

\* A client request made for request r has not ended.
WaitsForClient(r) ==
    \E o \in Op : op[o].kind = "client" /\ op[o].req = r /\ op[o].st = "waiting"

\* Every request is answered, if the connection lives, nothing throws where it
\* is not caught and its client requests end: with timers and tasks always, and
\* whenever a client request does end, the chain is taken up again.
EveryRequestAnswered ==
    \A r \in Request :
        context = r ~> (answer[r] # "none" \/ ~alive \/ crashed \/ WaitsForClient(r))

-----------------------------------------------------------------------------
\* No request is answered before it has come.
Unasked == \A r \in Request : r > context => answer[r] = "none"

(***************************************************************************)
(* The inductive invariant behind NoRequestForgotten.                      *)
(***************************************************************************)

\* Every service refers to the queue of the current request, and what was
\* started or is executing belongs to one request only.
References ==
    /\ \A k \in Kind : queueOf[k] = context
    /\ \A o \in Op : op[o].queue = op[o].req
    /\ thread.queue = thread.req
    /\ thread.doing = "launch" => alive /\ context # 0 /\ thread.req = context

\* The queues of later requests are untouched, and one that is used up has
\* answered its request.
Queues ==
    \A r \in Request :
        /\ r > context => queue[r].next = 1
        /\ queue[r].next > Fallback => answer[r] # "none"

\* Who goes on with the current request.
SomebodyGoesOn ==
    \/ \E o \in Op : Outstanding(o) /\ op[o].req = context
    \/ thread.doing = "callback" /\ thread.req = context
    \/ thread.doing = "launch" /\ ~queue[context].stopped

IInv ==
    /\ TypeOK
    /\ References
    /\ Queues
    /\ alive /\ ~crashed /\ Waiting => SomebodyGoesOn

=============================================================================
