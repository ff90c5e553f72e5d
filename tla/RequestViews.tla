----------------------------- MODULE RequestViews -----------------------------
(***************************************************************************)
(* asyncgi::Request: a reference to the fcgi::Request the Connection owns, *)
(* and a lazily initialised http::RequestView, whose string_views point    *)
(* into it.  The initializer captures the `this` of the object it was made *)
(* in, a local variable of Connection::processRequest(); a copy takes the  *)
(* initializer over as it is.                                              *)
(*                                                                         *)
(* Who owns Request objects: processRequest() its local, the request       *)
(* processor queue of a Router a copy of it, user code the copies it keeps *)
(* for its callbacks.  What a request says is its number.                  *)
(***************************************************************************)
EXTENDS Integers

CONSTANTS
    MaxRequests,  \* bound: requests over the connection
    Copy          \* the copies user code keeps

ASSUME RequestViewsAssumption == MaxRequests \in Nat

Request == 1..MaxRequests

\* A Request object: the request it was made for, and the request its
\* RequestView shows.  0: no request, not initialised; -1: not defined.
Garbage == -1
Object == [req : 0..MaxRequests, value : Garbage..MaxRequests]
NoObject == [req |-> 0, value |-> 0]

VARIABLES
    alive,        \* the Connection exists
    fcgiRequest,  \* Connection::fcgiRequest_, 0 before the first request
    routed,       \* the request processor of the connection is a Router
    request,      \* the local of processRequest(), while it runs
    queued,       \* the copy the current queue of processors owns
    kept,         \* the copies user code keeps
    unread        \* history: those made before the HTTP side had been read

vars == <<alive, fcgiRequest, routed, request, queued, kept, unread>>

Init ==
    /\ alive = TRUE
    /\ fcgiRequest = 0
    /\ routed \in BOOLEAN
    /\ request = NoObject
    /\ queued = NoObject
    /\ kept = [c \in Copy |-> NoObject]
    /\ unread = {}

\* What Request::fcgiRequest() of an object refers to: the member of the
\* connection, whichever request it holds by now.
FcgiRequest(object) == IF alive THEN fcgiRequest ELSE Garbage

\* What the initializer makes of it, which calls fcgiRequest() through the
\* local it was made in.  Without that local anything may come out, the right
\* answer too while the stack still holds what it was.
Initializer(object) ==
    IF request.req = object.req THEN {FcgiRequest(request)} ELSE {Garbage, FcgiRequest(object)}

\* LazyInitialized::get().
Get(object) ==
    {[object EXCEPT !.value = v] : v \in IF object.value = 0 THEN Initializer(object)
                                                             ELSE {object.value}}

\* What an HTTP accessor of the object shows: string_views into a request that
\* was overwritten or destroyed show nothing that is defined.
HttpRequest(object) ==
    {IF alive /\ o.value = fcgiRequest THEN o.value ELSE Garbage : o \in Get(object)}

\* Connection::processRequest(): fcgiRequest_ is assigned, `request` made, and
\* the new response context destroys the last one and its queue.
ProcessRequest ==
    /\ alive
    /\ request = NoObject
    /\ fcgiRequest < MaxRequests
    /\ fcgiRequest' = fcgiRequest + 1
    /\ request' = [req |-> fcgiRequest + 1, value |-> 0]
    /\ queued' = NoObject
    /\ UNCHANGED <<alive, routed, kept, unread>>

\* Mutant: the processors get their copies before the path is read.
RouteBeforePath ==
    /\ routed
    /\ request # NoObject
    /\ queued = NoObject
    /\ queued' = request
    /\ request' \in Get(request)
    /\ UNCHANGED <<alive, fcgiRequest, routed, kept, unread>>

\* Router::operator(): makeRequestProcessorQueue() asks getRequestPath() for
\* the path, then copies the request into the processors of the queue.
Route ==
    /\ routed
    /\ request # NoObject
    /\ queued = NoObject
    /\ request' \in Get(request)
    /\ queued' = request'
    /\ UNCHANGED <<alive, fcgiRequest, routed, kept, unread>>

\* A processor is run by the queue, also when an operation has resumed it after
\* processRequest() has returned; without a router by processRequest().  It
\* calls an accessor of the request it is given.
ProcessorReads ==
    /\ IF routed
       THEN queued # NoObject /\ queued' \in Get(queued) /\ UNCHANGED request
       ELSE request # NoObject /\ request' \in Get(request) /\ UNCHANGED queued
    /\ UNCHANGED <<alive, fcgiRequest, routed, kept, unread>>

\* The request a processor is given, while one can run.
Given == IF routed THEN queued ELSE request

\* Mutant: a copy starts without the view that is there already.
KeepFreshCopy(c) ==
    /\ Given # NoObject
    /\ kept[c] = NoObject
    /\ kept' = [kept EXCEPT ![c] = [Given EXCEPT !.value = 0]]
    /\ unread' = IF Given.value = 0 THEN unread \cup {c} ELSE unread
    /\ UNCHANGED <<alive, fcgiRequest, routed, request, queued>>

\* A processor copies its request for a callback.
KeepCopy(c) ==
    /\ Given # NoObject
    /\ kept[c] = NoObject
    /\ kept' = [kept EXCEPT ![c] = Given]
    /\ unread' = IF Given.value = 0 THEN unread \cup {c} ELSE unread
    /\ UNCHANGED <<alive, fcgiRequest, routed, request, queued>>

\* A callback, or still the processor, calls an accessor of its copy.
CopyReads(c) ==
    /\ kept[c] # NoObject
    /\ \E o \in Get(kept[c]) : kept' = [kept EXCEPT ![c] = o]
    /\ UNCHANGED <<alive, fcgiRequest, routed, request, queued, unread>>

ForgetCopy(c) ==
    /\ kept[c] # NoObject
    /\ kept' = [kept EXCEPT ![c] = NoObject]
    /\ unread' = unread \ {c}
    /\ UNCHANGED <<alive, fcgiRequest, routed, request, queued>>

\* processRequest() returns, with the queue made if there is a router.
Return ==
    /\ request # NoObject
    /\ routed => queued # NoObject
    /\ request' = NoObject
    /\ UNCHANGED <<alive, fcgiRequest, routed, queued, kept, unread>>

\* The connection is destroyed between two handlers, with its queue.
Drop ==
    /\ alive
    /\ request = NoObject
    /\ alive' = FALSE
    /\ queued' = NoObject
    /\ UNCHANGED <<fcgiRequest, routed, request, kept, unread>>

Next ==
    \/ ProcessRequest
    \/ Route
    \/ ProcessorReads
    \/ Return
    \/ Drop
    \/ \E c \in Copy : KeepCopy(c) \/ CopyReads(c) \/ ForgetCopy(c)

Spec == Init /\ [][Next]_vars

-----------------------------------------------------------------------------
(***************************************************************************)
(* Properties.                                                             *)
(***************************************************************************)

\* The state has its type.
TypeOK ==
    /\ alive \in BOOLEAN
    /\ fcgiRequest \in 0..MaxRequests
    /\ routed \in BOOLEAN
    /\ request \in Object
    /\ queued \in Object
    /\ kept \in [Copy -> Object]
    /\ unread \subseteq Copy

\* Both kinds of accessors show the request the object was made for.
Readable(object) ==
    HttpRequest(object) = {object.req} /\ FcgiRequest(object) = object.req

\* A processor reads its own request, run by processRequest() or resumed long
\* after it has returned.
ProcessorsReadTheirRequest == Given # NoObject => Readable(Given)

\* A copy that a callback keeps is readable until the next request of the
\* connection, if the request came through a Router or if the HTTP side of the
\* original was read before it was copied.  Other copies are readable only while
\* processRequest() runs.
CopiesReadTheirRequest ==
    \A c \in Copy :
        /\ alive
        /\ kept[c] # NoObject
        /\ kept[c].req = fcgiRequest
        /\ routed \/ c \notin unread \/ request # NoObject
        => Readable(kept[c])

-----------------------------------------------------------------------------
(***************************************************************************)
(* The inductive invariant behind them.                                    *)
(***************************************************************************)

\* The local shows the current request or is not initialised.
LocalIsCurrent ==
    request # NoObject =>
        /\ alive /\ fcgiRequest # 0
        /\ request.req = fcgiRequest /\ request.value \in {0, fcgiRequest}

\* The queue got its copy after the path was read.
QueuedIsInitialized ==
    queued # NoObject =>
        /\ alive /\ fcgiRequest # 0
        /\ queued.req = fcgiRequest /\ queued.value = fcgiRequest

\* So did the copies of a routed request and of one that was read before; the
\* others can still be initialised while processRequest() runs.
KeptIsCurrent(c) ==
    kept[c] # NoObject =>
        /\ kept[c].req \in 1..fcgiRequest
        /\ kept[c].req = fcgiRequest =>
                /\ routed \/ c \notin unread => kept[c].value = fcgiRequest
                /\ request # NoObject => kept[c].value \in {0, fcgiRequest}

IInv ==
    /\ TypeOK
    /\ LocalIsCurrent
    /\ QueuedIsInitialized
    /\ \A c \in Copy : KeptIsCurrent(c)

=============================================================================
