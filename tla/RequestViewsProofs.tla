-------------------------- MODULE RequestViewsProofs --------------------------
(***************************************************************************)
(* For any number of requests and copies: what processors and callbacks    *)
(* read through a Request is the request it was made for, as long as the   *)
(* object may be read at all.                                              *)
(***************************************************************************)
EXTENDS RequestViews, TLAPS

\* The types of the variables, one by one.
LEMMA Types ==
  ASSUME IInv
  PROVE  /\ alive \in BOOLEAN /\ routed \in BOOLEAN
         /\ fcgiRequest \in 0..MaxRequests /\ MaxRequests \in Nat
         /\ request \in Object /\ queued \in Object
         /\ kept \in [Copy -> Object] /\ unread \subseteq Copy
         /\ LocalIsCurrent /\ QueuedIsInitialized
         /\ \A c \in Copy : KeptIsCurrent(c)
BY RequestViewsAssumption DEF IInv, TypeOK

\* No object is an object.
LEMMA NoObjectType == NoObject \in Object /\ NoObject.req = 0 /\ NoObject.value = 0
BY RequestViewsAssumption DEF NoObject, Object, Garbage

\* Nothing is read before the first request.
LEMMA InitIInv == Init => IInv
<1> SUFFICES ASSUME Init PROVE IInv
  OBVIOUS
<1>1. TypeOK
  BY NoObjectType, RequestViewsAssumption DEF Init, TypeOK
<1> QED
  BY <1>1 DEF Init, IInv, LocalIsCurrent, QueuedIsInitialized, KeptIsCurrent

\* get() initialises an object once, and through the local if that lives.
LEMMA GetLemma ==
  ASSUME IInv, NEW object \in Object, NEW o \in Get(object)
  PROVE  /\ o \in Object
         /\ o.req = object.req
         /\ object.value # 0 => o = object
         /\ object.value = 0 /\ alive /\ request.req = object.req => o.value = fcgiRequest
<1>1. FcgiRequest(object) \in Garbage..MaxRequests /\ Garbage \in Garbage..MaxRequests
  BY Types DEF FcgiRequest, Garbage
<1>2. FcgiRequest(request) = FcgiRequest(object)
  BY DEF FcgiRequest
<1>3. Initializer(object) \subseteq Garbage..MaxRequests
  BY <1>1, <1>2 DEF Initializer
<1>4. object.value \in Garbage..MaxRequests
  BY DEF Object
<1>5. PICK v \in IF object.value = 0 THEN Initializer(object) ELSE {object.value} :
        o = [object EXCEPT !.value = v]
  BY DEF Get
<1>6. v \in Garbage..MaxRequests
  BY <1>3, <1>4
<1>7. o \in Object /\ o.req = object.req /\ o.value = v
  BY <1>5, <1>6 DEF Object
<1>8. object.value # 0 => o = object
  BY <1>5 DEF Object
<1>9. ASSUME object.value = 0, alive, request.req = object.req PROVE v = fcgiRequest
  BY <1>9 DEF Initializer, FcgiRequest
<1> QED
  BY <1>7, <1>8, <1>9

\* An object that shows its own request, the current one, is readable.
LEMMA ReadableWhen ==
  ASSUME IInv, NEW object \in Object, alive, fcgiRequest # 0, object.req = fcgiRequest,
         object.value = fcgiRequest \/ (object.value = 0 /\ request.req = fcgiRequest)
  PROVE  Readable(object)
<1>1. \A o \in Get(object) : o.value = fcgiRequest
  BY GetLemma
<1>2. Get(object) # {}
  BY DEF Get, Initializer
<1>3. HttpRequest(object) = {fcgiRequest}
  BY <1>1, <1>2 DEF HttpRequest
<1> QED
  BY <1>3 DEF Readable, FcgiRequest

\* A new request: no copy is of this one, and the old queue is gone.
LEMMA ProcessRequestStep == IInv /\ ProcessRequest => IInv'
<1> SUFFICES ASSUME IInv, ProcessRequest PROVE IInv'
  OBVIOUS
<1> USE Types
<1> DEFINE n == fcgiRequest + 1
<1>1. /\ alive /\ fcgiRequest' = n /\ queued' = NoObject
      /\ request' = [req |-> n, value |-> 0]
      /\ UNCHANGED <<alive, routed, kept, unread>>
  BY DEF ProcessRequest
<1>2. n \in 1..MaxRequests
  BY DEF ProcessRequest
<1>3. request' \in Object /\ request'.req = n /\ request'.value = 0
  BY <1>1, <1>2 DEF Object, Garbage
<1>4. TypeOK'
  BY <1>1, <1>2, <1>3, NoObjectType DEF TypeOK
<1>5. LocalIsCurrent' /\ QueuedIsInitialized'
  BY <1>1, <1>2, <1>3 DEF LocalIsCurrent, QueuedIsInitialized
<1>6. ASSUME NEW c \in Copy PROVE KeptIsCurrent(c)'
  BY <1>1, <1>2 DEF KeptIsCurrent
<1> QED
  BY <1>4, <1>5, <1>6 DEF IInv

\* What reading the local makes of it.
LEMMA LocalRead ==
  ASSUME IInv, request # NoObject, NEW o \in Get(request)
  PROVE  /\ o \in Object /\ o # NoObject /\ alive /\ fcgiRequest # 0
         /\ o.req = fcgiRequest /\ o.value = fcgiRequest
<1>1. /\ request \in Object /\ alive /\ fcgiRequest # 0
      /\ request.req = fcgiRequest /\ request.value \in {0, fcgiRequest}
  BY Types DEF LocalIsCurrent
<1> QED
  BY <1>1, GetLemma, NoObjectType

\* The router reads the path, so its copy is initialised.
LEMMA RouteStep == IInv /\ Route => IInv'
<1> SUFFICES ASSUME IInv, Route PROVE IInv'
  OBVIOUS
<1> USE Types
<1>1. /\ request # NoObject /\ request' \in Get(request) /\ queued' = request'
      /\ UNCHANGED <<alive, fcgiRequest, routed, kept, unread>>
  BY DEF Route
<1>2. /\ request' \in Object /\ request' # NoObject /\ alive /\ fcgiRequest # 0
      /\ request'.req = fcgiRequest /\ request'.value = fcgiRequest
  BY <1>1, LocalRead
<1>3. TypeOK'
  BY <1>1, <1>2 DEF TypeOK
<1>4. LocalIsCurrent' /\ QueuedIsInitialized'
  BY <1>1, <1>2 DEF LocalIsCurrent, QueuedIsInitialized
<1>5. ASSUME NEW c \in Copy PROVE KeptIsCurrent(c)'
  BY <1>1 DEF KeptIsCurrent
<1> QED
  BY <1>3, <1>4, <1>5 DEF IInv

\* A processor reads the request it is given.
LEMMA ProcessorReadsStep == IInv /\ ProcessorReads => IInv'
<1> SUFFICES ASSUME IInv, ProcessorReads PROVE IInv'
  OBVIOUS
<1> USE Types
<1>1. UNCHANGED <<alive, fcgiRequest, routed, kept, unread>>
  BY DEF ProcessorReads
<1>2. CASE routed
  <2>1. queued # NoObject /\ queued' \in Get(queued) /\ UNCHANGED request
    BY <1>2 DEF ProcessorReads
  <2>2. queued' = queued
    BY <2>1, GetLemma DEF QueuedIsInitialized
  <2> QED
    BY <1>1, <2>1, <2>2
       DEF IInv, TypeOK, LocalIsCurrent, QueuedIsInitialized, KeptIsCurrent
<1>3. CASE ~routed
  <2>1. request # NoObject /\ request' \in Get(request) /\ UNCHANGED queued
    BY <1>3 DEF ProcessorReads
  <2>2. /\ request' \in Object /\ request' # NoObject /\ alive /\ fcgiRequest # 0
        /\ request'.req = fcgiRequest /\ request'.value = fcgiRequest
    BY <2>1, LocalRead
  <2>3. TypeOK'
    BY <1>1, <2>1, <2>2 DEF TypeOK
  <2>4. LocalIsCurrent' /\ QueuedIsInitialized'
    BY <1>1, <2>1, <2>2 DEF LocalIsCurrent, QueuedIsInitialized
  <2>5. ASSUME NEW c \in Copy PROVE KeptIsCurrent(c)'
    BY <1>1, <2>1 DEF KeptIsCurrent
  <2> QED
    BY <2>3, <2>4, <2>5 DEF IInv
<1> QED
  BY <1>2, <1>3

\* What a processor can be given.
LEMMA GivenLemma ==
  ASSUME IInv, Given # NoObject
  PROVE  /\ Given \in Object /\ alive /\ fcgiRequest \in 1..MaxRequests /\ Given.req = fcgiRequest
         /\ Given.value \in {0, fcgiRequest}
         /\ routed => Given.value = fcgiRequest
         /\ ~routed => request = Given
<1> USE Types
<1>1. CASE routed
  BY <1>1 DEF Given, QueuedIsInitialized
<1>2. CASE ~routed
  BY <1>2 DEF Given, LocalIsCurrent
<1> QED
  BY <1>1, <1>2

\* A copy is made.
LEMMA KeepCopyStep == ASSUME IInv, NEW c \in Copy, KeepCopy(c) PROVE IInv'
<1> USE Types
<1>1. /\ Given # NoObject
      /\ kept' = [kept EXCEPT ![c] = Given]
      /\ unread' = IF Given.value = 0 THEN unread \cup {c} ELSE unread
      /\ UNCHANGED <<alive, fcgiRequest, routed, request, queued>>
  BY DEF KeepCopy
<1>2. /\ Given \in Object /\ fcgiRequest \in 1..MaxRequests /\ Given.req = fcgiRequest
      /\ Given.value \in {0, fcgiRequest}
      /\ routed => Given.value = fcgiRequest
  BY <1>1, GivenLemma
<1>3. /\ kept' \in [Copy -> Object] /\ kept'[c] = Given
      /\ \A d \in Copy : d # c => kept'[d] = kept[d]
      /\ unread' \subseteq Copy
      /\ \A d \in Copy : d # c => (d \in unread' <=> d \in unread)
      /\ Given.value = 0 => c \in unread'
  BY <1>1, <1>2
<1> HIDE DEF Given
<1>4. TypeOK'
  BY <1>1, <1>3 DEF TypeOK
<1>5. LocalIsCurrent' /\ QueuedIsInitialized'
  BY <1>1 DEF LocalIsCurrent, QueuedIsInitialized
<1>6. KeptIsCurrent(c)'
  BY <1>1, <1>2, <1>3 DEF KeptIsCurrent
<1>7. ASSUME NEW d \in Copy, d # c PROVE KeptIsCurrent(d)'
  BY <1>1, <1>3, <1>7 DEF KeptIsCurrent
<1> QED
  BY <1>4, <1>5, <1>6, <1>7 DEF IInv

\* A copy is read.
LEMMA CopyReadsStep == ASSUME IInv, NEW c \in Copy, CopyReads(c) PROVE IInv'
<1> USE Types
<1>1. /\ kept[c] # NoObject
      /\ \E o \in Get(kept[c]) : kept' = [kept EXCEPT ![c] = o]
      /\ UNCHANGED <<alive, fcgiRequest, routed, request, queued, unread>>
  BY DEF CopyReads
<1>2. PICK o \in Get(kept[c]) : kept' = [kept EXCEPT ![c] = o]
  BY <1>1
<1>3. kept[c] \in Object /\ KeptIsCurrent(c)
  OBVIOUS
<1>4. /\ o \in Object /\ o.req = kept[c].req
      /\ kept[c].value # 0 => o = kept[c]
      /\ kept[c].value = 0 /\ alive /\ request.req = kept[c].req => o.value = fcgiRequest
  BY <1>3, GetLemma
<1>5. /\ kept' \in [Copy -> Object] /\ kept'[c] = o
      /\ \A d \in Copy : d # c => kept'[d] = kept[d]
  BY <1>2, <1>4
<1>6. TypeOK'
  BY <1>1, <1>5 DEF TypeOK
<1>7. LocalIsCurrent' /\ QueuedIsInitialized'
  BY <1>1 DEF LocalIsCurrent, QueuedIsInitialized
<1>8. KeptIsCurrent(c)'
  <2>1. o.req \in 1..fcgiRequest
    BY <1>1, <1>3, <1>4 DEF KeptIsCurrent
  <2>2. ASSUME o.req = fcgiRequest, routed \/ c \notin unread PROVE o.value = fcgiRequest
    BY <1>1, <1>3, <1>4, <2>1, <2>2 DEF KeptIsCurrent
  <2>3. ASSUME o.req = fcgiRequest, request # NoObject PROVE o.value \in {0, fcgiRequest}
    BY <1>1, <1>3, <1>4, <2>3 DEF KeptIsCurrent, LocalIsCurrent
  <2> QED
    BY <1>1, <1>5, <2>1, <2>2, <2>3 DEF KeptIsCurrent
<1>9. ASSUME NEW d \in Copy, d # c PROVE KeptIsCurrent(d)'
  BY <1>1, <1>5, <1>9 DEF KeptIsCurrent
<1> QED
  BY <1>6, <1>7, <1>8, <1>9 DEF IInv

\* A copy goes.
LEMMA ForgetCopyStep == ASSUME IInv, NEW c \in Copy, ForgetCopy(c) PROVE IInv'
<1> USE Types
<1>1. /\ kept' = [kept EXCEPT ![c] = NoObject] /\ unread' = unread \ {c}
      /\ UNCHANGED <<alive, fcgiRequest, routed, request, queued>>
  BY DEF ForgetCopy
<1>2. TypeOK'
  BY <1>1, NoObjectType DEF TypeOK
<1>3. LocalIsCurrent' /\ QueuedIsInitialized'
  BY <1>1 DEF LocalIsCurrent, QueuedIsInitialized
<1>4. ASSUME NEW d \in Copy PROVE KeptIsCurrent(d)'
  BY <1>1 DEF KeptIsCurrent
<1> QED
  BY <1>2, <1>3, <1>4 DEF IInv

\* processRequest() returns, or the connection goes.
LEMMA LeaveStep == IInv /\ (Return \/ Drop) => IInv'
<1> SUFFICES ASSUME IInv, Return \/ Drop PROVE IInv'
  OBVIOUS
<1> USE Types
<1>1. CASE Return
  <2>1. request' = NoObject /\ UNCHANGED <<alive, fcgiRequest, routed, queued, kept, unread>>
    BY <1>1 DEF Return
  <2>2. TypeOK'
    BY <2>1, NoObjectType DEF TypeOK
  <2> QED
    BY <2>1, <2>2 DEF IInv, LocalIsCurrent, QueuedIsInitialized, KeptIsCurrent
<1>2. CASE Drop
  <2>1. /\ request = NoObject /\ queued' = NoObject
        /\ alive' \in BOOLEAN
        /\ UNCHANGED <<fcgiRequest, routed, request, kept, unread>>
    BY <1>2, Zenon DEF Drop
  <2>2. TypeOK'
    BY <2>1, NoObjectType DEF TypeOK
  <2> QED
    BY <2>1, <2>2 DEF IInv, LocalIsCurrent, QueuedIsInitialized, KeptIsCurrent
<1> QED
  BY <1>1, <1>2

\* Every step preserves the invariant.
LEMMA NextIInv == IInv /\ [Next]_vars => IInv'
<1> SUFFICES ASSUME IInv, [Next]_vars PROVE IInv'
  OBVIOUS
<1>1. CASE UNCHANGED vars
  BY <1>1 DEF vars, IInv, TypeOK, LocalIsCurrent, QueuedIsInitialized, KeptIsCurrent
<1>2. CASE Next
  BY <1>2, ProcessRequestStep, RouteStep, ProcessorReadsStep, LeaveStep, KeepCopyStep,
     CopyReadsStep, ForgetCopyStep DEF Next
<1> QED
  BY <1>1, <1>2

\* A processor reads its own request, whenever the queue is resumed.
THEOREM ProcessorsRead == Spec => []ProcessorsReadTheirRequest
<1>1. ASSUME IInv PROVE ProcessorsReadTheirRequest
  <2> SUFFICES ASSUME Given # NoObject PROVE Readable(Given)
    BY DEF ProcessorsReadTheirRequest
  <2>1. /\ Given \in Object /\ alive /\ fcgiRequest \in 1..MaxRequests /\ Given.req = fcgiRequest
        /\ Given.value \in {0, fcgiRequest}
        /\ routed => Given.value = fcgiRequest
        /\ ~routed => request = Given
    BY <1>1, GivenLemma
  <2> HIDE DEF Given
  <2> QED
    BY <1>1, <2>1, ReadableWhen
<1> QED
  BY <1>1, InitIInv, NextIInv, PTL DEF Spec

\* A copy of a routed request, or of one that was read before, is readable
\* until the next request of the connection.
THEOREM CopiesRead == Spec => []CopiesReadTheirRequest
<1>1. ASSUME IInv PROVE CopiesReadTheirRequest
  <2> SUFFICES ASSUME NEW c \in Copy, alive, kept[c] # NoObject, kept[c].req = fcgiRequest,
                      routed \/ c \notin unread \/ request # NoObject
               PROVE  Readable(kept[c])
    BY DEF CopiesReadTheirRequest
  <2>1. kept[c] \in Object /\ fcgiRequest # 0
    BY <1>1, Types DEF KeptIsCurrent
  <2>2. kept[c].value = fcgiRequest \/ (kept[c].value = 0 /\ request.req = fcgiRequest)
    BY <1>1, Types DEF KeptIsCurrent, LocalIsCurrent
  <2> QED
    BY <1>1, <2>1, <2>2, ReadableWhen
<1> QED
  BY <1>1, InitIInv, NextIInv, PTL DEF Spec

=============================================================================
