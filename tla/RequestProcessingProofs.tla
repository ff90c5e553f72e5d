---------------------- MODULE RequestProcessingProofs ----------------------
(***************************************************************************)
(* No request is ever forgotten, whatever user code does, however many     *)
(* operations it starts and chains, and whenever the peer sends or drops.  *)
(***************************************************************************)
EXTENDS RequestProcessing, SequenceTheorems, TLAPS

\* An idle thread is a thread.
LEMMA IdleType == Idle \in ThreadType
<1> DEFINE nothing == <<>>
<1>1. nothing \in Seq(Deed) /\ 0 \in 0..MaxRequests
  BY EmptySeq, BoundsAssumption
<1>2. Idle = [doing |-> "nothing", req |-> 0, via |-> "router", queue |-> 0, body |-> nothing]
  BY DEF Idle
<1> HIDE DEF nothing
<1> QED
  BY <1>1, <1>2 DEF ThreadType, Via

\* Nothing is waited for before the first request.
LEMMA InitIInv == Init => IInv
<1> SUFFICES ASSUME Init PROVE IInv
  OBVIOUS
<1>2. thread \in ThreadType
  BY IdleType DEF Init
<1>3. op \in [Op -> OpType]
  BY BoundsAssumption DEF Init, Unused, OpType, Kind
<1>4. queue \in [Request -> QueueType]
  BY BoundsAssumption DEF Init, QueueType
<1>b. alive \in BOOLEAN /\ crashed \in BOOLEAN /\ dangling \in BOOLEAN
  BY Zenon DEF Init
<1>c. context \in 0..MaxRequests /\ queueOf \in [Kind -> 0..MaxRequests]
  BY BoundsAssumption DEF Init
<1>5. answer \in [Request -> Answers]
  BY DEF Init, Answers
<1>6. References
  BY DEF Init, References, Unused, Idle
<1>7. Queues
  BY BoundsAssumption DEF Init, Queues, Fallback
<1> QED
  BY <1>2, <1>3, <1>4, <1>b, <1>c, <1>5, <1>6, <1>7 DEF IInv, Init, Waiting, TypeOK

\* The types of the variables, one by one.
LEMMA Types ==
    ASSUME IInv
    PROVE  /\ alive \in BOOLEAN /\ crashed \in BOOLEAN /\ dangling \in BOOLEAN
           /\ context \in 0..MaxRequests
           /\ answer \in [Request -> Answers]
           /\ queue \in [Request -> QueueType]
           /\ queueOf \in [Kind -> 0..MaxRequests]
           /\ op \in [Op -> OpType]
           /\ thread \in ThreadType
           /\ References
           /\ Queues
           /\ alive /\ ~crashed /\ Waiting => SomebodyGoesOn
BY DEF IInv, TypeOK

\* A response is waited for exactly while the current request has no answer.
LEMMA WaitingMeans == alive => (Waiting <=> context # 0 /\ answer[context] = "none")
BY DEF Waiting, IsSent, Locked

\* send() answers the current request, if it has no answer, and no other.
LEMMA SendLemma ==
    ASSUME answer \in [Request -> Answers], NEW r, NEW what \in Answers, what # "none",
           Send(r, what)
    PROVE  /\ answer' \in [Request -> Answers]
           /\ \A x \in Request : answer[x] # "none" => answer'[x] = answer[x]
           /\ r \in Request /\ Locked(r) => answer'[r] # "none"
<1>1. CASE Locked(r) /\ answer[r] = "none"
  <2>1. answer' = [answer EXCEPT ![r] = what]
    BY <1>1 DEF Send
  <2> QED
    BY <1>1, <2>1
<1>2. CASE ~(Locked(r) /\ answer[r] = "none")
  <2>1. answer' = answer
    BY <1>2 DEF Send
  <2> QED
    BY <1>2, <2>1
<1> QED
  BY <1>1, <1>2

\* Taking the first deed off the body of user code changes nothing else.
LEMMA ProceedLemma ==
    ASSUME thread \in ThreadType, thread.body # <<>>, Proceed
    PROVE  /\ thread' \in ThreadType
           /\ thread'.doing = thread.doing
           /\ thread'.req = thread.req
           /\ thread'.queue = thread.queue
<1> DEFINE rest == Tail(thread.body)
<1>1. rest \in Seq(Deed)
  BY HeadTailProperties DEF ThreadType
<1>2. thread' = [thread EXCEPT !.body = rest]
  BY DEF Proceed
<1> HIDE DEF rest
<1> QED
  BY <1>1, <1>2 DEF ThreadType

\* The launch loop works on the queue of the current request.
LEMMA LaunchFacts ==
    ASSUME IInv, thread.doing = "launch"
    PROVE  /\ alive /\ context \in Request /\ thread.queue = context /\ thread.req = context
           /\ Locked(context)
           /\ queue[context] \in QueueType
BY Types, BoundsAssumption DEF References, Request, Locked

\* The next processor of the queue is run.
LEMMA RunProcessorStep ==
    ASSUME IInv, NEW body \in ProcessorDoes, RunProcessor(body)
    PROVE  IInv'
<1> USE Types
<1>1. AtQueue /\ thread.doing = "launch"
  BY DEF RunProcessor, AtQueue
<1>2. alive /\ context \in Request /\ thread.queue = context /\ thread.req = context
  BY <1>1, LaunchFacts
<1>3. /\ queue[context].next < Fallback
      /\ queue' = [queue EXCEPT ![context].next = @ + 1]
      /\ thread' = [thread EXCEPT !.body = body]
      /\ UNCHANGED <<alive, context, answer, queueOf, op, crashed, dangling>>
  BY <1>2 DEF RunProcessor
<1>4. body \in Seq(Deed)
  BY BodiesAssumption
<1>5. /\ thread' \in ThreadType
      /\ thread'.doing = thread.doing /\ thread'.req = thread.req /\ thread'.queue = thread.queue
  BY <1>3, <1>4 DEF ThreadType
<1>6. /\ queue' \in [Request -> QueueType]
      /\ queue'[context].next = queue[context].next + 1
      /\ queue'[context].stopped = queue[context].stopped
      /\ \A r \in Request : r # context => queue'[r] = queue[r]
  BY <1>2, <1>3, BoundsAssumption DEF QueueType, Fallback
<1>7. TypeOK'
  BY <1>3, <1>5, <1>6 DEF TypeOK
<1>8. References'
  BY <1>3, <1>5 DEF References
<1>9. Queues'
  <2> SUFFICES ASSUME NEW r \in Request
               PROVE  /\ r > context => queue'[r].next = 1
                      /\ queue'[r].next > Fallback => answer[r] # "none"
    BY <1>3 DEF Queues, Fallback
  <2>1. CASE r = context
    BY <1>2, <1>3, <1>6, <2>1, BoundsAssumption DEF QueueType, Fallback, Request
  <2>2. CASE r # context
    BY <1>6, <2>2 DEF Queues
  <2> QED
    BY <2>1, <2>2
<1>10. (alive /\ ~crashed /\ Waiting => SomebodyGoesOn)'
  BY <1>3, <1>5, <1>6 DEF Waiting, IsSent, Locked, SomebodyGoesOn, Outstanding
<1> QED
  BY <1>7, <1>8, <1>9, <1>10 DEF IInv

\* The queue is used up: the request is answered with a 404.
LEMMA ProcessUnmatchedRequestStep ==
    ASSUME IInv, ProcessUnmatchedRequest
    PROVE  IInv'
<1> USE Types
<1>1. AtQueue /\ thread.doing = "launch"
  BY DEF ProcessUnmatchedRequest, AtQueue
<1>2. /\ alive /\ context \in Request /\ thread.queue = context /\ thread.req = context
      /\ Locked(context)
  BY <1>1, LaunchFacts
<1>3. /\ queue[context].next = Fallback
      /\ queue' = [queue EXCEPT ![context].next = @ + 1]
      /\ Send(context, "404")
      /\ UNCHANGED <<alive, context, queueOf, op, thread, crashed, dangling>>
  BY <1>2 DEF ProcessUnmatchedRequest
<1>4. /\ answer' \in [Request -> Answers]
      /\ \A x \in Request : answer[x] # "none" => answer'[x] = answer[x]
      /\ answer'[context] # "none"
  BY <1>2, <1>3, SendLemma DEF Answers
<1>5. /\ queue' \in [Request -> QueueType]
      /\ \A r \in Request : r # context => queue'[r] = queue[r]
  BY <1>2, <1>3, BoundsAssumption DEF QueueType, Fallback
<1>6. TypeOK'
  BY <1>3, <1>4, <1>5 DEF TypeOK
<1>7. References'
  BY <1>3 DEF References
<1>8. Queues'
  BY <1>2, <1>3, <1>4, <1>5, BoundsAssumption DEF Queues, Request
<1>9. ~Waiting'
  BY <1>2, <1>3, <1>4 DEF Waiting, IsSent
<1> QED
  BY <1>6, <1>7, <1>8, <1>9 DEF IInv

\* The loop stops: the request is answered, or an operation stopped the queue.
LEMMA LaunchEndsStep ==
    ASSUME IInv, LaunchEnds
    PROVE  IInv'
<1> USE Types
<1>1. thread.doing = "launch" /\ ~GoesOn(thread.queue)
  BY DEF LaunchEnds, AtQueue
<1>2. alive /\ context \in Request /\ thread.queue = context /\ queue[context] \in QueueType
  BY <1>1, LaunchFacts
<1>3. /\ thread' = Idle
      /\ UNCHANGED <<alive, context, answer, queue, queueOf, op, dangling>>
  BY DEF LaunchEnds
<1>c. crashed' \in BOOLEAN /\ (crashed => crashed')
  BY Zenon DEF LaunchEnds
<1>4. TypeOK'
  BY <1>3, <1>c, IdleType DEF TypeOK
<1>5. References' /\ Queues'
  BY <1>3 DEF References, Queues, Idle, Fallback
<1>6. ASSUME alive, ~crashed, Waiting PROVE \E o \in Op : Outstanding(o) /\ op[o].req = context
  <2>1. ~IsSent(context) /\ answer[context] = "none"
    BY <1>2, <1>6, WaitingMeans DEF Waiting
  <2>2. queue[context].next <= Fallback
    BY <1>2, <2>1, BoundsAssumption DEF Queues, QueueType, Fallback
  <2>3. queue[context].stopped
    BY <1>1, <1>2, <2>1, <2>2 DEF GoesOn
  <2> QED
    BY <1>1, <1>6, <2>3 DEF SomebodyGoesOn
<1>7. (alive /\ ~crashed /\ Waiting => SomebodyGoesOn)'
  BY <1>3, <1>c, <1>6 DEF Waiting, IsSent, Locked, SomebodyGoesOn, Outstanding
<1> QED
  BY <1>4, <1>5, <1>7 DEF IInv

\* A launch begins: the queue is no longer stopped.
LEMMA LaunchLemma ==
    ASSUME queue \in [Request -> QueueType], NEW q \in Request,
           NEW via \in Via, Launch(q, via)
    PROVE  /\ queue' \in [Request -> QueueType]
           /\ ~queue'[q].stopped
           /\ \A r \in Request : queue'[r].next = queue[r].next
           /\ thread' \in ThreadType
           /\ thread'.doing = "launch" /\ thread'.req = q /\ thread'.queue = q
<1>1. queue' = [queue EXCEPT ![q].stopped = FALSE] /\ thread' = Launching(q, via)
  BY DEF Launch
<1>2. /\ queue' \in [Request -> QueueType]
      /\ ~queue'[q].stopped
      /\ \A r \in Request : queue'[r].next = queue[r].next
  BY <1>1 DEF QueueType
<1> DEFINE nothing == <<>>
<1>3. nothing \in Seq(Deed) /\ q \in 0..MaxRequests
  BY EmptySeq, BoundsAssumption DEF Request
<1>4. thread' = [doing |-> "launch", req |-> q, via |-> via, queue |-> q, body |-> nothing]
  BY <1>1 DEF Launching
<1> HIDE DEF nothing
<1>5. /\ thread' \in ThreadType
      /\ thread'.doing = "launch" /\ thread'.req = q /\ thread'.queue = q
  BY <1>3, <1>4 DEF ThreadType
<1> QED
  BY <1>2, <1>5

\* A new request arrives and its queue is launched.
LEMMA ProcessRequestStep ==
    ASSUME IInv, ProcessRequest
    PROVE  IInv'
<1> USE Types
<1> DEFINE q == context + 1
<1>1. /\ alive /\ context < MaxRequests
      /\ context' = q
      /\ queueOf' = [k \in Kind |-> q]
      /\ Launch(q, "router")
      /\ UNCHANGED <<alive, answer, op, crashed, dangling>>
  BY DEF ProcessRequest, SetRequestProcessorQueue
<1>2. q \in Request /\ q \in 0..MaxRequests /\ q > context /\ q # 0
  BY <1>1, BoundsAssumption DEF Request
<1> HIDE DEF q
<1>3. /\ queue' \in [Request -> QueueType]
      /\ ~queue'[q].stopped
      /\ \A r \in Request : queue'[r].next = queue[r].next
      /\ thread' \in ThreadType
      /\ thread'.doing = "launch" /\ thread'.req = q /\ thread'.queue = q
  BY <1>1, <1>2, LaunchLemma DEF Via
<1>4. TypeOK'
  BY <1>1, <1>2, <1>3 DEF TypeOK
<1>5. References'
  BY <1>1, <1>2, <1>3 DEF References
<1>6. Queues'
  <2> SUFFICES ASSUME NEW r \in Request
               PROVE  /\ r > q => queue'[r].next = 1
                      /\ queue'[r].next > Fallback => answer[r] # "none"
    BY <1>1 DEF Queues, Fallback
  <2>1. r > q => r > context
    BY <1>2 DEF Request
  <2>2. queue'[r].next = queue[r].next
    BY <1>3
  <2> QED
    BY <2>1, <2>2 DEF Queues
<1>7. SomebodyGoesOn'
  BY <1>1, <1>3 DEF SomebodyGoesOn
<1> QED
  BY <1>4, <1>5, <1>6, <1>7 DEF IInv

\* User code answers the request it works for.
LEMMA AnswerStep ==
    ASSUME IInv, NEW what \in Answers, what # "none",
           thread.body # <<>>, Send(thread.req, what), Proceed,
           UNCHANGED <<alive, context, queue, queueOf, op, crashed, dangling>>
    PROVE  IInv'
<1> USE Types
<1>1. /\ answer' \in [Request -> Answers]
      /\ \A x \in Request : answer[x] # "none" => answer'[x] = answer[x]
  BY SendLemma
<1>2. /\ thread' \in ThreadType
      /\ thread'.doing = thread.doing /\ thread'.req = thread.req /\ thread'.queue = thread.queue
  BY ProceedLemma
<1>3. TypeOK'
  BY <1>1, <1>2 DEF TypeOK
<1>4. References'
  BY <1>2 DEF References
<1>5. Queues'
  BY <1>1 DEF Queues, Fallback
<1>6. ASSUME alive, ~crashed, Waiting' PROVE SomebodyGoesOn'
  <2>1. context \in Request /\ answer'[context] = "none"
    BY <1>6, BoundsAssumption DEF Waiting, IsSent, Locked, Request
  <2>2. Waiting
    BY <1>1, <1>6, <2>1, WaitingMeans, BoundsAssumption DEF Request
  <2> QED
    BY <1>2, <1>6, <2>2 DEF SomebodyGoesOn, Outstanding
<1> QED
  BY <1>3, <1>4, <1>5, <1>6 DEF IInv

\* An exception: answered with a 500 where it is caught.
LEMMA ThrowStep ==
    ASSUME IInv, Throw
    PROVE  IInv'
<1> USE Types
<1>1. /\ thread' = Idle
      /\ UNCHANGED <<alive, context, queue, queueOf, op, dangling>>
  BY DEF Throw
<1>2. References'
  BY <1>1 DEF References, Idle
<1>3. CASE thread.doing = "launch" /\ thread.via = "router"
  <2>1. Send(thread.req, "500") /\ UNCHANGED crashed
    BY <1>3 DEF Throw
  <2>2. alive /\ context \in Request /\ thread.req = context /\ Locked(context)
    BY <1>3, LaunchFacts
  <2>3. /\ answer' \in [Request -> Answers]
        /\ \A x \in Request : answer[x] # "none" => answer'[x] = answer[x]
        /\ answer'[context] # "none"
    BY <2>1, <2>2, SendLemma DEF Answers
  <2>4. TypeOK'
    BY <1>1, <2>1, <2>3, IdleType DEF TypeOK
  <2>5. Queues'
    BY <1>1, <2>3 DEF Queues, Fallback
  <2>6. ~Waiting'
    BY <1>1, <2>2, <2>3 DEF Waiting, IsSent
  <2> QED
    BY <1>2, <2>4, <2>5, <2>6 DEF IInv
<1>4. CASE ~(thread.doing = "launch" /\ thread.via = "router")
  <2>1. crashed' /\ crashed' \in BOOLEAN /\ answer' = answer
    BY <1>4, Zenon DEF Throw
  <2>2. TypeOK'
    BY <1>1, <2>1, IdleType DEF TypeOK
  <2>3. Queues'
    BY <1>1, <2>1 DEF Queues, Fallback
  <2> QED
    BY <1>2, <2>1, <2>2, <2>3 DEF IInv
<1> QED
  BY <1>3, <1>4

\* User code starts an operation; the queue waits for it.
LEMMA StartStep ==
    ASSUME IInv, NEW o \in Op, NEW kind \in Kind, Start(o, kind)
    PROVE  IInv'
<1> USE Types
<1> DEFINE r == thread.req
           q == queueOf[kind]
<1>1. /\ thread.body # <<>> /\ Proceed
      /\ UNCHANGED <<alive, context, answer, queueOf, crashed>>
  BY DEF Start, NextDeed
<1>2. /\ thread' \in ThreadType
      /\ thread'.doing = thread.doing /\ thread'.req = thread.req /\ thread'.queue = thread.queue
  BY <1>1, ProceedLemma
<1>3. CASE Locked(r)
  <2> DEFINE new == [kind |-> kind, req |-> r, queue |-> q, st |-> "waiting"]
  <2>1. /\ op' = [op EXCEPT ![o] = new]
        /\ queue' = IF QueueExists(q) THEN Stop(q) ELSE queue
        /\ dangling' = (dangling \/ (q # 0 /\ ~QueueExists(q)))
    BY <1>3 DEF Start, HasService
  <2>2. alive /\ r = context /\ q = context
    BY <1>3 DEF Locked, References
  <2>3. new \in OpType /\ new.queue = new.req /\ new.req = context /\ new.st = "waiting"
    BY <2>2 DEF OpType
  <2> HIDE DEF new
  <2>4. /\ op' \in [Op -> OpType]
        /\ op'[o] = new
        /\ \A p \in Op : p # o => op'[p] = op[p]
    BY <2>1, <2>3
  <2>5. /\ queue' \in [Request -> QueueType]
        /\ \A x \in Request : queue'[x].next = queue[x].next
    BY <2>1 DEF Stop, QueueType
  <2>6. dangling' \in BOOLEAN
    BY <2>1, Zenon
  <2>7. TypeOK'
    BY <1>1, <1>2, <2>4, <2>5, <2>6 DEF TypeOK
  <2>8. References'
    BY <1>1, <1>2, <2>3, <2>4 DEF References
  <2>9. Queues'
    BY <1>1, <2>5 DEF Queues, Fallback
  <2>10. SomebodyGoesOn'
    <3>1. op'[o].st \in {"waiting", "ready"} /\ op'[o].req = context'
      BY <1>1, <2>3, <2>4
    <3> QED
      BY <3>1 DEF SomebodyGoesOn, Outstanding
  <2> QED
    BY <2>7, <2>8, <2>9, <2>10 DEF IInv
<1>4. CASE ~Locked(r)
  <2>1. UNCHANGED <<op, queue, dangling>>
    BY <1>4 DEF Start, HasService
  <2>2. TypeOK'
    BY <1>1, <1>2, <2>1 DEF TypeOK
  <2>3. References' /\ Queues'
    BY <1>1, <1>2, <2>1 DEF References, Queues, Fallback
  <2>4. (alive /\ ~crashed /\ Waiting => SomebodyGoesOn)'
    BY <1>1, <1>2, <2>1 DEF Waiting, IsSent, Locked, SomebodyGoesOn, Outstanding
  <2> QED
    BY <2>2, <2>3, <2>4 DEF IInv
<1> QED
  BY <1>3, <1>4

\* An operation ends, or its handler calls the user's callback.
LEMMA HandlerStep ==
    ASSUME IInv, NEW o \in Op, Handler(o)
    PROVE  IInv'
<1> USE Types
<1>1. CASE Completes(o)
  <2>1. /\ op' = [op EXCEPT ![o].st = "ready"]
        /\ op[o].st = "waiting"
        /\ UNCHANGED <<alive, context, answer, queue, queueOf, thread, crashed, dangling>>
    BY <1>1 DEF Completes
  <2>2. /\ op' \in [Op -> OpType]
        /\ \A p \in Op : op'[p].req = op[p].req /\ op'[p].queue = op[p].queue
        /\ \A p \in Op : op[p].st \in {"waiting", "ready"} => op'[p].st \in {"waiting", "ready"}
    BY <2>1 DEF OpType
  <2>3. TypeOK'
    BY <2>1, <2>2 DEF TypeOK
  <2>4. References' /\ Queues'
    BY <2>1, <2>2 DEF References, Queues, Fallback
  <2>5. Waiting' => Waiting
    BY <2>1 DEF Waiting, IsSent, Locked
  <2>6. SomebodyGoesOn => SomebodyGoesOn'
    BY <2>1, <2>2 DEF SomebodyGoesOn, Outstanding
  <2> QED
    BY <2>1, <2>3, <2>4, <2>5, <2>6 DEF IInv
<1>2. ASSUME NEW body \in CallbackDoes, RunCallback(o, body) PROVE IInv'
  <2>1. /\ op' = [op EXCEPT ![o].st = "done"]
        /\ op[o].st = "ready"
        /\ thread = Idle
        /\ thread' = [doing |-> "callback", req |-> op[o].req, via |-> op[o].kind,
                      queue |-> op[o].queue, body |-> body]
        /\ dangling' = (dangling \/ (op[o].kind = "client" /\ ~alive))
        /\ UNCHANGED <<alive, context, answer, queue, queueOf, crashed>>
    BY <1>2 DEF RunCallback
  <2>2. op' \in [Op -> OpType] /\ op[o] \in OpType
    BY <2>1 DEF OpType
  <2>3. /\ \A p \in Op : op'[p].req = op[p].req /\ op'[p].queue = op[p].queue
        /\ \A p \in Op : p # o => op'[p] = op[p]
    BY <2>1 DEF OpType
  <2>4. body \in Seq(Deed)
    BY BodiesAssumption
  <2>5. /\ thread' \in ThreadType
        /\ thread'.doing = "callback" /\ thread'.req = op[o].req /\ thread'.queue = op[o].queue
    BY <2>1, <2>2, <2>4 DEF ThreadType, OpType, Via
  <2>6. dangling' \in BOOLEAN
    BY <2>1, Zenon
  <2>7. TypeOK'
    BY <2>1, <2>2, <2>5, <2>6 DEF TypeOK
  <2>8. References'
    BY <2>1, <2>3, <2>5 DEF References
  <2>9. Queues'
    BY <2>1 DEF Queues, Fallback
  <2>10. Waiting' => Waiting
    BY <2>1 DEF Waiting, IsSent, Locked
  <2>11. SomebodyGoesOn => SomebodyGoesOn'
    <3> SUFFICES ASSUME SomebodyGoesOn PROVE SomebodyGoesOn'
      OBVIOUS
    <3>1. PICK p \in Op : Outstanding(p) /\ op[p].req = context
      BY <2>1 DEF SomebodyGoesOn, Idle
    <3>2. CASE p = o
      BY <2>1, <2>5, <3>1, <3>2 DEF SomebodyGoesOn
    <3>3. CASE p # o
      BY <2>1, <2>3, <3>1, <3>3 DEF SomebodyGoesOn, Outstanding
    <3> QED
      BY <3>2, <3>3
  <2> QED
    BY <2>1, <2>7, <2>8, <2>9, <2>10, <2>11 DEF IInv
<1> QED
  BY <1>1, <1>2 DEF Handler, Callback

\* A handler launches the queue of the current request again.
LEMMA ResumedStep ==
    ASSUME IInv, NEW q, QueueExists(q), NEW via \in Via, Launch(q, via),
           UNCHANGED <<alive, context, answer, queueOf, op, crashed, dangling>>
    PROVE  IInv'
<1> USE Types
<1>1. alive /\ q = context /\ q \in Request /\ context # 0
  BY BoundsAssumption DEF QueueExists, Locked, Request
<1>2. /\ queue' \in [Request -> QueueType]
      /\ ~queue'[q].stopped
      /\ \A r \in Request : queue'[r].next = queue[r].next
      /\ thread' \in ThreadType
      /\ thread'.doing = "launch" /\ thread'.req = q /\ thread'.queue = q
  BY <1>1, LaunchLemma
<1>3. TypeOK'
  BY <1>2 DEF TypeOK
<1>4. References'
  BY <1>1, <1>2 DEF References
<1>5. Queues'
  BY <1>2 DEF Queues, Fallback
<1>6. SomebodyGoesOn'
  BY <1>1, <1>2 DEF SomebodyGoesOn
<1> QED
  BY <1>3, <1>4, <1>5, <1>6 DEF IInv

\* A handler finds that its queue is gone: it did not belong to the current
\* request, or the connection is gone too.
LEMMA NotResumedStep ==
    ASSUME IInv, thread.doing = "callback", ~QueueExists(thread.req), thread' = Idle,
           dangling' \in BOOLEAN,
           UNCHANGED <<alive, context, answer, queue, queueOf, op, crashed>>
    PROVE  IInv'
<1> USE Types
<1>1. TypeOK'
  BY IdleType DEF TypeOK
<1>2. References' /\ Queues'
  BY DEF References, Queues, Idle, Fallback
<1>3. ASSUME alive, ~crashed, Waiting' PROVE SomebodyGoesOn'
  <2>1. Waiting /\ context # 0
    BY <1>3 DEF Waiting, IsSent, Locked
  <2>2. thread.req # context
    BY <1>3, <2>1 DEF QueueExists, Locked
  <2>3. \E o \in Op : Outstanding(o) /\ op[o].req = context
    BY <1>3, <2>1, <2>2 DEF SomebodyGoesOn
  <2> QED
    BY <2>3 DEF SomebodyGoesOn, Outstanding
<1> QED
  BY <1>1, <1>2, <1>3 DEF IInv

\* The callback is over and its handler resumes the processing.
LEMMA ResumeStep ==
    ASSUME IInv, Resume
    PROVE  IInv'
<1> USE Types
<1>1. thread.queue = thread.req
  BY DEF References
<1>2. CASE TimerResumes
  <2>1. /\ thread.doing = "callback"
        /\ UNCHANGED <<alive, context, answer, queueOf, op, crashed>>
        /\ IF QueueExists(thread.queue)
           THEN Launch(thread.queue, "timer") /\ UNCHANGED dangling
           ELSE thread' = Idle /\ dangling' = TRUE /\ UNCHANGED queue
    BY <1>2 DEF TimerResumes, AfterCallback
  <2>2. CASE QueueExists(thread.queue)
    BY <2>1, <2>2, ResumedStep DEF Kind, Via
  <2>3. CASE ~QueueExists(thread.queue)
    <3>1. dangling' \in BOOLEAN
      BY <2>1, <2>3, Zenon
    <3> QED
      BY <1>1, <2>1, <2>3, <3>1, NotResumedStep
  <2> QED
    BY <2>2, <2>3
<1>3. CASE ClientResumes
  <2>1. /\ thread.doing = "callback"
        /\ UNCHANGED <<alive, context, answer, queueOf, op, crashed>>
        /\ IF QueueExists(queueOf["client"])
           THEN Launch(queueOf["client"], "client") /\ UNCHANGED dangling
           ELSE thread' = Idle /\ dangling' = TRUE /\ UNCHANGED queue
    BY <1>3 DEF ClientResumes, AfterCallback
  <2>2. CASE QueueExists(queueOf["client"])
    BY <2>1, <2>2, ResumedStep DEF Kind, Via
  <2>3. CASE ~QueueExists(queueOf["client"])
    <3>1. dangling' \in BOOLEAN
      BY <2>1, <2>3, Zenon
    <3>2. queueOf["client"] = context
      BY DEF References, Kind
    <3>3. ~QueueExists(thread.req)
      BY <2>3, <3>2 DEF QueueExists, Locked
    <3> QED
      BY <2>1, <2>3, <3>1, <3>3, NotResumedStep
  <2> QED
    BY <2>2, <2>3
<1>4. CASE TaskResumes
  <2>1. /\ thread.doing = "callback"
        /\ UNCHANGED <<alive, context, answer, queueOf, op, crashed>>
        /\ UNCHANGED dangling
        /\ IF QueueExists(thread.queue)
           THEN Launch(thread.queue, "task")
           ELSE thread' = Idle /\ UNCHANGED queue
    BY <1>4 DEF TaskResumes, AfterCallback
  <2>2. CASE QueueExists(thread.queue)
    BY <2>1, <2>2, ResumedStep DEF Kind, Via
  <2>3. CASE ~QueueExists(thread.queue)
    BY <1>1, <2>1, <2>3, NotResumedStep
  <2> QED
    BY <2>2, <2>3
<1> QED
  BY <1>2, <1>3, <1>4 DEF Resume

\* The connection is destroyed.
LEMMA DropStep ==
    ASSUME IInv, Drop
    PROVE  IInv'
<1> USE Types
<1>1. /\ thread = Idle
      /\ ~alive' /\ alive' \in BOOLEAN
      /\ \A o \in Op : op'[o] \in Destroyed(o)
      /\ op' \in [Op -> UNION {Destroyed(o) : o \in Op}]
      /\ UNCHANGED <<context, answer, queue, queueOf, thread, crashed, dangling>>
  BY Zenon DEF Drop
<1>2. ASSUME NEW o \in Op, NEW d \in Destroyed(o)
      PROVE  d \in OpType /\ d.req = op[o].req /\ d.queue = op[o].queue
  BY <1>2 DEF Destroyed, OpType
<1>3. /\ op' \in [Op -> OpType]
      /\ \A o \in Op : op'[o].req = op[o].req /\ op'[o].queue = op[o].queue
  BY <1>1, <1>2
<1>4. TypeOK'
  BY <1>1, <1>3 DEF TypeOK
<1>5. References' /\ Queues'
  BY <1>1, <1>3 DEF References, Queues, Idle, Fallback
<1> QED
  BY <1>1, <1>4, <1>5 DEF IInv

\* Every step preserves the invariant.
LEMMA NextIInv == IInv /\ [Next]_vars => IInv'
<1> SUFFICES ASSUME IInv, [Next]_vars PROVE IInv'
  OBVIOUS
<1>1. CASE ProcessRequest
  BY <1>1, ProcessRequestStep
<1>2. ASSUME NEW body \in ProcessorDoes, RunProcessor(body) PROVE IInv'
  BY <1>2, RunProcessorStep
<1>3. CASE Reply
  BY <1>3, AnswerStep DEF Reply, NextDeed, Answers
<1>4. CASE OnRouteParametersError
  BY <1>4, AnswerStep DEF OnRouteParametersError, NextDeed, Answers
<1>5. CASE Throw \/ ThrowFromTask
  BY <1>5, ThrowStep, ResumedStep DEF ThrowFromTask, InTask, Via
<1>6. ASSUME NEW o \in Op, NEW kind \in Kind, Start(o, kind) PROVE IInv'
  BY <1>6, StartStep
<1>7. CASE ProcessUnmatchedRequest
  BY <1>7, ProcessUnmatchedRequestStep
<1>8. CASE LaunchEnds
  BY <1>8, LaunchEndsStep
<1>9. CASE Resume
  BY <1>9, ResumeStep
<1>10. ASSUME NEW o \in Op, Handler(o) PROVE IInv'
  BY <1>10, HandlerStep
<1>11. CASE Drop
  BY <1>11, DropStep
<1>12. CASE UNCHANGED vars
  BY <1>12 DEF vars, IInv, TypeOK, References, Queues, Fallback, Waiting, IsSent, Locked,
               SomebodyGoesOn, Outstanding
<1> QED
  BY <1>1, <1>2, <1>3, <1>4, <1>5, <1>6, <1>7, <1>8, <1>9, <1>10, <1>11, <1>12
     DEF Next, IoThread, UserCode

\* The state keeps its type.
THEOREM TypeCorrect == Spec => []TypeOK
<1>1. IInv => TypeOK
  BY DEF IInv
<1> QED
  BY <1>1, InitIInv, NextIInv, PTL DEF Spec

\* Whatever processors and callbacks do, a request that is not answered when
\* the io thread comes to rest has an operation that will resume it.
THEOREM RequestsNotForgotten == Spec => []NoRequestForgotten
<1>1. IInv => NoRequestForgotten
  BY DEF IInv, NoRequestForgotten, SomebodyGoesOn, Idle
<1> QED
  BY <1>1, InitIInv, NextIInv, PTL DEF Spec

(***************************************************************************)
(* The refinement of Exchange.                                             *)
(***************************************************************************)

\* What a step does to the exchange: nothing, a new request, an attempt to
\* answer, or the end of the connection.
LEMMA StepShape ==
    ASSUME IInv, [Next]_vars
    PROVE  \/ UNCHANGED <<alive, context, answer>>
           \/ /\ alive /\ context < MaxRequests
              /\ context' = context + 1
              /\ UNCHANGED <<alive, answer>>
           \/ /\ \E q, what : Send(q, what) /\ what \in Answers \ {"none"}
              /\ UNCHANGED <<alive, context>>
           \/ alive /\ alive' = FALSE /\ UNCHANGED <<context, answer>>
<1>1. CASE LaunchEnds \/ ThrowFromTask \/ Resume \/ UNCHANGED vars
  BY <1>1 DEF LaunchEnds, ThrowFromTask, Resume, TimerResumes, ClientResumes, TaskResumes, AfterCallback, vars
<1>2. CASE ProcessRequest
  BY <1>2 DEF ProcessRequest
<1>3. CASE Drop
  BY <1>3, Zenon DEF Drop
<1>4. CASE ProcessUnmatchedRequest \/ Reply \/ OnRouteParametersError \/ Throw
  BY <1>4 DEF ProcessUnmatchedRequest, Reply, OnRouteParametersError, Throw, Answers
<1>5. ASSUME NEW body, RunProcessor(body) PROVE UNCHANGED <<alive, context, answer>>
  BY <1>5 DEF RunProcessor
<1>6. ASSUME NEW o, NEW kind, Start(o, kind) PROVE UNCHANGED <<alive, context, answer>>
  BY <1>6 DEF Start
<1>7. ASSUME NEW o, Handler(o) PROVE UNCHANGED <<alive, context, answer>>
  BY <1>7 DEF Handler, Callback, Completes, RunCallback
<1> QED
  BY <1>1, <1>2, <1>3, <1>4, <1>5, <1>6, <1>7 DEF Next, IoThread, UserCode

\* An attempt to answer changes nothing, or answers the request that is open.
LEMMA SendShape ==
    ASSUME IInv, NEW q, NEW what, Send(q, what)
    PROVE  \/ answer' = answer
           \/ /\ alive /\ context \in Request /\ answer[context] = "none"
              /\ answer' = [answer EXCEPT ![context] = what]
<1>1. CASE Locked(q) /\ answer[q] = "none"
  <2>1. alive /\ q = context /\ answer' = [answer EXCEPT ![context] = what]
    BY <1>1 DEF Send, Locked
  <2>2. CASE context \in Request
    BY <1>1, <2>1, <2>2
  <2>3. CASE context \notin Request
    BY <2>1, <2>3, Types
  <2> QED
    BY <2>2, <2>3
<1>2. CASE ~(Locked(q) /\ answer[q] = "none")
  BY <1>2 DEF Send
<1> QED
  BY <1>1, <1>2

\* No step answers a request before it has come.
LEMMA NextUnasked == IInv /\ Unasked /\ [Next]_vars => Unasked'
<1> SUFFICES ASSUME IInv, Unasked, [Next]_vars PROVE Unasked'
  OBVIOUS
<1>t. context \in 0..MaxRequests /\ MaxRequests \in Nat /\ answer \in [Request -> Answers]
  BY Types, BoundsAssumption
<1>1. CASE UNCHANGED <<context, answer>>
  BY <1>1 DEF Unasked
<1>2. CASE context' = context + 1 /\ UNCHANGED answer
  BY <1>t, <1>2 DEF Unasked, Request
<1>3. ASSUME NEW q, NEW what, Send(q, what), UNCHANGED context PROVE Unasked'
  BY <1>t, <1>3, SendShape DEF Unasked, Request
<1> QED
  BY <1>1, <1>2, <1>3, StepShape

\* How the status of a single request is made up.
LEMMA StatusOf ==
    ASSUME NEW r \in Request
    PROVE  /\ Status[r] = IF answer[r] # "none" THEN answer[r]
                          ELSE IF r > context THEN "unasked"
                          ELSE IF alive /\ context = r THEN "open" ELSE "lost"
           /\ Status'[r] = IF answer'[r] # "none" THEN answer'[r]
                           ELSE IF r > context' THEN "unasked"
                           ELSE IF alive' /\ context' = r THEN "open" ELSE "lost"
BY DEF Status, Locked

\* A new request replaces the open one.
LEMMA AskRefines ==
    ASSUME IInv, Unasked, alive, context < MaxRequests, context' = context + 1,
           UNCHANGED <<alive, answer>>
    PROVE  Peer!Ask(context + 1)
<1> DEFINE n == context + 1
<1>t. context \in 0..MaxRequests /\ MaxRequests \in Nat /\ answer \in [Request -> Answers]
  BY Types, BoundsAssumption
<1>1. n \in Request /\ n > context
  BY <1>t DEF Request
<1>2. Status[n] = "unasked"
  BY <1>1, StatusOf DEF Unasked
<1>3. \A s \in Request : s < n => Status[s] # "unasked"
  BY <1>t, StatusOf DEF Request, Answers
<1>4. Status' = [[r \in Request |-> IF Status[r] = "open" THEN "lost" ELSE Status[r]]
                    EXCEPT ![n] = "open"]
  <2> SUFFICES ASSUME NEW r \in Request
               PROVE  Status'[r] = IF r = n THEN "open"
                                   ELSE IF Status[r] = "open" THEN "lost" ELSE Status[r]
    BY <1>1 DEF Status
  <2>1. CASE r = n
    BY <1>1, <2>1, StatusOf DEF Unasked
  <2>2. CASE r # n
    BY <1>t, <2>2, StatusOf DEF Request, Answers
  <2> QED
    BY <2>1, <2>2
<1> QED
  BY <1>1, <1>2, <1>3, <1>4 DEF Peer!Ask, Peer!Lost, Peer!Request, Request

\* An answer reaches the open request.
LEMMA AnswerRefines ==
    ASSUME IInv, NEW what \in Answers \ {"none"}, alive, context \in Request,
           answer[context] = "none", answer' = [answer EXCEPT ![context] = what],
           UNCHANGED <<alive, context>>
    PROVE  Peer!Answer(context, what)
<1>t. answer \in [Request -> Answers] /\ context \in Nat
  BY Types, BoundsAssumption DEF Request
<1>1. Status[context] = "open"
  BY <1>t, StatusOf
<1>2. Status' = [Status EXCEPT ![context] = what]
  <2>1. Status = [r \in Request |-> Status[r]] /\ Status' = [r \in Request |-> Status'[r]]
    BY DEF Status
  <2>2. ASSUME NEW r \in Request
        PROVE  Status'[r] = IF r = context THEN what ELSE Status[r]
    BY <1>t, StatusOf
  <2> QED
    BY <2>1, <2>2
<1> QED
  BY <1>1, <1>2 DEF Peer!Answer

\* With the connection the open request is lost.
LEMMA EndRefines ==
    ASSUME IInv, alive, alive' = FALSE, UNCHANGED <<context, answer>>
    PROVE  Peer!End
<1>1. Status' = [r \in Request |-> IF Status[r] = "open" THEN "lost" ELSE Status[r]]
  <2> SUFFICES ASSUME NEW r \in Request
               PROVE  Status'[r] = IF Status[r] = "open" THEN "lost" ELSE Status[r]
    BY DEF Status
  <2>1. answer[r] \in Answers
    BY Types
  <2> QED
    BY <2>1, StatusOf DEF Answers
<1> QED
  BY <1>1 DEF Peer!End, Peer!Lost, Peer!Request, Request

\* Every step of the processing is a step of the exchange, or none.
LEMMA NextRefines == IInv /\ Unasked /\ [Next]_vars => [Peer!Next]_(Peer!vars)
<1> SUFFICES ASSUME IInv, Unasked, [Next]_vars PROVE [Peer!Next]_(Peer!vars)
  OBVIOUS
<1>1. CASE UNCHANGED <<alive, context, answer>>
  BY <1>1 DEF Peer!vars, Status, Locked
<1>2. CASE /\ alive /\ context < MaxRequests
           /\ context' = context + 1
           /\ UNCHANGED <<alive, answer>>
  <2>1. context + 1 \in Request
    BY <1>2, Types, BoundsAssumption DEF Request
  <2> QED
    BY <1>2, <2>1, AskRefines DEF Peer!Next, Peer!Request, Request
<1>3. ASSUME NEW q, NEW what \in Answers \ {"none"}, Send(q, what), UNCHANGED <<alive, context>>
      PROVE  [Peer!Next]_(Peer!vars)
  <2>1. CASE answer' = answer
    BY <1>1, <1>3, <2>1
  <2>2. CASE /\ alive /\ context \in Request /\ answer[context] = "none"
             /\ answer' = [answer EXCEPT ![context] = what]
    BY <1>3, <2>2, AnswerRefines DEF Peer!Next, Peer!Request, Request
  <2> QED
    BY <1>3, <2>1, <2>2, SendShape
<1>4. CASE alive /\ alive' = FALSE /\ UNCHANGED <<context, answer>>
  BY <1>4, EndRefines DEF Peer!Next
<1> QED
  BY <1>1, <1>2, <1>3, <1>4, StepShape

\* The processing of requests implements the exchange: the first answer to a
\* request is final, whoever else tries to answer it, and a request that was
\* replaced or lost is never answered.
THEOREM ImplementsExchange == Spec => ExchangeSpec
<1>1. Init => Peer!Init /\ Unasked
  BY BoundsAssumption DEF Init, Peer!Init, Peer!Request, Status, Request, Unasked
<1> QED
  BY <1>1, InitIInv, NextIInv, NextUnasked, NextRefines, PTL DEF Spec, ExchangeSpec, Peer!Spec

=============================================================================
