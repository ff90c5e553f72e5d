-------------------------- MODULE RequestUseProofs --------------------------
(***************************************************************************)
(* What holds for particular ways of using the library, with any number of *)
(* requests, processors and operations: where no destroyed object is used, *)
(* where the chain of processors waits, where exceptions are caught.  The  *)
(* hypotheses are assumptions about the bodies of user code and about the  *)
(* peer; the runs that violate these properties violate the hypotheses.    *)
(***************************************************************************)
EXTENDS RequestProcessingProofs

(***************************************************************************)
(* Ways of using the library, and the inductive invariants of each.        *)
(***************************************************************************)
Deeds(body) == {body[i] : i \in DOMAIN body}
StartsNothing(body) == Deeds(body) \cap Kind = {}

\* Processors and callbacks start tasks only; the peer does as it likes.
OnlyTasks == \A body \in ProcessorDoes \cup CallbackDoes : Deeds(body) \cap {"timer", "client"} = {}

TasksInv ==
    /\ ~dangling
    /\ Deeds(thread.body) \cap {"timer", "client"} = {}
    /\ thread.doing = "callback" => thread.via = "task"
    /\ \A o \in Op : Outstanding(o) => op[o].kind = "task"

\* A processor that starts an operation does nothing else and leaves the answer
\* to the callback or to the processors behind it, callbacks start nothing, and
\* the peer waits for its answer.
OneAtATime ==
    /\ \A body \in ProcessorDoes : StartsNothing(body) \/ Len(body) = 1
    /\ \A body \in CallbackDoes : StartsNothing(body)
    /\ ~Pipelined
    /\ ~PeerMayDrop

OneAtATimeInv ==
    /\ ~dangling
    /\ \A o \in Op : Outstanding(o) =>
            /\ alive /\ Waiting /\ op[o].req = context
            /\ \A p \in Op : Outstanding(p) => p = o
            /\ thread.doing # "callback"
            /\ thread.doing = "launch" => thread.body = <<>> /\ queue[context].stopped
    /\ thread.doing = "nothing" => thread.body = <<>>
    /\ thread.doing = "callback" => QueueExists(thread.req) /\ StartsNothing(thread.body)
    /\ thread.doing = "launch" => StartsNothing(thread.body) \/ (Len(thread.body) = 1 /\ Waiting)

\* Processors answer at once or pass the request on.
Synchronous == \A body \in ProcessorDoes : StartsNothing(body)

SynchronousInv ==
    /\ ~crashed
    /\ \A o \in Op : op[o].st = "unused"
    /\ StartsNothing(thread.body)
    /\ thread.body # <<>> => thread.doing = "launch"
    /\ thread.doing # "callback"
    /\ thread.doing = "launch" => thread.via = "router"

\* What is left to do was to be done before.
LEMMA DeedsLeft ==
    ASSUME NEW body \in Seq(Deed), body # <<>>
    PROVE  /\ Head(body) \in Deeds(body)
           /\ Deeds(Tail(body)) \subseteq Deeds(body)
           /\ Len(body) = 1 => Tail(body) = <<>>
<1>1. /\ Len(body) \in Nat /\ DOMAIN body = 1..Len(body)
      /\ Tail(body) \in Seq(Deed) /\ Len(Tail(body)) = Len(body) - 1
      /\ Len(body) > 0
      /\ Head(body) = body[1]
      /\ \A i \in 1..Len(body) - 1 : Tail(body)[i] = body[i + 1]
  BY HeadTailProperties, LenProperties, EmptySeq
<1>2. DOMAIN Tail(body) = 1..Len(body) - 1
  BY <1>1, LenProperties
<1>3. Deeds(Tail(body)) \subseteq Deeds(body)
  <2> SUFFICES ASSUME NEW i \in DOMAIN Tail(body) PROVE Tail(body)[i] \in Deeds(body)
    BY DEF Deeds
  <2>1. i + 1 \in DOMAIN body /\ Tail(body)[i] = body[i + 1]
    BY <1>1, <1>2
  <2> QED
    BY <2>1 DEF Deeds
<1>4. Len(body) = 1 => Tail(body) = <<>>
  <2> DEFINE rest == Tail(body)
  <2>1. rest \in Seq(Deed) /\ Len(rest) = Len(body) - 1
    BY <1>1
  <2> HIDE DEF rest
  <2>2. Len(body) = 1 => rest = <<>>
    BY <2>1, EmptySeq
  <2> QED
    BY <2>2 DEF rest
<1> QED
  BY <1>1, <1>3, <1>4 DEF Deeds

\* Nothing left to do, nothing to be started.
LEMMA NoDeeds == Deeds(<<>>) = {} /\ StartsNothing(<<>>)
BY DEF Deeds, StartsNothing

\* An idle thread does nothing.
LEMMA IdleFacts == Idle.doing = "nothing" /\ Idle.body = <<>>
BY DEF Idle

\* What user code has left to do, after one deed.
LEMMA Proceeded ==
    ASSUME IInv, thread.body # <<>>, Proceed
    PROVE  /\ thread'.body = Tail(thread.body)
           /\ thread.body \in Seq(Deed)
           /\ thread'.doing = thread.doing
           /\ thread'.req = thread.req
           /\ thread'.via = thread.via
<1>1. thread \in ThreadType
  BY Types
<1> QED
  BY <1>1 DEF Proceed, ThreadType

\* An operation started for a request whose queue exists stops that queue and
\* touches nothing that was destroyed.
LEMMA StartIsSafe ==
    ASSUME IInv, NEW o \in Op, NEW kind \in Kind, Start(o, kind)
    PROVE  dangling' = dangling
<1>1. CASE Locked(thread.req)
  <2>1. dangling' = (dangling \/ (queueOf[kind] # 0 /\ ~QueueExists(queueOf[kind])))
    BY <1>1 DEF Start, HasService
  <2>2. queueOf[kind] = context /\ Locked(context)
    BY <1>1, Types DEF References, Locked
  <2>3. ~(queueOf[kind] # 0 /\ ~QueueExists(queueOf[kind]))
    BY <2>2 DEF QueueExists
  <2>4. dangling \in BOOLEAN
    BY Types
  <2> QED
    BY <2>1, <2>3, <2>4, Zenon
<1>2. CASE ~Locked(thread.req)
  BY <1>2 DEF Start, HasService
<1> QED
  BY <1>1, <1>2

(***************************************************************************)
(* Tasks only.                                                             *)
(***************************************************************************)

\* Every step of a program whose only operations are tasks is safe.
LEMMA NextTasksInv ==
    ASSUME OnlyTasks
    PROVE  IInv /\ TasksInv /\ [Next]_vars => TasksInv'
<1> SUFFICES ASSUME IInv, TasksInv, [Next]_vars PROVE TasksInv'
  OBVIOUS
<1>t. thread \in ThreadType /\ op \in [Op -> OpType]
  BY Types
<1> DEFINE Others(b) == Deeds(b) \cap {"timer", "client"} = {}
<1>1. CASE ProcessRequest
  <2>1. thread'.body = <<>> /\ thread'.doing = "launch" /\ UNCHANGED <<op, dangling>>
    BY <1>1 DEF ProcessRequest, Launch, Launching
  <2> QED
    BY <2>1, NoDeeds DEF TasksInv, Outstanding
<1>2. ASSUME NEW body \in ProcessorDoes, RunProcessor(body) PROVE TasksInv'
  <2>1. /\ thread'.body = body /\ thread'.doing = thread.doing /\ thread'.via = thread.via
        /\ UNCHANGED <<op, dangling>>
    BY <1>2, <1>t DEF RunProcessor, ThreadType
  <2>2. Others(body)
    BY <1>2 DEF OnlyTasks
  <2> QED
    BY <2>1, <2>2 DEF TasksInv, Outstanding
<1>3. CASE Reply \/ OnRouteParametersError
  <2>1. thread.body # <<>> /\ Proceed /\ UNCHANGED <<op, dangling>>
    BY <1>3 DEF Reply, OnRouteParametersError, NextDeed
  <2> QED
    BY <2>1, Proceeded, DeedsLeft DEF TasksInv, Outstanding
<1>4. CASE Throw \/ LaunchEnds
  <2>1. thread' = Idle /\ UNCHANGED <<op, dangling>>
    BY <1>4 DEF Throw, LaunchEnds
  <2> QED
    BY <2>1, IdleFacts, NoDeeds DEF TasksInv, Outstanding
<1>5. ASSUME NEW o \in Op, NEW kind \in Kind, Start(o, kind) PROVE TasksInv'
  <2>1. thread.body # <<>> /\ Head(thread.body) = kind /\ Proceed
    BY <1>5 DEF Start, NextDeed
  <2>2. /\ thread'.doing = thread.doing /\ thread'.via = thread.via
        /\ Others(thread'.body)
        /\ kind = "task"
    BY <2>1, Proceeded, DeedsLeft DEF TasksInv, Kind
  <2>3. \A p \in Op : op'[p] = op[p] \/ op'[p].kind = "task"
    BY <1>5, <1>t, <2>2 DEF Start
  <2>4. dangling' = dangling
    BY <1>5, StartIsSafe
  <2> QED
    BY <2>2, <2>3, <2>4 DEF TasksInv, Outstanding
<1>6. CASE ProcessUnmatchedRequest
  BY <1>6 DEF ProcessUnmatchedRequest, TasksInv, Outstanding
<1>12. CASE ThrowFromTask
  <2>1. thread'.body = <<>> /\ thread'.doing = "launch" /\ UNCHANGED <<op, dangling>>
    BY <1>12 DEF ThrowFromTask, Launch, Launching
  <2> QED
    BY <2>1, NoDeeds DEF TasksInv, Outstanding
<1>7. CASE Resume
  <2>1. thread.doing = "callback" /\ UNCHANGED op
    BY <1>7 DEF Resume, TimerResumes, ClientResumes, TaskResumes, AfterCallback
  <2>2. TaskResumes
    BY <1>7, <2>1 DEF Resume, TimerResumes, ClientResumes, AfterCallback, TasksInv
  <2>3. /\ UNCHANGED dangling
        /\ thread' = Idle \/ thread' = Launching(thread.queue, "task")
    BY <2>2 DEF TaskResumes, Launch
  <2>4. thread'.body = <<>> /\ thread'.doing # "callback"
    BY <2>3, IdleFacts DEF Launching
  <2> QED
    BY <2>1, <2>3, <2>4, NoDeeds DEF TasksInv, Outstanding
<1>8. ASSUME NEW o \in Op, Completes(o) PROVE TasksInv'
  <2>1. /\ op[o].st = "waiting" /\ op' = [op EXCEPT ![o].st = "ready"]
        /\ UNCHANGED <<thread, dangling>>
    BY <1>8 DEF Completes
  <2>2. \A p \in Op : op'[p].kind = op[p].kind /\ (op'[p] # op[p] => p = o)
    BY <1>t, <2>1 DEF OpType
  <2> QED
    BY <2>1, <2>2 DEF TasksInv, Outstanding
<1>9. ASSUME NEW o \in Op, NEW body \in CallbackDoes, RunCallback(o, body) PROVE TasksInv'
  <2>1. /\ op[o].st = "ready" /\ op' = [op EXCEPT ![o].st = "done"]
        /\ thread' = [doing |-> "callback", req |-> op[o].req, via |-> op[o].kind,
                      queue |-> op[o].queue, body |-> body]
        /\ dangling' = (dangling \/ (op[o].kind = "client" /\ ~alive))
    BY <1>9 DEF RunCallback
  <2>2. op[o].kind = "task"
    BY <2>1 DEF TasksInv, Outstanding
  <2>3. Others(body)
    BY <1>9 DEF OnlyTasks
  <2>4. \A p \in Op : Outstanding(p)' => Outstanding(p) /\ op'[p].kind = op[p].kind
    BY <1>t, <2>1 DEF OpType, Outstanding
  <2>5. thread'.body = body /\ thread'.via = "task"
    BY <2>1, <2>2
  <2>6. ~dangling'
    BY <2>1, <2>2 DEF TasksInv
  <2> QED
    BY <2>3, <2>4, <2>5, <2>6 DEF TasksInv
<1>10. CASE Drop
  <2>1. (\A o \in Op : op'[o] \in Destroyed(o)) /\ UNCHANGED <<thread, dangling>>
    BY <1>10 DEF Drop
  <2>2. \A o \in Op : Outstanding(o)' => Outstanding(o) /\ op'[o].kind = op[o].kind
    BY <1>t, <2>1 DEF Destroyed, OpType, Outstanding
  <2> QED
    BY <2>1, <2>2 DEF TasksInv
<1>11. CASE UNCHANGED vars
  BY <1>11 DEF vars, TasksInv, Outstanding
<1> QED
  BY <1>1, <1>2, <1>3, <1>4, <1>5, <1>6, <1>7, <1>8, <1>9, <1>10, <1>11, <1>12
     DEF Next, IoThread, UserCode, Handler, Callback

\* AsioDispatcherService::postTask() and TaskContext never touch a queue or a
\* service that was destroyed, however tasks start tasks, requests are pipelined
\* and the peer drops the connection.
THEOREM TasksAreSafe ==
    ASSUME OnlyTasks
    PROVE  Spec => []NoDanglingUse
<1>1. Init => TasksInv
  BY IdleFacts, NoDeeds DEF Init, TasksInv, Outstanding, Unused
<1>2. IInv /\ TasksInv /\ [Next]_vars => TasksInv'
  BY NextTasksInv
<1>3. TasksInv => NoDanglingUse
  BY DEF TasksInv, NoDanglingUse
<1> QED
  BY <1>1, <1>2, <1>3, InitIInv, NextIInv, PTL DEF Spec

(***************************************************************************)
(* One operation at a time.                                                *)
(***************************************************************************)

\* While an operation is under way no user code is about to do anything, and the
\* queue does not go on.
LEMMA NobodyActs ==
    ASSUME IInv, OneAtATimeInv
    PROVE  /\ thread.body # <<>> => \A o \in Op : ~Outstanding(o)
           /\ ~Waiting => \A o \in Op : ~Outstanding(o)
           /\ thread.doing = "callback" => \A o \in Op : ~Outstanding(o)
           /\ thread.doing = "launch" /\ ~queue[context].stopped
                => \A o \in Op : ~Outstanding(o)
           /\ thread.body # <<>> => thread.doing \in {"launch", "callback"}
<1>1. ASSUME NEW o \in Op, Outstanding(o)
      PROVE  /\ Waiting /\ thread.doing # "callback"
             /\ thread.doing = "launch" => thread.body = <<>> /\ queue[context].stopped
  BY <1>1 DEF OneAtATimeInv
<1>2. thread.doing = "nothing" => thread.body = <<>>
  BY DEF OneAtATimeInv
<1>3. thread.doing \in {"nothing", "launch", "callback"}
  BY Types DEF ThreadType
<1> QED
  BY <1>1, <1>2, <1>3

\* The invariant in a state in which nothing is under way.
LEMMA NothingUnderWay ==
    ASSUME \A o \in Op : ~Outstanding(o)',
           ~dangling',
           thread'.doing = "nothing" => thread'.body = <<>>,
           thread'.doing = "callback" => QueueExists(thread.req)' /\ StartsNothing(thread'.body),
           thread'.doing = "launch"
              => StartsNothing(thread'.body) \/ (Len(thread'.body) = 1 /\ Waiting')
    PROVE  OneAtATimeInv'
BY DEF OneAtATimeInv

\* A step of a program that does one thing at a time, towards a peer that waits,
\* touches nothing that was destroyed.
LEMMA NextOneAtATime ==
    ASSUME OneAtATime
    PROVE  IInv /\ OneAtATimeInv /\ [Next]_vars => OneAtATimeInv'
<1> SUFFICES ASSUME IInv, OneAtATimeInv, [Next]_vars PROVE OneAtATimeInv'
  OBVIOUS
<1>t. /\ thread \in ThreadType /\ op \in [Op -> OpType] /\ queue \in [Request -> QueueType]
      /\ References
  BY Types
<1>d. ~dangling /\ (thread.doing = "nothing" => thread.body = <<>>)
  BY DEF OneAtATimeInv
<1>c. thread.doing = "callback" => QueueExists(thread.req) /\ StartsNothing(thread.body)
  BY DEF OneAtATimeInv
<1>l. thread.doing = "launch" => StartsNothing(thread.body) \/ (Len(thread.body) = 1 /\ Waiting)
  BY DEF OneAtATimeInv
<1>1. CASE ProcessRequest
  <2>1. /\ ~Waiting
        /\ thread'.body = <<>> /\ thread'.doing = "launch" /\ UNCHANGED <<op, dangling>>
    BY <1>1 DEF ProcessRequest, Launch, Launching, OneAtATime
  <2>2. \A o \in Op : ~Outstanding(o)'
    BY <2>1, NobodyActs DEF Outstanding
  <2> QED
    BY <1>d, <2>1, <2>2, NoDeeds, NothingUnderWay
<1>2. ASSUME NEW body \in ProcessorDoes, RunProcessor(body) PROVE OneAtATimeInv'
  <2>1. /\ thread.doing = "launch" /\ ~queue[thread.queue].stopped /\ ~IsSent(thread.queue)
        /\ thread'.body = body /\ thread'.doing = thread.doing
        /\ UNCHANGED <<alive, context, answer, op, dangling>>
    BY <1>2, <1>t DEF RunProcessor, ThreadType, AtQueue, GoesOn
  <2>2. thread.queue = context /\ context \in Request
    BY <2>1, LaunchFacts
  <2>3. \A o \in Op : ~Outstanding(o)'
    BY <2>1, <2>2, NobodyActs DEF Outstanding
  <2>4. Waiting'
    BY <2>1, <2>2, BoundsAssumption DEF Waiting, IsSent, Locked, Request
  <2>5. StartsNothing(body) \/ Len(body) = 1
    BY <1>2 DEF OneAtATime
  <2> QED
    BY <1>d, <2>1, <2>3, <2>4, <2>5, NothingUnderWay
<1>3. CASE Reply \/ OnRouteParametersError
  <2>1. thread.body # <<>> /\ Proceed /\ UNCHANGED <<alive, context, op, dangling>>
    BY <1>3 DEF Reply, OnRouteParametersError, NextDeed
  <2>2. \A o \in Op : ~Outstanding(o)'
    BY <2>1, NobodyActs DEF Outstanding
  <2>3. /\ thread'.body = Tail(thread.body) /\ thread.body \in Seq(Deed)
        /\ thread'.doing = thread.doing /\ thread'.req = thread.req
    BY <2>1, Proceeded
  <2>4. /\ StartsNothing(thread.body) => StartsNothing(thread'.body)
        /\ Len(thread.body) = 1 => StartsNothing(thread'.body)
    BY <2>1, <2>3, DeedsLeft, NoDeeds DEF StartsNothing
  <2>5. thread'.doing \in {"launch", "callback"}
    BY <2>1, <2>3, NobodyActs
  <2>6. thread'.doing = "callback" => QueueExists(thread.req)'
    BY <1>c, <2>1, <2>3 DEF QueueExists, Locked
  <2> QED
    BY <1>d, <1>c, <1>l, <2>1, <2>2, <2>3, <2>4, <2>5, <2>6, NothingUnderWay
<1>4. CASE Throw
  <2>1. thread.body # <<>> /\ thread' = Idle /\ UNCHANGED <<op, dangling>>
    BY <1>4 DEF Throw, NextDeed
  <2>2. \A o \in Op : ~Outstanding(o)'
    BY <2>1, NobodyActs DEF Outstanding
  <2> QED
    BY <1>d, <2>1, <2>2, IdleFacts, NothingUnderWay
<1>13. CASE ThrowFromTask
  <2>1. /\ thread.doing = "callback"
        /\ thread'.body = <<>> /\ thread'.doing = "launch" /\ UNCHANGED <<op, dangling>>
    BY <1>13 DEF ThrowFromTask, InTask, Launch, Launching
  <2>2. \A o \in Op : ~Outstanding(o)'
    BY <2>1, NobodyActs DEF Outstanding
  <2> QED
    BY <1>d, <2>1, <2>2, NoDeeds, NothingUnderWay
<1>5. ASSUME NEW o \in Op, NEW kind \in Kind, Start(o, kind) PROVE OneAtATimeInv'
  <2>1. /\ thread.body # <<>> /\ Head(thread.body) = kind /\ Proceed
        /\ UNCHANGED <<alive, context, answer>>
    BY <1>5 DEF Start, NextDeed
  <2>2. /\ thread'.body = Tail(thread.body) /\ thread.body \in Seq(Deed)
        /\ thread'.doing = thread.doing
    BY <2>1, Proceeded
  <2>3. ~StartsNothing(thread.body)
    BY <2>1, <2>2, DeedsLeft DEF StartsNothing
  <2>4. thread.doing = "launch" /\ Len(thread.body) = 1 /\ Waiting
    BY <1>c, <1>l, <2>1, <2>3, NobodyActs
  <2>5. thread'.body = <<>> /\ thread'.doing = "launch"
    BY <2>1, <2>2, <2>4, DeedsLeft
  <2>6. \A p \in Op : ~Outstanding(p)
    BY <2>1, NobodyActs
  <2>7. /\ alive /\ context \in Request /\ thread.req = context /\ queueOf[kind] = context
        /\ Locked(context) /\ QueueExists(context)
    BY <1>t, <2>4, LaunchFacts, BoundsAssumption DEF References, QueueExists, Request
  <2>8. /\ op' = [op EXCEPT ![o] = [kind |-> kind, req |-> context, queue |-> context,
                                    st |-> "waiting"]]
        /\ queue' = [queue EXCEPT ![context].stopped = TRUE]
    BY <1>5, <2>7 DEF Start, HasService, Stop
  <2>9. /\ op'[o].req = context
        /\ \A p \in Op : Outstanding(p)' => p = o
        /\ queue'[context].stopped
    BY <1>t, <2>6, <2>7, <2>8 DEF Outstanding, QueueType
  <2>10. Waiting'
    BY <2>1, <2>4 DEF Waiting, IsSent, Locked
  <2>11. ~dangling'
    BY <1>5, <1>d, StartIsSafe
  <2>12. StartsNothing(thread'.body)
    BY <2>5, NoDeeds
  <2> QED
    BY <2>1, <2>5, <2>7, <2>9, <2>10, <2>11, <2>12 DEF OneAtATimeInv
<1>6. CASE ProcessUnmatchedRequest
  <2>1. /\ thread.doing = "launch" /\ thread.body = <<>> /\ ~queue[thread.queue].stopped
        /\ UNCHANGED <<thread, op, dangling>>
    BY <1>6 DEF ProcessUnmatchedRequest, AtQueue, GoesOn
  <2>2. thread.queue = context
    BY <2>1, LaunchFacts
  <2>3. \A o \in Op : ~Outstanding(o)'
    BY <2>1, <2>2, NobodyActs DEF Outstanding
  <2> QED
    BY <1>d, <2>1, <2>3, NoDeeds, NothingUnderWay
<1>7. CASE LaunchEnds
  <2>1. thread' = Idle /\ UNCHANGED <<alive, context, answer, queue, op, dangling>>
    BY <1>7 DEF LaunchEnds
  <2> QED
    BY <2>1, IdleFacts DEF OneAtATimeInv, Outstanding, Waiting, IsSent, Locked
<1>8. CASE Resume
  <2>1. thread.doing = "callback" /\ UNCHANGED op
    BY <1>8 DEF Resume, TimerResumes, ClientResumes, TaskResumes, AfterCallback
  <2>2. QueueExists(thread.queue) /\ QueueExists(queueOf["client"])
    BY <1>t, <1>c, <2>1 DEF References, QueueExists, Locked, Kind
  <2>3. /\ UNCHANGED dangling
        /\ \E q, via : thread' = Launching(q, via)
    BY <1>8, <2>2 DEF Resume, TimerResumes, ClientResumes, TaskResumes, Launch
  <2>4. thread'.body = <<>> /\ thread'.doing = "launch"
    BY <2>3 DEF Launching
  <2>5. \A o \in Op : ~Outstanding(o)'
    BY <2>1, NobodyActs DEF Outstanding
  <2> QED
    BY <1>d, <2>3, <2>4, <2>5, NoDeeds, NothingUnderWay
<1>9. ASSUME NEW o \in Op, Completes(o) PROVE OneAtATimeInv'
  <2>1. /\ op[o].st = "waiting" /\ op' = [op EXCEPT ![o].st = "ready"]
        /\ UNCHANGED <<alive, context, answer, queue, thread, dangling>>
    BY <1>9 DEF Completes
  <2>2. \A p \in Op : (Outstanding(p)' <=> Outstanding(p)) /\ op'[p].req = op[p].req
    BY <1>t, <2>1 DEF OpType, Outstanding
  <2>3. (Waiting' <=> Waiting) /\ (QueueExists(thread.req)' <=> QueueExists(thread.req))
    BY <2>1 DEF Waiting, IsSent, Locked, QueueExists
  <2> QED
    BY <2>1, <2>2, <2>3 DEF OneAtATimeInv
<1>10. ASSUME NEW o \in Op, NEW body \in CallbackDoes, RunCallback(o, body) PROVE OneAtATimeInv'
  <2>1. /\ op[o].st = "ready" /\ op' = [op EXCEPT ![o].st = "done"]
        /\ thread' = [doing |-> "callback", req |-> op[o].req, via |-> op[o].kind,
                      queue |-> op[o].queue, body |-> body]
        /\ dangling' = (dangling \/ (op[o].kind = "client" /\ ~alive))
        /\ UNCHANGED <<alive, context>>
    BY <1>10 DEF RunCallback
  <2>2. /\ Outstanding(o) /\ alive /\ Waiting /\ op[o].req = context
        /\ \A p \in Op : Outstanding(p) => p = o
    BY <2>1 DEF OneAtATimeInv, Outstanding
  <2>3. ~dangling'
    BY <1>d, <2>1, <2>2
  <2>4. \A p \in Op : ~Outstanding(p)'
    BY <1>t, <2>1, <2>2 DEF OpType, Outstanding
  <2>5. thread'.doing = "callback" /\ thread'.req = context /\ thread'.body = body
    BY <2>1, <2>2
  <2>6. QueueExists(thread.req)'
    BY <2>1, <2>2, <2>5 DEF QueueExists, Locked, Waiting
  <2>7. StartsNothing(body)
    BY <1>10 DEF OneAtATime
  <2> QED
    BY <2>3, <2>4, <2>5, <2>6, <2>7, NothingUnderWay
<1>11. CASE Drop
  <2>1. /\ ~Waiting /\ thread = Idle /\ (\A o \in Op : op'[o] \in Destroyed(o))
        /\ UNCHANGED <<thread, dangling>>
    BY <1>11 DEF Drop, OneAtATime
  <2>2. \A o \in Op : ~Outstanding(o)
    BY <2>1, NobodyActs
  <2>3. \A o \in Op : ~Outstanding(o)'
    BY <1>t, <2>1, <2>2 DEF Destroyed, OpType, Outstanding
  <2> QED
    BY <1>d, <2>1, <2>3, IdleFacts, NothingUnderWay
<1>12. CASE UNCHANGED vars
  BY <1>12 DEF vars, OneAtATimeInv, Outstanding, Waiting, IsSent, Locked, QueueExists
<1> QED
  BY <1>1, <1>2, <1>3, <1>4, <1>5, <1>6, <1>7, <1>8, <1>9, <1>10, <1>11, <1>12, <1>13
     DEF Next, IoThread, UserCode, Handler, Callback

\* Nothing is under way before the first request.
LEMMA InitOneAtATime == Init => OneAtATimeInv
BY IdleFacts DEF Init, OneAtATimeInv, Outstanding, Unused

\* Timers, clients and tasks are safe when each processor starts one operation
\* and waits for it, and the peer waits for its answer: no handler runs after
\* the connection or the queue of its request is gone.
THEOREM OneAtATimeIsSafe ==
    ASSUME OneAtATime
    PROVE  Spec => []NoDanglingUse
<1>1. IInv /\ OneAtATimeInv /\ [Next]_vars => OneAtATimeInv'
  BY NextOneAtATime
<1>2. OneAtATimeInv => NoDanglingUse
  BY DEF OneAtATimeInv, NoDanglingUse
<1> QED
  BY <1>1, <1>2, InitOneAtATime, InitIInv, NextIInv, PTL DEF Spec

\* A queue moves on only when its loop runs, not stopped.
LEMMA QueueMovesOn ==
    ASSUME IInv, [Next]_vars, NEW r \in Request, queue'[r].next # queue[r].next
    PROVE  thread.doing = "launch" /\ ~queue[context].stopped
<1>t. queue \in [Request -> QueueType]
  BY Types
<1>1. CASE (\E body \in ProcessorDoes : RunProcessor(body)) \/ ProcessUnmatchedRequest
  <2>1. thread.doing = "launch" /\ ~queue[thread.queue].stopped
    BY <1>1 DEF RunProcessor, ProcessUnmatchedRequest, AtQueue, GoesOn
  <2> QED
    BY <2>1, LaunchFacts
<1>2. CASE UNCHANGED queue
  BY <1>2
<1>3. ASSUME NEW q, NEW via, Launch(q, via) PROVE FALSE
  BY <1>t, <1>3 DEF Launch, QueueType
<1>4. ASSUME NEW o \in Op, NEW kind \in Kind, Start(o, kind) PROVE FALSE
  <2>1. UNCHANGED queue \/ queue' = [queue EXCEPT ![queueOf[kind]].stopped = TRUE]
    BY <1>4 DEF Start, Stop
  <2> QED
    BY <1>t, <2>1 DEF QueueType
<1>5. CASE ProcessRequest \/ ThrowFromTask
  BY <1>3, <1>5 DEF ProcessRequest, ThrowFromTask
<1>6. CASE Resume
  BY <1>2, <1>3, <1>6 DEF Resume, TimerResumes, ClientResumes, TaskResumes
<1>7. CASE Reply \/ OnRouteParametersError \/ Throw \/ LaunchEnds \/ Drop \/ UNCHANGED vars
  BY <1>2, <1>7 DEF Reply, OnRouteParametersError, Throw, LaunchEnds, Drop, vars
<1>8. ASSUME NEW o \in Op, Handler(o) PROVE UNCHANGED queue
  BY <1>8 DEF Handler, Callback, Completes, RunCallback
<1> QED
  BY <1>1, <1>2, <1>4, <1>5, <1>6, <1>7, <1>8 DEF Next, IoThread, UserCode

\* The chain of processors waits for the operation of the processor before, with
\* any number of processors, requests and operations.
THEOREM ChainWaitsForOperation ==
    ASSUME OneAtATime
    PROVE  Spec => ChainWaits
<1> DEFINE Step == \A r \in Request : queue'[r].next # queue[r].next =>
                       \A o \in Op : op[o].req = r => ~Outstanding(o)
<1>1. IInv /\ OneAtATimeInv /\ [Next]_vars => OneAtATimeInv'
  BY NextOneAtATime
<1>2. IInv /\ OneAtATimeInv /\ [Next]_vars => [Step]_vars
  <2> SUFFICES ASSUME IInv, OneAtATimeInv, [Next]_vars,
                      NEW r \in Request, queue'[r].next # queue[r].next
               PROVE  \A o \in Op : ~Outstanding(o)
    OBVIOUS
  <2> QED
    BY QueueMovesOn, NobodyActs
<1> QED
  BY <1>1, <1>2, InitOneAtATime, InitIInv, NextIInv, PTL DEF Spec, ChainWaits

(***************************************************************************)
(* No operations at all.                                                   *)
(***************************************************************************)

\* User code that starts nothing runs in processRequest() only.
LEMMA NextSynchronous ==
    ASSUME Synchronous
    PROVE  IInv /\ SynchronousInv /\ [Next]_vars => SynchronousInv'
<1> SUFFICES ASSUME IInv, SynchronousInv, [Next]_vars PROVE SynchronousInv'
  OBVIOUS
<1>t. thread \in ThreadType /\ op \in [Op -> OpType]
  BY Types
<1>1. CASE ProcessRequest
  <2>1. /\ thread'.body = <<>> /\ thread'.doing = "launch" /\ thread'.via = "router"
        /\ UNCHANGED <<op, crashed>>
    BY <1>1 DEF ProcessRequest, Launch, Launching
  <2> QED
    BY <2>1, NoDeeds DEF SynchronousInv
<1>2. ASSUME NEW body \in ProcessorDoes, RunProcessor(body) PROVE SynchronousInv'
  <2>1. /\ thread.doing = "launch"
        /\ thread'.body = body /\ thread'.doing = thread.doing /\ thread'.via = thread.via
        /\ UNCHANGED <<op, crashed>>
    BY <1>2, <1>t DEF RunProcessor, ThreadType, AtQueue
  <2>2. StartsNothing(body)
    BY <1>2 DEF Synchronous
  <2> QED
    BY <2>1, <2>2 DEF SynchronousInv
<1>3. CASE Reply \/ OnRouteParametersError
  <2>1. thread.body # <<>> /\ Proceed /\ UNCHANGED <<op, crashed>>
    BY <1>3 DEF Reply, OnRouteParametersError, NextDeed
  <2>2. StartsNothing(thread'.body) /\ thread'.doing = thread.doing /\ thread'.via = thread.via
    BY <2>1, Proceeded, DeedsLeft DEF SynchronousInv, StartsNothing
  <2> QED
    BY <2>1, <2>2 DEF SynchronousInv
<1>4. CASE Throw
  <2>1. thread.body # <<>> /\ thread' = Idle /\ UNCHANGED op
    BY <1>4 DEF Throw, NextDeed
  <2>2. UNCHANGED crashed
    BY <1>4, <2>1 DEF Throw, SynchronousInv
  <2> QED
    BY <2>1, <2>2, IdleFacts, NoDeeds DEF SynchronousInv
<1>5. ASSUME NEW o \in Op, NEW kind \in Kind, Start(o, kind) PROVE FALSE
  <2>1. thread.body # <<>> /\ Head(thread.body) = kind /\ thread.body \in Seq(Deed)
    BY <1>5, <1>t DEF Start, NextDeed, ThreadType
  <2> QED
    BY <2>1, DeedsLeft DEF SynchronousInv, StartsNothing
<1>6. CASE ProcessUnmatchedRequest
  BY <1>6 DEF ProcessUnmatchedRequest, SynchronousInv
<1>7. CASE LaunchEnds
  <2>1. thread' = Idle /\ UNCHANGED op
    BY <1>7 DEF LaunchEnds
  <2>2. thread.via = "router"
    BY <1>7 DEF LaunchEnds, AtQueue, SynchronousInv
  <2>3. ~crashed'
    BY <1>7, <2>2 DEF LaunchEnds, SynchronousInv
  <2> QED
    BY <2>1, <2>3, IdleFacts, NoDeeds DEF SynchronousInv
<1>8. CASE Resume
  BY <1>8 DEF Resume, TimerResumes, ClientResumes, TaskResumes, AfterCallback, SynchronousInv
<1>9. ASSUME NEW o \in Op, Handler(o) PROVE FALSE
  BY <1>9 DEF Handler, Callback, Completes, RunCallback, SynchronousInv
<1>10. CASE Drop
  <2>1. (\A o \in Op : op'[o] \in Destroyed(o)) /\ UNCHANGED <<thread, crashed>>
    BY <1>10 DEF Drop
  <2>2. \A o \in Op : op'[o] = op[o]
    BY <2>1 DEF Destroyed, SynchronousInv
  <2> QED
    BY <2>1, <2>2 DEF SynchronousInv
<1>11. CASE UNCHANGED vars
  BY <1>11 DEF vars, SynchronousInv
<1>12. ASSUME ThrowFromTask PROVE FALSE
  BY <1>12 DEF ThrowFromTask, InTask, SynchronousInv
<1> QED
  BY <1>1, <1>2, <1>3, <1>4, <1>5, <1>6, <1>7, <1>8, <1>9, <1>10, <1>11, <1>12
     DEF Next, IoThread, UserCode

\* Processors that answer at once may throw wherever they like: processRequest()
\* catches every exception, and none ends the io thread.
THEOREM SynchronousExceptionsCaught ==
    ASSUME Synchronous
    PROVE  Spec => []ExceptionsCaught
<1>1. Init => SynchronousInv
  BY IdleFacts, NoDeeds DEF Init, SynchronousInv, Unused
<1>2. IInv /\ SynchronousInv /\ [Next]_vars => SynchronousInv'
  BY NextSynchronous
<1>3. SynchronousInv => ExceptionsCaught
  BY DEF SynchronousInv, ExceptionsCaught
<1> QED
  BY <1>1, <1>2, <1>3, InitIInv, NextIInv, PTL DEF Spec

=============================================================================
