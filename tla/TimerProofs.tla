----------------------------- MODULE TimerProofs -----------------------------
(***************************************************************************)
(* Proofs about Timer, for any number of callbacks: a one-shot callback    *)
(* and the callable of waitFuture() are called at most once, and a request *)
(* processor queue that the timer stopped is never left behind.            *)
(***************************************************************************)
EXTENDS Timer, TLAPS

\* The timer starts in the invariant.
LEMMA InitIInv == Init => IInv
  <1> SUFFICES ASSUME Init PROVE IInv
    OBVIOUS
  <1>1. DOMAIN queued = {} /\ queued \in Seq(Task)
    BY DEF Init
  <1>2. TypeOK
    <2>1. job \in [Task -> Jobs] /\ calls \in [Task -> 0..2] /\ stops \in 0..MaxStops
      BY TimerAssumption DEF Init, Jobs
    <2>2. QED
      BY <1>1, <2>1 DEF Init, TypeOK
  <1>3. OneWait /\ NotYetCalled
    BY <1>1, TimerAssumption DEF Init, OneWait, NotYetCalled
  <1>4. CalledOnce /\ QueueHeld
    BY DEF Init, CalledOnce, QueueHeld
  <1>5. QED
    BY <1>2, <1>3, <1>4 DEF IInv

\* Taking the head off a queue of expired waits.
LEMMA TakingHead ==
  ASSUME NEW S, NEW q \in Seq(S), q # <<>>
  PROVE  /\ Head(q) \in S
         /\ Head(q) = q[1]
         /\ 1 \in DOMAIN q
         /\ Tail(q) \in Seq(S)
         /\ \A i \in DOMAIN Tail(q) :
                i + 1 \in DOMAIN q /\ Tail(q)[i] = q[i + 1] /\ i + 1 # 1
  OBVIOUS

\* Adding an expired wait to the queue.
LEMMA Appending ==
  ASSUME NEW S, NEW q \in Seq(S), NEW e \in S
  PROVE  /\ Append(q, e) \in Seq(S)
         /\ Append(q, e) # <<>>
         /\ DOMAIN Append(q, e) = 1..Len(q) + 1
         /\ DOMAIN q = 1..Len(q)
         /\ Len(q) \in Nat
         /\ \A i \in DOMAIN q : Append(q, e)[i] = q[i]
         /\ Append(q, e)[Len(q) + 1] = e
  OBVIOUS

\* start(), startPeriodic() and waitFuture() keep the invariant.
LEMMA ArmKeeps ==
  ASSUME IInv, NEW t \in Task, NEW as \in {"once", "periodic", "computing"}, Arm(t, as)
  PROVE  IInv'
  <1>1. TypeOK'
    BY DEF IInv, Arm, StopQueue, TypeOK, Jobs
  <1>2. \A i \in DOMAIN queued : queued[i] \in Task /\ queued[i] # t
    BY DEF IInv, OneWait, Arm, TypeOK
  <1>3. OneWait'
    BY <1>2, TimerAssumption DEF IInv, Arm, TypeOK, OneWait
  <1>4. NotYetCalled'
    BY <1>2 DEF IInv, Arm, TypeOK, OneWait, NotYetCalled
  <1>5. CalledOnce'
    BY DEF IInv, Arm, TypeOK, CalledOnce, NotYetCalled
  <1>6. QueueHeld'
    BY TimerAssumption DEF Arm, QueueHeld
  <1>7. QED
    BY <1>1, <1>3, <1>4, <1>5, <1>6 DEF IInv

\* stop() by user code, outside the callback of the timer, keeps it.
LEMMA StopKeeps == IInv /\ Stop => IInv'
  <1> SUFFICES ASSUME IInv, Stop PROVE IInv'
    OBVIOUS
  <1>1. TypeOK'
    BY TimerAssumption DEF IInv, Stop, LaunchQueue, TypeOK
  <1>2. OneWait' /\ NotYetCalled'
    BY TimerAssumption DEF IInv, Stop, TypeOK, OneWait, NotYetCalled
  <1>3. CalledOnce' /\ QueueHeld'
    BY DEF IInv, Stop, LaunchQueue, CalledOnce, QueueHeld
  <1>4. QED
    BY <1>1, <1>2, <1>3 DEF IInv

\* A future that becomes ready keeps it.
LEMMA FutureReadyKeeps == ASSUME IInv, NEW t \in Task, FutureReady(t) PROVE IInv'
  <1>1. TypeOK'
    BY DEF IInv, FutureReady, TypeOK, Jobs
  <1>2. OneWait'
    BY DEF IInv, FutureReady, TypeOK, OneWait
  <1>3. NotYetCalled'
    BY DEF IInv, FutureReady, TypeOK, NotYetCalled
  <1>4. CalledOnce' /\ QueueHeld'
    BY DEF IInv, FutureReady, TypeOK, CalledOnce, QueueHeld
  <1>5. QED
    BY <1>1, <1>2, <1>3, <1>4 DEF IInv

\* An expiring wait moves to the queue of the io thread.
LEMMA ExpireKeeps == IInv /\ Expire => IInv'
  <1> SUFFICES ASSUME IInv, Expire PROVE IInv'
    OBVIOUS
  <1>0. armed \in Task /\ queued \in Seq(Task)
    BY DEF IInv, Expire, TypeOK
  <1>a. queued' \in Seq(Task) /\ queued' # <<>>
    BY <1>0, Appending DEF Expire
  <1>b. \A i \in DOMAIN queued' : \/ i \in DOMAIN queued /\ queued'[i] = queued[i]
                                  \/ i \notin DOMAIN queued /\ i = Len(queued) + 1 /\ queued'[i] = armed
    BY <1>0, Appending DEF Expire
  <1>1. TypeOK'
    BY <1>a DEF IInv, Expire, TypeOK
  <1>2. OneWait'
    BY <1>0, <1>a, <1>b, TimerAssumption DEF IInv, Expire, TypeOK, OneWait
  <1>3. NotYetCalled'
    BY <1>0, <1>b, TimerAssumption DEF IInv, Expire, TypeOK, NotYetCalled
  <1>4. CalledOnce' /\ QueueHeld'
    BY <1>a DEF IInv, Expire, CalledOnce, QueueHeld
  <1>5. QED
    BY <1>1, <1>2, <1>3, <1>4 DEF IInv

\* What every handler finds at the head of the queue and leaves there.
LEMMA HandlerTakes ==
  ASSUME IInv, NEW as, Handler(as)
  PROVE  /\ Head(queued) \in Task
         /\ job[Head(queued)] = as
         /\ \E i \in DOMAIN queued : queued[i] = Head(queued)
         /\ queued' \in Seq(Task)
         /\ \A i \in DOMAIN queued' :
                /\ queued'[i] \in Task
                /\ queued'[i] # Head(queued)
                /\ i + 1 \in DOMAIN queued /\ queued'[i] = queued[i + 1]
         /\ \A i, j \in DOMAIN queued' : queued'[i] = queued'[j] => i = j
  <1>1. queued \in Seq(Task) /\ queued # <<>> /\ queued' = Tail(queued) /\ job[Head(queued)] = as
    BY DEF IInv, TypeOK, Handler
  <1>2. \A i, j \in DOMAIN queued : queued[i] = queued[j] => i = j
    BY DEF IInv, OneWait
  <1>3. \A i \in DOMAIN queued' :
            i + 1 \in DOMAIN queued /\ queued'[i] = queued[i + 1] /\ i + 1 # 1
    BY <1>1, TakingHead
  <1>4. Head(queued) \in Task /\ Head(queued) = queued[1] /\ 1 \in DOMAIN queued /\ queued' \in Seq(Task)
    BY <1>1, TakingHead
  <1>5. \A i \in DOMAIN queued' : queued'[i] \in Task /\ i \in Int
    BY <1>4
  <1>6. \A i, j \in DOMAIN queued' : queued'[i] = queued'[j] => i = j
    BY <1>2, <1>3, <1>5
  <1>7. QED
    BY <1>1, <1>2, <1>3, <1>4, <1>5, <1>6

\* start()'s handler keeps the invariant.
LEMMA RunOnceKeeps == IInv /\ RunOnce => IInv'
  <1> SUFFICES ASSUME IInv, RunOnce PROVE IInv'
    OBVIOUS
  <1> DEFINE t == Head(queued)
  <1>0. t \in Task /\ job[t] = "once" /\ calls[t] = 0
    BY HandlerTakes DEF RunOnce, IInv, NotYetCalled
  <1>1. TypeOK'
    BY <1>0, HandlerTakes DEF IInv, RunOnce, Handler, Called, LaunchQueue, TypeOK
  <1>2. OneWait'
    BY HandlerTakes, TimerAssumption DEF IInv, RunOnce, OneWait
  <1>3. NotYetCalled'
    BY <1>0, HandlerTakes, TimerAssumption DEF IInv, TypeOK, RunOnce, Called, NotYetCalled
  <1>4. CalledOnce'
    BY <1>0 DEF IInv, TypeOK, RunOnce, Called, CalledOnce
  <1>5. QueueHeld'
    BY DEF RunOnce, LaunchQueue, QueueHeld
  <1>6. QED
    BY <1>1, <1>2, <1>3, <1>4, <1>5 DEF IInv

\* A handler that arms its wait again keeps who owns which callback.
LEMMA StartAgainKeeps ==
  ASSUME IInv, NEW as \in Jobs \ {"none"}, Handler(as), StartAgain,
         \A u \in Task : job'[u] = job[u] \/ (u = Head(queued) /\ job'[u] # "none")
  PROVE  OneWait' /\ QueueHeld' /\ queue' \in {"none", "running", "stopped"} /\ armed' \in Task
  <1>a. \A i \in DOMAIN queued' : queued'[i] # armed' /\ job'[queued'[i]] # "none"
    <2> SUFFICES ASSUME NEW i \in DOMAIN queued'
                 PROVE  queued'[i] # armed' /\ job'[queued'[i]] # "none"
      OBVIOUS
    <2>1. /\ queued'[i] \in Task
          /\ queued'[i] # Head(queued)
          /\ i + 1 \in DOMAIN queued /\ queued'[i] = queued[i + 1]
      BY HandlerTakes
    <2>2. job[queued'[i]] # "none"
      BY <2>1 DEF IInv, OneWait
    <2>3. QED
      BY <2>1, <2>2 DEF StartAgain
  <1>b. job'[armed'] # "none"
    BY HandlerTakes DEF StartAgain
  <1>1. OneWait'
    BY <1>a, <1>b, HandlerTakes DEF OneWait
  <1>2. QueueHeld' /\ armed' \in Task
    BY HandlerTakes, TimerAssumption DEF StartAgain, QueueHeld
  <1>3. QED
    BY <1>1, <1>2 DEF StartAgain, StopQueue, IInv, TypeOK

\* startPeriodic()'s handler keeps the invariant.
LEMMA RunPeriodicKeeps == IInv /\ RunPeriodic => IInv'
  <1> SUFFICES ASSUME IInv, RunPeriodic PROVE IInv'
    OBVIOUS
  <1> DEFINE t == Head(queued)
  <1>0. t \in Task /\ job[t] = "periodic"
    BY HandlerTakes DEF RunPeriodic
  <1>1. OneWait' /\ QueueHeld' /\ queue' \in {"none", "running", "stopped"} /\ armed' \in Task
    BY StartAgainKeeps DEF RunPeriodic, Jobs
  <1>2. TypeOK'
    BY <1>0, <1>1, HandlerTakes DEF IInv, RunPeriodic, Handler, Called, TypeOK
  <1>3. NotYetCalled'
    BY <1>0, HandlerTakes DEF IInv, TypeOK, RunPeriodic, StartAgain, Called, NotYetCalled
  <1>4. CalledOnce'
    BY <1>0 DEF IInv, TypeOK, RunPeriodic, Called, CalledOnce
  <1>5. QED
    BY <1>1, <1>2, <1>3, <1>4 DEF IInv

\* The callback of waitFuture() keeps it while the future is not ready.
LEMMA PollFutureKeeps == IInv /\ PollFuture => IInv'
  <1> SUFFICES ASSUME IInv, PollFuture PROVE IInv'
    OBVIOUS
  <1> DEFINE t == Head(queued)
  <1>0. t \in Task /\ job[t] = "computing"
    BY HandlerTakes DEF PollFuture
  <1>1. OneWait' /\ QueueHeld' /\ queue' \in {"none", "running", "stopped"} /\ armed' \in Task
    BY StartAgainKeeps DEF PollFuture, Jobs
  <1>2. TypeOK'
    BY <1>1, HandlerTakes DEF IInv, PollFuture, Handler, TypeOK
  <1>3. NotYetCalled'
    BY <1>0, HandlerTakes DEF IInv, PollFuture, StartAgain, NotYetCalled
  <1>4. CalledOnce'
    BY DEF IInv, PollFuture, CalledOnce
  <1>5. QED
    BY <1>1, <1>2, <1>3, <1>4 DEF IInv

\* So does the call with the result of the future.
LEMMA TakeFutureKeeps == IInv /\ TakeFuture => IInv'
  <1> SUFFICES ASSUME IInv, TakeFuture PROVE IInv'
    OBVIOUS
  <1> DEFINE t == Head(queued)
  <1>0. t \in Task /\ job[t] = "ready" /\ calls[t] = 0
    BY HandlerTakes DEF TakeFuture, IInv, NotYetCalled
  <1>a. job' = [job EXCEPT ![t] = "taken"] /\ calls' = [calls EXCEPT ![t] = IF @ = 2 THEN 2 ELSE @ + 1]
    BY DEF TakeFuture, Called
  <1>1. OneWait' /\ QueueHeld' /\ queue' \in {"none", "running", "stopped"} /\ armed' \in Task
    BY <1>0, <1>a, StartAgainKeeps DEF TakeFuture, Jobs, IInv, TypeOK
  <1>2. TypeOK'
    BY <1>0, <1>1, <1>a, HandlerTakes DEF IInv, TakeFuture, Handler, TypeOK, Jobs
  <1>3. NotYetCalled'
    BY <1>0, <1>a, HandlerTakes DEF IInv, TypeOK, TakeFuture, StartAgain, NotYetCalled
  <1>4. CalledOnce'
    BY <1>0, <1>a DEF IInv, TypeOK, CalledOnce
  <1>5. QED
    BY <1>1, <1>2, <1>3, <1>4 DEF IInv

\* The exception of a future whose result was taken ends all promises but
\* those about the calls.
LEMMA PollTakenFutureKeeps == IInv /\ PollTakenFuture => IInv'
  <1> SUFFICES ASSUME IInv, PollTakenFuture PROVE IInv'
    OBVIOUS
  <1>1. TypeOK'
    BY HandlerTakes DEF IInv, PollTakenFuture, Handler, TypeOK
  <1>2. OneWait'
    BY HandlerTakes DEF IInv, PollTakenFuture, OneWait
  <1>3. NotYetCalled'
    BY HandlerTakes DEF IInv, PollTakenFuture, NotYetCalled
  <1>4. CalledOnce' /\ QueueHeld'
    BY DEF IInv, PollTakenFuture, CalledOnce, QueueHeld
  <1>5. QED
    BY <1>1, <1>2, <1>3, <1>4 DEF IInv

\* Every step keeps the invariant.
LEMMA StepKeeps == IInv /\ [Next]_vars => IInv'
  <1> SUFFICES ASSUME IInv, [Next]_vars PROVE IInv'
    OBVIOUS
  <1>1. CASE \E t \in Task : Start(t) \/ StartPeriodic(t) \/ WaitFuture(t)
    BY <1>1, ArmKeeps DEF Start, StartPeriodic, WaitFuture
  <1>2. CASE \E t \in Task : FutureReady(t)
    BY <1>2, FutureReadyKeeps
  <1>3. CASE RunHandler
    BY <1>3, RunOnceKeeps, RunPeriodicKeeps, PollFutureKeeps, TakeFutureKeeps, PollTakenFutureKeeps
    DEF RunHandler
  <1>4. CASE UNCHANGED vars
    BY <1>4 DEF vars, IInv, TypeOK, OneWait, NotYetCalled, CalledOnce, QueueHeld
  <1>5. QED
    BY <1>1, <1>2, <1>3, <1>4, StopKeeps, ExpireKeeps DEF Next, UserCode

\* The invariant holds in every state of the timer.
LEMMA Invariance == Spec => []IInv
  BY InitIInv, StepKeeps, PTL DEF Spec

\* TimerService::start() and Timer::waitFuture() call their callback at most
\* once, for any number of starts, stops and queued ticks.
THEOREM CallbacksAreCalledOnce == Spec => []CalledOnce
  <1>1. IInv => CalledOnce
    BY DEF IInv
  <1>2. QED
    BY <1>1, Invariance, PTL

\* A request processor queue that the timer stopped always has a wait or a
\* handler that goes on with it.
THEOREM StoppedQueueIsHeld == Spec => []QueueHeld
  <1>1. IInv => QueueHeld
    BY DEF IInv
  <1>2. QED
    BY <1>1, Invariance, PTL

=============================================================================
