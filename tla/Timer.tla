-------------------------------- MODULE Timer --------------------------------
(***************************************************************************)
(* asyncgi::Timer and detail::TimerService: start(), startPeriodic(),      *)
(* stop() and waitFuture(), which polls a std::future from a periodic      *)
(* timer.  A timer of a Responder also holds up a request processor queue  *)
(* (RequestProcessing follows the requests that are held up), a timer of   *)
(* the IO object has none.                                                 *)
(*                                                                         *)
(* The steady_timer (external) holds one expiry time: expires_after() and  *)
(* cancel() abort the wait that is armed, and an aborted handler returns   *)
(* at once; a wait that has expired is queued and can no longer be         *)
(* aborted.  All calls come from the io thread, between two handlers.  A   *)
(* start() or stop() made by the callback itself has no action: the        *)
(* handler's own trailing stop() or startPeriodic() undoes it.             *)
(***************************************************************************)
EXTENDS Integers, Sequences

CONSTANTS
    Task,      \* the callbacks handed to the timer, each of them once
    NoTask,    \* no callback
    MaxStops   \* bound: calls of stop() by user code

ASSUME TimerAssumption == MaxStops \in Nat /\ NoTask \notin Task

VARIABLES
    queue,     \* the request processor queue, "none" for a timer of the IO object
    armed,     \* the callback the steady_timer waits for
    queued,    \* the callbacks of expired waits, the io thread has yet to run
    job,       \* what each callback was handed to the timer for
    calls,     \* history: how often each callback was called (2: more than once)
    wanted,    \* history: the callback user code last started, unless it stopped it
    stops,     \* how often user code called stop()
    crashed    \* an exception left io_context::run()

vars == <<queue, armed, queued, job, calls, wanted, stops, crashed>>

\* A waitFuture() callback goes from computing to ready to taken with its future.
Jobs == {"none", "once", "periodic", "computing", "ready", "taken"}

Init ==
    /\ queue \in {"none", "running"}
    /\ armed = NoTask
    /\ queued = <<>>
    /\ job = [t \in Task |-> "none"]
    /\ calls = [t \in Task |-> 0]
    /\ wanted = NoTask
    /\ stops = 0
    /\ crashed = FALSE

\* requestProcessorQueue_->stop() and ->launch(), if there is one.
StopQueue == queue' = IF queue = "none" THEN "none" ELSE "stopped"

LaunchQueue == queue' = IF queue = "none" THEN "none" ELSE "running"

\* expires_after() aborts what was armed, async_wait() arms t.
Arm(t, as) ==
    /\ ~crashed
    /\ job[t] = "none"
    /\ job' = [job EXCEPT ![t] = as]
    /\ StopQueue
    /\ armed' = t
    /\ wanted' = t
    /\ UNCHANGED <<queued, calls, stops, crashed>>

\* TimerService::start().
Start(t) == Arm(t, "once")

\* TimerService::startPeriodic().
StartPeriodic(t) == Arm(t, "periodic")

\* Timer::waitFuture(): a periodic callback that owns the future.
WaitFuture(t) == Arm(t, "computing")

FutureReady(t) ==
    /\ job[t] = "computing"
    /\ job' = [job EXCEPT ![t] = "ready"]
    /\ UNCHANGED <<queue, armed, queued, calls, wanted, stops, crashed>>

\* TimerService::stop(), called outside the timer's own callback.
Stop ==
    /\ ~crashed
    /\ stops < MaxStops
    /\ armed' = NoTask
    /\ LaunchQueue
    /\ wanted' = NoTask
    /\ stops' = stops + 1
    /\ UNCHANGED <<queued, job, calls, crashed>>

\* The timer expires; an aborted wait (`if (ec) return;`) is never queued.
Expire ==
    /\ armed # NoTask
    /\ queued' = Append(queued, armed)
    /\ armed' = NoTask
    /\ UNCHANGED <<queue, job, calls, wanted, stops, crashed>>

Called(t) == calls' = [calls EXCEPT ![t] = IF @ = 2 THEN 2 ELSE @ + 1]

\* The io thread takes the handler of an expired wait of this kind.
Handler(as) ==
    /\ ~crashed
    /\ queued # <<>>
    /\ job[Head(queued)] = as
    /\ queued' = Tail(queued)
    /\ UNCHANGED <<wanted, stops>>

\* Mutant: the handler cancels the timer but does not launch the queue.
RunOnceHoldingQueue ==
    /\ Handler("once")
    /\ Called(Head(queued))
    /\ armed' = NoTask
    /\ UNCHANGED <<queue, job, crashed>>

\* start()'s handler: task(); stop().
RunOnce ==
    /\ Handler("once")
    /\ Called(Head(queued))
    /\ armed' = NoTask
    /\ LaunchQueue
    /\ UNCHANGED <<job, crashed>>

\* A periodic handler ends with startPeriodic(), whatever happened to the timer
\* since it expired.
StartAgain == StopQueue /\ armed' = Head(queued)

\* Mutant: the periodic handler ends like the one-shot one, with stop().
RunPeriodicOnce ==
    /\ Handler("periodic")
    /\ Called(Head(queued))
    /\ armed' = NoTask
    /\ LaunchQueue
    /\ UNCHANGED <<job, crashed>>

\* startPeriodic()'s handler: task(); startPeriodic().
RunPeriodic ==
    /\ Handler("periodic")
    /\ Called(Head(queued))
    /\ StartAgain
    /\ UNCHANGED <<job, crashed>>

\* The callback of waitFuture(): the future is not ready yet.
PollFuture ==
    /\ Handler("computing")
    /\ StartAgain
    /\ UNCHANGED <<job, calls, crashed>>

\* Mutant: the result is used but stays in the future.
TakeFutureByCopy ==
    /\ Handler("ready")
    /\ Called(Head(queued))
    /\ StartAgain
    /\ UNCHANGED <<job, crashed>>

\* It is ready: func(fut.get()); stopTimer(), which launches the queue.  The
\* handler that called it then stops the queue and arms the timer again.
TakeFuture ==
    /\ Handler("ready")
    /\ Called(Head(queued))
    /\ job' = [job EXCEPT ![Head(queued)] = "taken"]
    /\ StartAgain
    /\ UNCHANGED crashed

\* wait_for() of a future whose result was taken throws std::future_error.
PollTakenFuture ==
    /\ Handler("taken")
    /\ crashed' = TRUE
    /\ UNCHANGED <<queue, armed, job, calls>>

UserCode == Stop \/ \E t \in Task : Start(t) \/ StartPeriodic(t) \/ WaitFuture(t)

RunHandler == RunOnce \/ RunPeriodic \/ PollFuture \/ TakeFuture \/ PollTakenFuture

Next == UserCode \/ Expire \/ RunHandler \/ \E t \in Task : FutureReady(t)

Spec == Init /\ [][Next]_vars

\* Time passes, the io thread runs queued handlers, futures become ready.
FairSpec ==
    /\ Spec
    /\ WF_vars(Expire)
    /\ WF_vars(RunHandler)
    /\ \A t \in Task : WF_vars(FutureReady(t))

-----------------------------------------------------------------------------
(***************************************************************************)
(* Properties.                                                             *)
(***************************************************************************)

\* The state has its type.
TypeOK ==
    /\ queue \in {"none", "running", "stopped"}
    /\ armed \in Task \cup {NoTask}
    /\ queued \in Seq(Task)
    /\ job \in [Task -> Jobs]
    /\ calls \in [Task -> 0..2]
    /\ wanted \in Task \cup {NoTask}
    /\ stops \in 0..MaxStops
    /\ crashed \in BOOLEAN

\* TimerService::start() and Timer::waitFuture() call their callback at most
\* once, however the timer is restarted or stopped while their wait is queued.
CalledOnce == \A t \in Task : job[t] # "periodic" => calls[t] <= 1

\* A queue that the timer has stopped is never left behind: a wait that is
\* armed, or a handler that is queued, will launch it or stop it again, however
\* the starts, stops and ticks interleave.
QueueHeld == queue = "stopped" /\ ~crashed => armed # NoTask \/ queued # <<>>

\* What was asked of the timer has been done: a periodic callback was called
\* again and again, any other once.
Served(t) == calls[t] >= (IF job[t] = "periodic" THEN 2 ELSE 1)

\* A callback that user code starts while no handler of an earlier one is
\* queued is served, unless user code stops or restarts the timer: the
\* trailing stop() and startPeriodic() of the handlers never undo it.
StartedIsServed ==
    \A t \in Task :
        ~crashed /\ armed = t /\ wanted = t /\ queued = <<>> ~> Served(t) \/ wanted # t

\* README, waitFuture(): the callable is invoked with the future's result when
\* the future becomes ready.  That ends the wait: a future whose result was
\* taken is not asked again, so no std::future_error leaves io_context::run().
WaitFutureEnds == ~crashed

-----------------------------------------------------------------------------
(***************************************************************************)
(* The inductive invariant behind CalledOnce and QueueHeld.                *)
(***************************************************************************)

\* A callback is owned by one wait at most, which is armed or expired, and no
\* wait owns a callback that was never handed to the timer.
OneWait ==
    /\ \A i \in DOMAIN queued : queued[i] # armed /\ job[queued[i]] # "none"
    /\ \A i, j \in DOMAIN queued : queued[i] = queued[j] => i = j
    /\ armed # NoTask => job[armed] # "none"

\* A callback that may be called once has not been called while its wait lasts.
NotYetCalled ==
    \A t \in Task :
        /\ job[t] \in {"none", "computing", "ready"} => calls[t] = 0
        /\ job[t] = "once" /\ (armed = t \/ \E i \in DOMAIN queued : queued[i] = t) => calls[t] = 0

IInv == TypeOK /\ OneWait /\ NotYetCalled /\ CalledOnce /\ QueueHeld

=============================================================================
