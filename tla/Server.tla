------------------------------- MODULE Server -------------------------------
(***************************************************************************)
(* IOService with its pool of io_contexts and threads, the listeners of a  *)
(* Server and the connections they hand out.  Context 0 is run by the      *)
(* thread that called IO::run(); it executes the accept handlers of every  *)
(* listener.  A connection belongs to the context that nextIO() gave it,   *)
(* and its handlers run on that context's thread.  IO::run() is called     *)
(* once.                                                                   *)
(***************************************************************************)
EXTENDS Integers, Sequences, FiniteSets

CONSTANTS
    NumThreads,      \* the argument of IO
    Listener,        \* the endpoints Server::listen() is called with
    MaxConnections   \* bound: connections the listeners make

ASSUME ThreadsAssumption == NumThreads \in Nat \ {0}
ASSUME MaxConnectionsAssumption == MaxConnections \in Nat

Context == 0..NumThreads - 1

VARIABLES
    ioIndex,   \* IOService::ioIndex_
    conns,     \* the connections, in the order they were made
    accept,    \* the async_accept of each listener
    main,      \* where IO::run() is
    thread,    \* the threads of threadPool_, and main as thread 0
    stopped,   \* io_context::stopped()
    stopping   \* IOService::stop(): who called it, the next context to stop

vars == <<ioIndex, conns, accept, main, thread, stopped, stopping>>

\* A connection waits to be accepted, waits for its peer, has its read handler
\* queued, was served, or was destroyed because nobody owns it any more.
ConnectionType ==
    [io : Context, by : Listener, st : {"new", "reading", "readable", "served", "gone"}]
AcceptStates == {"none", "pending", "ok", "error", "dead"}
ThreadStates == {"none", "running", "ended", "joined"}
MainType == [at : {"setup", "spawning", "running", "joining", "returned"}, i : 0..NumThreads]
StopType == [by : {"nobody", "handler", "other"}, on : Context, i : 0..NumThreads]

Init ==
    /\ ioIndex = 0
    /\ conns = <<>>
    /\ accept = [l \in Listener |-> "none"]
    /\ main = [at |-> "setup", i |-> 0]
    /\ thread = [i \in Context |-> "none"]
    /\ stopped = [i \in Context |-> FALSE]
    /\ stopping = [by |-> "nobody", on |-> 0, i |-> 0]

\* A stop() called from a handler, as the signal handler of context 0 does,
\* occupies the handler's thread until every context is stopped.
InStop(i) == stopping.by = "handler" /\ stopping.on = i /\ stopping.i < NumThreads

\* The thread of context i may start a handler.
Runs(i) == thread[i] = "running" /\ ~stopped[i] /\ ~InStop(i)

\* The bound MaxConnections, for a step that makes a connection.
Room == Len(conns) + Cardinality({l \in Listener : accept[l] = "ok"}) < MaxConnections

(***************************************************************************)
(* Listening and connecting.                                               *)
(***************************************************************************)

\* Mutant: every connection is given the context of the acceptor.
NextIOStuck == 0

\* IOService::nextIO().
NextIO == ioIndex % NumThreads

\* ConnectionListener::waitForConnection(); `so_far` are the connections made.
WaitForConnection(l, so_far) ==
    /\ conns' = Append(so_far, [io |-> NextIO, by |-> l, st |-> "new"])
    /\ ioIndex' = ioIndex + 1
    /\ accept' = [accept EXCEPT ![l] = "pending"]

\* The connections listener l waits with: one, as OneToAccept says.
ToAccept(l) == {c \in DOMAIN conns : conns[c].by = l /\ conns[c].st = "new"}

Waiting(l) == CHOOSE c \in ToAccept(l) : TRUE

\* Server::listen(): makes the listener, which starts waiting.
Listen(l) ==
    /\ accept[l] = "none"
    /\ Room
    /\ WaitForConnection(l, conns)
    /\ UNCHANGED <<main, thread, stopped, stopping>>

\* The operating system decides the async_accept (external).
AcceptDecided(l, result) ==
    /\ accept[l] = "pending"
    /\ Room
    /\ accept' = [accept EXCEPT ![l] = result]
    /\ UNCHANGED <<ioIndex, conns, main, thread, stopped, stopping>>

\* Mutant: the connection is accepted but its first read is not started.
OnConnectedIdle(l) ==
    /\ Runs(0)
    /\ accept[l] = "ok"
    /\ WaitForConnection(l, [conns EXCEPT ![Waiting(l)].st = "gone"])
    /\ UNCHANGED <<main, thread, stopped, stopping>>

\* ConnectionListener::onConnected(): process(), then wait for the next one.
OnConnected(l) ==
    /\ Runs(0)
    /\ accept[l] = "ok"
    /\ WaitForConnection(l, [conns EXCEPT ![Waiting(l)].st = "reading"])
    /\ UNCHANGED <<main, thread, stopped, stopping>>

\* Mutant: waits again, with the socket of the connection that is gone.
OnConnectErrorRetrying(l) ==
    /\ Runs(0)
    /\ accept[l] = "error"
    /\ accept' = [accept EXCEPT ![l] = "pending"]
    /\ conns' = [conns EXCEPT ![Waiting(l)].st = "gone"]
    /\ UNCHANGED <<ioIndex, main, thread, stopped, stopping>>

\* ... with an error it is reported, and nobody waits any more.
OnConnectError(l) ==
    /\ Runs(0)
    /\ accept[l] = "error"
    /\ accept' = [accept EXCEPT ![l] = "dead"]
    /\ conns' = [conns EXCEPT ![Waiting(l)].st = "gone"]
    /\ UNCHANGED <<ioIndex, main, thread, stopped, stopping>>

\* The peer sends something or drops the connection, if it likes (external).
PeerActs(c) ==
    /\ conns[c].st = "reading"
    /\ conns' = [conns EXCEPT ![c].st = "readable"]
    /\ UNCHANGED <<ioIndex, accept, main, thread, stopped, stopping>>

\* The read handler of a connection, on the thread of its context.
Serve(c) ==
    /\ conns[c].st = "readable"
    /\ Runs(conns[c].io)
    /\ conns' = [conns EXCEPT ![c].st = "served"]
    /\ UNCHANGED <<ioIndex, accept, main, thread, stopped, stopping>>

(***************************************************************************)
(* IOService::run(): the threads are started, context 0 is run, the        *)
(* threads are joined.  The work guards keep io_context::run() from        *)
(* returning before stop().                                                *)
(***************************************************************************)
Run ==
    /\ main.at = "setup"
    /\ main' = [at |-> "spawning", i |-> 1]
    /\ UNCHANGED <<ioIndex, conns, accept, thread, stopped, stopping>>

\* Mutant: one thread too many.
SpawnBeyond ==
    /\ main.at = "spawning"
    /\ IF main.i <= NumThreads
       THEN /\ thread' = [thread EXCEPT ![main.i] = "running"]
            /\ main' = [main EXCEPT !.i = @ + 1]
       ELSE /\ thread' = [thread EXCEPT ![0] = "running"]
            /\ main' = [at |-> "running", i |-> 0]
    /\ UNCHANGED <<ioIndex, conns, accept, stopped, stopping>>

Spawn ==
    /\ main.at = "spawning"
    /\ IF main.i < NumThreads
       THEN /\ thread' = [thread EXCEPT ![main.i] = "running"]
            /\ main' = [main EXCEPT !.i = @ + 1]
       ELSE /\ thread' = [thread EXCEPT ![0] = "running"]
            /\ main' = [at |-> "running", i |-> 0]
    /\ UNCHANGED <<ioIndex, conns, accept, stopped, stopping>>

\* io_context::run() of a stopped context returns.
ThreadEnds(i) ==
    /\ i # 0
    /\ thread[i] = "running"
    /\ stopped[i]
    /\ ~InStop(i)
    /\ thread' = [thread EXCEPT ![i] = "ended"]
    /\ UNCHANGED <<ioIndex, conns, accept, main, stopped, stopping>>

MainRunEnds ==
    /\ main.at = "running"
    /\ stopped[0]
    /\ ~InStop(0)
    /\ thread' = [thread EXCEPT ![0] = "ended"]
    /\ main' = [at |-> "joining", i |-> 1]
    /\ UNCHANGED <<ioIndex, conns, accept, stopped, stopping>>

\* Mutant: run() returns without joining.
JoinNobody ==
    /\ main.at = "joining"
    /\ main' = [main EXCEPT !.at = "returned"]
    /\ UNCHANGED <<ioIndex, conns, accept, thread, stopped, stopping>>

Join ==
    /\ main.at = "joining"
    /\ IF main.i < NumThreads
       THEN /\ thread[main.i] = "ended"
            /\ thread' = [thread EXCEPT ![main.i] = "joined"]
            /\ main' = [main EXCEPT !.i = @ + 1]
       ELSE /\ main' = [main EXCEPT !.at = "returned"]
            /\ UNCHANGED thread
    /\ UNCHANGED <<ioIndex, conns, accept, stopped, stopping>>

(***************************************************************************)
(* IOService::stop(), from a handler (of a signal, or user code) or from a *)
(* thread outside the pool, at any time.                                   *)
(***************************************************************************)
StopCalled(by, i) ==
    /\ stopping.by = "nobody"
    /\ by = "handler" => Runs(i)
    /\ stopping' = [by |-> by, on |-> i, i |-> 0]
    /\ UNCHANGED <<ioIndex, conns, accept, main, thread, stopped>>

\* Mutant: only the first context is stopped.
StopFirst ==
    /\ stopping.by # "nobody"
    /\ stopping.i < NumThreads
    /\ stopped' = [stopped EXCEPT ![0] = TRUE]
    /\ stopping' = [stopping EXCEPT !.i = NumThreads]
    /\ UNCHANGED <<ioIndex, conns, accept, main, thread>>

StopNext ==
    /\ stopping.by # "nobody"
    /\ stopping.i < NumThreads
    /\ stopped' = [stopped EXCEPT ![stopping.i] = TRUE]
    /\ stopping' = [stopping EXCEPT !.i = @ + 1]
    /\ UNCHANGED <<ioIndex, conns, accept, main, thread>>

-----------------------------------------------------------------------------

Listening(l) ==
    \/ Listen(l)
    \/ \E result \in {"ok", "error"} : AcceptDecided(l, result)
    \/ OnConnected(l)
    \/ OnConnectError(l)

Running == Spawn \/ MainRunEnds \/ Join \/ \E i \in Context : ThreadEnds(i)

Next ==
    \/ \E l \in Listener : Listening(l)
    \/ \E c \in DOMAIN conns : PeerActs(c) \/ Serve(c)
    \/ Run
    \/ Running
    \/ \E i \in Context : StopCalled("handler", i)
    \/ StopCalled("other", 0)
    \/ StopNext

Spec == Init /\ [][Next]_vars

\* Every thread makes progress, and each context runs its handlers in turn.
\* Nothing is assumed of the peers.
FairSpec ==
    /\ Spec
    /\ WF_vars(Running)
    /\ WF_vars(StopNext)
    /\ \A l \in Listener : WF_vars(OnConnected(l) \/ OnConnectError(l))
    /\ \A c \in 1..MaxConnections : WF_vars(c \in DOMAIN conns /\ Serve(c))

-----------------------------------------------------------------------------
(***************************************************************************)
(* Properties.                                                             *)
(***************************************************************************)

\* The state has its type.
TypeOK ==
    /\ ioIndex \in Nat
    /\ conns \in Seq(ConnectionType)
    /\ accept \in [Listener -> AcceptStates]
    /\ main \in MainType
    /\ thread \in [Context -> ThreadStates]
    /\ stopped \in [Context -> BOOLEAN]
    /\ stopping \in StopType

On(i) == {c \in DOMAIN conns : conns[c].io = i}

\* nextIO() spreads the connections: whatever listeners make them, no context
\* gets two more than another.
Balanced == \A i, j \in Context : Cardinality(On(i)) <= Cardinality(On(j)) + 1

\* run() returns only after stop(), and then no thread of the pool is left that
\* could still execute a handler.
RunOutlivesThreads ==
    main.at = "returned" => \A i \in Context : stopped[i] /\ thread[i] \in {"ended", "joined"}

\* A listener has exactly one connection ready for the next peer, unless
\* accepting failed, which ends it for good.
OneToAccept ==
    \A l \in Listener :
        Cardinality(ToAccept(l)) = IF accept[l] \in {"none", "dead"} THEN 0 ELSE 1

\* stop() ends run(): every thread leaves its context, whoever called stop().
StopEndsRun == (stopping.by # "nobody" /\ main.at # "setup") ~> main.at = "returned"

\* A peer was accepted for connection c and has not been served yet.
Accepted(c) ==
    /\ c \in DOMAIN conns
    /\ \/ conns[c].st = "new" /\ accept[conns[c].by] = "ok"
       \/ conns[c].st = "readable"

\* A connection that was accepted waits for its peer with its read armed, and is
\* served by the thread of its context once the peer has sent or dropped it,
\* unless stop() is called.
AcceptedIsServed ==
    \A c \in 1..MaxConnections :
        main.at = "running" /\ Accepted(c)
            ~> (c \in DOMAIN conns /\ conns[c].st \in {"reading", "served"})
               \/ stopping.by # "nobody"

-----------------------------------------------------------------------------
(***************************************************************************)
(* The inductive invariant behind RunOutlivesThreads.                      *)
(***************************************************************************)

\* A thread ends only in a stopped context, and run() has joined the threads
\* before main.i.
RunInOrder ==
    /\ \A i \in Context : thread[i] \in {"ended", "joined"} => stopped[i]
    /\ main.at \in {"joining", "returned"} =>
            /\ thread[0] = "ended"
            /\ main.i # 0
            /\ \A i \in 1..main.i - 1 : thread[i] = "joined"
    /\ main.at = "returned" => main.i = NumThreads

\* Connection c got context (c - 1) modulo the size of the pool.
RoundRobin ==
    /\ ioIndex = Len(conns)
    /\ \A c \in DOMAIN conns : conns[c].io = (c - 1) % NumThreads

IInv == TypeOK /\ RunInOrder /\ RoundRobin

\* The guards of the steps that end a call of run() after stop().
StopGoesOn == stopping.i < NumThreads
MainGoesOn ==
    \/ main.at = "spawning"
    \/ main.at = "running" /\ stopped[0] /\ ~InStop(0)
    \/ main.at = "joining" /\ (main.i < NumThreads => thread[main.i] = "ended")
AwaitedGoesOn ==
    /\ main.at = "joining" /\ main.i < NumThreads
    /\ thread[main.i] = "running" /\ stopped[main.i] /\ ~InStop(main.i)

\* The safety side of StopEndsRun: once stop() was called, by a handler or from
\* outside, run() and stop() are never both stuck.  stop() goes on, or run()
\* does, or the thread that run() joins is about to end.
StopIsNotBlocked ==
    stopping.by # "nobody" /\ main.at \notin {"setup", "returned"}
        => StopGoesOn \/ MainGoesOn \/ AwaitedGoesOn

=============================================================================
