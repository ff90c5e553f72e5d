---------------------------- MODULE ServerProofs ----------------------------
(***************************************************************************)
(* Proofs about the io threads and the distribution of the connections,    *)
(* for every number of threads, listeners and connections.                 *)
(***************************************************************************)
EXTENDS Server, SequenceTheorems, FiniteSetTheorems, TLAPS

(***************************************************************************)
(* The inductive invariants that go with IInv.                             *)
(***************************************************************************)

\* Behind Balanced: the contexts before the next one are a connection ahead.
DealtOut ==
    \E rounds \in Nat : \A i \in Context :
        /\ IsFiniteSet(On(i))
        /\ Cardinality(On(i)) = rounds + (IF i < NextIO THEN 1 ELSE 0)

\* Behind OneToAccept: a listener waits with one connection, or has ended.
AcceptHolds ==
    \A l \in Listener :
        IF accept[l] \in {"none", "dead"} THEN ToAccept(l) = {}
        ELSE \E c \in DOMAIN conns : ToAccept(l) = {c}

\* Where stop() and run() are tells what the contexts and threads are doing.
StopInOrder ==
    /\ \A i \in Context : i < stopping.i => stopped[i]
    /\ main.at = "spawning" => main.i # 0 /\ \A i \in 1..main.i - 1 : thread[i] \in {"running", "ended"}
    /\ main.at = "running" => \A i \in 1..NumThreads - 1 : thread[i] \in {"running", "ended"}
    /\ main.at = "joining" => \A i \in main.i..NumThreads - 1 : thread[i] \in {"running", "ended"}

\* Context 0 exists.
LEMMA Contexts ==
    /\ NumThreads \in Nat
    /\ NumThreads > 0
    /\ 0 \in Context
    /\ \A n \in Nat : n % NumThreads \in Context
BY ThreadsAssumption DEF Context

\* Changing the state of a connection leaves the rest of it alone.
LEMMA Restated ==
    ASSUME NEW s \in Seq(ConnectionType), NEW c,
           NEW st \in {"new", "reading", "readable", "served", "gone"}
    PROVE  LET t == [s EXCEPT ![c].st = st]
           IN  /\ t \in Seq(ConnectionType)
               /\ Len(t) = Len(s)
               /\ DOMAIN t = DOMAIN s
               /\ \A d \in DOMAIN s : t[d].io = s[d].io
<1> DEFINE t == [s EXCEPT ![c].st = st]
<1>1. s \in [1..Len(s) -> ConnectionType] /\ Len(s) \in Nat
  OBVIOUS
<1>2. \A d \in 1..Len(s) : t[d] \in ConnectionType /\ t[d].io = s[d].io
  BY <1>1 DEF ConnectionType
<1>3. DOMAIN t = 1..Len(s)
  BY <1>1
<1>4. t = [d \in 1..Len(s) |-> t[d]]
  BY <1>1
<1>5. t \in [1..Len(s) -> ConnectionType]
  BY <1>2, <1>4
<1>6. t \in Seq(ConnectionType)
  BY <1>1, <1>5, SeqDef, Zenon
<1>7. Len(t) = Len(s)
  BY <1>1, <1>3, <1>6
<1> QED
  BY <1>1, <1>2, <1>3, <1>6, <1>7

\* waitForConnection() appends a connection of the next context.
LEMMA WaitingForConnection ==
    ASSUME IInv, NEW l \in Listener, NEW before \in Seq(ConnectionType),
           Len(before) = Len(conns),
           \A c \in DOMAIN before : before[c].io = conns[c].io,
           WaitForConnection(l, before)
    PROVE  /\ ioIndex' \in Nat
           /\ conns' \in Seq(ConnectionType)
           /\ accept' \in [Listener -> AcceptStates]
           /\ RoundRobin'
<1> DEFINE new == [io |-> NextIO, by |-> l, st |-> "new"]
<1>1. /\ ioIndex \in Nat
      /\ conns \in Seq(ConnectionType)
      /\ accept \in [Listener -> AcceptStates]
      /\ RoundRobin
  BY DEF IInv, TypeOK
<1>2. NextIO \in Context
  BY <1>1, Contexts DEF NextIO
<1>3. new \in ConnectionType
  BY <1>2 DEF ConnectionType
<1>4. conns' = Append(before, new) /\ ioIndex' = ioIndex + 1
  BY DEF WaitForConnection
<1>5. accept' \in [Listener -> AcceptStates]
  BY <1>1 DEF WaitForConnection, AcceptStates
<1> HIDE DEF new
<1>6. /\ conns' \in Seq(ConnectionType)
      /\ Len(conns') = Len(before) + 1
      /\ \A c \in 1..Len(before) : conns'[c] = before[c]
      /\ conns'[Len(before) + 1] = new
  BY <1>3, <1>4, AppendProperties
<1>7. new.io = ioIndex % NumThreads
  BY DEF new, NextIO
<1>8. ioIndex' = Len(conns')
  BY <1>1, <1>4, <1>6 DEF RoundRobin
<1>9. ASSUME NEW c \in DOMAIN conns' PROVE conns'[c].io = (c - 1) % NumThreads
  <2>1. c \in 1..Len(before) + 1 /\ Len(before) \in Nat
    BY <1>6, <1>9
  <2>2. CASE c \in 1..Len(before)
    <3>1. conns'[c].io = conns[c].io /\ c \in DOMAIN conns
      BY <1>1, <1>6, <2>2
    <3> QED
      BY <1>1, <3>1 DEF RoundRobin
  <2>3. CASE c = Len(before) + 1
    <3>1. c - 1 = ioIndex
      BY <1>1, <2>1, <2>3 DEF RoundRobin
    <3> QED
      BY <1>6, <1>7, <2>3, <3>1
  <2> QED
    BY <2>1, <2>2, <2>3
<1> QED
  BY <1>4, <1>1, <1>5, <1>6, <1>8, <1>9 DEF RoundRobin

\* Nothing is made and nothing runs at first.
LEMMA InitIInv == Init => IInv
<1> SUFFICES ASSUME Init PROVE IInv
  OBVIOUS
<1>1. conns \in Seq(ConnectionType) /\ Len(conns) = 0 /\ DOMAIN conns = {}
  BY EmptySeq DEF Init
<1>2. main \in MainType
  BY Contexts DEF Init, MainType
<1>3. stopping \in StopType
  BY Contexts DEF Init, StopType
<1>4. /\ ioIndex \in Nat
      /\ accept \in [Listener -> AcceptStates]
      /\ thread \in [Context -> ThreadStates]
      /\ stopped \in [Context -> BOOLEAN]
  BY DEF Init, AcceptStates, ThreadStates
<1>5. RunInOrder
  BY DEF Init, RunInOrder
<1>6. RoundRobin
  BY <1>1 DEF Init, RoundRobin
<1> QED
  BY <1>1, <1>2, <1>3, <1>4, <1>5, <1>6 DEF IInv, TypeOK

\* Accepting and serving change nothing about the threads.
LEMMA ListeningIInv ==
    ASSUME IInv, NEW l \in Listener, Listening(l)
    PROVE  IInv'
<1>t. /\ conns \in Seq(ConnectionType)
      /\ accept \in [Listener -> AcceptStates]
      /\ RoundRobin /\ RunInOrder /\ TypeOK
  BY DEF IInv, TypeOK
<1>1. UNCHANGED <<main, thread, stopped, stopping>>
  BY DEF Listening, Listen, AcceptDecided, OnConnected, OnConnectError
<1>2. RunInOrder'
  BY <1>1, <1>t DEF RunInOrder
<1>3. CASE Listen(l)
  <2>1. WaitForConnection(l, conns)
    BY <1>3 DEF Listen
  <2> QED
    BY <1>1, <1>2, <1>t, <2>1, WaitingForConnection DEF IInv, TypeOK
<1>4. CASE \E result \in {"ok", "error"} : AcceptDecided(l, result)
  <2>1. accept' \in [Listener -> AcceptStates] /\ UNCHANGED <<ioIndex, conns>>
    BY <1>4, <1>t DEF AcceptDecided, AcceptStates
  <2> QED
    BY <1>1, <1>2, <1>t, <2>1 DEF IInv, TypeOK, RoundRobin
<1>5. CASE OnConnected(l)
  <2> DEFINE before == [conns EXCEPT ![Waiting(l)].st = "reading"]
  <2>1. WaitForConnection(l, before)
    BY <1>5 DEF OnConnected
  <2>2. /\ before \in Seq(ConnectionType)
        /\ Len(before) = Len(conns)
        /\ \A c \in DOMAIN before : before[c].io = conns[c].io
    BY <1>t, Restated
  <2> HIDE DEF before
  <2> QED
    BY <1>1, <1>2, <1>t, <2>1, <2>2, WaitingForConnection DEF IInv, TypeOK
<1>6. CASE OnConnectError(l)
  <2> DEFINE after == [conns EXCEPT ![Waiting(l)].st = "gone"]
  <2>1. /\ conns' = after
        /\ accept' \in [Listener -> AcceptStates]
        /\ UNCHANGED ioIndex
    BY <1>6, <1>t DEF OnConnectError, AcceptStates
  <2>2. /\ after \in Seq(ConnectionType)
        /\ Len(after) = Len(conns)
        /\ DOMAIN after = DOMAIN conns
        /\ \A c \in DOMAIN conns : after[c].io = conns[c].io
    BY <1>t, Restated
  <2> HIDE DEF after
  <2> QED
    BY <1>1, <1>2, <1>t, <2>1, <2>2 DEF IInv, TypeOK, RoundRobin
<1> QED
  BY <1>3, <1>4, <1>5, <1>6 DEF Listening

\* A connection whose peer acts, or that is served, keeps its context.
LEMMA ServeIInv ==
    ASSUME IInv, NEW c \in DOMAIN conns, PeerActs(c) \/ Serve(c)
    PROVE  IInv'
<1>t. conns \in Seq(ConnectionType)
  BY DEF IInv, TypeOK
<1>1. ASSUME NEW after \in Seq(ConnectionType), conns' = after, Len(after) = Len(conns),
             DOMAIN after = DOMAIN conns, \A d \in DOMAIN conns : after[d].io = conns[d].io,
             UNCHANGED <<ioIndex, accept, main, thread, stopped, stopping>>
      PROVE  IInv'
  BY <1>1 DEF IInv, TypeOK, RoundRobin, RunInOrder
<1>2. CASE PeerActs(c)
  <2> DEFINE after == [conns EXCEPT ![c].st = "readable"]
  <2>1. conns' = after /\ UNCHANGED <<ioIndex, accept, main, thread, stopped, stopping>>
    BY <1>2 DEF PeerActs
  <2>2. /\ after \in Seq(ConnectionType)
        /\ Len(after) = Len(conns)
        /\ DOMAIN after = DOMAIN conns
        /\ \A d \in DOMAIN conns : after[d].io = conns[d].io
    BY <1>t, Restated
  <2> HIDE DEF after
  <2> QED
    BY <1>1, <2>1, <2>2
<1>3. CASE Serve(c)
  <2> DEFINE after == [conns EXCEPT ![c].st = "served"]
  <2>1. conns' = after /\ UNCHANGED <<ioIndex, accept, main, thread, stopped, stopping>>
    BY <1>3 DEF Serve
  <2>2. /\ after \in Seq(ConnectionType)
        /\ Len(after) = Len(conns)
        /\ DOMAIN after = DOMAIN conns
        /\ \A d \in DOMAIN conns : after[d].io = conns[d].io
    BY <1>t, Restated
  <2> HIDE DEF after
  <2> QED
    BY <1>1, <2>1, <2>2
<1> QED
  BY <1>2, <1>3

\* run() starts, runs and joins the threads in order.
LEMMA RunningIInv ==
    ASSUME IInv, Run \/ Running
    PROVE  IInv'
<1>t. /\ main \in MainType
      /\ thread \in [Context -> ThreadStates]
      /\ RunInOrder /\ RoundRobin /\ TypeOK
  BY DEF IInv, TypeOK
<1>1. UNCHANGED <<ioIndex, conns, accept, stopped, stopping>>
  BY DEF Run, Running, Spawn, ThreadEnds, MainRunEnds, Join
<1>2. RoundRobin'
  BY <1>1, <1>t DEF RoundRobin
<1> SUFFICES main' \in MainType /\ thread' \in [Context -> ThreadStates] /\ RunInOrder'
  BY <1>1, <1>2, <1>t DEF IInv, TypeOK
<1> USE Contexts DEF MainType, ThreadStates, RunInOrder
<1>3. CASE Run
  BY <1>1, <1>3, <1>t DEF Run
<1>4. CASE Spawn
  BY <1>1, <1>4, <1>t DEF Spawn, Context
<1>5. CASE \E i \in Context : ThreadEnds(i)
  BY <1>1, <1>5, <1>t DEF ThreadEnds, Context
<1>6. CASE MainRunEnds
  BY <1>1, <1>6, <1>t DEF MainRunEnds, Context
<1>7. CASE Join
  <2>1. main.i \in 0..NumThreads /\ main.at = "joining" /\ thread[0] = "ended"
    BY <1>7, <1>t DEF Join
  <2>2. CASE main.i < NumThreads
    <3>0. main.i # 0
      BY <2>1, <1>t
    <3>1. /\ main' = [main EXCEPT !.i = @ + 1]
          /\ thread[main.i] = "ended"
          /\ thread' = [thread EXCEPT ![main.i] = "joined"]
      BY <1>7, <2>2 DEF Join
    <3>2. main.i \in Context
      BY <2>1, <2>2 DEF Context
    <3>3. main' \in MainType /\ thread' \in [Context -> ThreadStates]
      BY <2>1, <2>2, <3>1, <1>t
    <3> QED
      BY <1>1, <2>1, <2>2, <3>0, <3>1, <3>2, <3>3, <1>t DEF Context
  <2>3. CASE ~(main.i < NumThreads)
    BY <1>1, <1>7, <2>1, <2>3, <1>t DEF Join, Context
  <2> QED
    BY <2>2, <2>3
<1> QED
  BY <1>3, <1>4, <1>5, <1>6, <1>7 DEF Running

\* A stopped context stays stopped.
LEMMA StopIInv ==
    ASSUME IInv, StopNext \/ StopCalled("other", 0) \/ \E i \in Context : StopCalled("handler", i)
    PROVE  IInv'
<1>t. /\ stopped \in [Context -> BOOLEAN]
      /\ stopping \in StopType
      /\ RunInOrder /\ RoundRobin /\ TypeOK
  BY DEF IInv, TypeOK
<1>1. UNCHANGED <<ioIndex, conns, accept, main, thread>>
  BY DEF StopNext, StopCalled
<1>2. RoundRobin'
  BY <1>1, <1>t DEF RoundRobin
<1>3. stopped' \in [Context -> BOOLEAN] /\ \A i \in Context : stopped[i] => stopped'[i]
  BY <1>t DEF StopNext, StopCalled
<1>4. stopping' \in StopType
  BY <1>t, Contexts DEF StopNext, StopCalled, StopType
<1>5. RunInOrder'
  BY <1>1, <1>3, <1>t DEF RunInOrder
<1> QED
  BY <1>1, <1>2, <1>3, <1>4, <1>5, <1>t DEF IInv, TypeOK

\* Every step keeps the invariant.
LEMMA NextIInv == IInv /\ [Next]_vars => IInv'
<1> SUFFICES ASSUME IInv, [Next]_vars PROVE IInv'
  OBVIOUS
<1>1. CASE UNCHANGED vars
  BY <1>1 DEF vars, IInv, TypeOK, RunInOrder, RoundRobin
<1> QED
  BY <1>1, ListeningIInv, ServeIInv, RunningIInv, StopIInv DEF Next

\* The invariant holds throughout.
THEOREM IInvHolds == Spec => []IInv
BY InitIInv, NextIInv, PTL DEF Spec

\* IOService and its listeners keep their types.
THEOREM TypeCorrect == Spec => []TypeOK
BY IInvHolds, PTL DEF IInv

\* IOService::run() never returns while a thread of the pool still runs.
THEOREM RunReturnsLast == Spec => []RunOutlivesThreads
<1>1. IInv => RunOutlivesThreads
  <2> SUFFICES ASSUME IInv, main.at = "returned", NEW i \in Context
               PROVE  stopped[i] /\ thread[i] \in {"ended", "joined"}
    BY DEF RunOutlivesThreads
  <2>1. i = 0 \/ i \in 1..main.i - 1
    BY Contexts DEF IInv, RunInOrder, Context
  <2> QED
    BY <2>1 DEF IInv, RunInOrder
<1> QED
  BY <1>1, IInvHolds, PTL

\* nextIO() deals the contexts out in turn, whichever listener asks.
THEOREM ContextsInTurn == Spec => []RoundRobin
BY IInvHolds, PTL DEF IInv

(***************************************************************************)
(* Balanced.  Counting needs no induction over the connections: DealtOut   *)
(* counts them as they are made.                                           *)
(***************************************************************************)

\* The contexts come in turn: after the last one, the first.
LEMMA NextInTurn ==
    ASSUME NEW n \in Nat, NEW N \in Nat \ {0}
    PROVE  (n + 1) % N = IF n % N = N - 1 THEN 0 ELSE (n % N) + 1
<1> DEFINE q == n \div N
           r == n % N
           q2 == (n + 1) \div N
           r2 == (n + 1) % N
<1>1. q \in Int /\ r \in 0..N - 1 /\ n = N * q + r
  OBVIOUS
<1>2. q2 \in Int /\ r2 \in 0..N - 1 /\ n + 1 = N * q2 + r2
  OBVIOUS
<1> HIDE DEF q, r, q2, r2
<1>3. N * (q2 - q) = r + 1 - r2
  BY <1>1, <1>2
<1>4. q2 - q >= 2 => N * (q2 - q) >= 2 * N
  BY <1>1, <1>2
<1>5. q2 - q <= -1 => N * (q2 - q) <= -N
  BY <1>1, <1>2
<1>6. q2 - q \in {0, 1}
  BY <1>1, <1>2, <1>3, <1>4, <1>5
<1>7. r2 = r + 1 \/ r2 = r + 1 - N
  BY <1>1, <1>2, <1>3, <1>6
<1>8. r2 = IF r = N - 1 THEN 0 ELSE r + 1
  BY <1>1, <1>2, <1>7
<1> QED
  BY <1>8 DEF r, r2

\* Which connections a context has depends on their number only.
LEMMA OnContext ==
    ASSUME IInv, NEW i \in Context
    PROVE  On(i) = {c \in 1..ioIndex : (c - 1) % NumThreads = i}
BY DEF IInv, TypeOK, RoundRobin, On

\* The same after a step.
LEMMA OnContextNext ==
    ASSUME IInv', NEW i \in Context
    PROVE  On(i)' = {c \in 1..ioIndex' : (c - 1) % NumThreads = i}
BY DEF IInv, TypeOK, RoundRobin, On, Context

\* A step makes one connection at most.
LEMMA OneConnectionAtATime ==
    ASSUME [Next]_vars
    PROVE  ioIndex' = ioIndex \/ ioIndex' = ioIndex + 1
BY DEF Next, vars, Listening, Listen, AcceptDecided, OnConnected, OnConnectError,
       WaitForConnection, PeerActs, Serve, Run, Running, Spawn, MainRunEnds, Join, ThreadEnds,
       StopCalled, StopNext

\* The next connection goes to the context whose turn it is.
LEMMA OnGrows ==
    ASSUME IInv, IInv', ioIndex' = ioIndex + 1, NEW i \in Context
    PROVE  On(i)' = IF i = NextIO THEN On(i) \cup {ioIndex + 1} ELSE On(i)
<1>1. ioIndex \in Nat
  BY DEF IInv, TypeOK
<1>2. (ioIndex + 1) - 1 = ioIndex /\ 1..ioIndex + 1 = (1..ioIndex) \cup {ioIndex + 1}
  BY <1>1
<1>3. On(i) = {c \in 1..ioIndex : (c - 1) % NumThreads = i}
  BY OnContext
<1>4. On(i)' = {c \in (1..ioIndex) \cup {ioIndex + 1} : (c - 1) % NumThreads = i}
  BY <1>2, OnContextNext
<1>5. ioIndex + 1 \in On(i)' <=> i = NextIO
  BY <1>2, <1>4 DEF NextIO
<1>6. \A c : c # ioIndex + 1 => (c \in On(i)' <=> c \in On(i))
  BY <1>3, <1>4
<1>7. ioIndex + 1 \notin On(i)
  BY <1>1, <1>3
<1> QED
  BY <1>5, <1>6, <1>7

\* Every step keeps the connections dealt out evenly.
LEMMA NextDealtOut == IInv /\ DealtOut /\ [Next]_vars => DealtOut'
<1> SUFFICES ASSUME IInv, DealtOut, [Next]_vars PROVE DealtOut'
  OBVIOUS
<1>1. IInv'
  BY NextIInv
<1>2. ioIndex \in Nat
  BY DEF IInv, TypeOK
<1>3. PICK rounds \in Nat : \A i \in Context :
            /\ IsFiniteSet(On(i))
            /\ Cardinality(On(i)) = rounds + (IF i < NextIO THEN 1 ELSE 0)
  BY DEF DealtOut
<1>4. CASE ioIndex' = ioIndex
  <2>1. NextIO' = NextIO /\ \A i \in Context : On(i)' = On(i)
    BY <1>1, <1>4, OnContext, OnContextNext DEF NextIO
  <2> QED
    BY <1>3, <2>1 DEF DealtOut, Context
<1>5. CASE ioIndex' = ioIndex + 1
  <2> DEFINE full == NextIO = NumThreads - 1
             after == IF full THEN rounds + 1 ELSE rounds
  <2>0. NextIO' = (ioIndex + 1) % NumThreads
    BY <1>5 DEF NextIO
  <2>1. NextIO \in Context /\ NextIO' = IF full THEN 0 ELSE NextIO + 1
    BY <1>2, <2>0, ThreadsAssumption, Contexts, NextInTurn DEF NextIO
  <2>2. after \in Nat
    OBVIOUS
  <2>3. ASSUME NEW i \in Context
        PROVE  /\ IsFiniteSet(On(i)')
               /\ Cardinality(On(i)') = after + (IF i < NextIO' THEN 1 ELSE 0)
    <3>1. IsFiniteSet(On(i)) /\ Cardinality(On(i)) = rounds + (IF i < NextIO THEN 1 ELSE 0)
      BY <1>3
    <3>2. i \in 0..NumThreads - 1 /\ NextIO \in 0..NumThreads - 1 /\ NumThreads \in Nat
      BY <2>1, Contexts DEF Context
    <3>3. CASE i = NextIO
      <4>1. On(i)' = On(i) \cup {ioIndex + 1}
        BY <1>1, <1>5, <3>3, OnGrows
      <4>2. ioIndex + 1 \notin On(i)
        BY <1>2, OnContext
      <4>3. IsFiniteSet(On(i)') /\ Cardinality(On(i)') = Cardinality(On(i)) + 1
        BY <3>1, <4>1, <4>2, FS_AddElement
      <4> QED
        BY <2>1, <3>1, <3>2, <3>3, <4>3
    <3>4. CASE i # NextIO
      <4>1. On(i)' = On(i)
        BY <1>1, <1>5, <3>4, OnGrows
      <4> QED
        BY <2>1, <3>1, <3>2, <3>4, <4>1
    <3> QED
      BY <3>3, <3>4
  <2> HIDE DEF after
  <2> QED
    BY <2>2, <2>3 DEF DealtOut, Context
<1> QED
  BY <1>4, <1>5, OneConnectionAtATime

\* No connection is dealt out at first.
LEMMA InitDealtOut == Init => DealtOut
<1> SUFFICES ASSUME Init PROVE DealtOut
  OBVIOUS
<1>1. ioIndex = 0 /\ DOMAIN conns = {}
  BY DEF Init
<1>2. NextIO = 0
  BY <1>1, Contexts DEF NextIO
<1>3. \A i \in Context : On(i) = {} /\ ~(i < NextIO)
  BY <1>1, <1>2, Contexts DEF On, Context
<1> QED
  BY <1>3, FS_EmptySet DEF DealtOut

\* IOService::nextIO() keeps the contexts within one connection of each other,
\* for every number of threads, listeners and connections.
THEOREM ConnectionsAreBalanced == Spec => []Balanced
<1>1. DealtOut => Balanced
  BY DEF DealtOut, Balanced
<1> QED
  BY <1>1, InitDealtOut, NextDealtOut, IInvHolds, PTL DEF Spec

(***************************************************************************)
(* OneToAccept.                                                            *)
(***************************************************************************)

\* What changing the state of connection c does to the connections that wait.
LEMMA RestatedWaits ==
    ASSUME NEW s \in Seq(ConnectionType), NEW c \in DOMAIN s, NEW st, st # "new",
           NEW l
    PROVE  LET t == [s EXCEPT ![c].st = st]
           IN  {d \in DOMAIN t : t[d].by = l /\ t[d].st = "new"}
                   = {d \in DOMAIN s : s[d].by = l /\ s[d].st = "new"} \ {c}
<1> DEFINE t == [s EXCEPT ![c].st = st]
<1>1. DOMAIN t = DOMAIN s
  OBVIOUS
<1>2. t[c] = [s[c] EXCEPT !.st = st] /\ \A d \in DOMAIN s : d # c => t[d] = s[d]
  OBVIOUS
<1>3. s[c] \in ConnectionType
  BY ElementOfSeq
<1>4. t[c].st = st
  BY <1>2, <1>3 DEF ConnectionType
<1> HIDE DEF t
<1> QED
  BY <1>1, <1>2, <1>4 DEF t

\* What a new connection of listener l does to them.
LEMMA AppendedWaits ==
    ASSUME NEW s \in Seq(ConnectionType), NEW new \in ConnectionType, new.st = "new", NEW l
    PROVE  {d \in DOMAIN Append(s, new) : Append(s, new)[d].by = l /\ Append(s, new)[d].st = "new"}
               = {d \in DOMAIN s : s[d].by = l /\ s[d].st = "new"}
                 \cup (IF new.by = l THEN {Len(s) + 1} ELSE {})
<1> DEFINE t == Append(s, new)
<1>1. /\ Len(s) \in Nat /\ DOMAIN s = 1..Len(s)
      /\ t \in Seq(ConnectionType) /\ Len(t) = Len(s) + 1
      /\ \A d \in 1..Len(s) : t[d] = s[d]
      /\ t[Len(s) + 1] = new
  BY AppendProperties, LenProperties
<1>2. DOMAIN t = (1..Len(s)) \cup {Len(s) + 1}
  BY <1>1
<1> HIDE DEF t
<1> QED
  BY <1>1, <1>2 DEF t

\* A listener that has started and not ended waits with one connection.
LEMMA WaitsWithOne ==
    ASSUME AcceptHolds, NEW l \in Listener, accept[l] \notin {"none", "dead"}
    PROVE  Waiting(l) \in DOMAIN conns /\ ToAccept(l) = {Waiting(l)}
<1>1. PICK c \in DOMAIN conns : ToAccept(l) = {c}
  BY DEF AcceptHolds
<1>2. Waiting(l) = c
  BY <1>1 DEF Waiting
<1> QED
  BY <1>1, <1>2

\* Nobody else waits with that connection.
LEMMA WaitsAlone ==
    ASSUME AcceptHolds, NEW l \in Listener, accept[l] \notin {"none", "dead"},
           NEW k \in Listener, k # l
    PROVE  Waiting(l) \notin ToAccept(k)
<1>1. Waiting(l) \in ToAccept(l)
  BY WaitsWithOne
<1> QED
  BY <1>1 DEF ToAccept

\* waitForConnection() leaves listener l with the new connection, and changes
\* nothing for the others.
LEMMA WaitForConnectionHolds ==
    ASSUME IInv, AcceptHolds, NEW l \in Listener, NEW before \in Seq(ConnectionType),
           {d \in DOMAIN before : before[d].by = l /\ before[d].st = "new"} = {},
           \A k \in Listener : k # l =>
               {d \in DOMAIN before : before[d].by = k /\ before[d].st = "new"} = ToAccept(k),
           DOMAIN before = DOMAIN conns,
           WaitForConnection(l, before)
    PROVE  AcceptHolds'
<1> DEFINE new == [io |-> NextIO, by |-> l, st |-> "new"]
<1>1. accept \in [Listener -> AcceptStates] /\ ioIndex \in Nat
  BY DEF IInv, TypeOK
<1>2. NextIO \in Context
  BY <1>1, Contexts DEF NextIO
<1>3. new \in ConnectionType /\ new.st = "new" /\ new.by = l
  BY <1>2 DEF ConnectionType
<1>4. conns' = Append(before, new) /\ accept' = [accept EXCEPT ![l] = "pending"]
  BY DEF WaitForConnection
<1> HIDE DEF new
<1>5. Len(before) \in Nat /\ DOMAIN before = 1..Len(before)
  BY LenProperties
<1>6. DOMAIN conns' = 1..Len(before) + 1
  BY <1>3, <1>4, <1>5, AppendProperties
<1>7. ToAccept(l)' = {Len(before) + 1}
  BY <1>3, <1>4, AppendedWaits DEF ToAccept
<1>8. \A k \in Listener : k # l => ToAccept(k)' = ToAccept(k)
  BY <1>3, <1>4, AppendedWaits DEF ToAccept
<1>9. ASSUME NEW k \in Listener
      PROVE  IF accept'[k] \in {"none", "dead"} THEN ToAccept(k)' = {}
             ELSE \E c \in DOMAIN conns' : ToAccept(k)' = {c}
  <2>1. CASE k = l
    BY <1>1, <1>4, <1>5, <1>6, <1>7, <2>1
  <2>2. CASE k # l
    <3>1. accept'[k] = accept[k] /\ ToAccept(k)' = ToAccept(k)
      BY <1>1, <1>4, <1>8, <2>2
    <3>2. DOMAIN conns \subseteq DOMAIN conns'
      BY <1>5, <1>6
    <3> QED
      BY <3>1, <3>2 DEF AcceptHolds
  <2> QED
    BY <2>1, <2>2
<1> QED
  BY <1>9 DEF AcceptHolds

\* The listeners keep one connection to accept with, or end.
LEMMA ListeningHolds ==
    ASSUME IInv, AcceptHolds, NEW l \in Listener, Listening(l)
    PROVE  AcceptHolds'
<1>t. conns \in Seq(ConnectionType) /\ accept \in [Listener -> AcceptStates]
  BY DEF IInv, TypeOK
<1>1. CASE Listen(l)
  <2>1. WaitForConnection(l, conns) /\ ToAccept(l) = {}
    BY <1>1 DEF Listen, AcceptHolds
  <2> QED
    BY <1>t, <2>1, WaitForConnectionHolds DEF ToAccept
<1>2. ASSUME NEW result \in {"ok", "error"}, AcceptDecided(l, result) PROVE AcceptHolds'
  <2>1. accept[l] = "pending" /\ accept' = [accept EXCEPT ![l] = result] /\ conns' = conns
    BY <1>2 DEF AcceptDecided
  <2>2. \A k \in Listener : accept'[k] \in {"none", "dead"} <=> accept[k] \in {"none", "dead"}
    BY <1>t, <2>1
  <2> QED
    BY <2>1, <2>2 DEF AcceptHolds, ToAccept
<1>3. CASE OnConnected(l)
  <2> DEFINE w == Waiting(l)
             before == [conns EXCEPT ![w].st = "reading"]
  <2>1. accept[l] \notin {"none", "dead"} /\ WaitForConnection(l, before)
    BY <1>3 DEF OnConnected
  <2>2. w \in DOMAIN conns /\ ToAccept(l) = {w}
    BY <2>1, WaitsWithOne
  <2>3. before \in Seq(ConnectionType) /\ DOMAIN before = DOMAIN conns
    BY <1>t, Restated
  <2>4. \A k \in Listener :
            {d \in DOMAIN before : before[d].by = k /\ before[d].st = "new"} = ToAccept(k) \ {w}
    BY <1>t, <2>2, RestatedWaits DEF ToAccept
  <2>5. \A k \in Listener : k # l => w \notin ToAccept(k)
    BY <2>1, WaitsAlone
  <2> HIDE DEF before, w
  <2> QED
    BY <2>1, <2>2, <2>3, <2>4, <2>5, WaitForConnectionHolds
<1>4. CASE OnConnectError(l)
  <2> DEFINE w == Waiting(l)
             after == [conns EXCEPT ![w].st = "gone"]
  <2>1. /\ accept[l] \notin {"none", "dead"}
        /\ accept' = [accept EXCEPT ![l] = "dead"]
        /\ conns' = after
    BY <1>4 DEF OnConnectError
  <2>2. w \in DOMAIN conns /\ ToAccept(l) = {w}
    BY <2>1, WaitsWithOne
  <2>3. DOMAIN after = DOMAIN conns
    BY <1>t, Restated
  <2>4. \A k \in Listener : ToAccept(k)' = ToAccept(k) \ {w}
    BY <1>t, <2>1, <2>2, RestatedWaits DEF ToAccept
  <2>5. \A k \in Listener : k # l => w \notin ToAccept(k)
    BY <2>1, WaitsAlone
  <2> HIDE DEF after, w
  <2>6. ASSUME NEW k \in Listener
        PROVE  IF accept'[k] \in {"none", "dead"} THEN ToAccept(k)' = {}
               ELSE \E c \in DOMAIN conns' : ToAccept(k)' = {c}
    <3>1. CASE k = l
      BY <1>t, <2>1, <2>2, <2>4, <3>1
    <3>2. CASE k # l
      BY <1>t, <2>1, <2>3, <2>4, <2>5, <3>2 DEF AcceptHolds
    <3> QED
      BY <3>1, <3>2
  <2> QED
    BY <2>6 DEF AcceptHolds
<1> QED
  BY <1>1, <1>2, <1>3, <1>4 DEF Listening

\* Every step keeps one connection to accept with.
LEMMA NextAcceptHolds == IInv /\ AcceptHolds /\ [Next]_vars => AcceptHolds'
<1> SUFFICES ASSUME IInv, AcceptHolds, [Next]_vars PROVE AcceptHolds'
  OBVIOUS
<1>1. ASSUME NEW c \in DOMAIN conns, PeerActs(c) \/ Serve(c) PROVE AcceptHolds'
  <2>1. conns \in Seq(ConnectionType)
    BY DEF IInv, TypeOK
  <2>2. PICK st \in {"readable", "served"} :
            conns[c].st # "new" /\ conns' = [conns EXCEPT ![c].st = st] /\ accept' = accept
    BY <1>1 DEF PeerActs, Serve
  <2>3. DOMAIN conns' = DOMAIN conns
    BY <2>2
  <2>4. \A l \in Listener : ToAccept(l)' = ToAccept(l) \ {c}
    BY <1>1, <2>1, <2>2, RestatedWaits DEF ToAccept
  <2>5. \A l \in Listener : c \notin ToAccept(l)
    BY <2>2 DEF ToAccept
  <2> QED
    BY <2>2, <2>3, <2>4, <2>5 DEF AcceptHolds
<1>2. CASE UNCHANGED <<conns, accept>>
  BY <1>2 DEF AcceptHolds, ToAccept
<1> QED
  BY <1>1, <1>2, ListeningHolds
     DEF Next, vars, Run, Running, Spawn, MainRunEnds, Join, ThreadEnds, StopCalled, StopNext

\* A listener always has exactly one connection ready for the next peer, until
\* an accept fails.
THEOREM OneConnectionToAccept == Spec => []OneToAccept
<1>1. Init => AcceptHolds
  BY DEF Init, AcceptHolds, ToAccept
<1>2. AcceptHolds => OneToAccept
  BY FS_EmptySet, FS_Singleton DEF AcceptHolds, OneToAccept
<1> QED
  BY <1>1, <1>2, NextAcceptHolds, IInvHolds, PTL DEF Spec

(***************************************************************************)
(* run() and stop() do not wait for each other.                            *)
(***************************************************************************)

\* Every step of run() keeps the threads in step with it.
LEMMA RunningInOrder ==
    ASSUME IInv, StopInOrder, Run \/ Running
    PROVE  StopInOrder'
<1>t. /\ main \in MainType /\ thread \in [Context -> ThreadStates]
      /\ NumThreads \in Nat /\ NumThreads > 0 /\ main.i \in 0..NumThreads
  BY Contexts DEF IInv, TypeOK, MainType
<1>1. UNCHANGED <<stopped, stopping>>
  BY DEF Run, Running, Spawn, ThreadEnds, MainRunEnds, Join
<1> USE DEF Context
<1>2. CASE Run
  BY <1>t, <1>1, <1>2 DEF Run, StopInOrder
<1>3. CASE Spawn
  <2>1. main.at = "spawning" /\ main.i # 0
    BY <1>3 DEF Spawn, StopInOrder
  <2>2. CASE main.i < NumThreads
    <3>1. /\ main'.at = "spawning" /\ main'.i = main.i + 1
          /\ thread' = [thread EXCEPT ![main.i] = "running"]
      BY <1>3, <1>t, <2>1, <2>2 DEF Spawn, MainType
    <3> QED
      BY <1>t, <1>1, <2>1, <2>2, <3>1 DEF StopInOrder
  <2>3. CASE ~(main.i < NumThreads)
    <3>1. main'.at = "running" /\ thread' = [thread EXCEPT ![0] = "running"]
      BY <1>3, <2>3 DEF Spawn
    <3> QED
      BY <1>t, <1>1, <2>1, <2>3, <3>1 DEF StopInOrder
  <2> QED
    BY <2>2, <2>3
<1>4. ASSUME NEW i \in Context, ThreadEnds(i) PROVE StopInOrder'
  BY <1>t, <1>1, <1>4 DEF ThreadEnds, StopInOrder
<1>5. CASE MainRunEnds
  BY <1>t, <1>1, <1>5 DEF MainRunEnds, StopInOrder
<1>6. CASE Join
  <2>1. main.at = "joining" /\ main'.at \in {"joining", "returned"}
    BY <1>6, <1>t DEF Join, MainType
  <2>2. CASE main.i < NumThreads
    <3>1. main'.i = main.i + 1 /\ thread' = [thread EXCEPT ![main.i] = "joined"]
      BY <1>6, <1>t, <2>2 DEF Join, MainType
    <3> QED
      BY <1>t, <1>1, <2>1, <2>2, <3>1 DEF StopInOrder
  <2>3. CASE ~(main.i < NumThreads)
    BY <1>t, <1>1, <1>6, <2>1, <2>3 DEF Join, StopInOrder, MainType
  <2> QED
    BY <2>2, <2>3
<1> QED
  BY <1>2, <1>3, <1>4, <1>5, <1>6 DEF Running

\* Every step keeps run() and stop() in order.
LEMMA NextStopInOrder == IInv /\ StopInOrder /\ [Next]_vars => StopInOrder'
<1> SUFFICES ASSUME IInv, StopInOrder, [Next]_vars PROVE StopInOrder'
  OBVIOUS
<1>t. /\ stopping \in StopType /\ stopped \in [Context -> BOOLEAN]
      /\ NumThreads \in Nat /\ NumThreads > 0
  BY Contexts DEF IInv, TypeOK
<1>1. CASE UNCHANGED <<main, thread, stopped, stopping>>
  BY <1>1 DEF StopInOrder
<1>2. CASE StopNext
  <2>1. /\ UNCHANGED <<main, thread>>
        /\ stopping.i \in Context
        /\ stopping'.i = stopping.i + 1
        /\ stopped' = [stopped EXCEPT ![stopping.i] = TRUE]
    BY <1>t, <1>2 DEF StopNext, StopType, Context
  <2>2. \A i \in Context : i < stopping'.i => stopped'[i]
    BY <1>t, <2>1 DEF StopInOrder, StopType, Context
  <2> QED
    BY <2>1, <2>2 DEF StopInOrder
<1>3. ASSUME NEW by, NEW i, StopCalled(by, i) PROVE StopInOrder'
  <2>1. stopping'.i = 0 /\ UNCHANGED <<main, thread, stopped>>
    BY <1>3 DEF StopCalled
  <2> QED
    BY <1>t, <2>1 DEF StopInOrder, Context
<1> QED
  BY <1>1, <1>2, <1>3, RunningInOrder
     DEF Next, vars, Listening, Listen, AcceptDecided, OnConnected, OnConnectError,
         PeerActs, Serve

\* After stop() was called, stop() goes on or run() does or the thread that
\* run() joins ends: no number of threads brings them to wait for each other.
THEOREM RunAndStopNeverBlock == Spec => []StopIsNotBlocked
<1>1. Init => StopInOrder
  BY Contexts DEF Init, StopInOrder, Context
<1>2. IInv /\ StopInOrder => StopIsNotBlocked
  <2> SUFFICES ASSUME IInv, StopInOrder, main.at \notin {"setup", "returned"}, ~StopGoesOn
               PROVE  MainGoesOn \/ AwaitedGoesOn
    BY DEF StopIsNotBlocked
  <2>t. /\ main \in MainType /\ main.i \in 0..NumThreads
        /\ thread \in [Context -> ThreadStates]
        /\ NumThreads \in Nat /\ 0 \in Context
        /\ stopping.i \in 0..NumThreads
    BY Contexts DEF IInv, TypeOK, MainType, StopType
  <2>1. \A i \in Context : stopped[i] /\ ~InStop(i)
    BY <2>t DEF StopGoesOn, StopInOrder, InStop, Context
  <2>2. main.at \in {"spawning", "running", "joining"}
    BY <2>t DEF MainType
  <2>3. CASE main.at = "joining" /\ main.i < NumThreads
    <3>1. main.i # 0 /\ main.i \in Context
      BY <2>t, <2>3 DEF IInv, RunInOrder, Context
    <3>2. thread[main.i] \in {"running", "ended"}
      BY <2>t, <2>3 DEF StopInOrder
    <3> QED
      BY <2>1, <2>3, <3>1, <3>2 DEF MainGoesOn, AwaitedGoesOn
  <2> QED
    BY <2>t, <2>1, <2>2, <2>3 DEF MainGoesOn
<1> QED
  BY <1>1, <1>2, NextStopInOrder, IInvHolds, PTL DEF Spec

=============================================================================
