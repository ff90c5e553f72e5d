--------------------------- MODULE GuestBookProofs ---------------------------
(***************************************************************************)
(* For any number of browsers and messages: the io threads never are       *)
(* inside GuestBookState together and never stuck, a message disappears    *)
(* only by a request of the administrator, although all threads use one    *)
(* Router, and the message that goes is the one the button was shown for.  *)
(***************************************************************************)
EXTENDS GuestBook, SequenceTheorems, FiniteSetTheorems, TLAPS

(***************************************************************************)
(* The inductive invariants that go with IInv.                             *)
(***************************************************************************)

Increasing(s) == \A i, j \in DOMAIN s : i < j => s[i] < s[j]

\* The page shows messages in the order they came, of the first n, and all that
\* there are now but those that came after the ones it shows.
Shows(page, now, n) ==
    /\ Increasing(page)
    /\ \A x \in Elements(page) : x <= n
    /\ \A m \in Elements(now) \ Elements(page) : \A x \in Elements(page) : x < m

\* What the messages, the pages and the delete buttons have to do with each other.
PagesInv ==
    /\ Shows(messages, messages, posted)
    /\ \A b \in Browser :
        LET request == tab[b].request IN
        /\ Shows(tab[b].buttons, messages, posted)
        /\ Shows(request.page, messages, posted)
        /\ request.page # <<>> => request.index + 1 \in DOMAIN request.page

\* The form fields that the pages have.
WellFormed(request) ==
    /\ request.path = "/" /\ request.method = "POST" => request.field \in {"text", "blank", "url"}
    /\ request.path = "/delete" /\ request.method = "POST" => request.field \in {"number", "word"}

\* Where the routing of a request may be, and what whoever is inside does there.
RoutingInv ==
    \A b \in Browser :
        /\ ~Idle(b) => tab[b].next \in {1, 2} /\ WellFormed(tab[b].request)
        /\ tab[b].st = "inside" => \E process \in Accesses : Accessing(b, process)
        /\ mutex = b => tab[b].st = "inside"

\* The type of a tab.
TabType ==
    [st : {"idle", "routing", "inside"}, request : RequestType,
     role : Role, next : Nat, buttons : Seq(Nat)]

\* The types of the variables, one by one.
LEMMA Types ==
  ASSUME IInv
  PROVE  /\ messages \in Seq(Nat)
         /\ mutex \in Browser \cup {Nobody}
         /\ posted \in Nat
         /\ cookie \in [Browser -> BOOLEAN]
         /\ tab \in [Browser -> TabType]
         /\ \A b \in Browser : tab[b].st = "inside" => mutex = b
         /\ \A b \in Browser : tab[b].role = "Admin" => cookie[b] /\ ~Idle(b)
BY DEF IInv, TypeOK, TabType

\* The empty page.
LEMMA Empty == <<>> \in Seq(Nat)
BY EmptySeq

\* The requests of a browser are requests.
LEMMA RequestsType == ASSUME IInv, NEW b \in Browser PROVE Requests(b) \subseteq RequestType
<1> DEFINE nothing == <<>>
<1>1. nothing \in Seq(Nat)
  BY Empty
<1>2. /\ tab[b].buttons \in Seq(Nat)
      /\ \A i \in DOMAIN tab[b].buttons : i - 1 \in Int
      /\ MaxMessages \in Int
  BY Types, GuestBookAssumption DEF TabType
<1>3. /\ \A path \in Path : Ask(path, "GET", "none", 0, nothing) \in RequestType
      /\ \A field \in {"text", "blank", "url"} : Ask("/", "POST", field, 0, nothing) \in RequestType
      /\ \A field \in {"right", "wrong"} : Ask("/login", "POST", field, 0, nothing) \in RequestType
      /\ \A i \in -1..MaxMessages : Ask("/delete", "POST", "number", i, nothing) \in RequestType
      /\ Ask("/delete", "POST", "word", 0, nothing) \in RequestType
  <2> HIDE DEF nothing
  <2> QED
    BY <1>1, <1>2 DEF Ask, RequestType, Path, Method
<1>4. \A i \in DOMAIN tab[b].buttons :
        Ask("/delete", "POST", "number", i - 1, tab[b].buttons) \in RequestType
  BY <1>2 DEF Ask, RequestType, Path, Method
<1> QED
  BY <1>3, <1>4 DEF Requests

\* A browser at rest has a tab without a request.
LEMMA ShowingType ==
  ASSUME NEW buttons \in Seq(Nat)
  PROVE  Showing(buttons) \in TabType /\ Showing(buttons).st = "idle" /\ Showing(buttons).role = "Guest"
<1> DEFINE nothing == <<>>
<1>1. nothing \in Seq(Nat)
  BY Empty
<1>2. NoRequest = [path |-> "/", method |-> "GET", field |-> "none", index |-> 0, page |-> nothing]
  BY DEF NoRequest
<1>3. NoRequest \in RequestType
  <2> HIDE DEF nothing
  <2> QED
    BY <1>1, <1>2 DEF RequestType, Path, Method
<1> QED
  BY <1>3 DEF Showing, TabType, Role

\* Nobody is inside at first, and nobody has a role.
LEMMA InitIInv == Init => IInv
<1> SUFFICES ASSUME Init PROVE IInv
  OBVIOUS
<1>1. <<>> \in Seq(Nat) /\ Showing(<<>>) \in TabType
      /\ Showing(<<>>).st = "idle" /\ Showing(<<>>).role = "Guest"
  BY Empty, ShowingType
<1>2. messages \in Seq(Nat) /\ tab \in [Browser -> TabType]
  BY <1>1 DEF Init
<1>3. TypeOK
  BY <1>2 DEF Init, TypeOK, TabType
<1> QED
  BY <1>1, <1>3 DEF Init, IInv

\* A thread outside GuestBookState changes its own tab alone: the invariant
\* stays, if the thread remains outside and its role is owed to the cookie.
LEMMA OutsideStep ==
  ASSUME IInv, NEW b \in Browser, NEW t \in TabType, t.st # "inside",
         tab' = [tab EXCEPT ![b] = t],
         cookie' \in [Browser -> BOOLEAN], \A c \in Browser \ {b} : cookie'[c] = cookie[c],
         t.role = "Admin" => cookie'[b] /\ t.st # "idle",
         UNCHANGED <<messages, mutex, posted>>
  PROVE  IInv'
<1>1. TypeOK'
  BY Types DEF TypeOK, TabType
<1>2. \A c \in Browser : tab'[c].st = "inside" => mutex' = c
  BY Types
<1>3. \A c \in Browser : tab'[c].role = "Admin" => cookie'[c] /\ tab'[c].st # "idle"
  BY Types DEF Idle
<1> QED
  BY <1>1, <1>2, <1>3 DEF IInv, Idle

\* A new request has no role yet.
LEMMA SubmitStep ==
  ASSUME IInv, NEW b \in Browser, NEW request \in Requests(b), Submit(b, request)
  PROVE  IInv'
<1> DEFINE nothing == <<>>
           t == [st |-> "routing", request |-> request, role |-> "Guest",
                 next |-> 1, buttons |-> nothing]
<1>1. nothing \in Seq(Nat) /\ request \in RequestType
  BY Empty, RequestsType
<1>2. tab' = [tab EXCEPT ![b] = t] /\ UNCHANGED <<messages, mutex, posted, cookie>>
  BY DEF Submit
<1>3. t \in TabType /\ t.st # "inside" /\ t.role # "Admin"
  <2> HIDE DEF nothing
  <2> QED
    BY <1>1 DEF TabType, Role
<1> HIDE DEF t
<1> QED
  BY <1>2, <1>3, OutsideStep, Types

\* The role comes from the cookie.
LEMMA AuthorizeAdminStep ==
  ASSUME IInv, NEW b \in Browser, AuthorizeAdmin(b)
  PROVE  IInv'
<1>1. PICK i \in DOMAIN Routes :
        tab' = [tab EXCEPT ![b].role = IF cookie[b] THEN "Admin" ELSE @, ![b].next = i + 1]
  BY DEF AuthorizeAdmin
<1>2. tab[b].st = "routing" /\ UNCHANGED <<messages, mutex, posted, cookie>>
  BY DEF AuthorizeAdmin
<1>3. i \in Nat
  BY DEF Routes
<1> DEFINE role == IF cookie[b] THEN "Admin" ELSE tab[b].role
           u == [tab[b] EXCEPT !.role = role]
           t == [u EXCEPT !.next = i + 1]
<1>4. tab[b] \in TabType /\ tab[b].st = "routing"
  BY <1>2, Types
<1>a. role \in Role
  <2>1. tab[b].role \in Role /\ "Admin" \in Role
    BY <1>4 DEF TabType, Role
  <2> QED
    BY <2>1
<1>5. t \in TabType /\ t.st = "routing" /\ t.role = role
  <2> HIDE DEF role
  <2>1. u \in TabType /\ u.st = "routing" /\ u.role = role
    BY <1>4, <1>a DEF TabType
  <2> HIDE DEF u
  <2> QED
    BY <1>3, <2>1 DEF TabType
<1>6. tab' = [tab EXCEPT ![b] = t]
  BY <1>1, Types DEF TabType
<1>7. t.role = "Admin" => cookie[b]
  BY <1>5, Types
<1> HIDE DEF t
<1> QED
  BY <1>2, <1>5, <1>6, <1>7, OutsideStep, Types

\* A response that needs no access to GuestBookState.
LEMMA AnswersStep ==
  ASSUME IInv, NEW b \in Browser, NEW process, Answers(b, process),
         cookie' \in [Browser -> BOOLEAN], \A c \in Browser \ {b} : cookie'[c] = cookie[c]
  PROVE  IInv'
<1>1. <<>> \in Seq(Nat)
  BY Empty
<1>2. tab' = [tab EXCEPT ![b] = Showing(<<>>)] /\ UNCHANGED <<messages, mutex, posted>>
  BY DEF Answers, Responds
<1>3. Showing(<<>>) \in TabType /\ Showing(<<>>).st = "idle" /\ Showing(<<>>).role = "Guest"
  BY <1>1, ShowingType
<1> QED
  BY <1>2, <1>3, OutsideStep

\* The mutex was free, so nobody else is inside.
LEMMA LockStep ==
  ASSUME IInv, NEW b \in Browser, Lock(b)
  PROVE  IInv'
<1>1. /\ mutex = Nobody /\ mutex' = b
      /\ tab' = [tab EXCEPT ![b].st = "inside"]
      /\ UNCHANGED <<messages, posted, cookie>>
  BY DEF Lock, Enters
<1>2. \E process : Processing(b, process)
  BY DEF Lock, Enters, NeedsState
<1>3. tab[b].st = "routing"
  BY <1>2 DEF Processing
<1>4. /\ tab' \in [Browser -> TabType]
      /\ tab'[b].st = "inside" /\ tab'[b].role = tab[b].role
      /\ \A c \in Browser : c # b => tab'[c] = tab[c]
  BY <1>1, Types DEF TabType
<1>5. TypeOK'
  BY <1>1, <1>4, Types DEF TypeOK, TabType
<1>6. \A c \in Browser : c # b => tab[c].st # "inside"
  BY <1>1, Types, GuestBookAssumption
<1> QED
  BY <1>1, <1>3, <1>4, <1>5, <1>6, Types DEF IInv, Idle

\* The end of an access: the thread gives the mutex back.
LEMMA AccessStep ==
  ASSUME IInv, NEW b \in Browser, tab[b].st = "inside", mutex' = Nobody,
         NEW buttons \in Seq(Nat), Responds(b, buttons), UNCHANGED cookie,
         messages' \in Seq(Nat), posted' \in Nat
  PROVE  IInv'
<1>1. /\ tab' = [tab EXCEPT ![b] = Showing(buttons)]
      /\ Showing(buttons) \in TabType
      /\ Showing(buttons).st = "idle" /\ Showing(buttons).role = "Guest"
  BY ShowingType DEF Responds
<1>2. /\ tab' \in [Browser -> TabType]
      /\ tab'[b].st = "idle" /\ tab'[b].role = "Guest"
      /\ \A c \in Browser : c # b => tab'[c] = tab[c]
  BY <1>1, Types
<1>3. TypeOK'
  BY <1>2, Types DEF TypeOK, TabType
<1>4. \A c \in Browser : c # b => tab[c].st # "inside"
  BY Types
<1> QED
  BY <1>2, <1>3, <1>4, Types DEF IInv, Idle

\* Taking one message out.
LEMMA WithoutType ==
  ASSUME NEW s \in Seq(Nat), NEW i \in 1..Len(s)
  PROVE  Without(s, i) \in Seq(Nat)
<1>1. SubSeq(s, 1, i - 1) \in Seq(Nat) /\ SubSeq(s, i + 1, Len(s)) \in Seq(Nat)
  OBVIOUS
<1> QED
  BY <1>1, ConcatProperties DEF Without

\* The three accesses.
LEMMA AccessesStep ==
  ASSUME IInv, NEW b \in Browser, Messages(b) \/ AddMessage(b) \/ RemoveMessage(b)
  PROVE  IInv'
<1>1. tab[b].st = "inside" /\ mutex' = Nobody /\ UNCHANGED cookie
  BY DEF Messages, AddMessage, RemoveMessage, Accessing
<1>2. CASE Messages(b)
  <2>1. Responds(b, Buttons(tab[b].role)) /\ UNCHANGED <<messages, posted>>
    BY <1>2 DEF Messages
  <2>2. Buttons(tab[b].role) \in Seq(Nat)
    BY Types, Empty DEF Buttons
  <2> QED
    BY <1>1, <2>1, <2>2, AccessStep, Types
<1>3. CASE AddMessage(b)
  <2>1. Responds(b, <<>>) /\ posted' = posted + 1 /\ messages' = Append(messages, posted + 1)
    BY <1>3 DEF AddMessage
  <2>2. posted' \in Nat /\ messages' \in Seq(Nat)
    BY <2>1, Types
  <2> QED
    BY <1>1, <2>1, <2>2, AccessStep, Empty
<1>4. CASE RemoveMessage(b)
  <2> DEFINE index == tab[b].request.index
  <2>1. /\ Responds(b, <<>>) /\ UNCHANGED posted
        /\ messages' = IF index < 0 \/ index >= Len(messages)
                       THEN messages ELSE Without(messages, index + 1)
    BY <1>4 DEF RemoveMessage
  <2>2. index \in Int
    BY Types DEF TabType, RequestType
  <2>3. messages' \in Seq(Nat)
    <3>1. CASE index < 0 \/ index >= Len(messages)
      BY <2>1, <3>1, Types
    <3>2. CASE ~(index < 0 \/ index >= Len(messages))
      <4>1. messages \in Seq(Nat) /\ index + 1 \in 1..Len(messages)
        BY <2>2, <3>2, Types
      <4>2. messages' = Without(messages, index + 1)
        BY <2>1, <3>2
      <4> HIDE DEF index
      <4> QED
        BY <4>1, <4>2, WithoutType
    <3> QED
      BY <3>1, <3>2
  <2> QED
    BY <1>1, <2>1, <2>3, AccessStep, Empty, Types
<1> QED
  BY <1>2, <1>3, <1>4

\* Every step preserves the invariant.
LEMMA NextIInv == IInv /\ [Next]_vars => IInv'
<1> SUFFICES ASSUME IInv, [Next]_vars PROVE IInv'
  OBVIOUS
<1>1. ASSUME NEW b \in Browser, NEW request \in Requests(b), Submit(b, request) PROVE IInv'
  BY <1>1, SubmitStep
<1>2. ASSUME NEW b \in Browser, Thread(b) PROVE IInv'
  <2>1. CASE AuthorizeAdmin(b)
    BY <2>1, AuthorizeAdminStep
  <2>2. CASE Lock(b)
    BY <2>2, LockStep
  <2>3. CASE Messages(b) \/ AddMessage(b) \/ RemoveMessage(b)
    BY <2>3, AccessesStep
  <2>4. CASE \/ Unauthorized(b) \/ NotFound(b) \/ ShowLoginPage(b)
             \/ RefuseMessage(b) \/ RefuseParameter(b)
    <3>1. UNCHANGED cookie /\ \E process : Answers(b, process)
      BY <2>4 DEF Unauthorized, NotFound, ShowLoginPage, RefuseMessage, RefuseParameter
    <3> QED
      BY <3>1, AnswersStep, Types
  <2>5. CASE LoginAdmin(b)
    <3>1. /\ Answers(b, "loginAdmin")
          /\ cookie' = [cookie EXCEPT ![b] = @ \/ tab[b].request.field = "right"]
      BY <2>5 DEF LoginAdmin
    <3>2. cookie' \in [Browser -> BOOLEAN] /\ \A c \in Browser \ {b} : cookie'[c] = cookie[c]
      BY <3>1, Types, Zenon
    <3> QED
      BY <3>1, <3>2, AnswersStep
  <2>6. CASE LogoutAdmin(b)
    <3>1. Answers(b, "logoutAdmin") /\ cookie' = [cookie EXCEPT ![b] = FALSE]
      BY <2>6 DEF LogoutAdmin
    <3>2. cookie' \in [Browser -> BOOLEAN] /\ \A c \in Browser \ {b} : cookie'[c] = cookie[c]
      BY <3>1, Types, Zenon
    <3> QED
      BY <3>1, <3>2, AnswersStep
  <2> QED
    BY <1>2, <2>1, <2>2, <2>3, <2>4, <2>5, <2>6 DEF Thread
<1>3. CASE UNCHANGED vars
  BY <1>3 DEF vars, IInv, TypeOK, Idle
<1> QED
  BY <1>1, <1>2, <1>3 DEF Next

\* The io threads are never inside GuestBookState together.
THEOREM NoDataRaces == Spec => []NoDataRace
<1>1. IInv => NoDataRace
  BY DEF IInv, NoDataRace
<1> QED
  BY <1>1, InitIInv, NextIInv, PTL DEF Spec

\* The route to removeMessage() asks for the role Admin.
LEMMA RemoveRoute ==
  ASSUME NEW i \in DOMAIN Routes, Routes[i].process = "removeMessage"
  PROVE  Routes[i].roles = {"Admin"}
BY DEF Routes, Route

\* Who removes a message has the cookie, and is answered by that.
LEMMA RemovedByAdmin ==
  ASSUME IInv, NEW b \in Browser, RemoveMessage(b)
  PROVE  cookie[b] /\ ~Idle(b) /\ Idle(b)'
<1>1. PICK i \in DOMAIN Routes : At(b, i, "removeMessage")
  BY DEF RemoveMessage, Accessing
<1>2. tab[b].role \in Routes[i].roles
  BY <1>1 DEF At, IsNext, Matches, MatchesRole
<1>3. tab[b].role = "Admin"
  BY <1>1, <1>2, RemoveRoute DEF At
<1>4. Showing(<<>>).st = "idle" /\ tab' = [tab EXCEPT ![b] = Showing(<<>>)]
  BY Empty, ShowingType DEF RemoveMessage, Responds
<1> QED
  BY <1>3, <1>4, Types DEF Idle

\* Every other step keeps the messages.
LEMMA MessagesKept ==
  ASSUME IInv, [Next]_vars
  PROVE  \/ Elements(messages) \subseteq Elements(messages')
         \/ \E b \in Browser : RemoveMessage(b)
<1>1. CASE UNCHANGED messages
  BY <1>1
<1>2. ASSUME NEW b \in Browser, AddMessage(b) PROVE Elements(messages) \subseteq Elements(messages')
  <2>1. messages' = Append(messages, posted + 1) /\ messages \in Seq(Nat) /\ posted + 1 \in Nat
    BY <1>2, Types DEF AddMessage
  <2>2. \A i \in DOMAIN messages : i \in DOMAIN messages' /\ messages'[i] = messages[i]
    BY <2>1
  <2> QED
    BY <2>2 DEF Elements
<1>3. \/ UNCHANGED messages
      \/ \E b \in Browser : AddMessage(b) \/ RemoveMessage(b)
  <2>1. ASSUME NEW b \in Browser, NEW request, Submit(b, request) PROVE UNCHANGED messages
    BY <2>1 DEF Submit
  <2>2. ASSUME NEW b \in Browser, Thread(b)
        PROVE  UNCHANGED messages \/ AddMessage(b) \/ RemoveMessage(b)
    BY <2>2 DEF Thread, AuthorizeAdmin, Unauthorized, NotFound, ShowLoginPage, LoginAdmin,
                LogoutAdmin, RefuseMessage, RefuseParameter, Answers, Lock, Enters, Messages
  <2>3. UNCHANGED vars => UNCHANGED messages
    BY DEF vars
  <2> QED
    BY <2>1, <2>2, <2>3 DEF Next
<1> QED
  BY <1>1, <1>2, <1>3

\* A message disappears only by a request of the administrator.
THEOREM AdminsDeleteOnly == Spec => OnlyAdminsDelete
<1>1. IInv /\ [Next]_vars
        => [Elements(messages) \subseteq Elements(messages')
              \/ \E b \in Browser : cookie[b] /\ ~Idle(b) /\ Idle(b)']_vars
  BY MessagesKept, RemovedByAdmin
<1> QED
  BY <1>1, InitIInv, NextIInv, PTL DEF Spec, OnlyAdminsDelete

(***************************************************************************)
(* A delete button removes the message it was shown for.                   *)
(***************************************************************************)

\* In a sequence that increases, elements are in the order of their positions.
LEMMA PositionOrder ==
  ASSUME NEW s \in Seq(Nat), Increasing(s)
  PROVE  \A i, j \in DOMAIN s : s[i] <= s[j] <=> i <= j
<1>1. DOMAIN s = 1..Len(s) /\ \A j \in DOMAIN s : s[j] \in Nat
  BY LenProperties, ElementOfSeq
<1> QED
  BY <1>1 DEF Increasing

\* In a sequence that increases, an element's position is the number of elements
\* up to it.
LEMMA PositionCounts ==
  ASSUME NEW s \in Seq(Nat), Increasing(s), NEW k \in 1..Len(s)
  PROVE  Cardinality({x \in Elements(s) : x <= s[k]}) = k
<1> DEFINE upTo == {x \in Elements(s) : x <= s[k]}
           f == [j \in 1..k |-> s[j]]
<1>1. /\ DOMAIN s = 1..Len(s) /\ Len(s) \in Nat /\ k \in Nat
      /\ \A j \in 1..k : j \in DOMAIN s
      /\ \A j \in DOMAIN s : s[j] \in Nat
  BY LenProperties, ElementOfSeq
<1>2. \A i, j \in DOMAIN s : s[i] <= s[j] <=> i <= j
  BY PositionOrder
<1>3. \A j \in 1..k : s[j] \in upTo
  BY <1>1, <1>2 DEF Elements
<1>4. \A i, j \in 1..k : f[i] = f[j] => i = j
  BY <1>1, <1>2
<1>5. \A x \in upTo : \E j \in 1..k : f[j] = x
  <2> SUFFICES ASSUME NEW x \in upTo PROVE \E j \in 1..k : f[j] = x
    OBVIOUS
  <2>1. PICK j \in DOMAIN s : s[j] = x
    BY DEF Elements
  <2>2. s[j] <= s[k] /\ k \in DOMAIN s
    BY <1>1, <2>1
  <2>3. j \in 1..k
    BY <1>1, <1>2, <2>2
  <2> QED
    BY <2>1, <2>3
<1>6. f \in Bijection(1..k, upTo)
  <2>1. f \in [1..k -> upTo]
    BY <1>3
  <2> HIDE DEF upTo, f
  <2> QED
    BY <1>4, <1>5, <2>1 DEF Bijection, Injection, Surjection, IsInjective
<1>7. ExistsBijection(1..k, upTo)
  BY <1>6 DEF ExistsBijection
<1> HIDE DEF upTo
<1>8. Cardinality(upTo) = k
  BY <1>1, <1>7, FS_CountingElements
<1> QED
  BY <1>8 DEF upTo

\* What is left when one message is taken out.
LEMMA WithoutProperties ==
  ASSUME NEW s \in Seq(Nat), NEW i \in 1..Len(s)
  PROVE  /\ Without(s, i) \in Seq(Nat)
         /\ Len(Without(s, i)) = Len(s) - 1
         /\ \A j \in 1..Len(s) - 1 : Without(s, i)[j] = IF j < i THEN s[j] ELSE s[j + 1]
<1> DEFINE front == SubSeq(s, 1, i - 1)
           back  == SubSeq(s, i + 1, Len(s))
<1>1. Len(s) \in Nat /\ i \in Int /\ \A j \in 1..Len(s) : s[j] \in Nat
  BY LenProperties, ElementOfSeq
<1>2. /\ front \in Seq(Nat) /\ Len(front) = i - 1
      /\ \A j \in 1..i - 1 : front[j] = s[j]
  <2>1. \A j \in 1..i - 1 : s[j] \in Nat
    BY <1>1
  <2> QED
    BY <1>1, <2>1, SubSeqProperties
<1>3. /\ back \in Seq(Nat) /\ Len(back) = Len(s) - i
      /\ \A j \in 1..Len(s) - i : back[j] = s[i + j]
  <2>1. \A j \in i + 1..Len(s) : s[j] \in Nat
    BY <1>1
  <2>2. /\ SubSeq(s, i + 1, Len(s)) \in Seq(Nat)
        /\ Len(SubSeq(s, i + 1, Len(s))) = IF i + 1 <= Len(s) THEN Len(s) - (i + 1) + 1 ELSE 0
        /\ \A j \in 1..Len(s) - (i + 1) + 1 : SubSeq(s, i + 1, Len(s))[j] = s[i + 1 + j - 1]
    BY <1>1, <2>1, SubSeqProperties
  <2> QED
    BY <1>1, <2>2
<1> HIDE DEF front, back
<1>4. /\ front \o back \in Seq(Nat)
      /\ Len(front \o back) = Len(s) - 1
      /\ \A j \in 1..Len(s) - 1 :
            (front \o back)[j] = IF j <= i - 1 THEN front[j] ELSE back[j - (i - 1)]
  <2>1. /\ front \o back \in Seq(Nat)
        /\ Len(front \o back) = Len(front) + Len(back)
        /\ \A j \in 1..Len(front) + Len(back) :
              (front \o back)[j] = IF j <= Len(front) THEN front[j] ELSE back[j - Len(front)]
    BY <1>2, <1>3, ConcatProperties
  <2>2. Len(front) + Len(back) = Len(s) - 1
    BY <1>1, <1>2, <1>3
  <2> QED
    BY <1>2, <2>1, <2>2
<1>5. \A j \in 1..Len(s) - 1 : (front \o back)[j] = IF j < i THEN s[j] ELSE s[j + 1]
  <2> SUFFICES ASSUME NEW j \in 1..Len(s) - 1
               PROVE  (front \o back)[j] = IF j < i THEN s[j] ELSE s[j + 1]
    OBVIOUS
  <2>1. (front \o back)[j] = IF j <= i - 1 THEN front[j] ELSE back[j - (i - 1)]
    BY <1>4
  <2>2. CASE j < i
    <3>1. j <= i - 1 /\ j \in 1..i - 1
      BY <1>1, <2>2
    <3> QED
      BY <1>2, <2>1, <2>2, <3>1
  <2>3. CASE ~(j < i)
    <3>1. ~(j <= i - 1) /\ j - (i - 1) \in 1..Len(s) - i /\ i + (j - (i - 1)) = j + 1
      BY <1>1, <2>3
    <3>2. back[j - (i - 1)] = s[i + (j - (i - 1))]
      BY <1>3, <3>1
    <3> QED
      BY <2>1, <2>3, <3>1, <3>2
  <2> QED
    BY <2>2, <2>3
<1>6. Without(s, i) = front \o back
  BY DEF Without, front, back
<1> QED
  BY <1>4, <1>5, <1>6

\* Taking a message out of messages in order takes out that one only, and the
\* order stays.
LEMMA WithoutOne ==
  ASSUME NEW s \in Seq(Nat), Increasing(s), NEW i \in 1..Len(s)
  PROVE  /\ Elements(Without(s, i)) = Elements(s) \ {s[i]}
         /\ Increasing(Without(s, i))
<1> DEFINE w == Without(s, i)
<1>1. /\ w \in Seq(Nat) /\ Len(w) = Len(s) - 1
      /\ \A j \in 1..Len(s) - 1 : w[j] = IF j < i THEN s[j] ELSE s[j + 1]
  BY WithoutProperties
<1> HIDE DEF w
<1>2. /\ DOMAIN w = 1..Len(s) - 1 /\ DOMAIN s = 1..Len(s) /\ Len(s) \in Nat
      /\ \A j \in DOMAIN s : s[j] \in Nat
  BY <1>1, LenProperties, ElementOfSeq
<1>3. Increasing(w)
  <2> SUFFICES ASSUME NEW j \in DOMAIN w, NEW k \in DOMAIN w, j < k PROVE w[j] < w[k]
    BY DEF Increasing
  <2> DEFINE from(n) == IF n < i THEN n ELSE n + 1
  <2>1. from(j) \in DOMAIN s /\ from(k) \in DOMAIN s /\ from(j) < from(k)
    BY <1>2
  <2>2. w[j] = s[from(j)] /\ w[k] = s[from(k)]
    BY <1>1, <1>2
  <2> HIDE DEF from
  <2> QED
    BY <2>1, <2>2 DEF Increasing
<1>4. \A j \in DOMAIN s : j # i => s[j] # s[i]
  BY <1>2 DEF Increasing
<1>5. ASSUME NEW j \in DOMAIN w PROVE w[j] \in Elements(s) \ {s[i]}
  <2>1. \E k \in DOMAIN s : k # i /\ w[j] = s[k]
    <3>1. CASE j < i
      <4>1. j \in DOMAIN s /\ j # i /\ w[j] = s[j]
        BY <1>1, <1>2, <3>1
      <4> QED
        BY <4>1
    <3>2. CASE ~(j < i)
      <4>1. j + 1 \in DOMAIN s /\ j + 1 # i /\ w[j] = s[j + 1]
        BY <1>1, <1>2, <3>2
      <4> QED
        BY <4>1
    <3> QED
      BY <3>1, <3>2
  <2> QED
    BY <1>4, <2>1 DEF Elements
<1>6. ASSUME NEW k \in DOMAIN s, k # i PROVE s[k] \in Elements(w)
  <2>1. CASE k < i
    <3>1. k \in DOMAIN w /\ w[k] = s[k]
      BY <1>1, <1>2, <2>1
    <3> QED
      BY <3>1 DEF Elements
  <2>2. CASE ~(k < i)
    <3>1. k - 1 \in 1..Len(s) - 1 /\ ~(k - 1 < i) /\ k - 1 + 1 = k
      BY <1>2, <1>6, <2>2
    <3>2. k - 1 \in DOMAIN w /\ w[k - 1] = s[k]
      BY <1>1, <1>2, <3>1
    <3> QED
      BY <3>2 DEF Elements
  <2> QED
    BY <2>1, <2>2
<1>7. Elements(w) = Elements(s) \ {s[i]}
  BY <1>5, <1>6 DEF Elements
<1> QED
  BY <1>3, <1>7 DEF w

\* A message is still where the page p shows it, in s, when the messages above
\* it are still there and what else is in s came later.
LEMMA StillInPlace ==
  ASSUME NEW s \in Seq(Nat), NEW p \in Seq(Nat), Increasing(s), Increasing(p),
         \A m \in Elements(s) \ Elements(p) : \A x \in Elements(p) : x < m,
         NEW i \in 1..Len(p), Elements(SubSeq(p, 1, i)) \subseteq Elements(s)
  PROVE  i \in 1..Len(s) /\ s[i] = p[i]
<1> DEFINE shown == {x \in Elements(p) : x <= p[i]}
           there == {m \in Elements(s) : m <= p[i]}
<1>1. /\ DOMAIN s = 1..Len(s) /\ DOMAIN p = 1..Len(p) /\ Len(p) \in Nat /\ i \in Nat
      /\ (\A j \in DOMAIN s : s[j] \in Nat) /\ (\A j \in DOMAIN p : p[j] \in Nat)
      /\ i \in DOMAIN p
  BY LenProperties, ElementOfSeq
<1>2. \A j, k \in DOMAIN p : p[j] <= p[k] <=> j <= k
  BY PositionOrder
<1>3. \A j \in 1..i : p[j] \in Elements(s)
  <2> SUFFICES ASSUME NEW j \in 1..i PROVE p[j] \in Elements(s)
    OBVIOUS
  <2>1. \A k \in 1..i : p[k] \in Nat
    BY <1>1
  <2>2. /\ SubSeq(p, 1, i) \in Seq(Nat) /\ Len(SubSeq(p, 1, i)) = i
        /\ SubSeq(p, 1, i)[j] = p[j]
    BY <1>1, <2>1, SubSeqProperties
  <2> DEFINE above == SubSeq(p, 1, i)
  <2>3. above \in Seq(Nat) /\ Len(above) = i /\ above[j] = p[j]
    BY <2>2
  <2>4. Elements(above) \subseteq Elements(s)
    OBVIOUS
  <2> HIDE DEF above
  <2>5. j \in DOMAIN above
    BY <2>3, LenProperties
  <2> QED
    BY <2>3, <2>4, <2>5 DEF Elements
<1>4. shown = there
  <2>1. ASSUME NEW x \in shown PROVE x \in there
    <3>1. PICK j \in DOMAIN p : p[j] = x
      BY DEF Elements
    <3>2. p[j] <= p[i]
      BY <3>1
    <3>3. j \in 1..i
      BY <1>1, <1>2, <3>2
    <3> QED
      BY <1>3, <3>1, <3>2, <3>3
  <2>2. ASSUME NEW m \in there PROVE m \in shown
    <3>1. m \in Nat /\ m <= p[i] /\ p[i] \in Nat /\ p[i] \in Elements(p)
      BY <1>1 DEF Elements
    <3>2. m \in Elements(p)
      BY <3>1
    <3> QED
      BY <3>1, <3>2
  <2> QED
    BY <2>1, <2>2
<1>5. PICK k \in DOMAIN s : s[k] = p[i]
  <2>1. p[i] \in Elements(s)
    BY <1>1, <1>3
  <2> QED
    BY <2>1 DEF Elements
<1>6. Cardinality(shown) = i
  BY PositionCounts
<1>7. Cardinality(there) = k
  BY <1>1, <1>5, PositionCounts
<1> QED
  BY <1>1, <1>4, <1>5, <1>6, <1>7

\* A page is still right when messages were removed.
LEMMA ShowsFewer ==
  ASSUME NEW page, NEW now, NEW later, NEW n,
         Shows(page, now, n), Elements(later) \subseteq Elements(now)
  PROVE  Shows(page, later, n)
BY DEF Shows

\* A page is still right when a message was added: it is newer than all shown.
LEMMA ShowsNewer ==
  ASSUME NEW page \in Seq(Nat), NEW now \in Seq(Nat), NEW later, NEW n \in Nat,
         Shows(page, now, n), Elements(later) = Elements(now) \cup {n + 1}
  PROVE  Shows(page, later, n + 1)
<1>1. \A x \in Elements(page) : x \in Nat
  BY ElementOfSeq, LenProperties DEF Elements
<1> QED
  BY <1>1 DEF Shows

\* The empty page is right at any time.
LEMMA ShowsNothing == ASSUME NEW now, NEW n PROVE Shows(<<>>, now, n)
BY DEF Shows, Increasing, Elements

\* A button of the page is a position on it.
ButtonOf(request) == request.page # <<>> => request.index + 1 \in DOMAIN request.page

\* The parts of the invariant, for one browser.
LEMMA PagesFacts ==
  ASSUME PagesInv
  PROVE  /\ Shows(messages, messages, posted)
         /\ \A b \in Browser : /\ Shows(tab[b].buttons, messages, posted)
                               /\ Shows(tab[b].request.page, messages, posted)
                               /\ ButtonOf(tab[b].request)
BY DEF PagesInv, ButtonOf

\* The pages of the browsers that do not act stay right when every page does.
LEMMA PagesStep ==
  ASSUME IInv, PagesInv, NEW b \in Browser, NEW t,
         tab' = [tab EXCEPT ![b] = t],
         Shows(messages', messages', posted'),
         \A page \in Seq(Nat) : Shows(page, messages, posted) => Shows(page, messages', posted'),
         Shows(t.buttons, messages', posted'),
         Shows(t.request.page, messages', posted'),
         ButtonOf(t.request)
  PROVE  PagesInv'
<1>1. \A c \in Browser : tab'[c] = IF c = b THEN t ELSE tab[c]
  BY Types
<1>2. \A c \in Browser : tab[c].buttons \in Seq(Nat) /\ tab[c].request.page \in Seq(Nat)
  BY Types DEF TabType, RequestType
<1>3. ASSUME NEW c \in Browser
      PROVE  /\ Shows(tab'[c].buttons, messages', posted')
             /\ Shows(tab'[c].request.page, messages', posted')
             /\ ButtonOf(tab'[c].request)
  <2>1. CASE c = b
    BY <1>1, <2>1
  <2>2. CASE c # b
    <3>1. tab'[c] = tab[c]
      BY <1>1, <2>2
    <3> QED
      BY <1>2, <3>1, PagesFacts
  <2> QED
    BY <2>1, <2>2
<1> QED
  BY <1>3 DEF PagesInv, ButtonOf

\* The browser that is answered shows what the response has.
LEMMA ShowingFacts ==
  ASSUME NEW buttons
  PROVE  /\ Showing(buttons).buttons = buttons
         /\ Showing(buttons).request.page = <<>>
         /\ ButtonOf(Showing(buttons).request)
BY DEF Showing, NoRequest, ButtonOf

\* The new message is the last one and the newest.
LEMMA AddedLast ==
  ASSUME NEW s \in Seq(Nat), NEW n \in Nat, Shows(s, s, n)
  PROVE  /\ Elements(Append(s, n + 1)) = Elements(s) \cup {n + 1}
         /\ Shows(Append(s, n + 1), Append(s, n + 1), n + 1)
<1> DEFINE more == Append(s, n + 1)
<1>1. /\ more \in Seq(Nat) /\ Len(more) = Len(s) + 1 /\ Len(s) \in Nat
      /\ \A i \in 1..Len(s) : more[i] = s[i]
      /\ more[Len(s) + 1] = n + 1
  BY AppendProperties, LenProperties
<1> HIDE DEF more
<1>2. /\ DOMAIN more = 1..Len(s) + 1 /\ DOMAIN s = 1..Len(s)
      /\ \A i \in DOMAIN s : s[i] \in Nat /\ s[i] <= n
  BY <1>1, LenProperties, ElementOfSeq DEF Shows, Elements
<1>3. Elements(more) = Elements(s) \cup {n + 1}
  <2>1. ASSUME NEW i \in DOMAIN more PROVE more[i] \in Elements(s) \cup {n + 1}
    <3>1. i \in DOMAIN s \/ i = Len(s) + 1
      BY <1>1, <1>2
    <3> QED
      BY <1>1, <1>2, <3>1 DEF Elements
  <2>2. ASSUME NEW i \in DOMAIN s PROVE s[i] \in Elements(more)
    <3>1. i \in DOMAIN more /\ more[i] = s[i]
      BY <1>1, <1>2
    <3> QED
      BY <3>1 DEF Elements
  <2>3. n + 1 \in Elements(more)
    <3>1. Len(s) + 1 \in DOMAIN more
      BY <1>1, <1>2
    <3> QED
      BY <1>1, <3>1 DEF Elements
  <2> QED
    BY <2>1, <2>2, <2>3 DEF Elements
<1>4. Increasing(more)
  <2> SUFFICES ASSUME NEW i \in DOMAIN more, NEW j \in DOMAIN more, i < j
               PROVE  more[i] < more[j]
    BY DEF Increasing
  <2>1. i \in DOMAIN s /\ more[i] = s[i]
    BY <1>1, <1>2
  <2>2. CASE j \in DOMAIN s
    <3>1. more[j] = s[j]
      BY <1>1, <1>2, <2>2
    <3> QED
      BY <2>1, <2>2, <3>1 DEF Shows, Increasing
  <2>3. CASE j = Len(s) + 1
    <3>1. s[i] \in Nat /\ s[i] <= n /\ more[j] = n + 1
      BY <1>1, <1>2, <2>1, <2>3
    <3> QED
      BY <2>1, <3>1
  <2> QED
    BY <1>1, <1>2, <2>2, <2>3
<1>5. \A x \in Elements(more) : x <= n + 1
  <2>1. \A x \in Elements(s) : x \in Nat /\ x <= n
    BY <1>2 DEF Elements
  <2> QED
    BY <1>3, <2>1
<1>6. Shows(more, more, n + 1)
  BY <1>4, <1>5 DEF Shows
<1> QED
  BY <1>3, <1>6 DEF more

\* A delete button that is pressed belongs to the page that is shown.
LEMMA SubmitPages ==
  ASSUME IInv, PagesInv, NEW b \in Browser, NEW request \in Requests(b), Submit(b, request)
  PROVE  PagesInv'
<1> DEFINE t == [st |-> "routing", request |-> request, role |-> "Guest", next |-> 1,
                 buttons |-> <<>>]
<1>1. tab' = [tab EXCEPT ![b] = t] /\ messages' = messages /\ posted' = posted
  BY DEF Submit
<1>2. t.buttons = <<>> /\ t.request = request
  OBVIOUS
<1> HIDE DEF t
<1>3. \/ request.page = <<>>
      \/ \E i \in DOMAIN tab[b].buttons : request.page = tab[b].buttons /\ request.index = i - 1
  BY DEF Requests, Ask
<1>4. Shows(request.page, messages, posted) /\ ButtonOf(request)
  <2>1. CASE request.page = <<>>
    BY <2>1, ShowsNothing DEF ButtonOf
  <2>2. ASSUME NEW i \in DOMAIN tab[b].buttons,
               request.page = tab[b].buttons, request.index = i - 1
        PROVE  Shows(request.page, messages, posted) /\ ButtonOf(request)
    <3>1. i \in Int
      BY Types, LenProperties DEF TabType
    <3>2. request.index + 1 = i
      BY <2>2, <3>1
    <3> QED
      BY <2>2, <3>2, PagesFacts DEF ButtonOf
  <2> QED
    BY <1>3, <2>1, <2>2
<1> QED
  BY <1>1, <1>2, <1>4, PagesStep, PagesFacts, ShowsNothing

\* A thread that goes on with its request keeps its page.
LEMMA GoesOnPages ==
  ASSUME IInv, PagesInv, NEW b \in Browser, AuthorizeAdmin(b) \/ Lock(b)
  PROVE  PagesInv'
<1>1. messages' = messages /\ posted' = posted
  BY DEF AuthorizeAdmin, Lock, Enters
<1>2. \A c \in Browser : tab'[c].buttons = tab[c].buttons /\ tab'[c].request = tab[c].request
  <2>1. CASE AuthorizeAdmin(b)
    <3>1. PICK i \in DOMAIN Routes :
            tab' = [tab EXCEPT ![b].role = IF cookie[b] THEN "Admin" ELSE @, ![b].next = i + 1]
      BY <2>1 DEF AuthorizeAdmin
    <3> QED
      BY <3>1, Types DEF TabType
  <2>2. CASE Lock(b)
    BY <2>2, Types DEF Lock, Enters, TabType
  <2> QED
    BY <2>1, <2>2
<1> QED
  BY <1>1, <1>2 DEF PagesInv

\* A response to one browser leaves the pages of the others as right as they were.
LEMMA RespondsPages ==
  ASSUME IInv, PagesInv, NEW b \in Browser, NEW buttons, Responds(b, buttons),
         Shows(messages', messages', posted'),
         \A page \in Seq(Nat) : Shows(page, messages, posted) => Shows(page, messages', posted'),
         Shows(buttons, messages', posted')
  PROVE  PagesInv'
<1>1. tab' = [tab EXCEPT ![b] = Showing(buttons)]
  BY DEF Responds
<1> QED
  BY <1>1, ShowingFacts, ShowsNothing, PagesStep

\* The accesses to the messages.
LEMMA AccessPages ==
  ASSUME IInv, PagesInv, NEW b \in Browser, Messages(b) \/ AddMessage(b) \/ RemoveMessage(b)
  PROVE  PagesInv'
<1>t. messages \in Seq(Nat) /\ posted \in Nat
  BY Types
<1>1. CASE Messages(b)
  <2>1. Responds(b, Buttons(tab[b].role)) /\ messages' = messages /\ posted' = posted
    BY <1>1 DEF Messages
  <2>2. Shows(Buttons(tab[b].role), messages, posted)
    BY PagesFacts, ShowsNothing DEF Buttons
  <2> QED
    BY <2>1, <2>2, PagesFacts, RespondsPages
<1>2. CASE AddMessage(b)
  <2>1. /\ Responds(b, <<>>) /\ posted' = posted + 1
        /\ messages' = Append(messages, posted + 1)
    BY <1>2 DEF AddMessage
  <2>2. /\ Elements(messages') = Elements(messages) \cup {posted + 1}
        /\ Shows(messages', messages', posted')
    BY <1>t, <2>1, PagesFacts, AddedLast
  <2>3. \A page \in Seq(Nat) : Shows(page, messages, posted) => Shows(page, messages', posted')
    BY <1>t, <2>1, <2>2, ShowsNewer
  <2> QED
    BY <2>1, <2>2, <2>3, ShowsNothing, RespondsPages
<1>3. CASE RemoveMessage(b)
  <2> DEFINE index == tab[b].request.index
  <2>1. /\ Responds(b, <<>>) /\ posted' = posted
        /\ messages' = IF index < 0 \/ index >= Len(messages)
                       THEN messages ELSE Without(messages, index + 1)
    BY <1>3 DEF RemoveMessage
  <2>2. index \in Int
    BY Types DEF TabType, RequestType
  <2> HIDE DEF index
  <2>3. Elements(messages') \subseteq Elements(messages) /\ Increasing(messages')
    <3>1. Increasing(messages)
      BY PagesFacts DEF Shows
    <3>2. CASE messages' = messages
      BY <3>1, <3>2
    <3>3. CASE messages' = Without(messages, index + 1) /\ ~(index < 0 \/ index >= Len(messages))
      <4>1. index + 1 \in 1..Len(messages)
        BY <1>t, <2>2, <3>3
      <4> QED
        BY <1>t, <3>1, <3>3, <4>1, WithoutOne
    <3> QED
      BY <2>1, <3>2, <3>3
  <2>4. Shows(messages', messages', posted')
    BY <2>1, <2>3, PagesFacts DEF Shows
  <2>5. \A page \in Seq(Nat) : Shows(page, messages, posted) => Shows(page, messages', posted')
    BY <2>1, <2>3, ShowsFewer
  <2> QED
    BY <2>1, <2>4, <2>5, ShowsNothing, RespondsPages
<1> QED
  BY <1>1, <1>2, <1>3

\* Every step keeps messages, pages and buttons in agreement.
LEMMA NextPages == IInv /\ PagesInv /\ [Next]_vars => PagesInv'
<1> SUFFICES ASSUME IInv, PagesInv, [Next]_vars PROVE PagesInv'
  OBVIOUS
<1>1. ASSUME NEW b \in Browser, NEW request \in Requests(b), Submit(b, request) PROVE PagesInv'
  BY <1>1, SubmitPages
<1>2. ASSUME NEW b \in Browser, Thread(b) PROVE PagesInv'
  <2>1. CASE AuthorizeAdmin(b) \/ Lock(b)
    BY <2>1, GoesOnPages
  <2>2. CASE Messages(b) \/ AddMessage(b) \/ RemoveMessage(b)
    BY <2>2, AccessPages
  <2>3. ASSUME NEW process, Answers(b, process) PROVE PagesInv'
    <3>1. Responds(b, <<>>) /\ messages' = messages /\ posted' = posted
      BY <2>3 DEF Answers
    <3> QED
      BY <3>1, PagesFacts, ShowsNothing, RespondsPages
  <2> QED
    BY <1>2, <2>1, <2>2, <2>3 DEF Thread, Unauthorized, NotFound, ShowLoginPage, LoginAdmin,
                                  LogoutAdmin, RefuseMessage, RefuseParameter
<1>3. CASE UNCHANGED vars
  BY <1>3 DEF vars, PagesInv
<1> QED
  BY <1>1, <1>2, <1>3 DEF Next

\* The message that is removed is the one the button was shown for.
LEMMA RemovesShown ==
  ASSUME IInv, PagesInv, NEW b \in Browser, RemoveMessage(b),
         tab[b].request.page # <<>>,
         Elements(SubSeq(tab[b].request.page, 1, tab[b].request.index + 1))
            \subseteq Elements(messages)
  PROVE  Elements(messages') = Elements(messages) \ {tab[b].request.page[tab[b].request.index + 1]}
<1> DEFINE page == tab[b].request.page
           i == tab[b].request.index + 1
<1>1. /\ messages \in Seq(Nat) /\ page \in Seq(Nat) /\ tab[b].request.index \in Int
  BY Types DEF TabType, RequestType
<1>2. /\ Increasing(messages) /\ Increasing(page)
      /\ \A m \in Elements(messages) \ Elements(page) : \A x \in Elements(page) : x < m
      /\ i \in DOMAIN page
  BY PagesFacts DEF Shows, ButtonOf
<1>3. i \in 1..Len(page) /\ Elements(SubSeq(page, 1, i)) \subseteq Elements(messages)
  BY <1>1, <1>2, LenProperties
<1>4. messages' = IF tab[b].request.index < 0 \/ tab[b].request.index >= Len(messages)
                  THEN messages ELSE Without(messages, i)
  BY DEF RemoveMessage
<1>5. i \in Int /\ tab[b].request.index = i - 1
  BY <1>1
<1> HIDE DEF page, i
<1>6. i \in 1..Len(messages) /\ messages[i] = page[i]
  BY <1>1, <1>2, <1>3, StillInPlace
<1>7. messages' = Without(messages, i)
  <2>1. Len(messages) \in Nat
    BY <1>1, LenProperties
  <2> QED
    BY <1>4, <1>5, <1>6, <2>1
<1>8. Elements(Without(messages, i)) = Elements(messages) \ {messages[i]}
  BY <1>1, <1>2, <1>6, WithoutOne
<1> QED
  BY <1>6, <1>7, <1>8 DEF page, i

\* A delete button removes the message it was shown for, however many messages
\* and administrators there are and whatever was posted since, unless somebody
\* removed a message above it.
THEOREM ButtonsDeleteWhatWasShown == Spec => DeletesWhatWasShown
<1>1. Init => PagesInv
  <2>1. Init => messages = <<>> /\ \A b \in Browser : tab[b] = Showing(<<>>)
    BY DEF Init
  <2> QED
    BY <2>1, ShowsNothing, ShowingFacts DEF PagesInv, ButtonOf
<1>2. IInv /\ PagesInv =>
        \A b \in Browser :
          LET page == tab[b].request.page
              i    == tab[b].request.index + 1
          IN  RemoveMessage(b) /\ page # <<>>
              /\ Elements(SubSeq(page, 1, i)) \subseteq Elements(messages)
                => Elements(messages') = Elements(messages) \ {page[i]}
  BY RemovesShown
<1> QED
  BY <1>1, <1>2, InitIInv, NextIInv, NextPages, PTL DEF Spec, DeletesWhatWasShown

(***************************************************************************)
(* No request gets stuck.                                                  *)
(***************************************************************************)

\* The table of routes, line by line.
LEMMA RouteTable ==
  /\ DOMAIN Routes = 1..9 /\ Len(Routes) = 9
  /\ Routes[1] = Route(Path, Method, Role, "authorizeAdmin")
  /\ Routes[2] = Route({"/"}, {"GET"}, Role, "showGuestBookPage")
  /\ Routes[3] = Route({"/"}, {"POST"}, Role, "addMessage")
  /\ Routes[4] = Route({"/delete"}, {"POST"}, {"Admin"}, "removeMessage")
  /\ Routes[5] = Route({"/delete"}, {"POST"}, {"Guest"}, "401")
  /\ Routes[6] = Route({"/login"}, {"GET"}, {"Guest"}, "showLoginPage")
  /\ Routes[7] = Route({"/login"}, {"POST"}, {"Guest"}, "loginAdmin")
  /\ Routes[8] = Route({"/logout"}, Method, Role, "logoutAdmin")
  /\ Routes[9] = Route(Path, Method, Role, "404")
BY DEF Routes

\* The processor of each route.
LEMMA ProcessTable ==
  /\ Routes[1].process = "authorizeAdmin" /\ Routes[2].process = "showGuestBookPage"
  /\ Routes[3].process = "addMessage"     /\ Routes[4].process = "removeMessage"
  /\ Routes[5].process = "401"            /\ Routes[6].process = "showLoginPage"
  /\ Routes[7].process = "loginAdmin"     /\ Routes[8].process = "logoutAdmin"
  /\ Routes[9].process = "404"
BY RouteTable DEF Route

\* Which requests each route matches.
LEMMA MatchTable ==
  ASSUME NEW r \in RequestType, NEW role \in Role
  PROVE  /\ Matches(Routes[1], r, role)
         /\ Matches(Routes[2], r, role) <=> r.path = "/" /\ r.method = "GET"
         /\ Matches(Routes[3], r, role) <=> r.path = "/" /\ r.method = "POST"
         /\ Matches(Routes[4], r, role)
              <=> r.path = "/delete" /\ r.method = "POST" /\ role = "Admin"
         /\ Matches(Routes[5], r, role)
              <=> r.path = "/delete" /\ r.method = "POST" /\ role = "Guest"
         /\ Matches(Routes[6], r, role)
              <=> r.path = "/login" /\ r.method = "GET" /\ role = "Guest"
         /\ Matches(Routes[7], r, role)
              <=> r.path = "/login" /\ r.method = "POST" /\ role = "Guest"
         /\ Matches(Routes[8], r, role) <=> r.path = "/logout"
         /\ Matches(Routes[9], r, role)
<1>1. r.path \in Path /\ r.method \in Method /\ role \in Role
  BY DEF RequestType
<1>2. ASSUME NEW paths, NEW methods, NEW roles, NEW process
      PROVE  Matches(Route(paths, methods, roles, process), r, role)
                <=> r.path \in paths /\ r.method \in methods /\ role \in roles
  BY DEF Matches, MatchesMethod, MatchesRole, Route
<1> QED
  BY <1>1, <1>2, RouteTable

\* Wherever the routing is, it comes to some route next; the last one takes
\* every request.
LEMMA SomeRouteIsNext ==
  ASSUME NEW t \in TabType, t.next \in {1, 2}
  PROVE  \E i \in DOMAIN Routes : IsNext(t, i)
<1> DEFINE r == t.request
           M(i) == Matches(Routes[i], r, t.role)
<1>1. r \in RequestType /\ t.role \in Role
  BY DEF TabType
<1>2. DOMAIN Routes = 1..9 /\ Len(Routes) = 9 /\ M(1) /\ M(9)
  BY <1>1, RouteTable, MatchTable
<1> HIDE DEF M
<1>3. \E i \in 1..9 : i >= t.next /\ M(i) /\ \A j \in t.next..i - 1 : ~M(j)
  <2>1. CASE t.next = 1
    <3>1. 1 >= t.next /\ \A j \in t.next..1 - 1 : ~M(j)
      BY <2>1
    <3> QED
      BY <1>2, <3>1
  <2>2. CASE t.next = 2
    <3>1. ASSUME NEW i \in 2..9, M(i), \A j \in 2..8 : j < i => ~M(j)
          PROVE  \E k \in 1..9 : k >= t.next /\ M(k) /\ \A j \in t.next..k - 1 : ~M(j)
      <4>1. i \in 1..9 /\ i >= t.next /\ \A j \in t.next..i - 1 : ~M(j)
        BY <2>2, <3>1
      <4> QED
        BY <3>1, <4>1
    <3>2. \E i \in 2..9 : M(i) /\ \A j \in 2..8 : j < i => ~M(j)
      <4>1. \A j \in 2..8 : j = 2 \/ j = 3 \/ j = 4 \/ j = 5 \/ j = 6 \/ j = 7 \/ j = 8
        OBVIOUS
      <4>2. CASE M(2)
        BY <4>1, <4>2
      <4>3. CASE M(3) /\ ~M(2)
        BY <4>1, <4>3
      <4>4. CASE M(4) /\ ~M(2) /\ ~M(3)
        BY <4>1, <4>4
      <4>5. CASE M(5) /\ ~M(2) /\ ~M(3) /\ ~M(4)
        BY <4>1, <4>5
      <4>6. CASE M(6) /\ ~M(2) /\ ~M(3) /\ ~M(4) /\ ~M(5)
        BY <4>1, <4>6
      <4>7. CASE M(7) /\ ~M(2) /\ ~M(3) /\ ~M(4) /\ ~M(5) /\ ~M(6)
        BY <4>1, <4>7
      <4>8. CASE M(8) /\ ~M(2) /\ ~M(3) /\ ~M(4) /\ ~M(5) /\ ~M(6) /\ ~M(7)
        BY <4>1, <4>8
      <4>9. CASE ~M(2) /\ ~M(3) /\ ~M(4) /\ ~M(5) /\ ~M(6) /\ ~M(7) /\ ~M(8)
        BY <1>2, <4>1, <4>9
      <4> QED
        BY <4>2, <4>3, <4>4, <4>5, <4>6, <4>7, <4>8, <4>9
    <3> QED
      BY <3>1, <3>2
  <2> QED
    BY <2>1, <2>2
<1>4. PICK i \in 1..9 : i >= t.next /\ M(i) /\ \A j \in t.next..i - 1 : ~M(j)
  BY <1>3
<1>5. i \in t.next..9
  BY <1>4
<1> QED
  BY <1>2, <1>4, <1>5 DEF IsNext, M

\* A request that is routed has a processor that can take its next step, or that
\* needs the mutex first.
LEMMA RoutedGoesOn ==
  ASSUME IInv, NEW b \in Browser, tab[b].st = "routing", tab[b].next \in {1, 2},
         WellFormed(tab[b].request)
  PROVE  NeedsNothing(b) \/ NeedsState(b)
<1>1. tab[b] \in TabType /\ tab[b].request \in RequestType /\ tab[b].role \in Role
  BY Types DEF TabType
<1>2. PICK i \in DOMAIN Routes : IsNext(tab[b], i)
  BY <1>1, SomeRouteIsNext
<1>3. Processing(b, Routes[i].process) /\ Matches(Routes[i], tab[b].request, tab[b].role)
  BY <1>2 DEF Processing, At, IsNext
<1>4. i \in 1..9
  BY <1>2, RouteTable
<1>5. CASE Routes[i].process \notin Accesses
  BY <1>2, <1>3, <1>5 DEF NeedsNothing
<1>6. CASE Routes[i].process \in Accesses
  <2>1. i = 2 \/ i = 3 \/ i = 4
    <3>1. \/ i = 1 \/ i = 2 \/ i = 3 \/ i = 4 \/ i = 5 \/ i = 6 \/ i = 7 \/ i = 8 \/ i = 9
      BY <1>4
    <3> QED
      BY <1>6, <3>1, ProcessTable DEF Accesses
  <2>2. CASE i = 2
    BY <1>3, <2>2, ProcessTable DEF NeedsState
  <2>3. CASE i = 3
    <3>1. tab[b].request.path = "/" /\ tab[b].request.method = "POST"
      BY <1>1, <1>3, <2>3, MatchTable
    <3> QED
      BY <1>3, <2>3, <3>1, ProcessTable DEF WellFormed, NeedsState, NeedsNothing
  <2>4. CASE i = 4
    <3>1. tab[b].request.path = "/delete" /\ tab[b].request.method = "POST"
      BY <1>1, <1>3, <2>4, MatchTable
    <3> QED
      BY <1>3, <2>4, <3>1, ProcessTable DEF WellFormed, NeedsState, NeedsNothing
  <2> QED
    BY <2>1, <2>2, <2>3, <2>4
<1> QED
  BY <1>5, <1>6

\* What the invariant says of one tab.
RoutedTab(t) ==
  /\ t.st # "idle" => t.next \in {1, 2} /\ WellFormed(t.request)
  /\ t.st = "inside" => \E i \in DOMAIN Routes : Routes[i].process \in Accesses /\ IsNext(t, i)

\* The invariant is made up of them, before and after a step.
LEMMA RoutingParts ==
  /\ RoutingInv <=> \A b \in Browser : RoutedTab(tab[b]) /\ (mutex = b => tab[b].st = "inside")
  /\ RoutingInv' <=> \A b \in Browser : RoutedTab(tab'[b]) /\ (mutex' = b => tab'[b].st = "inside")
BY DEF RoutingInv, RoutedTab, Idle, Accessing, At

\* A step of one browser, which comes out with the mutex only if it is inside.
LEMMA RoutingStep ==
  ASSUME IInv, RoutingInv, NEW b \in Browser, NEW t, RoutedTab(t),
         tab' = [tab EXCEPT ![b] = t],
         mutex' \in {mutex, b, Nobody}, mutex' = b => t.st = "inside"
  PROVE  RoutingInv'
<1>1. \A c \in Browser : tab'[c] = IF c = b THEN t ELSE tab[c]
  BY Types
<1>2. \A c \in Browser : c # b /\ mutex' = c => mutex = c
  BY GuestBookAssumption
<1> QED
  BY <1>1, <1>2, RoutingParts

\* A tab at rest has nothing to be routed.
LEMMA ShowingRouted == ASSUME NEW buttons PROVE RoutedTab(Showing(buttons)) /\ Showing(buttons).st = "idle"
BY DEF RoutedTab, Showing

\* The requests that users make have the fields their processors read.
LEMMA RequestsWellFormed ==
  ASSUME NEW b \in Browser, NEW request \in Requests(b)
  PROVE  WellFormed(request)
BY DEF Requests, Ask, WellFormed, Path

\* Every step keeps every request on its way.
LEMMA NextRouting == IInv /\ RoutingInv /\ [Next]_vars => RoutingInv'
<1> SUFFICES ASSUME IInv, RoutingInv, [Next]_vars PROVE RoutingInv'
  OBVIOUS
<1>t. \A b \in Browser : /\ tab[b] \in TabType /\ RoutedTab(tab[b])
                         /\ mutex = b => tab[b].st = "inside"
  BY Types, RoutingParts
<1>1. ASSUME NEW b \in Browser, NEW request \in Requests(b), Submit(b, request) PROVE RoutingInv'
  <2> DEFINE t == [st |-> "routing", request |-> request, role |-> "Guest", next |-> 1,
                   buttons |-> <<>>]
  <2>1. tab' = [tab EXCEPT ![b] = t] /\ mutex' = mutex /\ tab[b].st = "idle"
    BY <1>1 DEF Submit, Idle
  <2>2. RoutedTab(t)
    BY RequestsWellFormed DEF RoutedTab
  <2> HIDE DEF t
  <2> QED
    BY <1>t, <2>1, <2>2, RoutingStep
<1>2. ASSUME NEW b \in Browser, Thread(b) PROVE RoutingInv'
  <2>1. CASE AuthorizeAdmin(b)
    <3>1. PICK i \in DOMAIN Routes :
            /\ At(b, i, "authorizeAdmin")
            /\ tab' = [tab EXCEPT ![b].role = IF cookie[b] THEN "Admin" ELSE @, ![b].next = i + 1]
      BY <2>1 DEF AuthorizeAdmin
    <3>2. tab[b].st = "routing" /\ mutex' = mutex
      BY <2>1 DEF AuthorizeAdmin
    <3>3. i = 1
      <4>1. \/ i = 1 \/ i = 2 \/ i = 3 \/ i = 4 \/ i = 5 \/ i = 6 \/ i = 7 \/ i = 8 \/ i = 9
        BY <3>1, RouteTable
      <4> QED
        BY <3>1, <4>1, ProcessTable DEF At
    <3> DEFINE u == [tab[b] EXCEPT !.role = IF cookie[b] THEN "Admin" ELSE tab[b].role]
               t == [u EXCEPT !.next = i + 1]
    <3>4. /\ t.st = "routing" /\ t.next = 2 /\ t.request = tab[b].request
          /\ tab' = [tab EXCEPT ![b] = t]
      <4>1. tab' = [tab EXCEPT ![b] = t]
        BY <3>1, Types DEF TabType
      <4>2. /\ u.st = "routing" /\ u.request = tab[b].request
            /\ DOMAIN u = {"st", "request", "role", "next", "buttons"}
        BY <1>t, <3>2 DEF TabType
      <4> HIDE DEF u
      <4> QED
        BY <3>3, <4>1, <4>2
    <3> HIDE DEF t
    <3>5. RoutedTab(t)
      BY <1>t, <3>2, <3>4 DEF RoutedTab
    <3> QED
      BY <1>t, <3>2, <3>4, <3>5, RoutingStep
  <2>2. CASE Lock(b)
    <3>1. mutex' = b /\ tab' = [tab EXCEPT ![b].st = "inside"] /\ NeedsState(b)
      BY <2>2 DEF Lock, Enters
    <3>2. PICK i \in DOMAIN Routes : Routes[i].process \in Accesses /\ IsNext(tab[b], i)
      BY <3>1 DEF NeedsState, Processing, At, Accesses
    <3>3. tab[b].st = "routing"
      BY <3>1 DEF NeedsState, Processing
    <3> DEFINE t == [tab[b] EXCEPT !.st = "inside"]
    <3>4. /\ t.st = "inside" /\ t.next = tab[b].next /\ t.request = tab[b].request
          /\ t.role = tab[b].role /\ tab' = [tab EXCEPT ![b] = t]
      BY <1>t, <3>1 DEF TabType
    <3> HIDE DEF t
    <3>5. IsNext(t, i)
      BY <3>2, <3>4 DEF IsNext
    <3>6. RoutedTab(t)
      BY <1>t, <3>2, <3>3, <3>4, <3>5 DEF RoutedTab
    <3> QED
      BY <3>1, <3>4, <3>6, RoutingStep
  <2>3. ASSUME NEW buttons, Responds(b, buttons), mutex' \in {mutex, Nobody}, mutex' # b
        PROVE  RoutingInv'
    <3>1. tab' = [tab EXCEPT ![b] = Showing(buttons)]
      BY <2>3 DEF Responds
    <3> QED
      BY <2>3, <3>1, ShowingRouted, RoutingStep
  <2>4. CASE Messages(b) \/ AddMessage(b) \/ RemoveMessage(b)
    BY <2>3, <2>4, GuestBookAssumption DEF Messages, AddMessage, RemoveMessage
  <2>5. ASSUME NEW process, Answers(b, process) PROVE RoutingInv'
    <3>1. Responds(b, <<>>) /\ mutex' = mutex /\ tab[b].st = "routing"
      BY <2>5 DEF Answers, Processing
    <3>2. mutex' # b
      BY <1>t, <3>1
    <3> QED
      BY <2>3, <3>1, <3>2
  <2> QED
    BY <1>2, <2>1, <2>2, <2>4, <2>5 DEF Thread, Unauthorized, NotFound, ShowLoginPage, LoginAdmin,
                                        LogoutAdmin, RefuseMessage, RefuseParameter
<1>3. CASE UNCHANGED vars
  BY <1>3, RoutingParts DEF vars
<1> QED
  BY <1>1, <1>2, <1>3 DEF Next

\* Every request that a thread works for can be taken one step further, by the
\* thread itself or by the one it waits for, whatever the other threads do: the
\* routes leave no request out, and no access ends with the mutex taken.
THEOREM RequestsAreNeverStuck == Spec => []NobodyStuck
<1>1. Init => RoutingInv
  <2> SUFFICES ASSUME Init PROVE RoutingInv
    OBVIOUS
  <2>1. \A b \in Browser : tab[b] = Showing(<<>>) /\ mutex # b
    BY GuestBookAssumption DEF Init
  <2> QED
    BY <2>1, ShowingRouted, RoutingParts
<1>2. IInv /\ RoutingInv => NobodyStuck
  <2> SUFFICES ASSUME IInv, RoutingInv, NEW b \in Browser
               PROVE  /\ ~Idle(b) => \/ NeedsNothing(b)
                                     \/ NeedsState(b)
                                     \/ \E process \in Accesses : Accessing(b, process)
                      /\ mutex = b => \E process \in Accesses : Accessing(b, process)
    BY DEF NobodyStuck
  <2>1. tab[b].st \in {"idle", "routing", "inside"}
    BY Types DEF TabType
  <2>2. CASE tab[b].st = "routing"
    BY <2>2, RoutedGoesOn DEF RoutingInv, Idle
  <2> QED
    BY <2>1, <2>2 DEF RoutingInv, Idle
<1> QED
  BY <1>1, <1>2, InitIInv, NextIInv, NextRouting, PTL DEF Spec

=============================================================================
