------------------------------ MODULE GuestBook ------------------------------
(***************************************************************************)
(* The guest book of the README (examples/example_guestbook.cpp): the      *)
(* routes of a Router with a RouteContext, the request processors behind   *)
(* them and GuestBookState, which the io threads share under a mutex.      *)
(*                                                                         *)
(* Every browser has one request under way at most, and there are no more  *)
(* browsers than io threads, so a request has a thread of its own.  All    *)
(* processors are synchronous: the queue of a request is never suspended.  *)
(* A message is the number of its arrival; markup and wording are left     *)
(* out.                                                                    *)
(***************************************************************************)
EXTENDS Integers, Sequences, FiniteSets

CONSTANTS
    Browser,      \* the browsers, no more than io threads
    Nobody,       \* the owner of a free mutex
    MaxMessages   \* bound: messages posted

ASSUME GuestBookAssumption == MaxMessages \in Nat /\ Nobody \notin Browser

VARIABLES
    messages,  \* GuestBookState::messages_
    mutex,     \* GuestBookState::mutex_: who holds it
    posted,    \* history: messages that were added
    cookie,    \* each browser's admin_id cookie is the secret
    tab        \* what each browser shows, and its request while one is under way

vars == <<messages, mutex, posted, cookie, tab>>

Role == {"Admin", "Guest"}
Method == {"GET", "POST"}
Path == {"/", "/delete", "/login", "/logout", "/other"}

\* `field` stands for the form fields or the route parameter: what a posted
\* message is like, whether the password is right, whether the parameter is a
\* number.  `page` is the page whose button was pressed, if any.
RequestType ==
    [path : Path, method : Method,
     field : {"none", "text", "blank", "url", "right", "wrong", "number", "word"},
     index : Int, page : Seq(Nat)]

NoRequest == [path |-> "/", method |-> "GET", field |-> "none", index |-> 0, page |-> <<>>]

(***************************************************************************)
(* Routing.  The matchers of a route are evaluated when its turn comes, in *)
(* the order of registration: a role is matched against the context as the *)
(* processors before have left it.                                         *)
(***************************************************************************)
Route(paths, methods, roles, process) ==
    [paths |-> paths, methods |-> methods, roles |-> roles, process |-> process]

\* main(): the routes, in the order they are registered.
Routes ==
    << Route(Path, Method, Role, "authorizeAdmin"),
       Route({"/"}, {"GET"}, Role, "showGuestBookPage"),
       Route({"/"}, {"POST"}, Role, "addMessage"),
       Route({"/delete"}, {"POST"}, {"Admin"}, "removeMessage"),
       Route({"/delete"}, {"POST"}, {"Guest"}, "401"),
       Route({"/login"}, {"GET"}, {"Guest"}, "showLoginPage"),
       Route({"/login"}, {"POST"}, {"Guest"}, "loginAdmin"),
       Route({"/logout"}, Method, Role, "logoutAdmin"),
       Route(Path, Method, Role, "404") >>

\* RouteMatcher<http::RequestMethod>.
MatchesMethod(route, request) == request.method \in route.methods

\* Mutant: the role a route asks for is not looked at.
MatchesAnyRole(route, role) == TRUE

\* RouteMatcher<AccessRole, RouteContext>.
MatchesRole(route, role) == role \in route.roles

Matches(route, request, role) ==
    /\ request.path \in route.paths
    /\ MatchesMethod(route, request)
    /\ MatchesRole(route, role)

\* The routing comes to route i next; the last one matches every request.
IsNext(t, i) ==
    /\ i \in t.next..Len(Routes)
    /\ Matches(Routes[i], t.request, t.role)
    /\ \A j \in t.next..i - 1 : ~Matches(Routes[j], t.request, t.role)

-----------------------------------------------------------------------------

\* A browser at rest that shows a page with these delete buttons.
Showing(buttons) ==
    [st |-> "idle", request |-> NoRequest, role |-> "Guest", next |-> 1, buttons |-> buttons]

\* The cookie may be left from before the program was started.
Init ==
    /\ messages = <<>>
    /\ mutex = Nobody
    /\ posted = 0
    /\ cookie \in [Browser -> BOOLEAN]
    /\ tab = [b \in Browser |-> Showing(<<>>)]

Idle(b) == tab[b].st = "idle"

\* Requests a client can make: links and forms of the pages, a delete button, or
\* anything it puts together itself, a deletion by any index above all.
Ask(path, method, field, index, page) ==
    [path |-> path, method |-> method, field |-> field, index |-> index, page |-> page]

Requests(b) ==
    {Ask(path, "GET", "none", 0, <<>>) : path \in Path}
    \cup {Ask("/", "POST", field, 0, <<>>) : field \in {"text", "blank", "url"}}
    \cup {Ask("/login", "POST", field, 0, <<>>) : field \in {"right", "wrong"}}
    \cup {Ask("/delete", "POST", "number", i - 1, tab[b].buttons) : i \in DOMAIN tab[b].buttons}
    \cup {Ask("/delete", "POST", "number", i, <<>>) : i \in -1..MaxMessages}
    \cup {Ask("/delete", "POST", "word", 0, <<>>)}

\* The bound MaxMessages.
Room ==
    posted + Cardinality({b \in Browser : tab[b].request.field = "text"}) < MaxMessages

\* The request reaches the router, with a new RouteContext.
Submit(b, request) ==
    /\ Idle(b)
    /\ request.field = "text" => Room
    /\ tab' = [tab EXCEPT ![b] = [st |-> "routing", request |-> request, role |-> "Guest",
                                  next |-> 1, buttons |-> <<>>]]
    /\ UNCHANGED <<messages, mutex, posted, cookie>>

\* The route that comes next has this processor.
At(b, i, process) == Routes[i].process = process /\ IsNext(tab[b], i)

Processing(b, process) ==
    /\ tab[b].st = "routing"
    /\ \E i \in DOMAIN Routes : At(b, i, process)

\* Mutant: the routing starts over after a processor that has not answered.
AuthorizeAdminAgain(b) ==
    /\ Processing(b, "authorizeAdmin")
    /\ tab' = [tab EXCEPT ![b].role = IF cookie[b] THEN "Admin" ELSE @,
                          ![b].next = 1]
    /\ UNCHANGED <<messages, mutex, posted, cookie>>

\* authorizeAdmin(): no response, so that the router goes on.
AuthorizeAdmin(b) ==
    /\ tab[b].st = "routing"
    /\ \E i \in DOMAIN Routes :
        /\ At(b, i, "authorizeAdmin")
        /\ tab' = [tab EXCEPT ![b].role = IF cookie[b] THEN "Admin" ELSE @,
                              ![b].next = i + 1]
    /\ UNCHANGED <<messages, mutex, posted, cookie>>

\* The response reaches the browser, which shows it.
Responds(b, buttons) == tab' = [tab EXCEPT ![b] = Showing(buttons)]

Answers(b, process) ==
    /\ Processing(b, process)
    /\ Responds(b, <<>>)
    /\ UNCHANGED <<messages, mutex, posted>>

Unauthorized(b) == Answers(b, "401") /\ UNCHANGED cookie

NotFound(b) == Answers(b, "404") /\ UNCHANGED cookie

ShowLoginPage(b) == Answers(b, "showLoginPage") /\ UNCHANGED cookie

\* Both redirect; only the right password sets the cookie.
LoginAdmin(b) ==
    /\ Answers(b, "loginAdmin")
    /\ cookie' = [cookie EXCEPT ![b] = @ \/ tab[b].request.field = "right"]

LogoutAdmin(b) ==
    /\ Answers(b, "logoutAdmin")
    /\ cookie' = [cookie EXCEPT ![b] = FALSE]

\* addMessage(): redirects to an error without touching the state.
RefuseMessage(b) ==
    /\ tab[b].request.field \in {"blank", "url"}
    /\ Answers(b, "addMessage")
    /\ UNCHANGED cookie

\* The route parameter is not a number: Router::onRouteParametersError().
RefuseParameter(b) ==
    /\ tab[b].request.field = "word"
    /\ Answers(b, "removeMessage")
    /\ UNCHANGED cookie

(***************************************************************************)
(* GuestBookState.  The mutex is held from the beginning to the end of an  *)
(* access.                                                                 *)
(***************************************************************************)
Accessing(b, process) ==
    /\ tab[b].st = "inside"
    /\ \E i \in DOMAIN Routes : At(b, i, process)

\* The processor that comes next needs the messages.
NeedsState(b) ==
    \/ Processing(b, "showGuestBookPage")
    \/ Processing(b, "addMessage") /\ tab[b].request.field = "text"
    \/ Processing(b, "removeMessage") /\ tab[b].request.field = "number"

Enters(b) ==
    /\ NeedsState(b)
    /\ tab' = [tab EXCEPT ![b].st = "inside"]
    /\ UNCHANGED <<messages, posted, cookie>>

\* Mutant: no scoped_lock.
LockNothing(b) ==
    /\ Enters(b)
    /\ mutex' = b

Lock(b) ==
    /\ mutex = Nobody
    /\ Enters(b)
    /\ mutex' = b

\* makeMessagesDiv(): a delete button for every message, if the role is Admin.
Buttons(role) == IF role = "Admin" THEN messages ELSE <<>>

\* showGuestBookPage(), with a copy of the messages.
Messages(b) ==
    /\ Accessing(b, "showGuestBookPage")
    /\ mutex' = Nobody
    /\ Responds(b, Buttons(tab[b].role))
    /\ UNCHANGED <<messages, posted, cookie>>

\* Mutant: the newest message comes first.
AddMessageInFront(b) ==
    /\ Accessing(b, "addMessage")
    /\ mutex' = Nobody
    /\ messages' = <<posted + 1>> \o messages
    /\ posted' = posted + 1
    /\ Responds(b, <<>>)
    /\ UNCHANGED cookie

AddMessage(b) ==
    /\ Accessing(b, "addMessage")
    /\ mutex' = Nobody
    /\ messages' = Append(messages, posted + 1)
    /\ posted' = posted + 1
    /\ Responds(b, <<>>)
    /\ UNCHANGED cookie

Without(s, i) == SubSeq(s, 1, i - 1) \o SubSeq(s, i + 1, Len(s))

\* removeMessage(): an index that is out of range is ignored.
RemoveMessage(b) ==
    LET index == tab[b].request.index IN
    /\ Accessing(b, "removeMessage")
    /\ mutex' = Nobody
    /\ messages' = IF index < 0 \/ index >= Len(messages)
                   THEN messages ELSE Without(messages, index + 1)
    /\ Responds(b, <<>>)
    /\ UNCHANGED <<posted, cookie>>

-----------------------------------------------------------------------------

Thread(b) ==
    \/ AuthorizeAdmin(b)
    \/ Unauthorized(b)
    \/ NotFound(b)
    \/ ShowLoginPage(b)
    \/ LoginAdmin(b)
    \/ LogoutAdmin(b)
    \/ RefuseMessage(b)
    \/ RefuseParameter(b)
    \/ Lock(b)
    \/ Messages(b)
    \/ AddMessage(b)
    \/ RemoveMessage(b)

Next == \E b \in Browser : Thread(b) \/ \E request \in Requests(b) : Submit(b, request)

Spec == Init /\ [][Next]_vars

\* The io threads make progress.  A std::mutex promises no more: a thread may
\* find it taken by another one again and again.
FairSpec == Spec /\ \A b \in Browser : WF_vars(Thread(b))

-----------------------------------------------------------------------------
(***************************************************************************)
(* Properties.                                                             *)
(***************************************************************************)

Elements(s) == {s[i] : i \in DOMAIN s}

\* The state has its type.
TypeOK ==
    /\ messages \in Seq(Nat)
    /\ mutex \in Browser \cup {Nobody}
    /\ posted \in Nat
    /\ cookie \in [Browser -> BOOLEAN]
    /\ tab \in [Browser -> [st : {"idle", "routing", "inside"}, request : RequestType,
                            role : Role, next : Nat, buttons : Seq(Nat)]]

\* The io threads share GuestBookState: no two of them are inside it at once.
NoDataRace == \A b, c \in Browser : tab[b].st = "inside" /\ tab[c].st = "inside" => b = c

\* A delete button is an index into the messages at the time of its page.  It
\* still removes the message it was shown for when others were posted since,
\* as long as nobody removed one that was shown above it, or the message.
DeletesWhatWasShown ==
    [][\A b \in Browser :
        LET page == tab[b].request.page
            i    == tab[b].request.index + 1
        IN  RemoveMessage(b) /\ page # <<>> /\ Elements(SubSeq(page, 1, i)) \subseteq Elements(messages)
                => Elements(messages') = Elements(messages) \ {page[i]}]_vars

\* A message that was posted disappears only by a request with the cookie of
\* the administrator, though any client may ask for any deletion at any time;
\* other requests under way at the time lend it no role.
OnlyAdminsDelete ==
    [][Elements(messages) \subseteq Elements(messages')
        \/ \E b \in Browser : cookie[b] /\ ~Idle(b) /\ Idle(b)']_vars

\* The routes leave no request out and no access keeps the mutex: a request is
\* answered, unless its thread finds the mutex taken by another one, and
\* whoever has taken the mutex gives it back.
EveryThreadAnswers ==
    \A b \in Browser :
        /\ ~Idle(b) ~> Idle(b) \/ mutex \in Browser \ {b}
        /\ mutex = b ~> mutex # b

-----------------------------------------------------------------------------
\* Inductive: whoever is inside holds the mutex, and the role Admin of a
\* request under way is owed to the cookie its browser still has.
IInv ==
    /\ TypeOK
    /\ \A b \in Browser : tab[b].st = "inside" => mutex = b
    /\ \A b \in Browser : tab[b].role = "Admin" => cookie[b] /\ ~Idle(b)

(***************************************************************************)
(* The safety side of EveryThreadAnswers.                                  *)
(***************************************************************************)
Accesses == {"showGuestBookPage", "addMessage", "removeMessage"}

\* A processor that answers, or passes the request on, without the messages.
NeedsNothing(b) ==
    \/ \E process \in {Routes[i].process : i \in DOMAIN Routes} \ Accesses : Processing(b, process)
    \/ Processing(b, "addMessage") /\ tab[b].request.field \in {"blank", "url"}
    \/ Processing(b, "removeMessage") /\ tab[b].request.field = "word"

\* The routes leave no request out: a thread with a request has something to do
\* next, and waits for the mutex only while a thread holds it that can go on.
NobodyStuck ==
    \A b \in Browser :
        /\ ~Idle(b) => \/ NeedsNothing(b)
                       \/ NeedsState(b)
                       \/ \E process \in Accesses : Accessing(b, process)
        /\ mutex = b => \E process \in Accesses : Accessing(b, process)

=============================================================================
