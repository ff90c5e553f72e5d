------------------------------ MODULE Exchange ------------------------------
(***************************************************************************)
(* What a connection promises about its requests and their answers.        *)
(* Requests come one after the other.  Only the last one is open, and only *)
(* while the connection lives; an open request is answered once and the    *)
(* answer is final, or it is lost, because the peer went on to the next    *)
(* request or the connection ended, and then it is never answered.         *)
(***************************************************************************)
EXTENDS Integers

CONSTANTS
    MaxRequests,  \* the requests are numbered up to this one
    Replies       \* the answers there are

VARIABLES
    connected,    \* the connection lives
    status        \* of each request: "unasked", "open", "lost", or its answer

vars == <<connected, status>>

Request == 1..MaxRequests

Init ==
    /\ connected = TRUE
    /\ status = [r \in Request |-> "unasked"]

\* What becomes of the requests when nobody can answer the open one any more.
Lost == [r \in Request |-> IF status[r] = "open" THEN "lost" ELSE status[r]]

Ask(r) ==
    /\ connected
    /\ status[r] = "unasked"
    /\ \A s \in Request : s < r => status[s] # "unasked"
    /\ status' = [Lost EXCEPT ![r] = "open"]
    /\ UNCHANGED connected

Answer(r, reply) ==
    /\ status[r] = "open"
    /\ status' = [status EXCEPT ![r] = reply]
    /\ UNCHANGED connected

End ==
    /\ connected
    /\ connected' = FALSE
    /\ status' = Lost

Next ==
    \/ \E r \in Request : Ask(r) \/ \E reply \in Replies : Answer(r, reply)
    \/ End

Spec == Init /\ [][Next]_vars

=============================================================================
