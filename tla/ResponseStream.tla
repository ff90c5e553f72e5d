--------------------------- MODULE ResponseStream ---------------------------
(***************************************************************************)
(* What a connection promises about the bytes of its responses: they form  *)
(* one stream.  Bytes are accepted at its end, leave for the peer in       *)
(* order, without loss or repetition, and the stream is FINISHED (closed   *)
(* on purpose) only when all of it has left.  A socket error may BREAK it  *)
(* at any point.                                                           *)
(***************************************************************************)
EXTENDS Integers, Sequences

CONSTANT Byte

VARIABLES
    accepted, \* every byte handed to sendData() while the socket was open
    wire,     \* the bytes that left for the peer
    status    \* "open", "finished" or "broken"

vars == <<accepted, wire, status>>

Init ==
    /\ accepted = <<>>
    /\ wire = <<>>
    /\ status = "open"

Accept ==
    /\ status = "open"
    /\ accepted' \in Seq(Byte)
    /\ Len(accepted) <= Len(accepted')
    /\ SubSeq(accepted', 1, Len(accepted)) = accepted
    /\ UNCHANGED <<wire, status>>

Deliver ==
    /\ status = "open"
    /\ Len(wire) < Len(accepted)
    /\ wire' = Append(wire, accepted[Len(wire) + 1])
    /\ UNCHANGED <<accepted, status>>

Finish ==
    /\ status = "open"
    /\ wire = accepted
    /\ status' = "finished"
    /\ UNCHANGED <<accepted, wire>>

Break ==
    /\ status = "open"
    /\ status' = "broken"
    /\ UNCHANGED <<accepted, wire>>

Next == Accept \/ Deliver \/ Finish \/ Break

Spec == Init /\ [][Next]_vars

=============================================================================
