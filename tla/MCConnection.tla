---------------------------- MODULE MCConnection ----------------------------
(***************************************************************************)
(* Connection with three bytes and two records, one of them longer than    *)
(* one byte so that a write can be cut in the middle.                      *)
(***************************************************************************)
EXTENDS Connection

MCByte == 1..3
MCRecord == {<<1>>, <<2, 3>>}

=============================================================================
