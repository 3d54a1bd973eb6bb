------------------------------ MODULE MCL2cap ------------------------------
(***************************************************************************)
(* L2capSignalling for TLC: client ids next to the ids the server hands    *)
(* out (0x41, 0x42, ...), so that an id of one side can equal one of the   *)
(* other.                                                                  *)
(***************************************************************************)
EXTENDS L2capProperties

OneCid == {65}
TwoCids == {65, 72}
=============================================================================
