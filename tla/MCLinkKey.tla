----------------------------- MODULE MCLinkKey -----------------------------
(* LinkKeyDatabase for TLC: the phone whose address is written into the    *)
(* code, and another one.                                                  *)
EXTENDS LinkKeyDatabase

CONSTANTS phone, tablet
Phone == {phone}
Both == {phone, tablet}
=============================================================================
