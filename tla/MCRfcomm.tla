------------------------------ MODULE MCRfcomm ------------------------------
(***************************************************************************)
(* Instances of Rfcomm for TLC.                                            *)
(***************************************************************************)
EXTENDS Rfcomm

\* aaa, CR, LF as in doc/decode_rfcomm_data.txt, and a payload shorter and one longer.
MCPayloads == {<<97, 97, 97, 13, 10>>, <<104, 105, 10>>, <<49, 50, 51, 52, 53, 54, 10>>}
\* Remote port negotiation, which the code does not know.
MCOtherCommands == {147}
\* Disconnected mode, which the code does not know either.
MCOtherControls == {31}
=============================================================================
