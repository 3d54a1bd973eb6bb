--------------------------- MODULE RequestService ---------------------------
(***************************************************************************)
(* What a request/response server promises its client, whatever runs in    *)
(* between: a response is the one some request called for (same command,   *)
(* same identifier, same channel of the client), and no request is         *)
(* answered twice.  Nothing is promised about the order or the delay, and  *)
(* a request may stay without an answer.                                   *)
(***************************************************************************)
EXTENDS Naturals, Sequences

VARIABLES asked,    \* responses the requests so far call for, a set
          answers   \* responses given so far, a sequence

Init == asked = {} /\ answers = << >>

Ask ==
  /\ asked \subseteq asked' /\ asked' # asked
  /\ UNCHANGED answers

Answer ==
  /\ Len(answers') = Len(answers) + 1
  /\ answers' = Append(answers, answers'[Len(answers) + 1])
  /\ answers'[Len(answers) + 1] \in asked \ {answers[i] : i \in 1..Len(answers)}
  /\ UNCHANGED asked

Next == Ask \/ Answer

Spec == Init /\ [][Next]_<<asked, answers>>
=============================================================================
