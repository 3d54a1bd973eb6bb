---------------------------- MODULE StopAndWait ----------------------------
(***************************************************************************)
(* What a host with one command transfer owes a controller that takes one  *)
(* command at a time: a command is sent only after all earlier ones have   *)
(* been executed, and what is executed is what was sent, in order.  Length *)
(* commands are sent in all; the first is outstanding initially.           *)
(***************************************************************************)
EXTENDS Naturals, Sequences

CONSTANTS Commands, Length

VARIABLES sent, executed

Init == sent \in {<<c>> : c \in Commands} /\ executed = << >>

Send ==
  /\ executed = sent /\ Len(sent) < Length
  /\ \E c \in Commands : sent' = Append(sent, c)
  /\ UNCHANGED executed

Execute ==
  /\ Len(executed) < Len(sent)
  /\ executed' = Append(executed, sent[Len(executed) + 1])
  /\ UNCHANGED sent

Next == Send \/ Execute

Spec == Init /\ [][Next]_<<sent, executed>>
=============================================================================
