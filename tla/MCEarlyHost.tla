---------------------------- MODULE MCEarlyHost ----------------------------
(* EarlyHost for TLC: a keyboard before the dongle, the pools of main.c.   *)
EXTENDS EarlyHost

Bus == <<"other", "dongle", "dongle">>
Keyboard == <<[type |-> "interrupt", address |-> 129]>>
BT400 == <<[type |-> "interrupt", address |-> 129], [type |-> "bulk", address |-> 130],
           [type |-> "bulk", address |-> 2], [type |-> "isochronous", address |-> 131],
           [type |-> "isochronous", address |-> 3], [type |-> "bulk", address |-> 132],
           [type |-> "bulk", address |-> 4]>>
BusDescriptors == <<Keyboard, BT400, BT400>>
QuietOrNoisy == {"quiet", "noisy"}
Noisy == {"noisy"}
=============================================================================
