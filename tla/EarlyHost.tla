------------------------------ MODULE EarlyHost ------------------------------
(***************************************************************************)
(* main.c, the program the makefile builds for Linux and macOS.  main and  *)
(* find_dev look for the dongle, claim it, submit three event-in and three *)
(* ACL-in transfers and send HCI Reset; the event loop then runs           *)
(* async_callback for every completion of an event, of an ACL packet and   *)
(* of the command transfer.  The callback parses whatever completed as an  *)
(* HCI event, counts it, sends the next initialisation command at counts   *)
(* 2, 4, ..., 38, and submits the completed transfer again only where it   *)
(* also sends something.                                                   *)
(***************************************************************************)
EXTENDS Integers, Sequences

CONSTANTS
  Devs,                   \* the device list, a sequence of "dongle" and "other"
  Descriptors,            \* the endpoints of each device, in the order of its interfaces
  EVENT_IN_BUFFER_COUNT,
  ACL_IN_BUFFER_COUNT,
  Environments,           \* a subset of {"quiet", "noisy"}
  MaxOther,               \* events of the controller no command asked for
  MaxAcl,                 \* ACL packets received while connected
  MaxRequests,            \* connection requests
  MaxFaults               \* failing calls of libusb, stalls, failed transfers, no dongle

ASSUME EarlyAssumption ==
  /\ Devs \in Seq({"dongle", "other"})
  /\ Descriptors \in [1..Len(Devs) -> Seq([type : {"interrupt", "bulk", "isochronous"},
                                           address : 1..255])]
  /\ EVENT_IN_BUFFER_COUNT \in Nat \ {0} /\ ACL_IN_BUFFER_COUNT \in Nat \ {0}
  /\ Environments \subseteq {"quiet", "noisy"}
  /\ MaxOther \in Nat /\ MaxAcl \in Nat /\ MaxRequests \in Nat /\ MaxFaults \in Nat

\* The commands in the order of the code: Reset is sent by find_dev, the one at
\* position k when transfer_completed reaches 2 * (k - 1).
ResetStep == <<"Reset">>
InformationSteps ==
  <<"ReadLocalVersion", "ReadLocalName", "ReadLocalSupportedCommands", "ReadBDADDR">>
CapabilitySteps ==
  <<"ReadBufferSize", "ReadLocalSupportedFeatures", "SetEventMask", "LEReadBufferSize">>
ScanSteps == <<"ReadScanEnable", "LESetScanParameters", "WriteSimplePairingMode">>
NamingSteps == <<"WritePageTimeout", "WriteClassOfDevice", "ChangeLocalName">>
InquirySteps == <<"WriteExtendedInquiryResponse", "WriteInquiryMode", "WriteScanEnable">>
ReportingSteps == <<"WriteDefaultErroneousDataReporting", "WriteScoPcmInt">>

InitCommands == ResetStep \o InformationSteps \o CapabilitySteps \o ScanSteps
                  \o NamingSteps \o InquirySteps \o ReportingSteps
InitLength == 20

\* What the callbacks send besides.  The two L2CAP answers go out through the
\* command pipe, where the controller takes them for commands.
Accept == "AcceptConnectionRequest"
Replies == {Accept, "L2capConnectionResponse", "L2capInformationResponse"}
Commands == {InitCommands[k] : k \in 1..InitLength} \cup Replies

\* What dump_hci_event finds in a completed buffer.  It looks at the first byte:
\* the code of an event, or the low byte of the connection handle of an ACL packet.
EventKinds == {"CommandComplete", "ConnectionRequest", "Other"}
AclKinds == EventKinds \cup {"L2capConnection", "L2capConfigure", "L2capInformation"}
Pools == {"eventIn", "aclIn"}
Size == [eventIn |-> EVENT_IN_BUFFER_COUNT, aclIn |-> ACL_IN_BUFFER_COUNT]

VARIABLES
  environment,        \* what the controller does, fixed at the start
  phase,              \* where main and find_dev are
  listed,             \* how many devices of the list are plugged in
  at,                 \* the device of the list find_dev has reached
  handle,             \* the device the global handle stands for, 0 for none
  endpoints,          \* the five endpoint addresses, 0 for an unknown one
  inFlight,           \* submitted transfers of each pool
  commandOut,         \* the command transfer: none, idle, submitted, taken
  hci_cmd_buffer,     \* the command in the shared buffer
  transfer_completed,
  queued, executed,   \* commands in the controller, and those executed, in order
  coming,             \* what the controller reports on each pool, in order
  other, acls, requests, faults  \* how often the environment has interfered

start == <<phase, listed, at, handle, endpoints>>
command == <<commandOut, hci_cmd_buffer>>
controller == <<queued, executed>>
noise == <<other, acls, requests>>
vars == <<environment, start, inFlight, command, transfer_completed, controller,
          coming, noise, faults>>

\* The first endpoint of each type and direction is used; the direction of an
\* interrupt endpoint is not looked at.
First(found) == IF found = << >> THEN 0 ELSE found[1].address
Incoming(e) == e.address >= 128
scan_for_bt_endpoints(dev) ==
  LET Of(type) == SelectSeq(Descriptors[dev], LAMBDA e : e.type = type)
      In(type) == SelectSeq(Of(type), Incoming)
      Out(type) == SelectSeq(Of(type), LAMBDA e : ~Incoming(e))
  IN [event_in_addr |-> First(Of("interrupt")),
      acl_in_addr |-> First(In("bulk")), acl_out_addr |-> First(Out("bulk")),
      sco_in_addr |-> First(In("isochronous")), sco_out_addr |-> First(Out("isochronous"))]
NoEndpoints == [event_in_addr |-> 0, acl_in_addr |-> 0, acl_out_addr |-> 0,
                sco_in_addr |-> 0, sco_out_addr |-> 0]

Init ==
  /\ environment \in Environments
  /\ phase = "start" /\ listed = 0 /\ at = 0 /\ handle = 0 /\ endpoints = NoEndpoints
  /\ inFlight = [p \in Pools |-> 0]
  /\ commandOut = "none" /\ hci_cmd_buffer = "Reset"
  /\ transfer_completed = 0
  /\ queued = << >> /\ executed = << >>
  /\ coming = [p \in Pools |-> << >>]
  /\ other = 0 /\ acls = 0 /\ requests = 0 /\ faults = 0

Fails ==
  /\ environment = "noisy" /\ faults < MaxFaults
  /\ faults' = faults + 1
Works == UNCHANGED faults

-----------------------------------------------------------------------------
(* main and find_dev, up to the event loop.                                *)

Running == <<environment, transfer_completed, controller, coming, noise>>

\* libusb_init and libusb_get_device_list; either failing ends the program.  Devices
\* from some place of the list on may be unplugged.
main ==
  /\ phase = "start"
  /\ \/ phase' = "scan" /\ listed' = Len(Devs) /\ Works
     \/ phase' = "scan" /\ listed' \in 0..(Len(Devs) - 1) /\ Fails
     \/ phase' = "ended" /\ UNCHANGED listed /\ Fails
  /\ UNCHANGED <<Running, at, handle, endpoints, inFlight, command>>

\* One turn of the loop over the list.  A device that cannot be opened leaves the
\* handle of the one before it, one without a configuration descriptor leaves no
\* endpoints; neither is noticed.  Handles of other devices are never closed.
ExamineDevice ==
  /\ phase = "scan" /\ at < listed
  /\ at' = at + 1
  /\ \/ /\ Works
        /\ handle' = at' /\ endpoints' = scan_for_bt_endpoints(at')
        /\ phase' = IF Devs[at'] = "dongle" THEN "claim" ELSE "scan"
     \/ /\ Fails
        /\ handle' \in {handle, at'}
        /\ endpoints' \in {scan_for_bt_endpoints(at'), NoEndpoints}
        /\ phase' = IF Devs[at'] = "dongle" THEN "claim" ELSE "scan"
     \/ Fails /\ phase' = "ended" /\ UNCHANGED <<handle, endpoints>>
  /\ UNCHANGED <<Running, listed, inFlight, command>>

NoDevice ==
  /\ phase = "scan" /\ at = listed
  /\ phase' = "ended"
  /\ UNCHANGED <<Running, listed, at, handle, endpoints, inFlight, command, faults>>

\* libusb_reset_device and libusb_set_configuration, unchecked, then the claim.
\* Without any handle the first of them reads through a null pointer.
ClaimInterface ==
  /\ phase = "claim"
  /\ \/ handle = 0 /\ phase' = "crashed" /\ Works
     \/ handle # 0 /\ phase' = "allocate" /\ Works
     \/ handle # 0 /\ phase' = "ended" /\ Fails
  /\ UNCHANGED <<Running, listed, at, handle, endpoints, inFlight, command>>

\* The inbound transfers are checked; the command transfer may be missing.
AllocateTransfers ==
  /\ phase = "allocate"
  /\ \/ phase' = "submit" /\ commandOut' = "idle" /\ Works
     \/ phase' = "submit" /\ commandOut' = "none" /\ Fails
     \/ phase' = "ended" /\ UNCHANGED commandOut /\ Fails
  /\ UNCHANGED <<Running, listed, at, handle, endpoints, inFlight, hci_cmd_buffer>>

\* One transfer after the other.  A failure closes the handle with the earlier
\* ones still in flight.
Submit(pool) ==
  /\ phase = "submit" /\ inFlight[pool] < Size[pool]
  /\ \/ /\ inFlight' = [inFlight EXCEPT ![pool] = @ + 1]
        /\ Works /\ UNCHANGED phase
     \/ phase' = "ended" /\ Fails /\ UNCHANGED inFlight
  /\ UNCHANGED <<Running, listed, at, handle, endpoints, command>>

SubmitEventIn == Submit("eventIn")
SubmitAclIn == inFlight["eventIn"] = EVENT_IN_BUFFER_COUNT /\ Submit("aclIn")

\* A bug the checks must catch: Reset is sent with the pools half filled.
SendResetEarly ==
  /\ phase = "submit" /\ inFlight["eventIn"] > 0 /\ commandOut = "idle"
  /\ phase' = "loop" /\ hci_cmd_buffer' = "Reset" /\ commandOut' = "submitted"
  /\ UNCHANGED <<Running, listed, at, handle, endpoints, inFlight, faults>>

\* HCI Reset, whose submission nobody checks, and the endless event loop.
SendReset ==
  /\ phase = "submit" /\ inFlight = Size
  /\ hci_cmd_buffer' = "Reset"
  /\ \/ commandOut = "none" /\ phase' = "crashed" /\ UNCHANGED commandOut /\ Works
     \/ commandOut = "idle" /\ phase' = "loop" /\ commandOut' = "submitted" /\ Works
     \/ commandOut = "idle" /\ phase' = "loop" /\ commandOut' = "idle" /\ Fails
  /\ UNCHANGED <<Running, listed, at, handle, endpoints, inFlight>>

StartUp == main \/ ExamineDevice \/ NoDevice \/ ClaimInterface \/ AllocateTransfers
             \/ SubmitEventIn \/ SubmitAclIn \/ SendReset

-----------------------------------------------------------------------------
(* The callbacks.                                                          *)

\* What a case of dump_hci_event may do: send commands, submit the completed
\* transfer again, or end the process.
Outcome(cmds, again, dies) == [cmds |-> cmds, again |-> again, dies |-> dies]
PrintOnly == {Outcome(<< >>, FALSE, FALSE)}
MayFault == {Outcome(<< >>, FALSE, TRUE)}

\* Two cases use a second idx, whose declaration is in an earlier case and never
\* executed: where they read or write is not defined.
CommandComplete == PrintOnly \cup MayFault
L2capInformationRequest == {Outcome(<<"L2capInformationResponse">>, TRUE, FALSE)} \cup MayFault
L2capConnectionRequest == {Outcome(<<"L2capConnectionResponse">>, TRUE, FALSE)}
AcceptConnection == {Outcome(<<Accept>>, TRUE, FALSE)}

dump_hci_event(kind) ==
  [CommandComplete |-> CommandComplete, ConnectionRequest |-> AcceptConnection,
   L2capConnection |-> L2capConnectionRequest, L2capConfigure |-> PrintOnly,
   L2capInformation |-> L2capInformationRequest, Other |-> PrintOnly][kind]

\* Bugs the checks must catch: a chain that acts on odd counts, one that ends a
\* command early, and one that starts again after its end.
NextStepOdd(count) ==
  IF count % 2 = 1 /\ count \div 2 \in 0..(InitLength - 2)
  THEN <<InitCommands[count \div 2 + 2]>> ELSE << >>
NextStepShort(count) ==
  IF count % 2 = 0 /\ count \div 2 \in 1..(InitLength - 2)
  THEN <<InitCommands[count \div 2 + 1]>> ELSE << >>
NextStepAgain(count) ==
  IF count % 2 = 0 /\ count > 0
  THEN <<InitCommands[((count \div 2) % InitLength) + 1]>> ELSE << >>

\* The chain of "if (transfer_completed == 2 * k)": at most one of them holds.
NextStep(count) ==
  IF count % 2 = 0 /\ count \div 2 \in 1..(InitLength - 1)
  THEN <<InitCommands[count \div 2 + 1]>> ELSE << >>

\* usb_send_cmd_packet for the commands cs of one callback.  Each call overwrites
\* the shared buffer and refills the shared transfer, in flight or not; a transfer
\* in flight is refused.  A failed submission is tried once more at once, so only
\* a failure that lasts is one.
usb_send_cmd_packet(cs, state, accepted) ==
  /\ hci_cmd_buffer' = IF cs = << >> THEN hci_cmd_buffer ELSE cs[Len(cs)]
  /\ commandOut' = IF cs # << >> /\ state = "idle" /\ accepted THEN "submitted" ELSE state

\* async_callback for a completed transfer of the pool.  The command may be accepted
\* where the same transfer's resubmission fails, and the other way round.
PoolCompleted(pool) ==
  /\ phase = "loop" /\ inFlight[pool] > 0 /\ coming[pool] # << >>
  /\ coming' = [coming EXCEPT ![pool] = Tail(@)]
  /\ \E o \in dump_hci_event(Head(coming[pool])), accepted, resubmitted \in BOOLEAN :
       LET step == NextStep(transfer_completed + 1)
           submits == o.again \/ step # << >>
       IN /\ IF accepted /\ resubmitted THEN Works ELSE ~o.dies /\ submits /\ Fails
          /\ phase' = IF o.dies THEN "crashed" ELSE phase
          /\ transfer_completed' = IF o.dies THEN transfer_completed ELSE transfer_completed + 1
          /\ inFlight' = IF resubmitted /\ submits /\ ~o.dies THEN inFlight
                         ELSE [inFlight EXCEPT ![pool] = @ - 1]
          /\ IF o.dies THEN UNCHANGED command
             ELSE usb_send_cmd_packet(o.cmds \o step, commandOut, accepted)
  /\ UNCHANGED <<environment, listed, at, handle, endpoints, controller, noise>>

EventInCompleted == PoolCompleted("eventIn")
AclInCompleted == PoolCompleted("aclIn")

\* async_callback for the command transfer: its buffer starts with the type of the
\* control request, which is printed as an event of its own.
CommandOutCompleted ==
  /\ phase = "loop" /\ commandOut = "taken"
  /\ transfer_completed' = transfer_completed + 1
  /\ \E accepted \in BOOLEAN :
       /\ IF accepted THEN Works ELSE NextStep(transfer_completed') # << >> /\ Fails
       /\ usb_send_cmd_packet(NextStep(transfer_completed'), "idle", accepted)
  /\ UNCHANGED <<environment, start, inFlight, controller, coming, noise>>

\* A bug the checks must catch: a transfer that failed is submitted twice.
InResubmittedTwice(pool) ==
  /\ phase = "loop" /\ inFlight[pool] > 0 /\ Fails
  /\ inFlight' = [inFlight EXCEPT ![pool] = @ + 1]
  /\ UNCHANGED <<environment, start, command, transfer_completed, controller, coming, noise>>

\* A stalled transfer is not submitted again, nor one whose resubmission fails.
InLost(pool) ==
  /\ phase = "loop" /\ inFlight[pool] > 0 /\ Fails
  /\ inFlight' = [inFlight EXCEPT ![pool] = @ - 1]
  /\ UNCHANGED <<environment, start, command, transfer_completed, controller, coming, noise>>

\* The command transfer stalls before the device has taken the command, or ends
\* with another status and is submitted again with what the buffer holds now.
CommandOutFails ==
  /\ phase = "loop" /\ Fails
  /\ \/ commandOut = "submitted" /\ commandOut' = "idle"
     \/ commandOut = "taken" /\ commandOut' = "submitted"
  /\ UNCHANGED <<environment, start, inFlight, hci_cmd_buffer, transfer_completed,
                 controller, coming, noise>>

Callbacks == EventInCompleted \/ AclInCompleted \/ CommandOutCompleted
               \/ InLost("eventIn") \/ InLost("aclIn") \/ CommandOutFails

-----------------------------------------------------------------------------
(* The dongle and the remote devices.                                      *)

Report(pool, kinds) == coming' = [coming EXCEPT ![pool] = @ \o kinds]

\* The device reads the buffer some time after the submission.
DongleTakes ==
  /\ phase = "loop" /\ commandOut = "submitted"
  /\ commandOut' = "taken"
  /\ queued' = Append(queued, hci_cmd_buffer)
  /\ UNCHANGED <<environment, start, inFlight, hci_cmd_buffer, transfer_completed, executed,
                 coming, noise, faults>>

\* Every command is answered with an event, an accepted connection with one more.
\* In the quiet environment the answer comes after the transfer has completed.
DongleExecutes ==
  /\ phase = "loop" /\ queued # << >>
  /\ environment = "quiet" => commandOut = "idle"
  /\ queued' = Tail(queued)
  /\ executed' = Append(executed, Head(queued))
  /\ Report("eventIn", IF Head(queued) = Accept THEN <<"Other", "Other">>
                       ELSE IF Head(queued) \in Replies THEN <<"Other">>
                       ELSE <<"CommandComplete">>)
  /\ UNCHANGED <<environment, start, inFlight, command, transfer_completed, noise, faults>>

Executed(op) == \E i \in DOMAIN executed : executed[i] = op

RemoteConnects ==
  /\ phase = "loop" /\ environment = "noisy"
  /\ Executed("WriteScanEnable") /\ requests < MaxRequests
  /\ requests' = requests + 1
  /\ Report("eventIn", <<"ConnectionRequest">>)
  /\ UNCHANGED <<environment, start, inFlight, command, transfer_completed, controller,
                 other, acls, faults>>

AclArrives ==
  /\ phase = "loop" /\ environment = "noisy"
  /\ Executed(Accept) /\ acls < MaxAcl
  /\ acls' = acls + 1
  /\ \E kind \in AclKinds : Report("aclIn", <<kind>>)
  /\ UNCHANGED <<environment, start, inFlight, command, transfer_completed, controller,
                 other, requests, faults>>

OtherEvent ==
  /\ phase = "loop" /\ environment = "noisy" /\ other < MaxOther
  /\ other' = other + 1
  /\ Report("eventIn", <<"Other">>)
  /\ UNCHANGED <<environment, start, inFlight, command, transfer_completed, controller,
                 acls, requests, faults>>

Dongle == DongleTakes \/ DongleExecutes \/ RemoteConnects \/ AclArrives \/ OtherEvent

Next == StartUp \/ Callbacks \/ Dongle

Spec == Init /\ [][Next]_vars

\* The program runs on by itself, its event loop dispatches every completion, and
\* the dongle works off its commands.
Fairness ==
  /\ WF_vars(StartUp) /\ WF_vars(EventInCompleted) /\ WF_vars(CommandOutCompleted)
  /\ WF_vars(DongleTakes) /\ WF_vars(DongleExecutes)

FairSpec == Spec /\ Fairness
-----------------------------------------------------------------------------
(* Properties.                                                             *)

\* The type invariant: no transfer is in flight twice.
TypeOK ==
  /\ environment \in Environments
  /\ phase \in {"start", "scan", "claim", "allocate", "submit", "loop", "ended", "crashed"}
  /\ listed \in 0..Len(Devs) /\ at \in 0..listed /\ handle \in 0..at
  /\ endpoints \in {NoEndpoints} \cup {scan_for_bt_endpoints(dev) : dev \in 1..Len(Devs)}
  /\ inFlight \in [Pools -> Nat] /\ \A p \in Pools : inFlight[p] <= Size[p]
  /\ commandOut \in {"none", "idle", "submitted", "taken"}
  /\ hci_cmd_buffer \in Commands
  /\ transfer_completed \in Nat
  /\ queued \in Seq(Commands) /\ executed \in Seq(Commands)
  /\ coming \in [Pools -> Seq(AclKinds)]
  /\ other \in 0..MaxOther /\ acls \in 0..MaxAcl
  /\ requests \in 0..MaxRequests /\ faults \in 0..MaxFaults

\* The dongle is reset only when both pools wait for its answers, and, unless a
\* call failed, through its own handle and over its own endpoints: the early
\* returns of find_dev never lead on to the event loop.
ResetMeetsFullPools ==
  [][phase' = "loop" /\ phase # "loop" =>
       /\ inFlight = Size
       /\ faults = 0 => /\ Devs[at] = "dongle" /\ handle = at
                        /\ endpoints = scan_for_bt_endpoints(at)]_vars

\* Whatever arrives on the pools and in whatever order, the initialisation
\* commands are executed in the order of the code; one is executed twice only
\* after a failed transfer was submitted again.
Position == [op \in {InitCommands[k] : k \in 1..InitLength} |->
               CHOOSE k \in 1..InitLength : InitCommands[k] = op]
InitOrder ==
  \A i, j \in {n \in DOMAIN executed : executed[n] \notin Replies} : i < j =>
    \/ Position[executed[i]] < Position[executed[j]]
    \/ executed[i] = executed[j] /\ faults > 0

\* While the controller only answers, and answers after the command transfer has
\* completed, each event falls on an even count: it is the transfer that is
\* submitted again, and the three suffice for the twenty commands.
PoolKeptThroughBringUp ==
  environment = "quiet" /\ phase = "loop" /\ transfer_completed < 2 * InitLength
    => inFlight = Size

\* In the quiet environment the program executes the whole list, unless an unset
\* index ends it.
BringUpCompletes ==
  environment = "quiet" ~> \/ \A k \in 1..InitLength : Executed(InitCommands[k])
                           \/ phase \in {"ended", "crashed"}
=============================================================================
