--------------------------- MODULE CommandChannel ---------------------------
(***************************************************************************)
(* The HCI command path of hci_test.cpp and the bring-up sequence driven   *)
(* over it.  find_dev sends Reset; from then on async_callback, which runs *)
(* for every completed event and every completed command transfer, counts  *)
(* completions in transfer_completed and sends the next initialisation     *)
(* command whenever the count reaches 2, 4, ..., 38: the code expects each *)
(* command to cost one completion of the command transfer and one event.   *)
(* The commands that answer events, with which a device connects and pairs,*)
(* and the one that the host's own completed ACL packets have it send      *)
(* share the one transfer and the one buffer.                              *)
(***************************************************************************)
EXTENDS Integers, Sequences, FiniteSets

CONSTANTS
  Remotes,                \* devices that may connect and pair
  HardCoded,              \* the device most answers are written for
  Nobody,                 \* not a device: the addressee of initialisation commands
  Unnamed,                \* the device that Authentication_Requested does not name
  EVENT_IN_BUFFER_COUNT,  \* event transfers submitted once, never again
  MaxOther,               \* events of the controller no command asked for
  MaxAcl,                 \* ACL completions while connected
  MaxRequests,            \* questions asked about the devices
  MaxFaults               \* failed submissions, stalls and failed transfers

ASSUME CommandAssumption ==
  /\ Nobody \notin Remotes /\ HardCoded # Nobody
  /\ Unnamed \notin Remotes /\ Unnamed \notin {HardCoded, Nobody}
  /\ EVENT_IN_BUFFER_COUNT \in Nat
  /\ MaxOther \in Nat /\ MaxAcl \in Nat /\ MaxRequests \in Nat /\ MaxFaults \in Nat

(***************************************************************************)
(* The commands in the order of the code.  The first is sent by find_dev,  *)
(* the one at position k when transfer_completed reaches 2 * (k - 1).      *)
(***************************************************************************)
ResetStep == <<"Reset">>
InformationSteps ==
  <<"ReadLocalVersion", "ReadLocalName", "ReadLocalSupportedCommands", "ReadBDADDR">>
CapabilitySteps ==
  <<"ReadBufferSize", "ReadLocalSupportedFeatures", "SetEventMask", "LEReadBufferSize">>
ScanSteps ==
  <<"ReadScanEnable", "LESetScanParameters", "WriteSimplePairingMode", "WritePageTimeout">>
IdentitySteps ==
  <<"WriteClassOfDevice", "ChangeLocalName", "WriteExtendedInquiryResponse">>
VisibilitySteps ==
  <<"WriteInquiryMode", "WriteScanEnable", "WriteDefaultErroneousDataReporting",
    "WriteScoPcmInt">>

InitCommands == ResetStep \o InformationSteps \o CapabilitySteps \o ScanSteps
                  \o IdentitySteps \o VisibilitySteps
InitLength == 20

Command(op, to) == [op |-> op, to |-> to]
Step(k) == Command(InitCommands[k], Nobody)

\* The events the program answers, and with which command.  Acceptance and the stored
\* key are for the device asked about, the rest for the one written into the code.
Own == [ConnectionRequest |-> "AcceptConnectionRequest",
        LinkKeyRequest |-> "LinkKeyRequestReply"]
Fixed == [LinkKeyRequest |-> "LinkKeyRequestNegativeReply",
          IOCapabilityRequest |-> "IOCapabilityRequestReply",
          UserConfirmationRequest |-> "UserConfirmationRequestReply",
          PINCodeRequest |-> "PINCodeRequestReply"]
Questions == DOMAIN Own \cup DOMAIN Fixed
Answers == {Command(Own[q], r) : q \in DOMAIN Own, r \in Remotes}
             \cup {Command(Fixed[q], HardCoded) : q \in DOMAIN Fixed}

\* The command sent from the ACL callback has no parameters: no connection handle.
AuthenticationRequested == Command("AuthenticationRequested", Unnamed)
Commands == {Step(k) : k \in 1..InitLength} \cup Answers \cup {AuthenticationRequested}

EventKinds == {"CommandComplete", "Other"} \cup Questions
Event(kind, from) == [kind |-> kind, from |-> from]
Events == [kind : EventKinds, from : Remotes \cup {HardCoded, Nobody}]

VARIABLES
  transfer_completed,
  hci_cmd_buffer,   \* the command in the shared buffer
  transfer,         \* command_out_transfer: idle, submitted, taken by the device
  eventInLeft,      \* submitted event transfers
  sent,             \* commands given to usb_send_cmd_packet, in order (history)
  lost,             \* those whose submission failed (history)
  authentication_request,  \* Authentication_Requested has been sent
  queued,           \* commands the controller has taken and not executed
  executed,         \* commands it has executed, in order
  eventsIn,         \* events on their way to the host, in order
  other, acls, faults,  \* how often the environment has interfered
  requests          \* questions asked, in order (history)

host == <<transfer_completed, hci_cmd_buffer, transfer, eventInLeft, sent, lost,
          authentication_request>>
controller == <<queued, executed, eventsIn>>
noise == <<other, acls, requests>>
vars == <<host, controller, noise, faults>>

\* The state when find_dev has sent Reset and enters its event loop.
Init ==
  /\ transfer_completed = 0
  /\ hci_cmd_buffer = Step(1)
  /\ transfer = "submitted"
  /\ eventInLeft = EVENT_IN_BUFFER_COUNT
  /\ sent = <<Step(1)>>
  /\ lost = {}
  /\ authentication_request = FALSE
  /\ queued = << >> /\ executed = << >> /\ eventsIn = << >>
  /\ other = 0 /\ acls = 0 /\ faults = 0
  /\ requests = << >>

-----------------------------------------------------------------------------
(***************************************************************************)
(* usb_send_cmd_packet for the commands cs, one after the other, within    *)
(* one callback.  Each call overwrites the shared buffer and refills the   *)
(* shared transfer, in flight or not, and then submits it: a transfer that *)
(* is in flight is refused as busy, and on an idle one the submissions may *)
(* fail until one succeeds.  Every caller ignores the result.              *)
(***************************************************************************)
Refused(cs, accepted) == {cs[i] : i \in (1..Len(cs)) \ {accepted}}

usb_send_cmd_packet(cs, state) ==
  /\ sent' = sent \o cs
  /\ hci_cmd_buffer' = IF cs = << >> THEN hci_cmd_buffer ELSE cs[Len(cs)]
  /\ IF state = "idle"
     THEN \E failed \in 0..Len(cs) :
            /\ faults + failed <= MaxFaults
            /\ faults' = faults + failed
            /\ transfer' = IF failed < Len(cs) THEN "submitted" ELSE "idle"
            /\ lost' = lost \cup Refused(cs, failed + 1)
     ELSE /\ transfer' = state
          /\ lost' = lost \cup Refused(cs, 0)
          /\ UNCHANGED faults

\* Two bugs the checks must catch: a command for every completion, and a chain
\* that ends one command early.
NextStepEveryTime(count) ==
  IF count \in 1..(InitLength - 1) THEN <<Step(count + 1)>> ELSE << >>

NextStepShort(count) ==
  IF count % 2 = 0 /\ count \div 2 \in 1..(InitLength - 2)
  THEN <<Step(count \div 2 + 1)>> ELSE << >>

\* The chain of "if (transfer_completed == 2 * k)": at most one of them holds.
NextStep(count) ==
  IF count % 2 = 0 /\ count \div 2 \in 1..(InitLength - 1)
  THEN <<Step(count \div 2 + 1)>> ELSE << >>

\* The commands dump_hci_event may answer an event with: a connection is always
\* accepted, a key request depends on whether there is a key, the other answers are
\* the same for every device.
dump_hci_event(e) ==
  IF e.kind \in Questions
  THEN {<<Command(Own[q], e.from)>> : q \in DOMAIN Own \cap {e.kind}}
         \cup {<<Command(Fixed[q], HardCoded)>> : q \in DOMAIN Fixed \cap {e.kind}}
  ELSE {<< >>}

\* A bug the checks must catch: the count starts again with a new connection.
EventInCompletedRestarts ==
  /\ eventInLeft > 0 /\ eventsIn # << >>
  /\ eventInLeft' = eventInLeft - 1
  /\ eventsIn' = Tail(eventsIn)
  /\ transfer_completed' = IF Head(eventsIn).kind = "ConnectionRequest" THEN 0
                           ELSE transfer_completed + 1
  /\ \E answer \in dump_hci_event(Head(eventsIn)) :
       usb_send_cmd_packet(answer \o NextStep(transfer_completed'), transfer)
  /\ UNCHANGED <<queued, executed, authentication_request, noise>>

\* async_callback for a completed event: the event is handled first, then the
\* count goes up and the chain is looked through.
EventInCompleted ==
  /\ eventInLeft > 0 /\ eventsIn # << >>
  /\ eventInLeft' = eventInLeft - 1
  /\ eventsIn' = Tail(eventsIn)
  /\ transfer_completed' = transfer_completed + 1
  /\ \E answer \in dump_hci_event(Head(eventsIn)) :
       usb_send_cmd_packet(answer \o NextStep(transfer_completed'), transfer)
  /\ UNCHANGED <<queued, executed, authentication_request, noise>>

\* A bug the checks must catch: like other transfers, it is submitted again.
CommandOutCompletedAgain ==
  /\ transfer = "taken"
  /\ transfer_completed' = transfer_completed + 1
  /\ usb_send_cmd_packet(NextStep(transfer_completed'), "submitted")
  /\ UNCHANGED <<eventInLeft, authentication_request, controller, noise>>

\* async_callback for the completed command transfer, which may be used again.
CommandOutCompleted ==
  /\ transfer = "taken"
  /\ transfer_completed' = transfer_completed + 1
  /\ usb_send_cmd_packet(NextStep(transfer_completed'), "idle")
  /\ UNCHANGED <<eventInLeft, authentication_request, controller, noise>>

\* A stalled command transfer is only reported; the count does not change and
\* the device has not taken the command.
CommandOutStalled ==
  /\ transfer = "submitted" /\ faults < MaxFaults
  /\ faults' = faults + 1
  /\ transfer' = "idle"
  /\ lost' = lost \cup {hci_cmd_buffer}
  /\ UNCHANGED <<transfer_completed, hci_cmd_buffer, eventInLeft, sent,
                 authentication_request, controller, noise>>

\* Any other status submits the transfer again, even if the device has already
\* taken the command.
CommandOutResubmitted ==
  /\ transfer = "taken" /\ faults < MaxFaults
  /\ faults' = faults + 1
  /\ transfer' = "submitted"
  /\ UNCHANGED <<transfer_completed, hci_cmd_buffer, eventInLeft, sent, lost,
                 authentication_request, controller, noise>>

\* A bug the checks must catch: what is stalled is submitted once more.
EventInStalledAgain ==
  /\ faults < MaxFaults
  /\ faults' = faults + 1
  /\ eventInLeft' = eventInLeft + 1
  /\ UNCHANGED <<transfer_completed, hci_cmd_buffer, transfer, sent, lost,
                 authentication_request, controller, noise>>

\* A stalled event transfer is gone for good.
EventInStalled ==
  /\ eventInLeft > 0 /\ faults < MaxFaults
  /\ faults' = faults + 1
  /\ eventInLeft' = eventInLeft - 1
  /\ UNCHANGED <<transfer_completed, hci_cmd_buffer, transfer, sent, lost,
                 authentication_request, controller, noise>>

\* async_acl_callback counts its completions in the same variable, and does not look
\* through the chain.  A disconnect request of the device takes the flag back, a packet
\* of the host itself that comes back (process_control's case 0xCC) has it ask for
\* authentication once; what any other packet does is no matter of the command path.
AclCompleted ==
  /\ acls < MaxAcl /\ \E i \in DOMAIN executed : executed[i].to # Nobody
  /\ acls' = acls + 1
  /\ transfer_completed' = transfer_completed + 1
  /\ \/ /\ authentication_request' \in {authentication_request, FALSE}
        /\ usb_send_cmd_packet(<< >>, transfer)
     \/ /\ ~authentication_request
        /\ authentication_request' = TRUE
        /\ usb_send_cmd_packet(<<AuthenticationRequested>>, transfer)
  /\ UNCHANGED <<eventInLeft, controller, other, requests>>

Host == EventInCompleted \/ CommandOutCompleted \/ CommandOutStalled
          \/ CommandOutResubmitted \/ EventInStalled \/ AclCompleted

-----------------------------------------------------------------------------
(* The dongle.                                                             *)

\* The device reads the buffer some time after the submission.
DeviceTakes ==
  /\ transfer = "submitted"
  /\ transfer' = "taken"
  /\ queued' = Append(queued, hci_cmd_buffer)
  /\ UNCHANGED <<transfer_completed, hci_cmd_buffer, eventInLeft, sent, lost,
                 authentication_request, executed, eventsIn, noise, faults>>

\* Each command is answered with one event (Command Complete or Status); an answer has
\* one more event of the connection follow, which asks for nothing.  The command that
\* names no device is answered with its status alone.
DeviceExecutes ==
  /\ queued # << >>
  /\ queued' = Tail(queued)
  /\ executed' = Append(executed, Head(queued))
  /\ eventsIn' = eventsIn \o
       (IF Head(queued).to \in {Nobody, Unnamed} THEN <<Event("CommandComplete", Nobody)>>
        ELSE <<Event("CommandComplete", Nobody), Event("Other", Head(queued).to)>>)
  /\ UNCHANGED <<host, noise, faults>>

\* Connection requests reach a device whose page scan has been enabled.  The other
\* questions come about a device that has been accepted, the pairing ones after the
\* key request has been answered without a key.
Executed(op, to) == \E i \in DOMAIN executed : executed[i] = Command(op, to)
MayAsk(q, r) ==
  CASE q = "ConnectionRequest" -> Executed("WriteScanEnable", Nobody)
    [] q = "LinkKeyRequest" -> Executed(Own["ConnectionRequest"], r)
    [] q = "UserConfirmationRequest" -> Executed(Fixed["IOCapabilityRequest"], r)
    [] OTHER -> Executed(Fixed["LinkKeyRequest"], r)

RemoteAsks ==
  /\ Len(requests) < MaxRequests
  /\ \E q \in Questions, r \in Remotes :
       LET e == Event(q, r)
       IN /\ MayAsk(q, r) /\ e \notin {requests[i] : i \in DOMAIN requests}
          /\ requests' = Append(requests, e)
          /\ eventsIn' = Append(eventsIn, e)
  /\ UNCHANGED <<host, queued, executed, other, acls, faults>>

OtherEvent ==
  /\ other < MaxOther
  /\ other' = other + 1
  /\ eventsIn' = Append(eventsIn, Event("Other", Nobody))
  /\ UNCHANGED <<host, queued, executed, acls, requests, faults>>

Device == DeviceTakes \/ DeviceExecutes \/ RemoteAsks \/ OtherEvent

Next == Host \/ Device

Spec == Init /\ [][Next]_vars

\* The event loop dispatches every completion, and the dongle works off its
\* commands; faults, other events and connection requests may or may not come.
Fairness ==
  /\ WF_vars(EventInCompleted) /\ WF_vars(CommandOutCompleted)
  /\ WF_vars(DeviceTakes) /\ WF_vars(DeviceExecutes)

FairSpec == Spec /\ Fairness
-----------------------------------------------------------------------------
(* Properties.                                                             *)

\* The type invariant.
TypeOK ==
  /\ transfer_completed \in Nat
  /\ hci_cmd_buffer \in Commands
  /\ transfer \in {"idle", "submitted", "taken"}
  /\ eventInLeft \in 0..EVENT_IN_BUFFER_COUNT
  /\ sent \in Seq(Commands) /\ lost \in SUBSET Commands
  /\ authentication_request \in BOOLEAN
  /\ queued \in Seq(Commands) /\ executed \in Seq(Commands)
  /\ eventsIn \in Seq(Events)
  /\ other \in 0..MaxOther /\ acls \in 0..MaxAcl /\ faults \in 0..MaxFaults
  /\ requests \in Seq(Events)

\* No command is lost: the chain never finds the command transfer busy.
NothingLost == lost = {}

\* One command at a time, executed in the order in which it was sent.
StopAndWait == INSTANCE StopAndWait WITH Commands <- Commands, Length <- InitLength
InStep == StopAndWait!Spec

\* Whatever the controller reports and whenever it does, the initialisation
\* commands are executed in the order of the code, and twice only after a failed
\* transfer was submitted again: the count never goes back and the shared buffer
\* only ever moves on, so losing commands is all that can happen.
Position == [op \in {InitCommands[k] : k \in 1..InitLength} |->
               CHOOSE k \in 1..InitLength : InitCommands[k] = op]
InitOrder ==
  \A i, j \in {n \in DOMAIN executed : executed[n].to = Nobody} : i < j =>
    \/ Position[executed[i].op] < Position[executed[j].op]
    \/ executed[i] = executed[j] /\ faults > 0

\* No command is executed more often than it was sent, unless a failed transfer was
\* submitted again: neither the shared buffer nor a refused submission makes the dongle
\* answer a question twice.
Count(s, c) == Cardinality({i \in DOMAIN s : s[i] = c})
ExecutedAsSent == \A c \in Commands : Count(executed, c) <= Count(sent, c) + faults

\* The dongle is prepared for connections: every command of the list is executed.
BringUpCompletes ==
  <>(\A k \in 1..InitLength : \E i \in DOMAIN executed : executed[i] = Step(k))
=============================================================================
