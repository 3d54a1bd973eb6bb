----------------------- MODULE CommandChannel_proofs -----------------------
(***************************************************************************)
(* Whatever else the controller reports, and whatever fails, the           *)
(* initialisation commands are executed in the order of async_callback's   *)
(* chain.  No assumption about the environment is needed: commands can be  *)
(* lost or, after a failed transfer, repeated, but not overtaken.          *)
(*                                                                         *)
(* Two things carry the proof.  The chain sends the command at position p  *)
(* when the count reaches 2 * (p - 1), and the count only goes up, so a    *)
(* new command stands behind every earlier one.  And the shared buffer     *)
(* holds the newest one, so the device never reads an older one than it    *)
(* has read before; the same one only if the transfer was submitted again. *)
(*                                                                         *)
(* And the dongle executes no command more often than it was sent, except  *)
(* once more for each such transfer: a new submission needs a new send,    *)
(* and a send into a transfer in flight replaces the command that would    *)
(* have been taken.                                                        *)
(***************************************************************************)
EXTENDS CommandChannel, SequenceFacts, SequenceTheorems, FiniteSetTheorems

\* The controller names the device it asks about.
RequestsNamed ==
  \A i \in DOMAIN eventsIn :
    eventsIn[i].kind \in Questions => eventsIn[i].from \in Remotes

TypeInv == TypeOK /\ RequestsNamed

\* The commands of the list are commands, addressed to nobody.
LEMMA StepTyped ==
  ASSUME NEW k \in 1..InitLength
  PROVE  Step(k) \in Commands /\ Step(k).to = Nobody /\ Step(k).op = InitCommands[k]
  BY DEF Commands, Step, Command

\* What the chain gives to usb_send_cmd_packet: nothing, or the command at the
\* position the count stands for.
LEMMA NextStepIs ==
  ASSUME NEW n \in Nat
  PROVE  \/ NextStep(n) = << >>
         \/ \E k \in 2..InitLength : NextStep(n) = <<Step(k)>> /\ n = 2 * (k - 1)
<1> SUFFICES ASSUME NextStep(n) # << >>
             PROVE  \E k \in 2..InitLength : NextStep(n) = <<Step(k)>> /\ n = 2 * (k - 1)
  OBVIOUS
<1> DEFINE k == n \div 2 + 1
<1>1. n % 2 = 0 /\ n \div 2 \in 1..(InitLength - 1) /\ NextStep(n) = <<Step(k)>>
  BY DEF NextStep
<1>2. k \in 2..InitLength /\ n = 2 * (k - 1)
  BY <1>1 DEF InitLength
<1> QED
  BY <1>1, <1>2

\* Answers are commands about a device.
LEMMA AnswerTyped ==
  ASSUME NEW c \in Answers
  PROVE  c \in Commands /\ c.to \in Remotes \cup {HardCoded} /\ c.to # Nobody
<1>1. c.to \in Remotes \cup {HardCoded}
  BY DEF Answers, Command
<1> QED
  BY <1>1, CommandAssumption DEF Commands

\* The command of the ACL callback is none of the list.
LEMMA AuthenticationTyped ==
  /\ AuthenticationRequested \in Commands
  /\ AuthenticationRequested.to = Unnamed /\ Unnamed # Nobody
  BY CommandAssumption DEF AuthenticationRequested, Command, Commands

\* What an event is answered with: nothing, or one of the answers.
LEMMA AnswerIs ==
  ASSUME NEW e \in Events, e.kind \in Questions => e.from \in Remotes,
         NEW a \in dump_hci_event(e)
  PROVE  a = << >> \/ \E c \in Answers : a = <<c>>
<1>1. CASE e.kind \in Questions
  <2>1. \A q \in DOMAIN Own : Command(Own[q], e.from) \in Answers
    BY <1>1 DEF Answers
  <2>2. \A q \in DOMAIN Fixed : Command(Fixed[q], HardCoded) \in Answers
    BY DEF Answers
  <2>3. \/ \E q \in DOMAIN Own : a = <<Command(Own[q], e.from)>>
        \/ \E q \in DOMAIN Fixed : a = <<Command(Fixed[q], HardCoded)>>
    BY <1>1 DEF dump_hci_event
  <2> QED
    BY <2>1, <2>2, <2>3
<1>2. CASE e.kind \notin Questions
  BY <1>2 DEF dump_hci_event
<1> QED
  BY <1>1, <1>2

\* The commands one callback gives to usb_send_cmd_packet.  An initialisation
\* command is the last of them, and stands where the count has got to.
Batch(cs, count) ==
  /\ cs \in Seq(Commands)
  /\ cs # << >> => cs[Len(cs)] \in Commands
  /\ cs # << >> /\ cs[Len(cs)].to = Nobody =>
       \E k \in 2..InitLength : cs[Len(cs)] = Step(k) /\ count = 2 * (k - 1)

\* The chain alone makes such a batch.
LEMMA ChainBatch ==
  ASSUME NEW n \in Nat
  PROVE  Batch(NextStep(n), n)
<1>1. CASE NextStep(n) = << >>
  BY <1>1 DEF Batch
<1>2. ASSUME NEW k \in 2..InitLength, NextStep(n) = <<Step(k)>>, n = 2 * (k - 1)
      PROVE  Batch(NextStep(n), n)
  <2>1. Step(k) \in Commands
    BY StepTyped DEF InitLength
  <2> QED
    BY <1>2, <2>1 DEF Batch
<1> QED
  BY <1>1, <1>2, NextStepIs

\* So does an event, whose answer comes before the chain.
LEMMA EventBatch ==
  ASSUME NEW n \in Nat, NEW a, a = << >> \/ \E c \in Answers : a = <<c>>
  PROVE  Batch(a \o NextStep(n), n)
<1> DEFINE s == NextStep(n)
<1>1. Batch(s, n) /\ s \in Seq(Commands)
  BY ChainBatch DEF Batch
<1>2. CASE a = << >>
  <2>1. << >> \o s = s
    BY <1>1
  <2> QED
    BY <1>1, <1>2, <2>1
<1>3. ASSUME NEW c \in Answers, a = <<c>>
      PROVE  Batch(a \o s, n)
  <2>1. c \in Commands /\ c.to # Nobody /\ <<c>> \in Seq(Commands)
    BY AnswerTyped
  <2> DEFINE cs == a \o s
  <2>2. Len(a) = 1 /\ a[1] = c
    BY <1>3
  <2> HIDE DEF s
  <2>3. /\ cs \in Seq(Commands) /\ Len(cs) = 1 + Len(s) /\ Len(s) \in Nat
        /\ \A i \in 1..Len(cs) : cs[i] = IF i <= 1 THEN a[i] ELSE s[i - 1]
    BY <1>1, <1>3, <2>1, <2>2, ConcatProperties
  <2>4. CASE s = << >>
    <3>1. Len(cs) = 1 /\ cs[1] = c
      BY <2>2, <2>3, <2>4
    <3> HIDE DEF cs
    <3> QED
      BY <1>3, <2>1, <2>3, <3>1 DEF Batch, cs
  <2>5. CASE s # << >>
    <3>1. Len(s) > 0
      BY <1>1, <2>5
    <3>2. cs[Len(cs)] = s[Len(s)] /\ cs # << >>
      BY <2>3, <3>1
    <3> HIDE DEF cs
    <3> QED
      BY <1>1, <1>3, <2>3, <2>5, <3>2 DEF Batch, cs
  <2> QED
    BY <2>4, <2>5
<1> QED
  BY <1>2, <1>3

\* An ACL completion has the host send its one command, or none.
LEMMA AclBatch ==
  ASSUME NEW n
  PROVE  Batch(<< >>, n) /\ Batch(<<AuthenticationRequested>>, n)
<1>1. Batch(<< >>, n)
  BY DEF Batch
<1> DEFINE cs == <<AuthenticationRequested>>
<1>2. cs \in Seq(Commands) /\ Len(cs) = 1 /\ cs[1] = AuthenticationRequested
  BY AuthenticationTyped
<1> HIDE DEF cs
<1>3. Batch(cs, n)
  BY <1>2, AuthenticationTyped DEF Batch
<1> QED
  BY <1>1, <1>3 DEF cs

\* What usb_send_cmd_packet does when there is nothing to send: nothing.
LEMMA SendsNothing ==
  ASSUME NEW state, TypeOK, usb_send_cmd_packet(<< >>, state)
  PROVE  transfer' = state /\ UNCHANGED <<hci_cmd_buffer, sent, lost, faults>>
<1> DEFINE cs == << >>
<1>1. cs = << >> /\ Len(cs) = 0 /\ sent \o cs = sent /\ faults \in Nat /\ MaxFaults \in Nat
  BY CommandAssumption DEF TypeOK
<1> HIDE DEF cs
<1>2. usb_send_cmd_packet(cs, state)
  BY DEF cs
<1>3. \A k : Refused(cs, k) = {}
  BY <1>1 DEF Refused
<1>4. CASE state = "idle"
  <2>1. PICK failed \in 0..Len(cs) :
          /\ faults' = faults + failed
          /\ transfer' = IF failed < Len(cs) THEN "submitted" ELSE "idle"
          /\ lost' = lost \cup Refused(cs, failed + 1)
    BY <1>2, <1>4 DEF usb_send_cmd_packet
  <2>2. failed = 0
    BY <1>1
  <2> QED
    BY <1>1, <1>2, <1>3, <1>4, <2>1, <2>2 DEF usb_send_cmd_packet
<1>5. CASE state # "idle"
  BY <1>1, <1>2, <1>3, <1>5 DEF usb_send_cmd_packet
<1> QED
  BY <1>4, <1>5

\* What usb_send_cmd_packet does with a batch: the buffer holds its last command,
\* and the types of the host's variables are kept.
LEMMA Sends ==
  ASSUME NEW cs \in Seq(Commands), NEW state \in {"idle", "submitted", "taken"},
         TypeOK, cs # << >> => cs[Len(cs)] \in Commands,
         usb_send_cmd_packet(cs, state)
  PROVE  /\ sent' \in Seq(Commands) /\ lost' \in SUBSET Commands /\ hci_cmd_buffer' \in Commands
         /\ transfer' \in {"idle", "submitted", "taken"}
         /\ faults' \in 0..MaxFaults /\ faults' >= faults
         /\ cs = << >> => transfer' = state /\ hci_cmd_buffer' = hci_cmd_buffer
         /\ cs # << >> => hci_cmd_buffer' = cs[Len(cs)]
<1>1. faults \in 0..MaxFaults /\ MaxFaults \in Nat /\ Len(cs) \in Nat
  BY CommandAssumption DEF TypeOK
<1>2. sent' = sent \o cs
  BY DEF usb_send_cmd_packet
<1>3. sent' \in Seq(Commands)
  BY <1>2 DEF TypeOK
<1>4. \A k : Refused(cs, k) \subseteq Commands
  BY DEF Refused
<1>5. lost' \in SUBSET Commands
  <2>1. \E k : lost' = lost \cup Refused(cs, k)
    <3>1. CASE state = "idle"
      BY <3>1 DEF usb_send_cmd_packet
    <3>2. CASE state # "idle"
      BY <3>2 DEF usb_send_cmd_packet
    <3> QED
      BY <3>1, <3>2
  <2>2. lost \subseteq Commands
    BY DEF TypeOK
  <2> QED
    BY <1>4, <2>1, <2>2
<1>6. transfer' \in {"idle", "submitted", "taken"}
  BY DEF usb_send_cmd_packet
<1>7. faults' \in 0..MaxFaults /\ faults' >= faults
  <2>1. CASE state = "idle"
    <3>1. PICK failed \in 0..Len(cs) : faults + failed <= MaxFaults /\ faults' = faults + failed
      BY <2>1 DEF usb_send_cmd_packet
    <3> QED
      BY <1>1, <3>1
  <2>2. CASE state # "idle"
    BY <1>1, <2>2 DEF usb_send_cmd_packet
  <2> QED
    BY <2>1, <2>2
<1>8. cs = << >> => transfer' = state /\ hci_cmd_buffer' = hci_cmd_buffer
  BY SendsNothing
<1>9. cs # << >> => hci_cmd_buffer' = cs[Len(cs)]
  BY DEF usb_send_cmd_packet
<1>10. hci_cmd_buffer' \in Commands
  BY <1>8, <1>9 DEF TypeOK
<1> QED
  BY <1>3, <1>5, <1>6, <1>7, <1>8, <1>9, <1>10

\* find_dev leaves well-typed variables behind.
LEMMA TypeInit == Init => TypeInv
<1> SUFFICES ASSUME Init PROVE TypeInv
  OBVIOUS
<1>1. Step(1) \in Commands
  BY StepTyped DEF InitLength
<1>2. sent \in Seq(Commands)
  BY <1>1 DEF Init
<1>3. /\ queued \in Seq(Commands) /\ executed \in Seq(Commands) /\ eventsIn \in Seq(Events)
      /\ requests \in Seq(Events) /\ DOMAIN eventsIn = {}
  BY DEF Init
<1>4. eventInLeft \in 0..EVENT_IN_BUFFER_COUNT
  BY CommandAssumption DEF Init
<1>5. authentication_request \in BOOLEAN
  BY DEF Init
<1> QED
  BY <1>1, <1>2, <1>3, <1>4, <1>5, CommandAssumption
  DEF Init, TypeInv, TypeOK, RequestsNamed

\* The batch of a step of the host and the completions it is about.
LEMMA HostBatch ==
  ASSUME TypeInv
  PROVE  /\ EventInCompleted =>
              \E cs \in Seq(Commands) :
                /\ Batch(cs, transfer_completed') /\ usb_send_cmd_packet(cs, transfer)
         /\ CommandOutCompleted =>
              \E cs \in Seq(Commands) :
                /\ Batch(cs, transfer_completed') /\ usb_send_cmd_packet(cs, "idle")
         /\ AclCompleted =>
              \E cs \in Seq(Commands) :
                /\ Batch(cs, transfer_completed') /\ usb_send_cmd_packet(cs, transfer)
<1>1. transfer_completed \in Nat /\ eventsIn \in Seq(Events)
  BY DEF TypeInv, TypeOK
<1>2. ASSUME EventInCompleted
      PROVE  \E cs \in Seq(Commands) :
               Batch(cs, transfer_completed') /\ usb_send_cmd_packet(cs, transfer)
  <2> DEFINE e == Head(eventsIn)
  <2>1. transfer_completed' \in Nat
    BY <1>1, <1>2 DEF EventInCompleted
  <2>2. e \in Events /\ (e.kind \in Questions => e.from \in Remotes)
    BY <1>1, <1>2, QueueTail DEF EventInCompleted, TypeInv, RequestsNamed
  <2>3. PICK a \in dump_hci_event(e) :
          usb_send_cmd_packet(a \o NextStep(transfer_completed'), transfer)
    BY <1>2 DEF EventInCompleted
  <2>4. Batch(a \o NextStep(transfer_completed'), transfer_completed')
    BY <2>1, <2>2, AnswerIs, EventBatch
  <2> QED
    BY <2>3, <2>4 DEF Batch
<1>3. ASSUME CommandOutCompleted
      PROVE  \E cs \in Seq(Commands) :
               Batch(cs, transfer_completed') /\ usb_send_cmd_packet(cs, "idle")
  <2>1. transfer_completed' \in Nat
    BY <1>1, <1>3 DEF CommandOutCompleted
  <2> DEFINE cs == NextStep(transfer_completed')
  <2>2. Batch(cs, transfer_completed')
    BY <2>1, ChainBatch
  <2>3. usb_send_cmd_packet(cs, "idle")
    BY <1>3 DEF CommandOutCompleted
  <2> QED
    BY <2>2, <2>3 DEF Batch
<1>4. ASSUME AclCompleted
      PROVE  \E cs \in Seq(Commands) :
               Batch(cs, transfer_completed') /\ usb_send_cmd_packet(cs, transfer)
  <2>1. PICK cs \in {<< >>, <<AuthenticationRequested>>} : usb_send_cmd_packet(cs, transfer)
    BY <1>4 DEF AclCompleted
  <2>2. Batch(cs, transfer_completed')
    BY AclBatch
  <2> QED
    BY <2>1, <2>2 DEF Batch
<1> QED
  BY <1>2, <1>3, <1>4

\* Every step keeps the types, and the sender of a connection request.
LEMMA TypeStep == TypeInv /\ [Next]_vars => TypeInv'
<1> SUFFICES ASSUME TypeInv, [Next]_vars PROVE TypeInv'
  OBVIOUS
<1>1. /\ transfer_completed \in Nat /\ eventInLeft \in 0..EVENT_IN_BUFFER_COUNT
      /\ EVENT_IN_BUFFER_COUNT \in Nat /\ MaxFaults \in Nat /\ faults \in 0..MaxFaults
      /\ acls \in 0..MaxAcl /\ MaxAcl \in Nat /\ other \in 0..MaxOther /\ MaxOther \in Nat
  BY CommandAssumption DEF TypeInv, TypeOK
<1>2. /\ eventsIn \in Seq(Events) /\ queued \in Seq(Commands) /\ executed \in Seq(Commands)
      /\ requests \in Seq(Events) /\ hci_cmd_buffer \in Commands
  BY DEF TypeInv, TypeOK
<1>3. CASE EventInCompleted
  <2>1. eventInLeft' \in 0..EVENT_IN_BUFFER_COUNT /\ transfer_completed' \in Nat
    BY <1>1, <1>3 DEF EventInCompleted
  <2>2. eventsIn' \in Seq(Events) /\ RequestsNamed'
    BY <1>2, <1>3, QueueTail DEF EventInCompleted, TypeInv, RequestsNamed
  <2>3. PICK cs \in Seq(Commands) :
          Batch(cs, transfer_completed') /\ usb_send_cmd_packet(cs, transfer)
    BY <1>3, HostBatch
  <2>4. /\ sent' \in Seq(Commands) /\ lost' \in SUBSET Commands /\ hci_cmd_buffer' \in Commands
        /\ transfer' \in {"idle", "submitted", "taken"} /\ faults' \in 0..MaxFaults
    BY <2>3, Sends DEF Batch, TypeInv, TypeOK
  <2> QED
    BY <1>3, <2>1, <2>2, <2>4 DEF EventInCompleted, noise, TypeInv, TypeOK
<1>4. CASE CommandOutCompleted
  <2>1. PICK cs \in Seq(Commands) :
          Batch(cs, transfer_completed') /\ usb_send_cmd_packet(cs, "idle")
    BY <1>4, HostBatch
  <2>2. /\ sent' \in Seq(Commands) /\ lost' \in SUBSET Commands /\ hci_cmd_buffer' \in Commands
        /\ transfer' \in {"idle", "submitted", "taken"} /\ faults' \in 0..MaxFaults
    BY <2>1, Sends DEF Batch, TypeInv
  <2>3. transfer_completed' \in Nat
    BY <1>1, <1>4 DEF CommandOutCompleted
  <2> QED
    BY <1>4, <2>2, <2>3
    DEF CommandOutCompleted, controller, noise, TypeInv, TypeOK, RequestsNamed
<1>5. CASE CommandOutStalled
  <2>1. faults' \in 0..MaxFaults
    BY <1>1, <1>5 DEF CommandOutStalled
  <2> QED
    BY <1>5, <2>1 DEF CommandOutStalled, controller, noise, TypeInv, TypeOK, RequestsNamed
<1>6. CASE CommandOutResubmitted
  <2>1. faults' \in 0..MaxFaults
    BY <1>1, <1>6 DEF CommandOutResubmitted
  <2> QED
    BY <1>6, <2>1 DEF CommandOutResubmitted, controller, noise, TypeInv, TypeOK, RequestsNamed
<1>7. CASE EventInStalled
  <2>1. faults' \in 0..MaxFaults /\ eventInLeft' \in 0..EVENT_IN_BUFFER_COUNT
    BY <1>1, <1>7 DEF EventInStalled
  <2> QED
    BY <1>7, <2>1 DEF EventInStalled, controller, noise, TypeInv, TypeOK, RequestsNamed
<1>8. CASE AclCompleted
  <2>1. acls' \in 0..MaxAcl /\ transfer_completed' \in Nat
    BY <1>1, <1>8 DEF AclCompleted
  <2>2. PICK cs \in Seq(Commands) :
          Batch(cs, transfer_completed') /\ usb_send_cmd_packet(cs, transfer)
    BY <1>8, HostBatch
  <2>3. /\ sent' \in Seq(Commands) /\ lost' \in SUBSET Commands /\ hci_cmd_buffer' \in Commands
        /\ transfer' \in {"idle", "submitted", "taken"} /\ faults' \in 0..MaxFaults
    BY <2>2, Sends DEF Batch, TypeInv, TypeOK
  <2>4. authentication_request' \in BOOLEAN
    BY <1>8 DEF AclCompleted, TypeInv, TypeOK
  <2> QED
    BY <1>8, <2>1, <2>3, <2>4 DEF AclCompleted, controller, TypeInv, TypeOK, RequestsNamed
<1>9. CASE DeviceTakes
  <2>1. queued' \in Seq(Commands)
    BY <1>2, <1>9, QueueAppend DEF DeviceTakes
  <2> QED
    BY <1>9, <2>1 DEF DeviceTakes, noise, TypeInv, TypeOK, RequestsNamed
<1>10. CASE DeviceExecutes
  <2>1. Head(queued) \in Commands /\ queued' \in Seq(Commands) /\ executed' \in Seq(Commands)
    BY <1>2, <1>10, QueueTail, QueueAppend DEF DeviceExecutes
  <2>2. Head(queued).to \in Remotes \cup {HardCoded, Nobody, Unnamed}
    BY <2>1, AnswerTyped, AuthenticationTyped DEF Commands, Step, Command
  <2> DEFINE silent == Head(queued).to \in {Nobody, Unnamed}
             a == Event("CommandComplete", Nobody)
             b == Event("Other", Head(queued).to)
             es == IF silent THEN <<a>> ELSE <<a, b>>
  <2>3. /\ a \in Events /\ a.kind \notin Questions
        /\ ~silent => b \in Events /\ b.kind \notin Questions
    BY <2>2 DEF Event, Events, EventKinds, Questions, Own, Fixed
  <2> HIDE DEF a, b, silent
  <2>4. es \in Seq(Events) /\ \A i \in 1..Len(es) : es[i].kind \notin Questions
    BY <2>3
  <2>5. eventsIn' = eventsIn \o es
    BY <1>10 DEF DeviceExecutes, a, b, silent
  <2> HIDE DEF es
  <2>6. eventsIn' \in Seq(Events) /\ RequestsNamed'
    <3>1. /\ eventsIn' \in Seq(Events) /\ Len(eventsIn') = Len(eventsIn) + Len(es)
          /\ \A i \in 1..Len(eventsIn) + Len(es) :
               eventsIn'[i] = IF i <= Len(eventsIn) THEN eventsIn[i] ELSE es[i - Len(eventsIn)]
      BY <1>2, <2>4, <2>5, ConcatProperties
    <3> SUFFICES ASSUME NEW i \in DOMAIN eventsIn', eventsIn'[i].kind \in Questions
                 PROVE  eventsIn'[i].from \in Remotes
      BY <3>1 DEF RequestsNamed
    <3>2. i \in 1..Len(eventsIn) + Len(es)
      BY <3>1
    <3>3. CASE i <= Len(eventsIn)
      <4>1. i \in DOMAIN eventsIn /\ eventsIn'[i] = eventsIn[i]
        BY <1>2, <3>1, <3>2, <3>3
      <4> QED
        BY <4>1, <1>10 DEF TypeInv, RequestsNamed
    <3>4. CASE ~(i <= Len(eventsIn))
      <4>1. i - Len(eventsIn) \in 1..Len(es)
        BY <1>2, <2>4, <3>2, <3>4
      <4> QED
        BY <2>4, <3>1, <3>2, <3>4, <4>1
    <3> QED
      BY <3>3, <3>4
  <2> QED
    BY <1>10, <2>1, <2>6 DEF DeviceExecutes, host, noise, TypeInv, TypeOK
<1>11. ASSUME NEW q \in Questions, NEW r \in Remotes,
              requests' = Append(requests, Event(q, r)),
              eventsIn' = Append(eventsIn, Event(q, r)),
              UNCHANGED <<host, queued, executed, other, acls, faults>>
       PROVE  TypeInv'
  <2> DEFINE e == Event(q, r)
  <2>1. e \in Events /\ e.from \in Remotes
    BY DEF Event, Events, EventKinds
  <2> HIDE DEF e
  <2>2. eventsIn' \in Seq(Events) /\ RequestsNamed'
    BY <1>2, <1>11, <2>1, QueueAppend DEF TypeInv, RequestsNamed, e
  <2>3. requests' \in Seq(Events)
    BY <1>2, <1>11, <2>1, QueueAppend DEF e
  <2> QED
    BY <1>11, <2>2, <2>3 DEF host, TypeInv, TypeOK
<1>12. CASE OtherEvent
  <2> DEFINE e == Event("Other", Nobody)
  <2>1. e \in Events /\ e.kind \notin Questions
    BY DEF Event, Events, EventKinds, Questions, Own, Fixed
  <2> HIDE DEF e
  <2>2. eventsIn' \in Seq(Events) /\ RequestsNamed'
    BY <1>2, <1>12, <2>1, QueueAppend DEF OtherEvent, TypeInv, RequestsNamed, e
  <2>3. other' \in 0..MaxOther
    BY <1>1, <1>12 DEF OtherEvent
  <2> QED
    BY <1>12, <2>2, <2>3 DEF OtherEvent, host, TypeInv, TypeOK
<1>13. CASE UNCHANGED vars
  BY <1>13 DEF vars, host, controller, noise, TypeInv, TypeOK, RequestsNamed
<1> QED
  BY <1>3, <1>4, <1>5, <1>6, <1>7, <1>8, <1>9, <1>10, <1>11, <1>12, <1>13
  DEF Next, Host, Device, RemoteAsks

\* Every variable of the command path keeps its type; the number of submitted
\* event transfers of find_dev never passes what it submitted at the start.
THEOREM CommandTyped == Spec => []TypeOK
<1>1. TypeInv => TypeOK
  BY DEF TypeInv
<1> QED
  BY TypeInit, TypeStep, <1>1, PTL DEF Spec
-----------------------------------------------------------------------------
\* The place of each initialisation command in the list.
Rank ==
  [Reset |-> 1,
   ReadLocalVersion |-> 2, ReadLocalName |-> 3, ReadLocalSupportedCommands |-> 4,
   ReadBDADDR |-> 5,
   ReadBufferSize |-> 6, ReadLocalSupportedFeatures |-> 7, SetEventMask |-> 8,
   LEReadBufferSize |-> 9,
   ReadScanEnable |-> 10, LESetScanParameters |-> 11, WriteSimplePairingMode |-> 12,
   WritePageTimeout |-> 13,
   WriteClassOfDevice |-> 14, ChangeLocalName |-> 15, WriteExtendedInquiryResponse |-> 16,
   WriteInquiryMode |-> 17, WriteScanEnable |-> 18,
   WriteDefaultErroneousDataReporting |-> 19, WriteScoPcmInt |-> 20]

Names ==
  {"Reset", "ReadLocalVersion", "ReadLocalName", "ReadLocalSupportedCommands", "ReadBDADDR",
   "ReadBufferSize", "ReadLocalSupportedFeatures", "SetEventMask", "LEReadBufferSize",
   "ReadScanEnable", "LESetScanParameters", "WriteSimplePairingMode", "WritePageTimeout",
   "WriteClassOfDevice", "ChangeLocalName", "WriteExtendedInquiryResponse",
   "WriteInquiryMode", "WriteScanEnable", "WriteDefaultErroneousDataReporting",
   "WriteScoPcmInt"}

\* No command occurs twice in the chain, so a command has one position.
LEMMA PositionOfStep ==
  ASSUME NEW k \in 1..InitLength
  PROVE  Position[InitCommands[k]] = k
<1>1. Places(Names, Rank, ResetStep, 0, 1)
  BY DEF Places, ResetStep, Rank, Names
<1>2. Places(Names, Rank, InformationSteps, 1, 4)
  <2>1. InformationSteps \in Seq(Names) /\ Len(InformationSteps) = 4
    BY DEF InformationSteps, Names
  <2>2. \A i \in 1..4 : Rank[InformationSteps[i]] = 1 + i
    <3>1. /\ Rank[InformationSteps[1]] = 2 /\ Rank[InformationSteps[2]] = 3
          /\ Rank[InformationSteps[3]] = 4 /\ Rank[InformationSteps[4]] = 5
      BY DEF InformationSteps, Rank
    <3>2. 1..4 = {1, 2, 3, 4}
      OBVIOUS
    <3> QED
      BY <3>1, <3>2
  <2> QED
    BY <2>1, <2>2 DEF Places
<1>3. Places(Names, Rank, CapabilitySteps, 5, 4)
  <2>1. CapabilitySteps \in Seq(Names) /\ Len(CapabilitySteps) = 4
    BY DEF CapabilitySteps, Names
  <2>2. \A i \in 1..4 : Rank[CapabilitySteps[i]] = 5 + i
    <3>1. /\ Rank[CapabilitySteps[1]] = 6 /\ Rank[CapabilitySteps[2]] = 7
          /\ Rank[CapabilitySteps[3]] = 8 /\ Rank[CapabilitySteps[4]] = 9
      BY DEF CapabilitySteps, Rank
    <3>2. 1..4 = {1, 2, 3, 4}
      OBVIOUS
    <3> QED
      BY <3>1, <3>2
  <2> QED
    BY <2>1, <2>2 DEF Places
<1>4. Places(Names, Rank, ScanSteps, 9, 4)
  <2>1. ScanSteps \in Seq(Names) /\ Len(ScanSteps) = 4
    BY DEF ScanSteps, Names
  <2>2. \A i \in 1..4 : Rank[ScanSteps[i]] = 9 + i
    <3>1. /\ Rank[ScanSteps[1]] = 10 /\ Rank[ScanSteps[2]] = 11
          /\ Rank[ScanSteps[3]] = 12 /\ Rank[ScanSteps[4]] = 13
      BY DEF ScanSteps, Rank
    <3>2. 1..4 = {1, 2, 3, 4}
      OBVIOUS
    <3> QED
      BY <3>1, <3>2
  <2> QED
    BY <2>1, <2>2 DEF Places
<1>5. Places(Names, Rank, IdentitySteps, 13, 3)
  <2>1. IdentitySteps \in Seq(Names) /\ Len(IdentitySteps) = 3
    BY DEF IdentitySteps, Names
  <2>2. \A i \in 1..3 : Rank[IdentitySteps[i]] = 13 + i
    <3>1. /\ Rank[IdentitySteps[1]] = 14 /\ Rank[IdentitySteps[2]] = 15
          /\ Rank[IdentitySteps[3]] = 16
      BY DEF IdentitySteps, Rank
    <3>2. 1..3 = {1, 2, 3}
      OBVIOUS
    <3> QED
      BY <3>1, <3>2
  <2> QED
    BY <2>1, <2>2 DEF Places
<1>6. Places(Names, Rank, VisibilitySteps, 16, 4)
  <2>1. VisibilitySteps \in Seq(Names) /\ Len(VisibilitySteps) = 4
    BY DEF VisibilitySteps, Names
  <2>2. \A i \in 1..4 : Rank[VisibilitySteps[i]] = 16 + i
    <3>1. /\ Rank[VisibilitySteps[1]] = 17 /\ Rank[VisibilitySteps[2]] = 18
          /\ Rank[VisibilitySteps[3]] = 19 /\ Rank[VisibilitySteps[4]] = 20
      BY DEF VisibilitySteps, Rank
    <3>2. 1..4 = {1, 2, 3, 4}
      OBVIOUS
    <3> QED
      BY <3>1, <3>2
  <2> QED
    BY <2>1, <2>2 DEF Places
<1>7. Places(Names, Rank, InitCommands, 0, 20)
  <2>1. Places(Names, Rank, ResetStep \o InformationSteps, 0, 5)
    BY <1>1, <1>2, PlacesConcat
  <2>2. Places(Names, Rank, ResetStep \o InformationSteps \o CapabilitySteps, 0, 9)
    BY <1>3, <2>1, PlacesConcat
  <2>3. Places(Names, Rank, ResetStep \o InformationSteps \o CapabilitySteps \o ScanSteps, 0, 13)
    BY <1>4, <2>2, PlacesConcat
  <2>4. Places(Names, Rank, ResetStep \o InformationSteps \o CapabilitySteps \o ScanSteps
                 \o IdentitySteps, 0, 16)
    BY <1>5, <2>3, PlacesConcat
  <2> QED
    BY <1>6, <2>4, PlacesConcat DEF InitCommands
<1> QED
  BY <1>7, FoundInPlace DEF Position, InitLength

-----------------------------------------------------------------------------
\* Positions where a queue holds initialisation commands.
Inits(q) == {n \in DOMAIN q : q[n].to = Nobody}

\* c may be executed before d.
Before(c, d) == Position[c.op] < Position[d.op] \/ (c = d /\ faults > 0)

ExecutedInOrder == \A i, j \in Inits(executed) : i < j => Before(executed[i], executed[j])
QueuedInOrder == \A i, j \in Inits(queued) : i < j => Before(queued[i], queued[j])
QueuedBehind ==
  \A i \in Inits(executed), j \in Inits(queued) : Before(executed[i], queued[j])

\* Nothing the device has taken stands behind the command in the buffer, and only
\* the command it has just taken stands beside it.
Newest(c) == Before(c, hci_cmd_buffer) \/ (c = hci_cmd_buffer /\ transfer # "submitted")
BufferNewest ==
  hci_cmd_buffer.to = Nobody =>
    /\ \A i \in Inits(executed) : Newest(executed[i])
    /\ \A i \in Inits(queued) : Newest(queued[i])

\* The count has come past every command sent.
Counted(c) == c.to = Nobody => 2 * (Position[c.op] - 1) <= transfer_completed
AllCounted ==
  /\ Counted(hci_cmd_buffer)
  /\ \A i \in DOMAIN executed : Counted(executed[i])
  /\ \A i \in DOMAIN queued : Counted(queued[i])

OrderInv ==
  TypeInv /\ ExecutedInOrder /\ QueuedInOrder /\ QueuedBehind /\ BufferNewest /\ AllCounted

\* An initialisation command is one of the list, and its position is its own.
LEMMA InitCommandIs ==
  ASSUME NEW c \in Commands, c.to = Nobody
  PROVE  Position[c.op] \in 1..InitLength /\ c = Step(Position[c.op])
<1>1. PICK k \in 1..InitLength : c = Step(k)
  BY AnswerTyped, AuthenticationTyped DEF Commands
<1>2. Position[c.op] = k
  BY <1>1, StepTyped, PositionOfStep
<1> QED
  BY <1>1, <1>2

\* Positions are numbers.
LEMMA PositionIsInt == \A c \in Commands : c.to = Nobody => Position[c.op] \in Int
  BY InitCommandIs DEF InitLength

\* The command behind the first has the position it was sent for.
LEMMA PositionOfLater ==
  ASSUME NEW k \in 2..InitLength
  PROVE  Position[Step(k).op] = k /\ k \in Int
<1>1. k \in 1..InitLength /\ k \in Int
  BY DEF InitLength
<1> QED
  BY <1>1, StepTyped, PositionOfStep

\* find_dev has given the device nothing yet.
LEMMA OrderInit == Init => OrderInv
<1> SUFFICES ASSUME Init PROVE OrderInv
  OBVIOUS
<1>1. DOMAIN executed = {} /\ DOMAIN queued = {}
  BY DEF Init
<1>2. hci_cmd_buffer.op = InitCommands[1] /\ 1 \in 1..InitLength
  BY StepTyped DEF Init, InitLength
<1>3. Position[hci_cmd_buffer.op] = 1
  BY <1>2, PositionOfStep
<1>4. Counted(hci_cmd_buffer)
  BY <1>3 DEF Init, Counted
<1> QED
  BY <1>1, <1>4, TypeInit
  DEF OrderInv, ExecutedInOrder, QueuedInOrder, QueuedBehind, BufferNewest, AllCounted, Inits

\* What a step keeps that leaves the device's queues alone: the order of what the
\* device has taken, and that the count has come past it.
QueuesOrdered ==
  /\ ExecutedInOrder /\ QueuedInOrder /\ QueuedBehind
  /\ \A i \in DOMAIN executed : Counted(executed[i])
  /\ \A i \in DOMAIN queued : Counted(queued[i])

\* The count and the number of faults may grow meanwhile.
LEMMA QueuesKept ==
  ASSUME OrderInv, TypeInv', UNCHANGED <<queued, executed>>,
         faults' >= faults, transfer_completed' >= transfer_completed
  PROVE  QueuesOrdered'
<1>1. /\ faults \in Int /\ faults' \in Int
      /\ transfer_completed \in Int /\ transfer_completed' \in Int
  BY CommandAssumption DEF OrderInv, TypeInv, TypeOK
<1>2. ExecutedInOrder' /\ QueuedInOrder' /\ QueuedBehind'
  BY <1>1 DEF OrderInv, ExecutedInOrder, QueuedInOrder, QueuedBehind, Before, Inits
<1>3. executed \in Seq(Commands) /\ queued \in Seq(Commands)
  BY DEF OrderInv, TypeInv, TypeOK
<1>4. ASSUME NEW c \in Commands, Counted(c), c.to = Nobody
      PROVE  2 * (Position[c.op] - 1) <= transfer_completed'
  <2>1. Position[c.op] \in Int
    BY <1>4, PositionIsInt
  <2>2. 2 * (Position[c.op] - 1) <= transfer_completed
    BY <1>4 DEF Counted
  <2> HIDE DEF Position
  <2> QED
    BY <1>1, <2>1, <2>2
<1>5. /\ \A i \in DOMAIN executed : executed[i] \in Commands /\ Counted(executed[i])
      /\ \A i \in DOMAIN queued : queued[i] \in Commands /\ Counted(queued[i])
  BY <1>3 DEF OrderInv, AllCounted
<1>6. /\ \A i \in DOMAIN executed' : Counted(executed[i])'
      /\ \A i \in DOMAIN queued' : Counted(queued[i])'
  BY <1>4, <1>5 DEF Counted
<1> QED
  BY <1>2, <1>6 DEF QueuesOrdered

\* A batch puts the newest command into the buffer, or leaves it as it is.
LEMMA BatchKeepsOrder ==
  ASSUME OrderInv, TypeInv', UNCHANGED <<queued, executed>>,
         transfer_completed' = transfer_completed + 1,
         NEW state \in {"idle", "submitted", "taken"}, state \in {"idle", transfer},
         NEW cs \in Seq(Commands), Batch(cs, transfer_completed'),
         usb_send_cmd_packet(cs, state)
  PROVE  OrderInv'
<1>1. /\ transfer_completed \in Nat /\ transfer_completed' \in Nat
      /\ executed \in Seq(Commands) /\ queued \in Seq(Commands) /\ hci_cmd_buffer \in Commands
      /\ faults \in Nat /\ faults' \in Nat
  BY CommandAssumption DEF OrderInv, TypeInv, TypeOK
<1>2. /\ faults' >= faults /\ hci_cmd_buffer' \in Commands
      /\ cs = << >> => transfer' = state /\ hci_cmd_buffer' = hci_cmd_buffer
      /\ cs # << >> => hci_cmd_buffer' = cs[Len(cs)]
  BY Sends DEF Batch, OrderInv, TypeInv
<1>3. QueuesOrdered'
  BY <1>1, <1>2, QueuesKept
<1>4. \A c \in Commands : c.to = Nobody => Position[c.op] \in Int
  BY PositionIsInt
<1>5. CASE cs = << >>
  <2>1. BufferNewest'
    BY <1>1, <1>2, <1>5 DEF OrderInv, BufferNewest, Newest, Before, Inits
  <2>2. Counted(hci_cmd_buffer)'
    BY <1>1, <1>2, <1>4, <1>5 DEF OrderInv, AllCounted, Counted
  <2> QED
    BY <1>3, <2>1, <2>2 DEF OrderInv, QueuesOrdered, AllCounted
<1>6. CASE cs # << >> /\ hci_cmd_buffer'.to = Nobody
  <2>1. PICK k \in 2..InitLength :
          hci_cmd_buffer' = Step(k) /\ transfer_completed' = 2 * (k - 1)
    BY <1>2, <1>6 DEF Batch
  <2>2. Position[hci_cmd_buffer'.op] = k
    BY <2>1, PositionOfLater
  <2>3. \A c \in Commands : c.to = Nobody /\ Counted(c) => Position[c.op] < k
    <3>1. k \in Int /\ transfer_completed + 1 = 2 * (k - 1)
      BY <2>1, PositionOfLater
    <3>2. \A x \in Int : 2 * (x - 1) <= transfer_completed => x < k
      BY <1>1, <3>1
    <3> QED
      BY <1>4, <3>2 DEF Counted
  <2>4. BufferNewest'
    <3>1. \A i \in Inits(executed) : Position[executed[i].op] < k
      BY <1>1, <2>3 DEF OrderInv, AllCounted, Inits
    <3>2. \A i \in Inits(queued) : Position[queued[i].op] < k
      BY <1>1, <2>3 DEF OrderInv, AllCounted, Inits
    <3> QED
      BY <2>2, <3>1, <3>2 DEF BufferNewest, Newest, Before, Inits
  <2>5. Counted(hci_cmd_buffer)'
    BY <2>1, <2>2 DEF Counted, InitLength
  <2> QED
    BY <1>3, <2>4, <2>5 DEF OrderInv, QueuesOrdered, AllCounted
<1>7. CASE hci_cmd_buffer'.to # Nobody
  BY <1>3, <1>7 DEF OrderInv, QueuesOrdered, AllCounted, BufferNewest, Counted
<1> QED
  BY <1>5, <1>6, <1>7

\* A step that leaves the buffer, the queues and the transfer alone, or counts a
\* fault, which is what a submission of the same command again is.
LEMMA IdleKeepsOrder ==
  ASSUME OrderInv, TypeInv', UNCHANGED <<queued, executed, hci_cmd_buffer>>,
         faults' >= faults, transfer_completed' >= transfer_completed,
         transfer' = transfer \/ faults' > 0
  PROVE  OrderInv'
<1>1. /\ transfer_completed \in Nat /\ transfer_completed' \in Nat
      /\ faults \in Nat /\ faults' \in Nat /\ hci_cmd_buffer \in Commands
  BY CommandAssumption DEF OrderInv, TypeInv, TypeOK
<1>2. QueuesOrdered'
  BY QueuesKept
<1>3. BufferNewest'
  BY <1>1 DEF OrderInv, BufferNewest, Newest, Before, Inits
<1>4. Counted(hci_cmd_buffer)'
  BY <1>1, InitCommandIs DEF OrderInv, AllCounted, Counted, InitLength
<1> QED
  BY <1>2, <1>3, <1>4 DEF OrderInv, QueuesOrdered, AllCounted

\* The device takes the newest command, behind everything it has taken before.
LEMMA TakeKeepsOrder ==
  ASSUME OrderInv, TypeInv', DeviceTakes
  PROVE  OrderInv'
<1> DEFINE b == hci_cmd_buffer
           n == Len(queued)
<1>1. /\ queued \in Seq(Commands) /\ executed \in Seq(Commands) /\ b \in Commands
      /\ n \in Nat /\ DOMAIN queued = 1..n
  BY DEF OrderInv, TypeInv, TypeOK
<1>2. /\ queued' = Append(queued, b) /\ transfer = "submitted" /\ transfer' = "taken"
      /\ UNCHANGED <<hci_cmd_buffer, executed, faults, transfer_completed>>
  BY DEF DeviceTakes
<1>3. /\ DOMAIN queued' = 1..(n + 1) /\ queued'[n + 1] = b
      /\ \A i \in 1..n : queued'[i] = queued[i]
  BY <1>1, <1>2, QueueAppend
<1> HIDE DEF n
<1>4. /\ b.to = Nobody => \A i \in Inits(executed) : Before(executed[i], b)
      /\ b.to = Nobody => \A i \in Inits(queued) : Before(queued[i], b)
  BY <1>2 DEF OrderInv, BufferNewest, Newest
<1>5. ExecutedInOrder'
  BY <1>2 DEF OrderInv, ExecutedInOrder, Before, Inits
<1>6. QueuedInOrder'
  <2> SUFFICES ASSUME NEW i \in 1..(n + 1), NEW j \in 1..(n + 1), i < j,
                      queued'[i].to = Nobody, queued'[j].to = Nobody
               PROVE  Before(queued'[i], queued'[j])
    <3>1. \A i \in Inits(queued)' : i \in 1..(n + 1) /\ queued'[i].to = Nobody
      BY <1>3 DEF Inits
    <3>2. faults' = faults
      BY <1>2
    <3> QED
      BY <3>1, <3>2 DEF QueuedInOrder, Before
  <2>1. i \in 1..n /\ queued'[i] = queued[i]
    BY <1>1, <1>3
  <2>2. CASE j = n + 1
    BY <1>1, <1>3, <1>4, <2>1, <2>2 DEF Inits
  <2>3. CASE j # n + 1
    <3>1. j \in 1..n /\ queued'[j] = queued[j]
      BY <1>1, <1>3, <2>3
    <3> QED
      BY <1>1, <2>1, <3>1 DEF OrderInv, QueuedInOrder, Inits
  <2> QED
    BY <2>2, <2>3
<1>7. QueuedBehind'
  <2> SUFFICES ASSUME NEW i \in Inits(executed), NEW j \in 1..(n + 1), queued'[j].to = Nobody
               PROVE  Before(executed[i], queued'[j])
    <3>1. Inits(executed)' = Inits(executed) /\ executed' = executed /\ faults' = faults
      BY <1>2 DEF Inits
    <3>2. \A j \in Inits(queued)' : j \in 1..(n + 1) /\ queued'[j].to = Nobody
      BY <1>3 DEF Inits
    <3> QED
      BY <3>1, <3>2 DEF QueuedBehind, Before
  <2>1. CASE j = n + 1
    BY <1>1, <1>3, <1>4, <2>1
  <2>2. CASE j # n + 1
    <3>1. j \in 1..n /\ queued'[j] = queued[j]
      BY <1>1, <1>3, <2>2
    <3> QED
      BY <1>1, <3>1 DEF OrderInv, QueuedBehind, Inits
  <2> QED
    BY <2>1, <2>2
<1>8. BufferNewest'
  <2> SUFFICES ASSUME b.to = Nobody
               PROVE  /\ \A i \in Inits(executed) : Before(executed[i], b)
                      /\ \A j \in Inits(queued') : Before(queued'[j], b) \/ queued'[j] = b
    BY <1>2 DEF BufferNewest, Newest, Before, Inits
  <2>1. ASSUME NEW j \in 1..(n + 1), queued'[j].to = Nobody
        PROVE  Before(queued'[j], b) \/ queued'[j] = b
    <3>1. CASE j = n + 1
      BY <1>3, <3>1
    <3>2. CASE j # n + 1
      <4>1. j \in 1..n /\ queued'[j] = queued[j]
        BY <1>1, <1>3, <3>2
      <4> QED
        BY <1>1, <1>4, <2>1, <4>1 DEF Inits
    <3> QED
      BY <3>1, <3>2
  <2> QED
    BY <1>3, <1>4, <2>1 DEF Inits
<1>9. AllCounted'
  <2>1. Counted(b) /\ \A j \in 1..n : Counted(queued[j])
    BY <1>1 DEF OrderInv, AllCounted
  <2>2. \A j \in 1..(n + 1) : queued'[j] = b \/ (j \in 1..n /\ queued'[j] = queued[j])
    BY <1>1, <1>3
  <2>3. \A j \in 1..(n + 1) : Counted(queued'[j])
    BY <2>1, <2>2
  <2> QED
    BY <1>2, <1>3, <2>3 DEF OrderInv, AllCounted, Counted
<1> QED
  BY <1>5, <1>6, <1>7, <1>8, <1>9 DEF OrderInv

\* The device executes the oldest command it has taken.
LEMMA ExecuteKeepsOrder ==
  ASSUME OrderInv, TypeInv', DeviceExecutes
  PROVE  OrderInv'
<1> DEFINE h == Head(queued)
           n == Len(executed)
<1>1. /\ queued \in Seq(Commands) /\ executed \in Seq(Commands) /\ h \in Commands
      /\ n \in Nat /\ DOMAIN executed = 1..n /\ h = queued[1] /\ 1 \in DOMAIN queued
  BY QueueTail DEF OrderInv, TypeInv, TypeOK, DeviceExecutes
<1>2. /\ queued' = Tail(queued) /\ executed' = Append(executed, h)
      /\ UNCHANGED <<hci_cmd_buffer, transfer, faults, transfer_completed>>
  BY DEF DeviceExecutes, host
<1>3. /\ DOMAIN executed' = 1..(n + 1) /\ executed'[n + 1] = h
      /\ \A i \in 1..n : executed'[i] = executed[i]
  BY <1>1, <1>2, QueueAppend
<1>4. \A i \in DOMAIN queued' : /\ i + 1 \in DOMAIN queued /\ queued'[i] = queued[i + 1]
                                /\ i \in Int /\ 1 < i + 1
  BY <1>1, <1>2, QueueTail DEF DeviceExecutes
<1> HIDE DEF n, h
<1>5. ExecutedInOrder'
  <2> SUFFICES ASSUME NEW i \in 1..(n + 1), NEW j \in 1..(n + 1), i < j,
                      executed'[i].to = Nobody, executed'[j].to = Nobody
               PROVE  Before(executed'[i], executed'[j])
    <3>1. \A i \in Inits(executed)' : i \in 1..(n + 1) /\ executed'[i].to = Nobody
      BY <1>3 DEF Inits
    <3>2. faults' = faults
      BY <1>2
    <3> QED
      BY <3>1, <3>2 DEF ExecutedInOrder, Before
  <2>1. i \in 1..n /\ executed'[i] = executed[i]
    BY <1>1, <1>3
  <2>2. CASE j = n + 1
    BY <1>1, <1>3, <2>1, <2>2 DEF OrderInv, QueuedBehind, Inits
  <2>3. CASE j # n + 1
    <3>1. j \in 1..n /\ executed'[j] = executed[j]
      BY <1>1, <1>3, <2>3
    <3> QED
      BY <1>1, <2>1, <3>1 DEF OrderInv, ExecutedInOrder, Inits
  <2> QED
    BY <2>2, <2>3
<1>6. QueuedInOrder'
  <2> SUFFICES ASSUME NEW i \in Inits(queued'), NEW j \in Inits(queued'), i < j
               PROVE  Before(queued'[i], queued'[j])
    BY <1>2 DEF QueuedInOrder, Before, Inits
  <2>1. /\ i + 1 \in Inits(queued) /\ queued'[i] = queued[i + 1] /\ i \in Int
        /\ j + 1 \in Inits(queued) /\ queued'[j] = queued[j + 1] /\ j \in Int
    BY <1>4 DEF Inits
  <2>2. i + 1 < j + 1
    BY <2>1
  <2>3. Before(queued[i + 1], queued[j + 1])
    BY <2>1, <2>2 DEF OrderInv, QueuedInOrder
  <2> QED
    BY <2>1, <2>3
<1>7. QueuedBehind'
  <2> SUFFICES ASSUME NEW i \in 1..(n + 1), executed'[i].to = Nobody, NEW j \in Inits(queued')
               PROVE  Before(executed'[i], queued'[j])
    <3>1. \A i \in Inits(executed)' : i \in 1..(n + 1) /\ executed'[i].to = Nobody
      BY <1>3 DEF Inits
    <3>2. faults' = faults /\ Inits(queued)' = Inits(queued')
      BY <1>2 DEF Inits
    <3> QED
      BY <3>1, <3>2 DEF QueuedBehind, Before
  <2>1. j + 1 \in Inits(queued) /\ queued'[j] = queued[j + 1] /\ 1 < j + 1
    BY <1>4 DEF Inits
  <2>2. CASE i = n + 1
    <3>1. 1 \in Inits(queued)
      BY <1>1, <1>3, <2>2 DEF Inits
    <3> QED
      BY <1>1, <1>3, <2>1, <2>2, <3>1 DEF OrderInv, QueuedInOrder, Inits
  <2>3. CASE i # n + 1
    <3>1. i \in 1..n /\ executed'[i] = executed[i]
      BY <1>1, <1>3, <2>3
    <3> QED
      BY <1>1, <2>1, <3>1 DEF OrderInv, QueuedBehind, Inits
  <2> QED
    BY <2>2, <2>3
<1>8. BufferNewest'
  <2> SUFFICES ASSUME hci_cmd_buffer.to = Nobody
               PROVE  /\ \A i \in Inits(executed') : Newest(executed'[i])
                      /\ \A i \in Inits(queued') : Newest(queued'[i])
    BY <1>2 DEF BufferNewest, Newest, Before, Inits
  <2>1. ASSUME NEW i \in 1..(n + 1), executed'[i].to = Nobody
        PROVE  Newest(executed'[i])
    <3>1. CASE i = n + 1
      BY <1>1, <1>3, <2>1, <3>1 DEF OrderInv, BufferNewest, Inits
    <3>2. CASE i # n + 1
      <4>1. i \in 1..n /\ executed'[i] = executed[i]
        BY <1>1, <1>3, <3>2
      <4> QED
        BY <1>1, <2>1, <4>1 DEF OrderInv, BufferNewest, Inits
    <3> QED
      BY <3>1, <3>2
  <2>2. \A i \in Inits(queued') : Newest(queued'[i])
    BY <1>4 DEF OrderInv, BufferNewest, Inits
  <2> QED
    BY <1>3, <2>1, <2>2 DEF Inits
<1>9. AllCounted'
  <2>1. Counted(h)
    BY <1>1 DEF OrderInv, AllCounted
  <2>2. \A i \in 1..(n + 1) : executed'[i] = h \/ (i \in 1..n /\ executed'[i] = executed[i])
    BY <1>1, <1>3
  <2>3. \A i \in 1..(n + 1) : Counted(executed'[i])
    BY <1>1, <2>1, <2>2 DEF OrderInv, AllCounted
  <2>4. \A i \in DOMAIN queued' : Counted(queued'[i])
    BY <1>4 DEF OrderInv, AllCounted
  <2> QED
    BY <1>2, <1>3, <2>3, <2>4 DEF OrderInv, AllCounted, Counted
<1> QED
  BY <1>5, <1>6, <1>7, <1>8, <1>9 DEF OrderInv

\* Every step keeps the order.
LEMMA OrderStep == OrderInv /\ [Next]_vars => OrderInv'
<1> SUFFICES ASSUME OrderInv, [Next]_vars PROVE OrderInv'
  OBVIOUS
<1>1. TypeInv'
  BY TypeStep DEF OrderInv
<1>2. /\ transfer_completed \in Nat /\ faults \in Nat
      /\ transfer \in {"idle", "submitted", "taken"}
  BY CommandAssumption DEF OrderInv, TypeInv, TypeOK
<1>3. CASE EventInCompleted
  <2>1. PICK cs \in Seq(Commands) :
          Batch(cs, transfer_completed') /\ usb_send_cmd_packet(cs, transfer)
    BY <1>3, HostBatch DEF OrderInv
  <2>2. UNCHANGED <<queued, executed>> /\ transfer_completed' = transfer_completed + 1
    BY <1>3 DEF EventInCompleted
  <2> QED
    BY <1>1, <1>2, <2>1, <2>2, BatchKeepsOrder
<1>4. CASE CommandOutCompleted
  <2>1. PICK cs \in Seq(Commands) :
          Batch(cs, transfer_completed') /\ usb_send_cmd_packet(cs, "idle")
    BY <1>4, HostBatch DEF OrderInv
  <2>2. UNCHANGED <<queued, executed>> /\ transfer_completed' = transfer_completed + 1
    BY <1>4 DEF CommandOutCompleted, controller
  <2> QED
    BY <1>1, <2>1, <2>2, BatchKeepsOrder
<1>5. CASE CommandOutStalled
  BY <1>1, <1>2, <1>5, IdleKeepsOrder DEF CommandOutStalled, controller
<1>6. CASE CommandOutResubmitted
  BY <1>1, <1>2, <1>6, IdleKeepsOrder DEF CommandOutResubmitted, controller
<1>7. CASE EventInStalled
  BY <1>1, <1>2, <1>7, IdleKeepsOrder DEF EventInStalled, controller
<1>8. CASE AclCompleted
  <2>1. PICK cs \in Seq(Commands) :
          Batch(cs, transfer_completed') /\ usb_send_cmd_packet(cs, transfer)
    BY <1>8, HostBatch DEF OrderInv
  <2>2. UNCHANGED <<queued, executed>> /\ transfer_completed' = transfer_completed + 1
    BY <1>8 DEF AclCompleted, controller
  <2> QED
    BY <1>1, <1>2, <2>1, <2>2, BatchKeepsOrder
<1>9. CASE DeviceTakes
  BY <1>1, <1>9, TakeKeepsOrder
<1>10. CASE DeviceExecutes
  BY <1>1, <1>10, ExecuteKeepsOrder
<1>11. CASE RemoteAsks \/ OtherEvent
  BY <1>1, <1>2, <1>11, IdleKeepsOrder DEF RemoteAsks, OtherEvent, host
<1>12. CASE UNCHANGED vars
  BY <1>1, <1>2, <1>12, IdleKeepsOrder DEF vars, host, controller
<1> QED
  BY <1>3, <1>4, <1>5, <1>6, <1>7, <1>8, <1>9, <1>10, <1>11, <1>12 DEF Next, Host, Device

\* The chain of async_callback keeps its order through any events, connections,
\* stalls, refused and repeated submissions: what one buffer and one transfer can
\* do to the commands is to lose them.
THEOREM InitOrderHolds == Spec => []InitOrder
<1>1. OrderInv => InitOrder
  BY DEF OrderInv, ExecutedInOrder, Inits, Before, InitOrder
<1> QED
  BY OrderInit, OrderStep, <1>1, PTL DEF Spec

-----------------------------------------------------------------------------
(* How often a command is executed.                                        *)

\* How often a command occurs is a number.
LEMMA CountIsNat ==
  ASSUME NEW S, NEW s \in Seq(S), NEW c
  PROVE  Count(s, c) \in Nat /\ IsFiniteSet({i \in DOMAIN s : s[i] = c})
<1>1. DOMAIN s = 1..Len(s) /\ Len(s) \in Nat
  OBVIOUS
<1>2. IsFiniteSet(1..Len(s))
  BY <1>1, FS_Interval
<1>3. {i \in DOMAIN s : s[i] = c} \subseteq 1..Len(s)
  BY <1>1
<1>4. IsFiniteSet({i \in DOMAIN s : s[i] = c})
  BY <1>2, <1>3, FS_Subset
<1> QED
  BY <1>4, FS_CardinalityType DEF Count

\* A sequence that goes on has no element less often.
LEMMA CountGrows ==
  ASSUME NEW S, NEW s \in Seq(S), NEW t \in Seq(S), NEW c
  PROVE  Count(s, c) <= Count(s \o t, c)
<1> DEFINE x == s \o t
           before == {i \in DOMAIN s : s[i] = c}
           after == {i \in DOMAIN x : x[i] = c}
<1>1. x \in Seq(S) /\ Len(x) = Len(s) + Len(t) /\ \A i \in 1..Len(s) : x[i] = s[i]
  BY ConcatProperties
<1>2. before \subseteq after
  BY <1>1
<1>3. IsFiniteSet(after)
  BY <1>1, CountIsNat
<1> HIDE DEF before, after
<1>4. Cardinality(before) <= Cardinality(after)
  BY <1>2, <1>3, FS_Subset
<1> QED
  BY <1>4 DEF Count, before, after

\* One that goes on and ends with c has it once more at least.
LEMMA CountOfLast ==
  ASSUME NEW S, NEW s \in Seq(S), NEW t \in Seq(S), t # << >>
  PROVE  Count(s \o t, t[Len(t)]) >= Count(s, t[Len(t)]) + 1
<1> DEFINE c == t[Len(t)]
           x == s \o t
           n == Len(x)
           before == {i \in DOMAIN s : s[i] = c}
           after == {i \in DOMAIN x : x[i] = c}
<1>1. /\ x \in Seq(S) /\ n = Len(s) + Len(t) /\ Len(t) > 0 /\ Len(s) \in Nat
      /\ \A i \in 1..Len(s) : x[i] = s[i]
      /\ x[n] = t[Len(t)]
  BY ConcatProperties
<1>2. before \cup {n} \subseteq after /\ n \notin before
  BY <1>1
<1>3. IsFiniteSet(after) /\ IsFiniteSet(before)
  BY <1>1, CountIsNat
<1> HIDE DEF before, after, n
<1>4. /\ IsFiniteSet(before \cup {n})
      /\ Cardinality(before \cup {n}) = Cardinality(before) + 1
  BY <1>2, <1>3, FS_AddElement
<1>5. Cardinality(before \cup {n}) <= Cardinality(after)
  BY <1>2, <1>3, FS_Subset
<1> QED
  BY <1>4, <1>5 DEF Count, before, after

\* Appended to, a sequence has its new element once more and the others as before.
LEMMA CountAppend ==
  ASSUME NEW S, NEW s \in Seq(S), NEW e \in S, NEW c
  PROVE  Count(Append(s, e), c) = Count(s, c) + (IF c = e THEN 1 ELSE 0)
<1> DEFINE x == Append(s, e)
           n == Len(s) + 1
           before == {i \in DOMAIN s : s[i] = c}
           after == {i \in DOMAIN x : x[i] = c}
<1>1. /\ DOMAIN x = 1..n /\ DOMAIN s = 1..Len(s) /\ Len(s) \in Nat
      /\ \A i \in DOMAIN s : x[i] = s[i]
      /\ x[n] = e
  BY QueueAppend
<1>2. after = IF c = e THEN before \cup {n} ELSE before
  BY <1>1
<1>3. n \notin before
  BY <1>1
<1>4. IsFiniteSet(before)
  BY CountIsNat
<1>5. Count(x, c) = Cardinality(after) /\ Count(s, c) = Cardinality(before)
  BY DEF Count
<1> HIDE DEF before, after, n
<1>6. Cardinality(before) \in Nat
  BY <1>4, FS_CardinalityType
<1>7. Cardinality(before \cup {n}) = Cardinality(before) + 1
  BY <1>3, <1>4, FS_AddElement
<1>8. CASE c = e
  BY <1>2, <1>5, <1>7, <1>8
<1>9. CASE c # e
  BY <1>2, <1>5, <1>6, <1>9
<1> QED
  BY <1>8, <1>9
-----------------------------------------------------------------------------
\* What the dongle has taken out of the buffer, in order.
Taken == executed \o queued
AboutToBeTaken(c) == IF transfer = "submitted" /\ hci_cmd_buffer = c THEN 1 ELSE 0

TakenAsSent ==
  \A c \in Commands : Count(Taken, c) + AboutToBeTaken(c) <= Count(sent, c) + faults

CountInv == TypeInv /\ TakenAsSent

\* find_dev has sent one command, which is in the buffer.
LEMMA CountInit == Init => CountInv
<1> SUFFICES ASSUME Init PROVE TakenAsSent
  BY TypeInit DEF CountInv
<1> SUFFICES ASSUME NEW c \in Commands
             PROVE  Count(Taken, c) + AboutToBeTaken(c) <= Count(sent, c) + faults
  BY DEF TakenAsSent
<1>1. Taken = << >>
  BY DEF Init, Taken
<1>2. DOMAIN Taken = {}
  BY <1>1
<1>3. Count(Taken, c) = 0
  <2>1. {i \in DOMAIN Taken : Taken[i] = c} = {}
    BY <1>2
  <2> QED
    BY <2>1, FS_EmptySet DEF Count
<1>4. sent = Append(Taken, Step(1)) /\ hci_cmd_buffer = Step(1) /\ faults = 0
  BY <1>1 DEF Init
<1>5. Step(1) \in Commands /\ Taken \in Seq(Commands)
  BY <1>1, StepTyped DEF InitLength
<1>6. Count(sent, c) = IF c = Step(1) THEN 1 ELSE 0
  <2>1. Count(Append(Taken, Step(1)), c) = Count(Taken, c) + (IF c = Step(1) THEN 1 ELSE 0)
    BY <1>5, CountAppend
  <2> QED
    BY <1>3, <1>4, <2>1
<1>7. AboutToBeTaken(c) = IF c = Step(1) THEN 1 ELSE 0
  BY <1>4 DEF AboutToBeTaken, Init
<1> QED
  BY <1>3, <1>4, <1>6, <1>7

\* A callback's batch goes to what is sent; its last command, if any, may be the
\* submitted one now.
LEMMA BatchKeepsCount ==
  ASSUME CountInv, TypeInv', UNCHANGED <<queued, executed>>,
         NEW state \in {"idle", "submitted", "taken"}, state \in {"idle", transfer},
         NEW cs \in Seq(Commands), Batch(cs, transfer_completed'),
         usb_send_cmd_packet(cs, state)
  PROVE  CountInv'
<1> SUFFICES ASSUME NEW c \in Commands
             PROVE  Count(Taken, c) + AboutToBeTaken(c)' <= Count(sent', c) + faults'
  BY DEF CountInv, TakenAsSent, Taken, Count
<1>1. /\ sent \in Seq(Commands) /\ Taken \in Seq(Commands)
      /\ sent' \in Seq(Commands) /\ faults \in Nat /\ faults' \in Nat
  BY CommandAssumption, ConcatProperties DEF CountInv, TypeInv, TypeOK, Taken
<1>2. /\ Count(sent, c) \in Nat /\ Count(sent', c) \in Nat /\ Count(Taken, c) \in Nat
      /\ AboutToBeTaken(c) \in {0, 1} /\ AboutToBeTaken(c)' \in {0, 1}
  BY <1>1, CountIsNat DEF AboutToBeTaken
<1>3. Count(Taken, c) + AboutToBeTaken(c) <= Count(sent, c) + faults
  BY DEF CountInv, TakenAsSent
<1>4. /\ faults' >= faults
      /\ cs = << >> => transfer' = state /\ hci_cmd_buffer' = hci_cmd_buffer
      /\ cs # << >> => hci_cmd_buffer' = cs[Len(cs)]
  BY Sends DEF Batch, CountInv, TypeInv
<1>5. CASE cs = << >>
  <2>1. sent' = sent
    BY <1>5, SendsNothing DEF CountInv, TypeInv
  <2>2. AboutToBeTaken(c)' <= AboutToBeTaken(c)
    BY <1>4, <1>5 DEF AboutToBeTaken
  <2> QED
    BY <1>1, <1>2, <1>3, <1>4, <2>1, <2>2
<1>6. CASE cs # << >>
  <2>1. sent' = sent \o cs
    BY <1>6 DEF usb_send_cmd_packet
  <2>2. Count(sent, c) <= Count(sent', c)
    BY <1>1, <2>1, CountGrows
  <2>3. c = cs[Len(cs)] => Count(sent', c) >= Count(sent, c) + 1
    BY <1>1, <1>6, <2>1, CountOfLast
  <2>4. c # cs[Len(cs)] => AboutToBeTaken(c)' = 0
    BY <1>4, <1>6 DEF AboutToBeTaken
  <2> QED
    BY <1>1, <1>2, <1>3, <1>4, <2>2, <2>3, <2>4
<1> QED
  BY <1>5, <1>6

\* A step that sends nothing and has the dongle take nothing; only a counted fault
\* submits the same command again.
LEMMA IdleKeepsCount ==
  ASSUME CountInv, TypeInv', UNCHANGED <<queued, executed, hci_cmd_buffer, sent>>,
         \/ faults' = faults /\ transfer' = transfer
         \/ faults' = faults + 1
  PROVE  CountInv'
<1> SUFFICES ASSUME NEW c \in Commands
             PROVE  Count(Taken, c) + AboutToBeTaken(c)' <= Count(sent, c) + faults'
  BY DEF CountInv, TakenAsSent, Taken, Count
<1>1. /\ sent \in Seq(Commands) /\ Taken \in Seq(Commands) /\ faults \in Nat
  BY CommandAssumption, ConcatProperties DEF CountInv, TypeInv, TypeOK, Taken
<1>2. /\ Count(sent, c) \in Nat /\ Count(Taken, c) \in Nat
      /\ AboutToBeTaken(c) \in {0, 1} /\ AboutToBeTaken(c)' \in {0, 1}
  BY <1>1, CountIsNat DEF AboutToBeTaken
<1>3. Count(Taken, c) + AboutToBeTaken(c) <= Count(sent, c) + faults
  BY DEF CountInv, TakenAsSent
<1>4. transfer' = transfer => AboutToBeTaken(c)' = AboutToBeTaken(c)
  BY DEF AboutToBeTaken
<1> QED
  BY <1>1, <1>2, <1>3, <1>4

\* The dongle takes the submitted command.
LEMMA TakeKeepsCount ==
  ASSUME CountInv, TypeInv', DeviceTakes
  PROVE  CountInv'
<1> DEFINE b == hci_cmd_buffer
<1> SUFFICES ASSUME NEW c \in Commands
             PROVE  Count(Taken', c) + AboutToBeTaken(c)' <= Count(sent, c) + faults
  BY DEF CountInv, TakenAsSent, Count, DeviceTakes
<1>1. /\ executed \in Seq(Commands) /\ queued \in Seq(Commands) /\ b \in Commands
      /\ Taken \in Seq(Commands) /\ sent \in Seq(Commands) /\ faults \in Nat
  BY CommandAssumption, ConcatProperties DEF CountInv, TypeInv, TypeOK, Taken
<1>2. Taken' = Append(Taken, b)
  <2>1. executed' = executed /\ queued' = Append(queued, b)
    BY DEF DeviceTakes
  <2>2. executed \o Append(queued, b) = Append(executed \o queued, b)
    BY <1>1
  <2> QED
    BY <2>1, <2>2 DEF Taken
<1>3. Count(Taken', c) = Count(Taken, c) + (IF c = b THEN 1 ELSE 0)
  BY <1>1, <1>2, CountAppend
<1>4. AboutToBeTaken(c) = (IF c = b THEN 1 ELSE 0) /\ AboutToBeTaken(c)' = 0
  BY DEF AboutToBeTaken, DeviceTakes
<1>5. Count(Taken, c) + AboutToBeTaken(c) <= Count(sent, c) + faults
  BY DEF CountInv, TakenAsSent
<1> QED
  <2>1. Count(Taken, c) \in Nat /\ Count(sent, c) \in Nat
    BY <1>1, CountIsNat
  <2> QED
    BY <1>1, <1>3, <1>4, <1>5, <2>1

\* What the dongle executes it has taken before.
LEMMA ExecuteKeepsCount ==
  ASSUME CountInv, TypeInv', DeviceExecutes
  PROVE  CountInv'
<1>1. /\ executed \in Seq(Commands) /\ queued \in Seq(Commands) /\ queued # << >>
  BY DEF CountInv, TypeInv, TypeOK, DeviceExecutes
<1>2. Append(executed, Head(queued)) \o Tail(queued) = executed \o queued
  BY <1>1
<1>3. Taken' = Taken
  BY <1>2 DEF Taken, DeviceExecutes
<1>4. UNCHANGED <<sent, faults, transfer, hci_cmd_buffer>>
  BY DEF DeviceExecutes, host
<1> QED
  BY <1>3, <1>4 DEF CountInv, TakenAsSent, Count, AboutToBeTaken

\* Every step keeps the count.
LEMMA CountStep == CountInv /\ [Next]_vars => CountInv'
<1> SUFFICES ASSUME CountInv, [Next]_vars PROVE CountInv'
  OBVIOUS
<1>1. TypeInv' /\ transfer \in {"idle", "submitted", "taken"}
  BY TypeStep DEF CountInv, TypeInv, TypeOK
<1>2. CASE EventInCompleted
  <2>1. PICK cs \in Seq(Commands) :
          Batch(cs, transfer_completed') /\ usb_send_cmd_packet(cs, transfer)
    BY <1>2, HostBatch DEF CountInv
  <2>2. UNCHANGED <<queued, executed>>
    BY <1>2 DEF EventInCompleted
  <2> QED
    BY <1>1, <2>1, <2>2, BatchKeepsCount
<1>3. CASE CommandOutCompleted
  <2>1. PICK cs \in Seq(Commands) :
          Batch(cs, transfer_completed') /\ usb_send_cmd_packet(cs, "idle")
    BY <1>3, HostBatch DEF CountInv
  <2>2. UNCHANGED <<queued, executed>>
    BY <1>3 DEF CommandOutCompleted, controller
  <2> QED
    BY <1>1, <2>1, <2>2, BatchKeepsCount
<1>4. CASE CommandOutStalled
  BY <1>1, <1>4, IdleKeepsCount DEF CommandOutStalled, controller
<1>5. CASE CommandOutResubmitted
  BY <1>1, <1>5, IdleKeepsCount DEF CommandOutResubmitted, controller
<1>6. CASE EventInStalled
  BY <1>1, <1>6, IdleKeepsCount DEF EventInStalled, controller
<1>7. CASE AclCompleted
  <2>1. PICK cs \in Seq(Commands) :
          Batch(cs, transfer_completed') /\ usb_send_cmd_packet(cs, transfer)
    BY <1>7, HostBatch DEF CountInv
  <2>2. UNCHANGED <<queued, executed>>
    BY <1>7 DEF AclCompleted, controller
  <2> QED
    BY <1>1, <2>1, <2>2, BatchKeepsCount
<1>8. CASE DeviceTakes
  BY <1>1, <1>8, TakeKeepsCount
<1>9. CASE DeviceExecutes
  BY <1>1, <1>9, ExecuteKeepsCount
<1>10. CASE RemoteAsks \/ OtherEvent
  BY <1>1, <1>10, IdleKeepsCount DEF RemoteAsks, OtherEvent, host
<1>11. CASE UNCHANGED vars
  BY <1>1, <1>11, IdleKeepsCount DEF vars, host, controller
<1> QED
  BY <1>2, <1>3, <1>4, <1>5, <1>6, <1>7, <1>8, <1>9, <1>10, <1>11 DEF Next, Host, Device

\* However the answers and the chain of async_callback meet in the one buffer of
\* usb_send_cmd_packet, no question is answered twice by it.
THEOREM NothingExecutedTwice == Spec => []ExecutedAsSent
<1>1. CountInv => ExecutedAsSent
  <2> SUFFICES ASSUME CountInv, NEW c \in Commands
               PROVE  Count(executed, c) <= Count(sent, c) + faults
    BY DEF ExecutedAsSent
  <2>1. /\ executed \in Seq(Commands) /\ queued \in Seq(Commands) /\ sent \in Seq(Commands)
        /\ Taken \in Seq(Commands) /\ faults \in Nat
    BY CommandAssumption, ConcatProperties DEF CountInv, TypeInv, TypeOK, Taken
  <2>2. Count(executed, c) <= Count(Taken, c)
    BY <2>1, CountGrows DEF Taken
  <2>3. Count(Taken, c) + AboutToBeTaken(c) <= Count(sent, c) + faults
    BY DEF CountInv, TakenAsSent
  <2>4. /\ Count(executed, c) \in Nat /\ Count(Taken, c) \in Nat /\ Count(sent, c) \in Nat
        /\ AboutToBeTaken(c) \in {0, 1}
    BY <2>1, CountIsNat DEF AboutToBeTaken
  <2> QED
    BY <2>1, <2>2, <2>3, <2>4
<1> QED
  BY CountInit, CountStep, <1>1, PTL DEF Spec
-----------------------------------------------------------------------------
(***************************************************************************)
(* With a controller that reports nothing but its answers, on a bus        *)
(* without faults, the count of completions keeps the bring-up in step:    *)
(* CommandChannel implements StopAndWait and loses no command.  The        *)
(* assumption Quiet is what async_callback relies on; the runs show what   *)
(* happens without it.                                                     *)
(*                                                                         *)
(* The inductive invariant names the seven situations one command goes     *)
(* through, each with its value of transfer_completed: the command is      *)
(* submitted, taken or counted while the device works on it, then executed *)
(* with its completion, its event, both or neither still to be counted.    *)
(***************************************************************************)
\* No unrelated events, no ACL traffic, no questions, no faults.
Quiet == MaxOther = 0 /\ MaxAcl = 0 /\ MaxRequests = 0 /\ MaxFaults = 0

Answer == Event("CommandComplete", Nobody)

\* The last command is with the device.
Outstanding ==
  /\ Len(executed) = Len(sent) - 1 /\ eventsIn = << >>
  /\ \/ /\ transfer = "submitted" /\ queued = << >>
        /\ transfer_completed = 2 * Len(sent) - 2
     \/ /\ transfer = "taken" /\ queued = <<Step(Len(sent))>>
        /\ transfer_completed = 2 * Len(sent) - 2
     \/ /\ transfer = "idle" /\ queued = <<Step(Len(sent))>>
        /\ transfer_completed = 2 * Len(sent) - 1

\* The last command has been executed.
Done ==
  /\ Len(executed) = Len(sent) /\ queued = << >>
  /\ \/ /\ transfer = "taken" /\ eventsIn = <<Answer>>
        /\ transfer_completed = 2 * Len(sent) - 2
     \/ /\ transfer = "taken" /\ eventsIn = << >>
        /\ transfer_completed = 2 * Len(sent) - 1
     \/ /\ transfer = "idle" /\ eventsIn = <<Answer>>
        /\ transfer_completed = 2 * Len(sent) - 1
     \/ /\ transfer = "idle" /\ eventsIn = << >> /\ Len(sent) = InitLength
        /\ transfer_completed = 2 * Len(sent)

\* What is sent and executed are initial parts of the list, without losses.
InOrder ==
  /\ sent \in Seq(Commands) /\ Len(sent) \in 1..InitLength
  /\ \A i \in 1..Len(sent) : sent[i] = Step(i)
  /\ hci_cmd_buffer = Step(Len(sent))
  /\ executed \in Seq(Commands)
  /\ \A i \in 1..Len(executed) : executed[i] = Step(i)
  /\ lost = {}

Undisturbed == other = 0 /\ acls = 0 /\ faults = 0 /\ requests = << >>

\* Then the one idle transfer takes what it is given.
LEMMA QuietSends ==
  ASSUME Quiet, Undisturbed, sent \in Seq(Commands), NEW cs, NEW state,
         cs = << >> \/ \E c : cs = <<c>>,
         usb_send_cmd_packet(cs, state)
  PROVE  /\ faults' = faults
         /\ cs = << >> => transfer' = state /\ UNCHANGED <<hci_cmd_buffer, sent, lost>>
         /\ cs # << >> /\ state = "idle" =>
              /\ sent' = sent \o cs /\ hci_cmd_buffer' = cs[1]
              /\ transfer' = "submitted" /\ lost' = lost
<1>1. Len(cs) \in {0, 1} /\ (Len(cs) = 0 => cs = << >>) /\ faults = 0 /\ MaxFaults = 0
  BY DEF Quiet, Undisturbed
<1>2. sent' = sent \o cs /\ hci_cmd_buffer' = IF cs = << >> THEN hci_cmd_buffer ELSE cs[Len(cs)]
  BY DEF usb_send_cmd_packet
<1>3. cs = << >> => Len(cs) = 0 /\ sent \o cs = sent
  OBVIOUS
<1>4. cs # << >> => Len(cs) = 1
  BY <1>1
<1>5. \A k : Refused(cs, k) = {} \/ Len(cs) = 1
  BY <1>1 DEF Refused
<1>6. Refused(cs, 1) = {}
  BY <1>1 DEF Refused
<1>7. CASE state = "idle"
  <2>1. PICK failed \in 0..Len(cs) :
          /\ faults + failed <= MaxFaults /\ faults' = faults + failed
          /\ transfer' = IF failed < Len(cs) THEN "submitted" ELSE "idle"
          /\ lost' = lost \cup Refused(cs, failed + 1)
    BY <1>7 DEF usb_send_cmd_packet
  <2>2. failed = 0
    BY <1>1, <2>1
  <2> QED
    BY <1>1, <1>2, <1>3, <1>4, <1>6, <1>7, <2>1, <2>2
<1>8. CASE state # "idle"
  <2>1. transfer' = state /\ lost' = lost \cup Refused(cs, 0) /\ faults' = faults
    BY <1>8 DEF usb_send_cmd_packet
  <2>2. cs = << >> => Refused(cs, 0) = {}
    BY <1>3, <1>5
  <2> QED
    BY <1>2, <1>3, <1>8, <2>1, <2>2
<1> QED
  BY <1>7, <1>8

QuietInv == InOrder /\ Undisturbed /\ (Outstanding \/ Done)

\* The commands of the list are commands, addressed to nobody.
LEMMA StepIsCommand ==
  ASSUME NEW k \in 1..InitLength
  PROVE  Step(k) \in Commands /\ Step(k).to = Nobody
  BY DEF Commands, Step, Command

\* The chain sends nothing at an odd count and the next command at an even one,
\* up to the end of the list.
LEMMA NextStepAt ==
  ASSUME NEW n \in 1..InitLength
  PROVE  /\ NextStep(2 * n - 1) = << >>
         /\ n < InitLength => NextStep(2 * n) = <<Step(n + 1)>>
         /\ n = InitLength => NextStep(2 * n) = << >>
<1>1. n \in Int /\ 1 <= n /\ n <= 20
  BY DEF InitLength
<1>2. (2 * n - 1) % 2 = 1 /\ (2 * n) % 2 = 0 /\ (2 * n) \div 2 = n
  BY <1>1
<1> QED
  BY <1>1, <1>2 DEF NextStep, InitLength

\* The step that counts the second completion of the last command.
CountsSecond ==
  /\ Len(executed) = Len(sent) /\ queued = << >> /\ eventsIn' = << >>
  /\ transfer_completed' = 2 * Len(sent)
  /\ usb_send_cmd_packet(NextStep(transfer_completed'), "idle")
  /\ UNCHANGED <<queued, executed, noise>>

\* It sends the next command on the idle transfer, or finishes the list.
LEMMA Advance ==
  Quiet /\ QuietInv /\ CountsSecond =>
    QuietInv' /\ (sent' = sent \/ \E c \in Commands : sent' = Append(sent, c))
<1> SUFFICES ASSUME Quiet, QuietInv, CountsSecond
             PROVE  QuietInv' /\ (sent' = sent \/ \E c \in Commands : sent' = Append(sent, c))
  OBVIOUS
<1> DEFINE n == Len(sent)
<1>0. n \in 1..InitLength
  BY DEF QuietInv, InOrder
<1>1. n \in 1..InitLength /\ n \in Int /\ 1 <= n /\ n <= 20
  <2> HIDE DEF n
  <2> QED
    BY <1>0 DEF InitLength
<1>2. CASE n = InitLength
  <2>1. NextStep(transfer_completed') = << >>
    BY <1>1, <1>2, NextStepAt DEF CountsSecond
  <2>2. transfer' = "idle" /\ UNCHANGED <<hci_cmd_buffer, sent, lost, faults>>
    BY <2>1, QuietSends DEF CountsSecond, QuietInv, InOrder
  <2>3. InOrder' /\ Undisturbed'
    BY <2>2 DEF CountsSecond, QuietInv, InOrder, Undisturbed, noise
  <2>4. Done'
    BY <1>2, <2>2 DEF CountsSecond, Done
  <2> QED
    BY <2>2, <2>3, <2>4 DEF QuietInv
<1>3. CASE n < InitLength
  <2>1. NextStep(transfer_completed') = <<Step(n + 1)>>
    BY <1>1, <1>3, NextStepAt DEF CountsSecond
  <2>2. n + 1 \in 1..InitLength /\ Step(n + 1) \in Commands
    <3> HIDE DEF n
    <3>1. n + 1 \in 1..InitLength
      BY <1>1, <1>3 DEF InitLength
    <3> QED
      BY <3>1, StepIsCommand
  <2>3. /\ sent' = sent \o <<Step(n + 1)>> /\ hci_cmd_buffer' = Step(n + 1)
        /\ transfer' = "submitted" /\ lost' = lost /\ faults' = faults
    <3> DEFINE cs == <<Step(n + 1)>>
    <3>1. cs # << >> /\ cs[1] = Step(n + 1) /\ \E c : cs = <<c>>
      OBVIOUS
    <3> HIDE DEF cs
    <3>2. usb_send_cmd_packet(cs, "idle")
      BY <2>1 DEF CountsSecond, cs
    <3> QED
      BY <3>1, <3>2, QuietSends DEF QuietInv, InOrder, cs
  <2>4. sent' = Append(sent, Step(n + 1))
    BY <2>3, <2>2 DEF QuietInv, InOrder
  <2>5. InOrder'
    BY <1>1, <2>2, <2>3, <2>4, QueueAppend DEF CountsSecond, QuietInv, InOrder
  <2>6. Outstanding'
    BY <1>1, <2>2, <2>3, <2>4, QueueAppend DEF CountsSecond, QuietInv, InOrder, Outstanding
  <2> QED
    BY <2>2, <2>3, <2>4, <2>5, <2>6 DEF CountsSecond, QuietInv, Undisturbed, noise
<1>4. n = InitLength \/ n < InitLength
  <2> HIDE DEF n
  <2> QED
    BY <1>1 DEF InitLength
<1> QED
  BY <1>2, <1>3, <1>4

\* find_dev leaves the first command submitted.
LEMMA QuietInit == Init => QuietInv
<1> SUFFICES ASSUME Init PROVE QuietInv
  OBVIOUS
<1>1. Step(1) \in Commands /\ 1 \in 1..InitLength
  BY StepIsCommand DEF InitLength
<1>2. sent \in Seq(Commands) /\ Len(sent) = 1 /\ sent[1] = Step(1)
  BY <1>1 DEF Init
<1>3. executed \in Seq(Commands) /\ Len(executed) = 0
  BY DEF Init
<1>4. InOrder
  BY <1>1, <1>2, <1>3 DEF Init, InOrder
<1>5. Undisturbed
  BY DEF Init, Undisturbed
<1>6. Outstanding
  <2>1. Len(executed) = Len(sent) - 1 /\ transfer_completed = 2 * Len(sent) - 2
    BY <1>2, <1>3 DEF Init
  <2> QED
    BY <2>1 DEF Init, Outstanding
<1> QED
  BY <1>4, <1>5, <1>6 DEF QuietInv

\* Every step keeps the invariant and is a step of StopAndWait or changes nothing
\* of it.
LEMMA QuietStep ==
  Quiet /\ QuietInv /\ [Next]_vars =>
    QuietInv' /\ [StopAndWait!Next]_<<sent, executed>>
<1> SUFFICES ASSUME Quiet, QuietInv, [Next]_vars
             PROVE  QuietInv' /\ [StopAndWait!Next]_<<sent, executed>>
  OBVIOUS
<1> DEFINE n == Len(sent)
           Goal == QuietInv' /\ [StopAndWait!Next]_<<sent, executed>>
<1>0. n \in 1..InitLength
  BY DEF QuietInv, InOrder
<1>1. n \in 1..InitLength /\ n \in Int /\ 1 <= n /\ n <= 20
  <2> HIDE DEF n
  <2> QED
    BY <1>0 DEF InitLength
<1>2. sent \in Seq(Commands) /\ executed \in Seq(Commands) /\ Step(n) \in Commands
  BY <1>1, StepIsCommand DEF QuietInv, InOrder
\* Executed as much as sent means executed what was sent.
<1>3. Len(executed) = n => executed = sent
  BY <1>2, SeqEqual DEF QuietInv, InOrder
<1>4. ASSUME CountsSecond PROVE Goal
  <2>1. QuietInv' /\ (sent' = sent \/ \E c \in Commands : sent' = Append(sent, c))
    BY <1>4, Advance
  <2>2. executed = sent /\ executed' = executed
    BY <1>3, <1>4 DEF CountsSecond
  <2>3. CASE sent' = sent
    BY <2>1, <2>2, <2>3
  <2>4. CASE \E c \in Commands : sent' = Append(sent, c)
    <3>1. Len(sent') = Len(sent) + 1
      BY <1>2, <2>4, QueueAppend
    <3>2. Len(sent') <= InitLength
      <4>1. Len(sent') \in 1..InitLength
        BY <2>1 DEF QuietInv, InOrder
      <4> DEFINE m == Len(sent')
      <4> HIDE DEF m
      <4>2. m \in 1..InitLength
        BY <4>1 DEF m
      <4>3. m <= InitLength
        BY <4>2 DEF InitLength
      <4> QED
        BY <4>3 DEF m
    <3>3. Len(sent) < InitLength
      BY <1>1, <3>1, <3>2 DEF InitLength
    <3> QED
      BY <2>1, <2>2, <2>4, <3>3 DEF StopAndWait!Next, StopAndWait!Send
  <2> QED
    BY <2>1, <2>3, <2>4
\* A step that leaves what is sent and executed alone.
<1>5. ASSUME InOrder', Undisturbed', Outstanding' \/ Done', UNCHANGED <<sent, executed>>
      PROVE  Goal
  BY <1>5 DEF QuietInv
<1>6. CASE EventInCompleted
  <2>1. eventsIn = <<Answer>> /\ Done
    BY <1>6 DEF EventInCompleted, QuietInv, Outstanding, Done
  <2>2. dump_hci_event(Head(eventsIn)) = {<< >>}
    BY <2>1 DEF dump_hci_event, Answer, Event, Questions, Own, Fixed
  <2>3. eventsIn' = << >> /\ UNCHANGED <<queued, executed, noise>>
    BY <1>6, <2>1 DEF EventInCompleted
  <2>4. CASE transfer = "taken"
    <3>1. transfer_completed' = 2 * n - 1
      BY <1>1, <1>6, <2>1, <2>4 DEF EventInCompleted, Done
    <3>2. NextStep(transfer_completed') = << >>
      BY <1>1, <3>1, NextStepAt
    <3>3. transfer' = "taken" /\ UNCHANGED <<hci_cmd_buffer, sent, lost, faults>>
      <4>1. usb_send_cmd_packet(<< >>, transfer)
        <5>1. << >> \o << >> = << >>
          OBVIOUS
        <5> QED
          BY <1>6, <2>2, <3>2, <5>1 DEF EventInCompleted
      <4> QED
        BY <2>4, <4>1, QuietSends DEF QuietInv, InOrder
    <3>4. InOrder' /\ Undisturbed'
      BY <2>3, <3>3 DEF QuietInv, InOrder, Undisturbed, noise
    <3>5. Done'
      BY <2>1, <2>3, <3>1, <3>3 DEF Done
    <3> QED
      BY <1>5, <2>3, <3>3, <3>4, <3>5
  <2>5. CASE transfer = "idle"
    <3>1. transfer_completed' = 2 * n
      BY <1>1, <1>6, <2>1, <2>5 DEF EventInCompleted, Done
    <3>2. << >> \o NextStep(transfer_completed') = NextStep(transfer_completed')
      BY <1>1, <3>1, NextStepAt
    <3>3. CountsSecond
      BY <1>6, <2>1, <2>2, <2>3, <2>5, <3>1, <3>2 DEF EventInCompleted, CountsSecond, Done
    <3> QED
      BY <1>4, <3>3
  <2> QED
    BY <2>1, <2>4, <2>5 DEF Done
<1>7. CASE CommandOutCompleted
  <2>1. transfer = "taken" /\ UNCHANGED <<queued, executed, eventsIn, noise>>
    BY <1>7 DEF CommandOutCompleted, controller
  <2>2. CASE Done /\ eventsIn = << >>
    <3>1. transfer_completed' = 2 * n
      BY <1>1, <1>7, <2>1, <2>2 DEF CommandOutCompleted, Done
    <3>2. CountsSecond
      BY <1>7, <2>1, <2>2, <3>1 DEF CommandOutCompleted, CountsSecond, Done
    <3> QED
      BY <1>4, <3>2
  <2>3. CASE Outstanding \/ (Done /\ eventsIn = <<Answer>>)
    <3>1. transfer_completed' = 2 * n - 1
      <4>1. <<Answer>> # << >>
        OBVIOUS
      <4>2. transfer_completed = 2 * n - 2
        BY <2>1, <2>3, <4>1 DEF Outstanding, Done
      <4>3. transfer_completed' = transfer_completed + 1
        BY <1>7 DEF CommandOutCompleted
      <4> HIDE DEF n
      <4> QED
        BY <1>1, <4>2, <4>3
    <3>2. NextStep(transfer_completed') = << >>
      BY <1>1, <3>1, NextStepAt
    <3>3. transfer' = "idle" /\ UNCHANGED <<hci_cmd_buffer, sent, lost, faults>>
      BY <1>7, <3>2, QuietSends DEF CommandOutCompleted, QuietInv, InOrder
    <3>4. InOrder' /\ Undisturbed'
      BY <2>1, <3>3 DEF QuietInv, InOrder, Undisturbed, noise
    <3>5. Outstanding' \/ Done'
      BY <2>1, <2>3, <3>1, <3>3 DEF Outstanding, Done
    <3> QED
      BY <1>5, <2>1, <3>3, <3>4, <3>5
  <2> QED
    BY <2>1, <2>2, <2>3 DEF QuietInv, Done
<1>8. CASE DeviceTakes
  <2>1. Outstanding /\ queued = << >> /\ transfer_completed = 2 * n - 2
    BY <1>8 DEF DeviceTakes, QuietInv, Outstanding, Done
  <2>2. queued' = <<Step(n)>>
    BY <1>8, <2>1 DEF DeviceTakes, QuietInv, InOrder
  <2>3. InOrder' /\ Undisturbed' /\ UNCHANGED <<sent, executed>>
    BY <1>8 DEF DeviceTakes, QuietInv, InOrder, Undisturbed, noise
  <2>4. Outstanding'
    BY <1>8, <2>1, <2>2 DEF DeviceTakes, Outstanding
  <2> QED
    BY <1>5, <2>3, <2>4
<1>9. CASE DeviceExecutes
  <2>1. Outstanding /\ queued = <<Step(n)>> /\ transfer \in {"taken", "idle"}
    BY <1>9 DEF DeviceExecutes, QuietInv, Outstanding, Done
  <2>2. Head(queued) = Step(n) /\ Tail(queued) = << >>
    BY <2>1
  <2>3. /\ executed' = Append(executed, Step(n)) /\ queued' = << >>
        /\ eventsIn' = <<Answer>>
    <3>1. << >> \o <<Answer>> = <<Answer>>
      OBVIOUS
    <3>2. Step(n).to = Nobody
      BY <1>1, StepIsCommand
    <3> QED
      BY <1>9, <2>1, <2>2, <3>1, <3>2 DEF DeviceExecutes, Outstanding, Answer
  <2>4. UNCHANGED <<sent, transfer, transfer_completed, hci_cmd_buffer, lost, noise, faults>>
    BY <1>9 DEF DeviceExecutes, host
  <2>5. Len(executed') = n /\ executed' \in Seq(Commands)
    BY <1>1, <1>2, <2>1, <2>3, QueueAppend DEF Outstanding
  <2>6. InOrder' /\ Undisturbed'
    <3>1. \A i \in 1..Len(executed') : executed'[i] = Step(i)
      BY <1>1, <1>2, <2>1, <2>3, <2>5, QueueAppend DEF QuietInv, InOrder, Outstanding
    <3> QED
      BY <2>4, <2>5, <3>1 DEF QuietInv, InOrder, Undisturbed, noise
  <2>7. Done'
    BY <2>1, <2>3, <2>4, <2>5 DEF Outstanding, Done
  <2>8. StopAndWait!Execute
    <3>1. Len(executed) < Len(sent) /\ Len(executed) + 1 = n
      BY <1>1, <2>1 DEF Outstanding
    <3>2. sent[n] = Step(n)
      BY <1>1 DEF QuietInv, InOrder
    <3> QED
      BY <2>3, <2>4, <3>1, <3>2 DEF StopAndWait!Execute
  <2> QED
    BY <2>6, <2>7, <2>8 DEF QuietInv, StopAndWait!Next
\* The environment does nothing else.
<1>10. ~CommandOutStalled /\ ~CommandOutResubmitted /\ ~EventInStalled
  BY DEF CommandOutStalled, CommandOutResubmitted, EventInStalled, QuietInv, Undisturbed, Quiet
<1>11. ~AclCompleted /\ ~OtherEvent
  BY DEF AclCompleted, OtherEvent, QuietInv, Undisturbed, Quiet
<1>12. ~RemoteAsks
  BY DEF RemoteAsks, QuietInv, Undisturbed, Quiet
<1>13. CASE UNCHANGED vars
  <2>1. InOrder' /\ Undisturbed' /\ (Outstanding' \/ Done') /\ UNCHANGED <<sent, executed>>
    BY <1>13
    DEF vars, host, controller, noise, QuietInv, InOrder, Undisturbed, Outstanding, Done
  <2> QED
    BY <1>5, <2>1
<1> QED
  BY <1>6, <1>7, <1>8, <1>9, <1>10, <1>11, <1>12, <1>13 DEF Next, Host, Device

\* When nothing but its own commands makes the controller report, bring-up never
\* finds the command transfer busy: usb_send_cmd_packet loses none of the 20
\* initialisation commands.
THEOREM QuietBringUpLosesNothing == Quiet /\ Spec => []NothingLost
<1>1. QuietInv => NothingLost
  BY DEF QuietInv, InOrder, NothingLost
<1>2. Quiet /\ Spec => []QuietInv
  <2>1. CASE Quiet
    BY <2>1, QuietInit, QuietStep, PTL DEF Spec
  <2>2. CASE ~Quiet
    BY <2>2
  <2> QED
    BY <2>1, <2>2
<1> QED
  BY <1>1, <1>2, PTL

\* Then the chain of async_callback is a stop-and-wait sender: the next command is
\* sent after the earlier ones have been executed, and they are executed in order.
THEOREM QuietBringUpInStep == Quiet /\ Spec => InStep
<1>1. Init => StopAndWait!Init
  <2>1. 1 \in 1..InitLength
    BY DEF InitLength
  <2> QED
    BY <2>1, StepIsCommand DEF Init, StopAndWait!Init
<1>2. CASE Quiet
  BY <1>1, <1>2, QuietInit, QuietStep, PTL DEF Spec, InStep, StopAndWait!Spec
<1>3. CASE ~Quiet
  BY <1>3
<1> QED
  BY <1>2, <1>3
=============================================================================
