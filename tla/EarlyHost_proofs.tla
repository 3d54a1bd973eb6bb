-------------------------- MODULE EarlyHost_proofs --------------------------
(***************************************************************************)
(* main.c for any device list, pools and environment: its variables are    *)
(* well-typed, the event loop is entered with the right device and full    *)
(* pools, and the initialisation commands are executed in their order.     *)
(*                                                                         *)
(* The order rests on what it rests on in the later program, although the  *)
(* ACL packets and the answers to them go through the same count and the   *)
(* same buffer: the count only goes up, a new command stands behind all    *)
(* before it, and the buffer holds the newest.  What the dongle has        *)
(* executed and what it has still to execute are one line here, which an   *)
(* execution leaves as it is.                                              *)
(***************************************************************************)
EXTENDS EarlyHost, SequenceFacts

\* The commands of the list are commands.
LEMMA StepTyped ==
  ASSUME NEW k \in 1..InitLength
  PROVE  InitCommands[k] \in Commands
  BY DEF Commands

\* Reset is the first of them.
LEMMA ResetTyped == InitCommands[1] = "Reset" /\ "Reset" \in Commands
<1>1. InitCommands[1] = "Reset"
  BY DEF InitCommands, ResetStep, InformationSteps, CapabilitySteps, ScanSteps,
         NamingSteps, InquirySteps, ReportingSteps
<1> QED
  BY <1>1, StepTyped DEF InitLength

\* What the chain gives to usb_send_cmd_packet: nothing, or the command at the
\* position the count stands for.
LEMMA NextStepIs ==
  ASSUME NEW n \in Nat
  PROVE  \/ NextStep(n) = << >>
         \/ \E k \in 2..InitLength : NextStep(n) = <<InitCommands[k]>> /\ n = 2 * (k - 1)
<1> SUFFICES ASSUME NextStep(n) # << >>
             PROVE  \E k \in 2..InitLength :
                      NextStep(n) = <<InitCommands[k]>> /\ n = 2 * (k - 1)
  OBVIOUS
<1> DEFINE k == n \div 2 + 1
<1>1. n % 2 = 0 /\ n \div 2 \in 1..(InitLength - 1) /\ NextStep(n) = <<InitCommands[k]>>
  BY DEF NextStep
<1>2. k \in 2..InitLength /\ n = 2 * (k - 1)
  BY <1>1 DEF InitLength
<1> QED
  BY <1>1, <1>2

\* What a completed buffer makes dump_hci_event send: nothing, or one answer.
LEMMA OutcomeIs ==
  ASSUME NEW kind \in AclKinds, NEW o \in dump_hci_event(kind)
  PROVE  /\ o.cmds = << >> \/ \E r \in Replies : o.cmds = <<r>>
         /\ o.again \in BOOLEAN /\ o.dies \in BOOLEAN
<1> DEFINE Good(x) == /\ x.cmds = << >> \/ \E r \in Replies : x.cmds = <<r>>
                      /\ x.again \in BOOLEAN /\ x.dies \in BOOLEAN
<1>1. ASSUME NEW cs, NEW again \in BOOLEAN, NEW dies \in BOOLEAN,
             cs = << >> \/ \E r \in Replies : cs = <<r>>
      PROVE  Good(Outcome(cs, again, dies))
  BY <1>1 DEF Outcome
<1>2. Good(Outcome(<< >>, FALSE, FALSE)) /\ Good(Outcome(<< >>, FALSE, TRUE))
  BY <1>1
<1>3. \A r \in Replies : Good(Outcome(<<r>>, TRUE, FALSE))
  BY <1>1
<1> HIDE DEF Good
<1>4. /\ \A x \in PrintOnly \cup MayFault : Good(x)
      /\ \A x \in L2capConnectionRequest \cup AcceptConnection : Good(x)
      /\ \A x \in L2capInformationRequest \cup CommandComplete : Good(x)
  BY <1>2, <1>3 DEF PrintOnly, MayFault, L2capConnectionRequest, AcceptConnection,
                    L2capInformationRequest, CommandComplete, Replies
<1>5. o \in PrintOnly \cup MayFault \cup L2capInformationRequest
              \cup L2capConnectionRequest \cup AcceptConnection
  BY DEF dump_hci_event, AclKinds, EventKinds, CommandComplete
<1>6. Good(o)
  BY <1>4, <1>5
<1> QED
  BY <1>6 DEF Good

\* The commands one callback gives to usb_send_cmd_packet.  An initialisation
\* command is the last of them, and stands where the count has got to.
Batch(cs, count) ==
  cs # << >> =>
    /\ cs[Len(cs)] \in Commands
    /\ cs[Len(cs)] \notin Replies =>
         \E k \in 2..InitLength : cs[Len(cs)] = InitCommands[k] /\ count = 2 * (k - 1)

\* The chain makes such a batch, alone or behind an answer.
LEMMA BatchIs ==
  ASSUME NEW n \in Nat, NEW a, a = << >> \/ \E r \in Replies : a = <<r>>
  PROVE  Batch(a \o NextStep(n), n) /\ Batch(NextStep(n), n)
<1>1. ASSUME NEW s, s = << >> \/ \E k \in 2..InitLength : s = <<InitCommands[k]>> /\ n = 2 * (k - 1)
      PROVE  Batch(a \o s, n) /\ Batch(s, n)
  <2>1. \A k \in 2..InitLength : InitCommands[k] \in Commands
    <3> SUFFICES ASSUME NEW k \in 2..InitLength PROVE InitCommands[k] \in Commands
      OBVIOUS
    <3>1. k \in 1..InitLength
      BY DEF InitLength
    <3> QED
      BY <3>1, StepTyped
  <2>2. Batch(s, n)
    BY <1>1, <2>1 DEF Batch
  <2>3. CASE a = << >>
    <3>1. a \o s = s
      BY <1>1, <2>3
    <3> QED
      BY <2>2, <3>1
  <2>4. ASSUME NEW r \in Replies, a = <<r>>, s = << >>
        PROVE  Batch(a \o s, n)
    <3>1. a \o s = <<r>> /\ r \in Commands
      BY <2>4 DEF Commands
    <3> QED
      BY <3>1 DEF Batch
  <2>5. ASSUME NEW r \in Replies, a = <<r>>, NEW k \in 2..InitLength,
               s = <<InitCommands[k]>>, n = 2 * (k - 1)
        PROVE  Batch(a \o s, n)
    <3> DEFINE c == InitCommands[k]
               cs == a \o s
    <3>1. s = <<c>>
      BY <2>5
    <3> HIDE DEF c
    <3>2. Len(cs) = 2 /\ cs[2] = c
      BY <2>5, <3>1
    <3> USE DEF c
    <3> HIDE DEF cs
    <3>3. Batch(cs, n)
      BY <2>1, <2>5, <3>2 DEF Batch
    <3> QED
      BY <3>3 DEF cs
  <2> QED
    BY <1>1, <2>2, <2>3, <2>4, <2>5
<1> QED
  BY <1>1, NextStepIs
-----------------------------------------------------------------------------
StartPhases == {"start", "scan", "claim", "allocate", "submit"}
Phases == StartPhases \cup {"loop", "ended", "crashed"}
Outs == {"none", "idle", "submitted", "taken"}
Endpoints == {NoEndpoints} \cup {scan_for_bt_endpoints(dev) : dev \in 1..Len(Devs)}

\* Where find_dev has got to.
StartTyped ==
  /\ phase \in Phases /\ listed \in 0..Len(Devs) /\ at \in 0..listed /\ handle \in 0..at
  /\ endpoints \in Endpoints

PoolsTyped == inFlight \in [Pools -> Nat] /\ \A p \in Pools : inFlight[p] <= Size[p]

HostTyped ==
  /\ commandOut \in Outs /\ hci_cmd_buffer \in Commands /\ transfer_completed \in Nat

DongleTyped ==
  /\ queued \in Seq(Commands) /\ executed \in Seq(Commands)
  /\ coming \in [Pools -> Seq(AclKinds)]

NoiseTyped ==
  /\ environment \in Environments /\ other \in 0..MaxOther /\ acls \in 0..MaxAcl
  /\ requests \in 0..MaxRequests /\ faults \in 0..MaxFaults

\* The parts of the type invariant.
LEMMA TypeParts ==
  /\ TypeOK <=> StartTyped /\ PoolsTyped /\ HostTyped /\ DongleTyped /\ NoiseTyped
  /\ TypeOK' <=> StartTyped' /\ PoolsTyped' /\ HostTyped' /\ DongleTyped' /\ NoiseTyped'
  BY DEF TypeOK, StartTyped, PoolsTyped, HostTyped, DongleTyped, NoiseTyped, Phases,
         StartPhases, Outs, Endpoints

\* The number of devices is a number.
LEMMA DevsCounted == Len(Devs) \in Nat
  BY EarlyAssumption

\* Before the list is read none of it has been examined.  Once a device is claimed
\* it is the dongle, open and with its endpoints known, if no call has failed.
Untouched == phase = "start" => at = 0
Claimed ==
  phase \in {"claim", "allocate", "submit"} /\ faults = 0 =>
    Devs[at] = "dongle" /\ handle = at /\ endpoints = scan_for_bt_endpoints(at)

TypeInv == TypeOK /\ Untouched /\ Claimed

\* A failing call and a working one count as they should.
LEMMA FaultsTyped ==
  ASSUME NoiseTyped, Fails \/ Works
  PROVE  faults' \in 0..MaxFaults /\ faults' >= faults /\ (Fails => faults' > 0)
  BY EarlyAssumption DEF NoiseTyped, Fails, Works

\* What usb_send_cmd_packet does with a batch.
LEMMA Sends ==
  ASSUME HostTyped, NEW n, NEW cs, Batch(cs, n), NEW state \in Outs, NEW accepted,
         usb_send_cmd_packet(cs, state, accepted)
  PROVE  /\ hci_cmd_buffer' \in Commands /\ commandOut' \in Outs
         /\ cs = << >> => hci_cmd_buffer' = hci_cmd_buffer /\ commandOut' = state
         /\ cs # << >> => hci_cmd_buffer' = cs[Len(cs)]
  BY DEF usb_send_cmd_packet, Batch, HostTyped, Outs

\* Each step of main and find_dev keeps the types and picks the dongle.
LEMMA StartKeepsTypes ==
  ASSUME TypeInv, StartUp
  PROVE  TypeInv'
<1>1. /\ StartTyped /\ PoolsTyped /\ HostTyped /\ DongleTyped /\ NoiseTyped
      /\ Len(Devs) \in Nat
  BY TypeParts, DevsCounted DEF TypeInv
<1>2. faults' \in 0..MaxFaults /\ faults' >= faults /\ (Fails => faults' > 0)
      /\ faults \in 0..MaxFaults /\ MaxFaults \in Nat
  <2>1. Fails \/ Works
    BY DEF StartUp, main, ExamineDevice, NoDevice, ClaimInterface, AllocateTransfers,
           SubmitEventIn, SubmitAclIn, Submit, SendReset, Works
  <2> QED
    BY <1>1, <2>1, FaultsTyped, EarlyAssumption DEF NoiseTyped
<1>3. UNCHANGED Running
  BY DEF StartUp, main, ExamineDevice, NoDevice, ClaimInterface, AllocateTransfers,
         SubmitEventIn, SubmitAclIn, Submit, SendReset
<1>4. DongleTyped' /\ NoiseTyped'
  BY <1>1, <1>2, <1>3 DEF Running, controller, noise, DongleTyped, NoiseTyped
<1>5. transfer_completed' \in Nat
  BY <1>1, <1>3 DEF Running, HostTyped
<1>6. CASE main
  <2>1. StartTyped'
    <3>1. at = 0 /\ handle = 0 /\ listed' \in 0..Len(Devs)
      BY <1>1, <1>6 DEF main, TypeInv, Untouched, StartTyped
    <3> QED
      BY <1>1, <1>6, <3>1 DEF main, StartTyped, Phases, StartPhases
  <2>2. PoolsTyped' /\ HostTyped'
    BY <1>1, <1>5, <1>6 DEF main, command, PoolsTyped, HostTyped
  <2>3. Untouched' /\ Claimed'
    BY <1>6 DEF main, Untouched, Claimed
  <2> QED
    BY <1>4, <2>1, <2>2, <2>3, TypeParts DEF TypeInv
<1>7. CASE ExamineDevice
  <2>1. at' = at + 1 /\ at' \in 1..listed /\ at' \in 1..Len(Devs) /\ UNCHANGED listed
    BY <1>1, <1>7 DEF ExamineDevice, StartTyped
  <2>2. phase' \in {"claim", "scan", "ended"}
    BY <1>7 DEF ExamineDevice
  <2>3. handle' \in {handle, at'}
    BY <1>7 DEF ExamineDevice
  <2>4. endpoints' \in {endpoints, scan_for_bt_endpoints(at'), NoEndpoints}
    BY <1>7 DEF ExamineDevice
  <2>5. StartTyped'
    <3>1. endpoints' \in Endpoints
      BY <1>1, <2>1, <2>4 DEF StartTyped, Endpoints
    <3>2. handle' \in 0..at'
      BY <1>1, <2>1, <2>3 DEF StartTyped
    <3> QED
      BY <1>1, <2>1, <2>2, <3>1, <3>2 DEF StartTyped, Phases, StartPhases
  <2>6. PoolsTyped' /\ HostTyped'
    BY <1>1, <1>5, <1>7 DEF ExamineDevice, command, PoolsTyped, HostTyped
  <2>7. Claimed'
    <3> SUFFICES ASSUME phase' = "claim", faults' = 0
                 PROVE  /\ Devs[at'] = "dongle" /\ handle' = at'
                        /\ endpoints' = scan_for_bt_endpoints(at')
      BY <2>2 DEF Claimed
    <3>1. ~Fails
      BY <1>2
    <3> QED
      BY <1>7, <3>1 DEF ExamineDevice
  <2>8. Untouched'
    BY <2>2 DEF Untouched
  <2> QED
    BY <1>4, <2>5, <2>6, <2>7, <2>8, TypeParts DEF TypeInv
<1>8. CASE NoDevice \/ ClaimInterface \/ AllocateTransfers \/ SubmitEventIn \/ SubmitAclIn
             \/ SendReset
  <2>1. UNCHANGED <<listed, at, handle, endpoints>>
    BY <1>8 DEF NoDevice, ClaimInterface, AllocateTransfers, SubmitEventIn, SubmitAclIn,
                Submit, SendReset
  <2>2. /\ phase' \in {"ended", "crashed", "loop", "allocate", "submit"}
        /\ phase' \in {"allocate", "submit"} => phase \in {"claim", "allocate", "submit"}
    BY <1>8 DEF NoDevice, ClaimInterface, AllocateTransfers, SubmitEventIn, SubmitAclIn,
                Submit, SendReset
  <2>3. StartTyped'
    BY <1>1, <2>1, <2>2 DEF StartTyped, Phases, StartPhases
  <2>4. Claimed'
    <3>1. faults' = 0 => faults = 0
      BY <1>2
    <3> QED
      BY <2>1, <2>2, <3>1 DEF TypeInv, Claimed
  <2>5. PoolsTyped'
    <3>1. ASSUME NEW p \in Pools, Submit(p)
          PROVE  PoolsTyped'
      <4>1. inFlight[p] \in Nat /\ Size[p] \in Nat /\ inFlight[p] + 1 <= Size[p]
        BY <1>1, <3>1, EarlyAssumption DEF Submit, PoolsTyped, Pools, Size
      <4> QED
        BY <1>1, <3>1, <4>1 DEF Submit, PoolsTyped
    <3>2. CASE UNCHANGED inFlight
      BY <1>1, <3>2 DEF PoolsTyped
    <3> QED
      BY <1>8, <3>1, <3>2 DEF NoDevice, ClaimInterface, AllocateTransfers, SubmitEventIn,
                              SubmitAclIn, SendReset, Pools
  <2>6. HostTyped'
    <3>1. commandOut' \in Outs
      BY <1>1, <1>8 DEF NoDevice, ClaimInterface, AllocateTransfers, SubmitEventIn,
                        SubmitAclIn, Submit, SendReset, command, HostTyped, Outs
    <3>2. hci_cmd_buffer' \in Commands
      BY <1>1, <1>8, ResetTyped DEF NoDevice, ClaimInterface, AllocateTransfers, SubmitEventIn,
                              SubmitAclIn, Submit, SendReset, command, HostTyped
    <3> QED
      BY <1>5, <3>1, <3>2 DEF HostTyped
  <2>7. Untouched'
    BY <2>2 DEF Untouched
  <2> QED
    BY <1>4, <2>3, <2>4, <2>5, <2>6, <2>7, TypeParts DEF TypeInv
<1> QED
  BY <1>6, <1>7, <1>8 DEF StartUp

\* find_dev starts with well-typed variables.
LEMMA TypeInit == Init => TypeInv
<1> SUFFICES ASSUME Init PROVE TypeInv
  OBVIOUS
<1>1. "Reset" \in Commands
  BY ResetTyped
<1>2. StartTyped /\ HostTyped
  BY <1>1, DevsCounted DEF Init, StartTyped, HostTyped, Phases, StartPhases, Endpoints, Outs
<1>3. PoolsTyped
  BY EarlyAssumption DEF Init, PoolsTyped, Pools, Size
<1>4. DongleTyped
  <2>1. << >> \in Seq(Commands) /\ << >> \in Seq(AclKinds)
    OBVIOUS
  <2> QED
    BY <2>1 DEF Init, DongleTyped
<1>5. NoiseTyped
  BY EarlyAssumption DEF Init, NoiseTyped
<1>6. Untouched /\ Claimed
  BY DEF Init, Untouched, Claimed
<1> QED
  BY <1>2, <1>3, <1>4, <1>5, <1>6, TypeParts DEF TypeInv

\* What one callback does to the command transfer, whichever transfer completed.
Calls ==
  \/ UNCHANGED <<command, transfer_completed>>
  \/ /\ transfer_completed' = transfer_completed + 1
     /\ \E cs, state, accepted :
          /\ Batch(cs, transfer_completed') /\ state \in Outs \cap {commandOut, "idle"}
          /\ usb_send_cmd_packet(cs, state, accepted)

\* A completed transfer of a pool is such a callback, which ends the process or
\* not, and submits the transfer again or not.
LEMMA PoolCalls ==
  ASSUME TypeOK, NEW pool \in Pools, PoolCompleted(pool)
  PROVE  /\ Calls /\ (Fails \/ Works)
         /\ phase = "loop" /\ phase' \in {"loop", "crashed"}
         /\ inFlight[pool] > 0
         /\ inFlight' \in {inFlight, [inFlight EXCEPT ![pool] = @ - 1]}
         /\ coming[pool] # << >> /\ coming' = [coming EXCEPT ![pool] = Tail(@)]
         /\ UNCHANGED <<environment, listed, at, handle, endpoints, controller, noise>>
<1>1. transfer_completed \in Nat /\ coming[pool] \in Seq(AclKinds) /\ commandOut \in Outs
  BY TypeParts DEF DongleTyped, HostTyped
<1> DEFINE kind == Head(coming[pool])
           step == NextStep(transfer_completed + 1)
<1>2. kind \in AclKinds
  BY <1>1, QueueTail DEF PoolCompleted
<1>3. PICK o \in dump_hci_event(kind), accepted, resubmitted \in BOOLEAN :
        /\ IF accepted /\ resubmitted THEN Works
           ELSE ~o.dies /\ (o.again \/ step # << >>) /\ Fails
        /\ phase' = IF o.dies THEN "crashed" ELSE phase
        /\ transfer_completed' = IF o.dies THEN transfer_completed ELSE transfer_completed + 1
        /\ inFlight' = IF resubmitted /\ (o.again \/ step # << >>) /\ ~o.dies THEN inFlight
                       ELSE [inFlight EXCEPT ![pool] = @ - 1]
        /\ IF o.dies THEN UNCHANGED command
           ELSE usb_send_cmd_packet(o.cmds \o step, commandOut, accepted)
  BY DEF PoolCompleted
<1>4. Batch(o.cmds \o step, transfer_completed + 1)
  <2>1. o.cmds = << >> \/ \E r \in Replies : o.cmds = <<r>>
    BY <1>2, OutcomeIs
  <2>2. transfer_completed + 1 \in Nat
    BY <1>1
  <2> QED
    BY <2>1, <2>2, BatchIs
<1> HIDE DEF step, kind
<1>5. Calls
  <2>1. CASE o.dies
    BY <1>3, <2>1 DEF Calls
  <2>2. CASE ~o.dies
    <3>1. transfer_completed' = transfer_completed + 1
      BY <1>3, <2>2
    <3>2. usb_send_cmd_packet(o.cmds \o step, commandOut, accepted)
      BY <1>3, <2>2
    <3> QED
      BY <1>1, <1>4, <3>1, <3>2 DEF Calls
  <2> QED
    BY <2>1, <2>2
<1>6. Fails \/ Works
  BY <1>3
<1>7. phase = "loop" /\ phase' \in {"loop", "crashed"}
  BY <1>3 DEF PoolCompleted
<1>8. inFlight' \in {inFlight, [inFlight EXCEPT ![pool] = @ - 1]}
  BY <1>3
<1> QED
  BY <1>5, <1>6, <1>7, <1>8 DEF PoolCompleted

\* So is the completed command transfer.
LEMMA CommandCalls ==
  ASSUME TypeOK, CommandOutCompleted
  PROVE  Calls /\ (Fails \/ Works)
<1>1. transfer_completed' \in Nat /\ transfer_completed' = transfer_completed + 1
  BY TypeParts DEF CommandOutCompleted, HostTyped
<1>2. PICK accepted \in BOOLEAN :
        /\ IF accepted THEN Works ELSE NextStep(transfer_completed') # << >> /\ Fails
        /\ usb_send_cmd_packet(NextStep(transfer_completed'), "idle", accepted)
  BY DEF CommandOutCompleted
<1>3. Batch(NextStep(transfer_completed'), transfer_completed')
  <2>1. << >> = << >> \/ \E r \in Replies : << >> = <<r>>
    OBVIOUS
  <2> QED
    BY <1>1, <2>1, BatchIs
<1> QED
  BY <1>1, <1>2, <1>3 DEF Calls, Outs

\* A callback keeps the types of the command transfer.
LEMMA CallsTyped ==
  ASSUME HostTyped, Calls
  PROVE  HostTyped'
<1>1. CASE UNCHANGED <<command, transfer_completed>>
  BY <1>1 DEF command, HostTyped
<1>2. ASSUME NEW cs, NEW state \in Outs, NEW accepted,
             transfer_completed' = transfer_completed + 1,
             Batch(cs, transfer_completed'), usb_send_cmd_packet(cs, state, accepted)
      PROVE  HostTyped'
  <2>1. hci_cmd_buffer' \in Commands /\ commandOut' \in Outs
    BY <1>2, Sends
  <2> QED
    BY <1>2, <2>1 DEF HostTyped
<1> QED
  BY <1>1, <1>2 DEF Calls

\* Each callback keeps the types.
LEMMA CallbacksKeepTypes ==
  ASSUME TypeInv, Callbacks
  PROVE  TypeInv'
<1>1. StartTyped /\ PoolsTyped /\ HostTyped /\ DongleTyped /\ NoiseTyped
  BY TypeParts DEF TypeInv
<1>2. /\ phase = "loop" /\ phase' \in {"loop", "crashed"} /\ (Fails \/ Works)
      /\ UNCHANGED <<environment, listed, at, handle, endpoints, controller, noise>>
  BY PoolCalls, CommandCalls
  DEF Callbacks, EventInCompleted, AclInCompleted, CommandOutCompleted, InLost,
      CommandOutFails, TypeInv, Pools, start, controller, noise
<1>3. StartTyped' /\ Untouched' /\ Claimed'
  BY <1>1, <1>2 DEF StartTyped, Phases, StartPhases, Untouched, Claimed
<1>4. NoiseTyped'
  BY <1>1, <1>2, FaultsTyped DEF noise, NoiseTyped
<1>5. PoolsTyped'
  <2>1. ASSUME NEW p \in Pools, inFlight[p] > 0, inFlight' = [inFlight EXCEPT ![p] = @ - 1]
        PROVE  PoolsTyped'
    <3>1. \A q \in Pools : inFlight[q] \in Nat /\ Size[q] \in Nat
      BY <1>1, EarlyAssumption DEF PoolsTyped, Pools, Size
    <3>2. inFlight[p] - 1 \in Nat /\ inFlight[p] - 1 <= Size[p]
      BY <1>1, <2>1, <3>1 DEF PoolsTyped
    <3> QED
      BY <1>1, <2>1, <3>2 DEF PoolsTyped
  <2>2. CASE UNCHANGED inFlight
    BY <1>1, <2>2 DEF PoolsTyped
  <2>3. \/ UNCHANGED inFlight
        \/ \E p \in Pools : inFlight[p] > 0 /\ inFlight' = [inFlight EXCEPT ![p] = @ - 1]
    BY PoolCalls
    DEF Callbacks, EventInCompleted, AclInCompleted, CommandOutCompleted, InLost,
        CommandOutFails, TypeInv, Pools
  <2> QED
    BY <2>1, <2>2, <2>3
<1>6. HostTyped'
  <2>1. CASE EventInCompleted \/ AclInCompleted \/ CommandOutCompleted
    BY <1>1, <2>1, PoolCalls, CommandCalls, CallsTyped
    DEF EventInCompleted, AclInCompleted, TypeInv, Pools
  <2>2. CASE InLost("eventIn") \/ InLost("aclIn") \/ CommandOutFails
    BY <1>1, <2>2 DEF InLost, CommandOutFails, command, HostTyped, Outs
  <2> QED
    BY <2>1, <2>2 DEF Callbacks
<1>7. DongleTyped'
  <2>1. ASSUME NEW p \in Pools, coming[p] # << >>, coming' = [coming EXCEPT ![p] = Tail(@)]
        PROVE  coming' \in [Pools -> Seq(AclKinds)]
    <3>1. Tail(coming[p]) \in Seq(AclKinds)
      BY <1>1, <2>1, QueueTail DEF DongleTyped
    <3> QED
      BY <1>1, <2>1, <3>1 DEF DongleTyped
  <2>2. \/ UNCHANGED coming
        \/ \E p \in Pools : coming[p] # << >> /\ coming' = [coming EXCEPT ![p] = Tail(@)]
    BY PoolCalls
    DEF Callbacks, EventInCompleted, AclInCompleted, CommandOutCompleted, InLost,
        CommandOutFails, TypeInv, Pools
  <2>3. coming' \in [Pools -> Seq(AclKinds)]
    BY <1>1, <2>1, <2>2 DEF DongleTyped
  <2> QED
    BY <1>1, <1>2, <2>3 DEF controller, DongleTyped
<1> QED
  BY <1>3, <1>4, <1>5, <1>6, <1>7, TypeParts DEF TypeInv

\* Reports of well-typed events.
LEMMA ReportTyped ==
  ASSUME DongleTyped, NEW pool \in Pools, NEW kinds \in Seq(AclKinds), Report(pool, kinds)
  PROVE  coming' \in [Pools -> Seq(AclKinds)]
<1>1. coming[pool] \o kinds \in Seq(AclKinds)
  BY ConcatProperties DEF DongleTyped
<1> QED
  BY <1>1 DEF DongleTyped, Report

\* Each step of the dongle and of the devices keeps the types.
LEMMA DongleKeepsTypes ==
  ASSUME TypeInv, Dongle
  PROVE  TypeInv'
<1>1. StartTyped /\ PoolsTyped /\ HostTyped /\ DongleTyped /\ NoiseTyped
  BY TypeParts DEF TypeInv
<1>2. UNCHANGED <<environment, start, inFlight, hci_cmd_buffer, transfer_completed, faults>>
  BY DEF Dongle, DongleTakes, DongleExecutes, RemoteConnects, AclArrives, OtherEvent, command
<1>3. StartTyped' /\ PoolsTyped' /\ Untouched' /\ Claimed'
  BY <1>1, <1>2 DEF start, TypeInv, StartTyped, PoolsTyped, Untouched, Claimed
<1>4. HostTyped'
  BY <1>1, <1>2 DEF Dongle, DongleTakes, DongleExecutes, RemoteConnects, AclArrives, OtherEvent,
                    command, HostTyped, Outs
<1>5. NoiseTyped'
  BY <1>1, <1>2, EarlyAssumption
  DEF Dongle, DongleTakes, DongleExecutes, RemoteConnects, AclArrives, OtherEvent,
      noise, NoiseTyped
<1>6. DongleTyped'
  <2>1. CASE DongleTakes
    BY <1>1, <2>1, QueueAppend DEF DongleTakes, DongleTyped, HostTyped
  <2>2. CASE DongleExecutes
    <3>1. queued' \in Seq(Commands) /\ executed' \in Seq(Commands)
      BY <1>1, <2>2, QueueTail, QueueAppend DEF DongleExecutes, DongleTyped
    <3> DEFINE kinds == IF Head(queued) = Accept THEN <<"Other", "Other">>
                        ELSE IF Head(queued) \in Replies THEN <<"Other">>
                        ELSE <<"CommandComplete">>
    <3>2. kinds \in Seq(AclKinds) /\ "eventIn" \in Pools
      <4>1. "Other" \in AclKinds /\ "CommandComplete" \in AclKinds
        BY DEF AclKinds, EventKinds
      <4>2. /\ <<"Other", "Other">> \in Seq(AclKinds) /\ <<"Other">> \in Seq(AclKinds)
            /\ <<"CommandComplete">> \in Seq(AclKinds)
        BY <4>1
      <4> QED
        BY <4>2 DEF Pools
    <3>3. Report("eventIn", kinds)
      BY <2>2 DEF DongleExecutes
    <3> HIDE DEF kinds
    <3> QED
      BY <1>1, <3>1, <3>2, <3>3, ReportTyped DEF DongleTyped
  <2>3. CASE RemoteConnects \/ AclArrives \/ OtherEvent
    <3>1. \E pool \in Pools, kind \in AclKinds : Report(pool, <<kind>>)
      <4>1. "eventIn" \in Pools /\ "aclIn" \in Pools
        BY DEF Pools
      <4>2. "ConnectionRequest" \in AclKinds /\ "Other" \in AclKinds
        BY DEF AclKinds, EventKinds
      <4> QED
        BY <2>3, <4>1, <4>2 DEF RemoteConnects, AclArrives, OtherEvent
    <3>2. PICK pool \in Pools, kind \in AclKinds : Report(pool, <<kind>>)
      BY <3>1
    <3>3. <<kind>> \in Seq(AclKinds)
      OBVIOUS
    <3> QED
      BY <1>1, <2>3, <3>2, <3>3, ReportTyped
      DEF RemoteConnects, AclArrives, OtherEvent, controller, DongleTyped
  <2> QED
    BY <2>1, <2>2, <2>3 DEF Dongle
<1> QED
  BY <1>3, <1>4, <1>5, <1>6, TypeParts DEF TypeInv

\* Every step keeps the types.
LEMMA TypeStep == TypeInv /\ [Next]_vars => TypeInv'
<1> SUFFICES ASSUME TypeInv, [Next]_vars PROVE TypeInv'
  OBVIOUS
<1>1. CASE UNCHANGED vars
  BY <1>1 DEF vars, start, command, controller, noise, TypeInv, TypeOK, Untouched, Claimed
<1> QED
  BY <1>1, StartKeepsTypes, CallbacksKeepTypes, DongleKeepsTypes DEF Next

\* Every variable of main.c keeps its type; no pool ever has more transfers in
\* flight than find_dev allocated.
THEOREM EarlyTyped == Spec => []TypeOK
<1>1. TypeInv => TypeOK
  BY DEF TypeInv
<1> QED
  BY TypeInit, TypeStep, <1>1, PTL DEF Spec

\* find_dev comes to the event loop only by sending Reset, with both pools in
\* flight, and with the dongle's handle and endpoints unless a call has failed.
THEOREM LoopEnteredWithFullPools == Spec => ResetMeetsFullPools
<1> DEFINE Entered ==
      phase' = "loop" /\ phase # "loop" =>
        /\ inFlight = Size
        /\ faults = 0 => /\ Devs[at] = "dongle" /\ handle = at
                         /\ endpoints = scan_for_bt_endpoints(at)
<1>1. TypeInv /\ [Next]_vars => [Entered]_vars
  <2> SUFFICES ASSUME TypeInv, Next, phase' = "loop", phase # "loop"
               PROVE  /\ inFlight = Size
                      /\ faults = 0 => /\ Devs[at] = "dongle" /\ handle = at
                                       /\ endpoints = scan_for_bt_endpoints(at)
    OBVIOUS
  <2>1. SendReset
    <3>1. ~Callbacks
      BY DEF Callbacks, EventInCompleted, AclInCompleted, PoolCompleted, CommandOutCompleted,
             InLost, CommandOutFails
    <3>2. ~Dongle
      BY DEF Dongle, DongleTakes, DongleExecutes, RemoteConnects, AclArrives, OtherEvent
    <3>3. ~(main \/ ExamineDevice \/ NoDevice \/ ClaimInterface \/ AllocateTransfers
               \/ SubmitEventIn \/ SubmitAclIn)
      BY DEF main, ExamineDevice, NoDevice, ClaimInterface, AllocateTransfers, SubmitEventIn,
             SubmitAclIn, Submit
    <3> QED
      BY <3>1, <3>2, <3>3 DEF Next, StartUp
  <2> QED
    BY <2>1 DEF SendReset, TypeInv, Claimed
<1> QED
  BY <1>1, TypeInit, TypeStep, PTL DEF Spec, ResetMeetsFullPools
-----------------------------------------------------------------------------
\* The place of each initialisation command in the list.
Rank ==
  [Reset |-> 1,
   ReadLocalVersion |-> 2, ReadLocalName |-> 3, ReadLocalSupportedCommands |-> 4,
   ReadBDADDR |-> 5,
   ReadBufferSize |-> 6, ReadLocalSupportedFeatures |-> 7, SetEventMask |-> 8,
   LEReadBufferSize |-> 9,
   ReadScanEnable |-> 10, LESetScanParameters |-> 11, WriteSimplePairingMode |-> 12,
   WritePageTimeout |-> 13, WriteClassOfDevice |-> 14, ChangeLocalName |-> 15,
   WriteExtendedInquiryResponse |-> 16, WriteInquiryMode |-> 17, WriteScanEnable |-> 18,
   WriteDefaultErroneousDataReporting |-> 19, WriteScoPcmInt |-> 20]

Names ==
  {"Reset", "ReadLocalVersion", "ReadLocalName", "ReadLocalSupportedCommands", "ReadBDADDR",
   "ReadBufferSize", "ReadLocalSupportedFeatures", "SetEventMask", "LEReadBufferSize",
   "ReadScanEnable", "LESetScanParameters", "WriteSimplePairingMode", "WritePageTimeout",
   "WriteClassOfDevice", "ChangeLocalName", "WriteExtendedInquiryResponse",
   "WriteInquiryMode", "WriteScanEnable", "WriteDefaultErroneousDataReporting",
   "WriteScoPcmInt"}

\* The list as it is put together: every command at the place of its rank.
LEMMA StepsInPlace == Places(Names, Rank, InitCommands, 0, 20)
<1>1. Places(Names, Rank, ResetStep, 0, 1)
  BY DEF Places, ResetStep, Rank, Names
<1>2. Places(Names, Rank, InformationSteps, 1, 4)
  <2>1. InformationSteps \in Seq(Names) /\ Len(InformationSteps) = 4
    BY DEF InformationSteps, Names
  <2>2. \A i \in 1..4 : Rank[InformationSteps[i]] = 1 + i
    <3>1. /\ Rank[InformationSteps[1]] = 2 /\ Rank[InformationSteps[2]] = 3
          /\ Rank[InformationSteps[3]] = 4 /\ Rank[InformationSteps[4]] = 5
      BY DEF InformationSteps, Rank
    <3>2. 1..4 = {1, 2, 3, 4}
      OBVIOUS
    <3> QED
      BY <3>1, <3>2
  <2> QED
    BY <2>1, <2>2 DEF Places
<1>3. Places(Names, Rank, CapabilitySteps, 5, 4)
  <2>1. CapabilitySteps \in Seq(Names) /\ Len(CapabilitySteps) = 4
    BY DEF CapabilitySteps, Names
  <2>2. \A i \in 1..4 : Rank[CapabilitySteps[i]] = 5 + i
    <3>1. /\ Rank[CapabilitySteps[1]] = 6 /\ Rank[CapabilitySteps[2]] = 7
          /\ Rank[CapabilitySteps[3]] = 8 /\ Rank[CapabilitySteps[4]] = 9
      BY DEF CapabilitySteps, Rank
    <3>2. 1..4 = {1, 2, 3, 4}
      OBVIOUS
    <3> QED
      BY <3>1, <3>2
  <2> QED
    BY <2>1, <2>2 DEF Places
<1>4. Places(Names, Rank, ScanSteps, 9, 3)
  <2>1. ScanSteps \in Seq(Names) /\ Len(ScanSteps) = 3
    BY DEF ScanSteps, Names
  <2>2. \A i \in 1..3 : Rank[ScanSteps[i]] = 9 + i
    <3>1. /\ Rank[ScanSteps[1]] = 10 /\ Rank[ScanSteps[2]] = 11
          /\ Rank[ScanSteps[3]] = 12
      BY DEF ScanSteps, Rank
    <3>2. 1..3 = {1, 2, 3}
      OBVIOUS
    <3> QED
      BY <3>1, <3>2
  <2> QED
    BY <2>1, <2>2 DEF Places
<1>5. Places(Names, Rank, NamingSteps, 12, 3)
  <2>1. NamingSteps \in Seq(Names) /\ Len(NamingSteps) = 3
    BY DEF NamingSteps, Names
  <2>2. \A i \in 1..3 : Rank[NamingSteps[i]] = 12 + i
    <3>1. /\ Rank[NamingSteps[1]] = 13 /\ Rank[NamingSteps[2]] = 14
          /\ Rank[NamingSteps[3]] = 15
      BY DEF NamingSteps, Rank
    <3>2. 1..3 = {1, 2, 3}
      OBVIOUS
    <3> QED
      BY <3>1, <3>2
  <2> QED
    BY <2>1, <2>2 DEF Places
<1>6. Places(Names, Rank, InquirySteps, 15, 3)
  <2>1. InquirySteps \in Seq(Names) /\ Len(InquirySteps) = 3
    BY DEF InquirySteps, Names
  <2>2. \A i \in 1..3 : Rank[InquirySteps[i]] = 15 + i
    <3>1. /\ Rank[InquirySteps[1]] = 16 /\ Rank[InquirySteps[2]] = 17
          /\ Rank[InquirySteps[3]] = 18
      BY DEF InquirySteps, Rank
    <3>2. 1..3 = {1, 2, 3}
      OBVIOUS
    <3> QED
      BY <3>1, <3>2
  <2> QED
    BY <2>1, <2>2 DEF Places
<1>7. Places(Names, Rank, ReportingSteps, 18, 2)
  <2>1. ReportingSteps \in Seq(Names) /\ Len(ReportingSteps) = 2
    BY DEF ReportingSteps, Names
  <2>2. \A i \in 1..2 : Rank[ReportingSteps[i]] = 18 + i
    <3>1. /\ Rank[ReportingSteps[1]] = 19 /\ Rank[ReportingSteps[2]] = 20
      BY DEF ReportingSteps, Rank
    <3>2. 1..2 = {1, 2}
      OBVIOUS
    <3> QED
      BY <3>1, <3>2
  <2> QED
    BY <2>1, <2>2 DEF Places
<1>8. Places(Names, Rank, InitCommands, 0, 20)
  <2>1. Places(Names, Rank, ResetStep \o InformationSteps, 0, 5)
    BY <1>1, <1>2, PlacesConcat
  <2>2. Places(Names, Rank, ResetStep \o InformationSteps \o CapabilitySteps, 0, 9)
    BY <1>3, <2>1, PlacesConcat
  <2>3. Places(Names, Rank, ResetStep \o InformationSteps \o CapabilitySteps \o ScanSteps, 0, 12)
    BY <1>4, <2>2, PlacesConcat
  <2>4. Places(Names, Rank, ResetStep \o InformationSteps \o CapabilitySteps \o ScanSteps
                 \o NamingSteps, 0, 15)
    BY <1>5, <2>3, PlacesConcat
  <2>5. Places(Names, Rank, ResetStep \o InformationSteps \o CapabilitySteps \o ScanSteps
                 \o NamingSteps \o InquirySteps, 0, 18)
    BY <1>6, <2>4, PlacesConcat
  <2> QED
    BY <1>7, <2>5, PlacesConcat DEF InitCommands
<1> QED
  BY <1>8

\* No command occurs twice in the chain, so a command has one position.
LEMMA PositionOfStep ==
  ASSUME NEW k \in 1..InitLength
  PROVE  Position[InitCommands[k]] = k
  BY StepsInPlace, FoundInPlace DEF Position, InitLength

\* None of the list is an answer to a remote device.
LEMMA StepIsNoReply ==
  ASSUME NEW k \in 1..InitLength
  PROVE  InitCommands[k] \notin Replies
<1>1. InitCommands \in Seq(Names) /\ Len(InitCommands) = 20
  BY StepsInPlace DEF Places
<1>2. k \in 1..Len(InitCommands)
  BY <1>1 DEF InitLength
<1>3. InitCommands[k] \in Names
  BY <1>1, <1>2, ElementOfSeq
<1> QED
  BY <1>3 DEF Names, Replies, Accept

\* The positions of initialisation commands are numbers.
LEMMA PositionIsInt ==
  ASSUME NEW c \in Commands, c \notin Replies
  PROVE  Position[c] \in Int
<1>1. PICK k \in 1..InitLength : c = InitCommands[k]
  BY DEF Commands
<1>2. k \in Int
  BY <1>1 DEF InitLength
<1> QED
  BY <1>1, <1>2, PositionOfStep
-----------------------------------------------------------------------------
\* What the dongle has taken, the executed commands first.
Line == executed \o queued

\* Places where initialisation commands stand.
Inits(q) == {n \in DOMAIN q : q[n] \notin Replies}

\* c may be executed before d.
Before(c, d) == Position[c] < Position[d] \/ (c = d /\ faults > 0)

LineOrdered == \A i, j \in Inits(Line) : i < j => Before(Line[i], Line[j])

\* Nothing the dongle has taken stands behind the command in the buffer, and only
\* the command it has just taken stands beside it.
Newest(c) == Before(c, hci_cmd_buffer) \/ (c = hci_cmd_buffer /\ commandOut # "submitted")
BufferNewest == hci_cmd_buffer \notin Replies => \A i \in Inits(Line) : Newest(Line[i])

\* The count has come past every command sent.
Counted(c) == c \notin Replies => 2 * (Position[c] - 1) <= transfer_completed
AllCounted == Counted(hci_cmd_buffer) /\ \A i \in DOMAIN Line : Counted(Line[i])

\* Until the event loop nothing has been sent.
NothingYet == phase \in StartPhases => queued = << >> /\ executed = << >>

OrderInv == TypeInv /\ NothingYet /\ LineOrdered /\ BufferNewest /\ AllCounted

\* The line is a queue of commands, and their positions are numbers.
LEMMA LineTyped ==
  ASSUME TypeOK
  PROVE  /\ Line \in Seq(Commands) /\ Len(Line) \in Nat /\ DOMAIN Line = 1..Len(Line)
         /\ \A i \in DOMAIN Line : Line[i] \in Commands
         /\ hci_cmd_buffer \in Commands /\ transfer_completed \in Nat /\ faults \in Nat
<1>1. queued \in Seq(Commands) /\ executed \in Seq(Commands)
  BY TypeParts DEF DongleTyped
<1>2. Line \in Seq(Commands)
  BY <1>1, QueuesInARow DEF Line
<1>3. hci_cmd_buffer \in Commands /\ transfer_completed \in Nat /\ faults \in Nat
  BY EarlyAssumption, TypeParts DEF HostTyped, NoiseTyped
<1> HIDE DEF Line
<1> QED
  BY <1>2, <1>3

\* At the start the line is empty and Reset in the buffer.
LEMMA OrderInit == Init => OrderInv
<1> SUFFICES ASSUME Init PROVE OrderInv
  OBVIOUS
<1>1. TypeInv /\ TypeOK
  BY TypeInit DEF TypeInv
<1>2. Line = << >> /\ DOMAIN Line = {}
  BY QueuesInARow DEF Init, Line
<1>3. Position["Reset"] = 1
  BY ResetTyped, PositionOfStep DEF InitLength
<1>4. Counted(hci_cmd_buffer)
  BY <1>3 DEF Init, Counted
<1> QED
  BY <1>1, <1>2, <1>4
  DEF Init, OrderInv, NothingYet, LineOrdered, BufferNewest, AllCounted, Inits

\* Steps that send nothing and take nothing keep the order; the transfer may be
\* submitted once more only by one that failed.
LEMMA IdleKeepsOrder ==
  ASSUME OrderInv, TypeInv', NothingYet', UNCHANGED <<queued, executed, hci_cmd_buffer>>,
         transfer_completed' >= transfer_completed, faults' >= faults,
         commandOut' = "submitted" => commandOut = "submitted" \/ faults' > 0
  PROVE  OrderInv'
<1>1. TypeOK
  BY DEF OrderInv, TypeInv
<1>2. TypeOK'
  BY DEF TypeInv
<1>3. /\ transfer_completed \in Nat /\ faults \in Nat
      /\ transfer_completed' \in Nat /\ faults' \in Nat
  BY <1>1, <1>2, LineTyped, EarlyAssumption DEF TypeOK
<1>4. Line' = Line /\ Inits(Line)' = Inits(Line)
  BY DEF Line, Inits
<1>5. \A c, d : Before(c, d) => Before(c, d)'
  BY <1>3 DEF Before
<1>6. LineOrdered'
  BY <1>4, <1>5 DEF OrderInv, LineOrdered
<1>7. BufferNewest'
  <2>1. \A c : Newest(c) => Newest(c)'
    BY <1>3 DEF Newest, Before
  <2> QED
    BY <1>4, <2>1 DEF OrderInv, BufferNewest
<1>8. AllCounted'
  <2>1. ASSUME NEW c \in Commands, Counted(c) PROVE Counted(c)'
    <3> SUFFICES ASSUME c \notin Replies
                 PROVE  2 * (Position[c] - 1) <= transfer_completed'
      BY DEF Counted
    <3>1. Position[c] \in Int /\ 2 * (Position[c] - 1) <= transfer_completed
      BY <2>1, PositionIsInt DEF Counted
    <3> QED
      BY <1>3, <3>1
  <2>2. hci_cmd_buffer \in Commands /\ \A i \in DOMAIN Line : Line[i] \in Commands
    BY <1>1, LineTyped
  <2> QED
    BY <1>4, <2>1, <2>2 DEF OrderInv, AllCounted
<1> QED
  BY <1>6, <1>7, <1>8 DEF OrderInv

\* A callback that sends a batch keeps the order.
LEMMA BatchKeepsOrder ==
  ASSUME OrderInv, TypeInv', NothingYet', UNCHANGED <<queued, executed>>, faults' >= faults,
         transfer_completed' = transfer_completed + 1,
         NEW cs, cs # << >>, Batch(cs, transfer_completed'), hci_cmd_buffer' = cs[Len(cs)]
  PROVE  OrderInv'
<1> DEFINE b == hci_cmd_buffer'
<1>1. TypeOK
  BY DEF OrderInv, TypeInv
<1>2. /\ Line' = Line /\ Inits(Line)' = Inits(Line) /\ transfer_completed \in Nat
      /\ faults \in Nat /\ faults' \in Int
      /\ \A i \in DOMAIN Line : Line[i] \in Commands
  <2>1. faults' \in Int
    BY EarlyAssumption DEF TypeInv, TypeOK
  <2> QED
    BY <1>1, <2>1, LineTyped DEF Line, Inits
<1>3. LineOrdered'
  <2>1. \A c, d : Before(c, d) => Before(c, d)'
    BY <1>2 DEF Before
  <2> QED
    BY <1>2, <2>1 DEF OrderInv, LineOrdered
<1>4. ASSUME b \notin Replies
      PROVE  Position[b] \in Int /\ transfer_completed' = 2 * (Position[b] - 1)
  <2>1. PICK k \in 2..InitLength : b = InitCommands[k] /\ transfer_completed' = 2 * (k - 1)
    BY <1>4 DEF Batch
  <2>2. k \in 1..InitLength /\ k \in Int
    BY <2>1 DEF InitLength
  <2> QED
    BY <2>1, <2>2, PositionOfStep
<1> HIDE DEF b
<1>5. ASSUME NEW i \in DOMAIN Line, Line[i] \notin Replies
      PROVE  /\ Position[Line[i]] \in Int
             /\ 2 * (Position[Line[i]] - 1) <= transfer_completed
  BY <1>2, <1>5, PositionIsInt DEF OrderInv, AllCounted, Counted
<1>6. BufferNewest'
  <2> SUFFICES ASSUME b \notin Replies, NEW i \in Inits(Line)
               PROVE  Position[Line[i]] < Position[b]
    BY <1>2 DEF BufferNewest, Newest, Before, b
  <2>1. i \in DOMAIN Line /\ Line[i] \notin Replies
    BY DEF Inits
  <2> QED
    BY <1>2, <1>4, <1>5, <2>1
<1>7. AllCounted'
  <2>1. Counted(hci_cmd_buffer)'
    BY <1>2, <1>4 DEF Counted, b
  <2>2. ASSUME NEW i \in DOMAIN Line PROVE Counted(Line[i])'
    BY <1>2, <1>5 DEF Counted
  <2> QED
    BY <1>2, <2>1, <2>2 DEF AllCounted, b
<1> QED
  BY <1>3, <1>6, <1>7 DEF OrderInv

\* So every callback keeps it.
LEMMA CallsKeepOrder ==
  ASSUME OrderInv, TypeInv', NothingYet', UNCHANGED <<queued, executed>>, faults' >= faults,
         Calls
  PROVE  OrderInv'
<1>1. HostTyped /\ transfer_completed \in Nat
  BY TypeParts DEF OrderInv, TypeInv, HostTyped
<1>2. CASE UNCHANGED <<command, transfer_completed>>
  BY <1>1, <1>2, IdleKeepsOrder DEF command
<1>3. ASSUME NEW cs, NEW state, NEW accepted, transfer_completed' = transfer_completed + 1,
             Batch(cs, transfer_completed'), state \in Outs \cap {commandOut, "idle"},
             usb_send_cmd_packet(cs, state, accepted)
      PROVE  OrderInv'
  <2>1. CASE cs = << >>
    <3>1. hci_cmd_buffer' = hci_cmd_buffer /\ commandOut' = state
      BY <1>1, <1>3, <2>1, Sends
    <3> QED
      BY <1>1, <1>3, <3>1, IdleKeepsOrder
  <2>2. CASE cs # << >>
    <3>1. hci_cmd_buffer' = cs[Len(cs)]
      BY <1>1, <1>3, <2>2, Sends
    <3> QED
      BY <1>3, <2>2, <3>1, BatchKeepsOrder
  <2> QED
    BY <2>1, <2>2
<1> QED
  BY <1>2, <1>3 DEF Calls

\* The dongle takes the newest command, behind everything it has taken before.
LEMMA TakeKeepsOrder ==
  ASSUME OrderInv, TypeInv', DongleTakes
  PROVE  OrderInv'
<1> DEFINE b == hci_cmd_buffer
           n == Len(Line)
<1>1. /\ Line \in Seq(Commands) /\ n \in Nat /\ DOMAIN Line = 1..n /\ b \in Commands
      /\ queued \in Seq(Commands) /\ executed \in Seq(Commands)
  BY LineTyped, TypeParts DEF OrderInv, TypeInv, DongleTyped
<1>2. /\ queued' = Append(queued, b) /\ commandOut = "submitted" /\ commandOut' = "taken"
      /\ UNCHANGED <<hci_cmd_buffer, executed, faults, transfer_completed, phase>>
      /\ phase = "loop"
  BY DEF DongleTakes, start
<1>3. Line' = Append(Line, b)
  BY <1>1, <1>2, QueuesInARow DEF Line
<1>4. /\ DOMAIN Line' = 1..(n + 1) /\ Line'[n + 1] = b
      /\ \A i \in 1..n : Line'[i] = Line[i]
  BY <1>1, <1>3, QueueAppend
<1> HIDE DEF n
<1>5. b \notin Replies => \A i \in Inits(Line) : Before(Line[i], b)
  BY <1>2 DEF OrderInv, BufferNewest, Newest
<1>6. LineOrdered'
  <2> SUFFICES ASSUME NEW i \in 1..(n + 1), NEW j \in 1..(n + 1), i < j,
                      Line'[i] \notin Replies, Line'[j] \notin Replies
               PROVE  Before(Line'[i], Line'[j])
    <3>1. \A i \in Inits(Line)' : i \in 1..(n + 1) /\ Line'[i] \notin Replies
      BY <1>4 DEF Inits
    <3>2. faults' = faults
      BY <1>2
    <3> QED
      BY <3>1, <3>2 DEF LineOrdered, Before
  <2>1. i \in 1..n /\ Line'[i] = Line[i]
    BY <1>1, <1>4
  <2>2. CASE j = n + 1
    BY <1>1, <1>4, <1>5, <2>1, <2>2 DEF Inits
  <2>3. CASE j # n + 1
    <3>1. j \in 1..n /\ Line'[j] = Line[j]
      BY <1>1, <1>4, <2>3
    <3> QED
      BY <1>1, <2>1, <3>1 DEF OrderInv, LineOrdered, Inits
  <2> QED
    BY <2>2, <2>3
<1>7. BufferNewest'
  <2> SUFFICES ASSUME b \notin Replies, NEW i \in 1..(n + 1), Line'[i] \notin Replies
               PROVE  Before(Line'[i], b) \/ Line'[i] = b
    <3>1. \A i \in Inits(Line)' : i \in 1..(n + 1) /\ Line'[i] \notin Replies
      BY <1>4 DEF Inits
    <3> QED
      BY <1>2, <3>1 DEF BufferNewest, Newest, Before
  <2>1. CASE i = n + 1
    BY <1>4, <2>1
  <2>2. CASE i # n + 1
    <3>1. i \in 1..n /\ Line'[i] = Line[i]
      BY <1>1, <1>4, <2>2
    <3> QED
      BY <1>1, <1>5, <3>1 DEF Inits
  <2> QED
    BY <2>1, <2>2
<1>8. AllCounted'
  <2>1. Counted(b) /\ \A j \in 1..n : Counted(Line[j])
    BY <1>1 DEF OrderInv, AllCounted
  <2>2. \A j \in 1..(n + 1) : Line'[j] = b \/ (j \in 1..n /\ Line'[j] = Line[j])
    BY <1>1, <1>4
  <2>3. \A j \in 1..(n + 1) : Counted(Line'[j])
    BY <2>1, <2>2
  <2> QED
    BY <1>2, <1>4, <2>1, <2>3 DEF AllCounted, Counted
<1>9. NothingYet'
  BY <1>2 DEF NothingYet, StartPhases
<1> QED
  BY <1>6, <1>7, <1>8, <1>9 DEF OrderInv

\* The dongle executes a command: it moves within the line.
LEMMA ExecuteKeepsOrder ==
  ASSUME OrderInv, TypeInv', DongleExecutes
  PROVE  OrderInv'
<1>1. queued \in Seq(Commands) /\ executed \in Seq(Commands) /\ faults \in Nat
      /\ transfer_completed \in Nat
  BY TypeParts, LineTyped DEF OrderInv, TypeInv, DongleTyped
<1>2. /\ queued # << >> /\ queued' = Tail(queued) /\ executed' = Append(executed, Head(queued))
      /\ UNCHANGED <<hci_cmd_buffer, commandOut, faults, transfer_completed, phase>>
      /\ phase = "loop"
  BY DEF DongleExecutes, start, command
<1>3. Line' = Line
  BY <1>1, <1>2, QueuesInARow DEF Line
<1>4. NothingYet'
  BY <1>2 DEF NothingYet, StartPhases
<1> QED
  BY <1>2, <1>3, <1>4
  DEF OrderInv, LineOrdered, BufferNewest, AllCounted, Inits, Before, Newest, Counted

\* main and find_dev send nothing but Reset, into an empty line.
LEMMA StartKeepsOrder ==
  ASSUME OrderInv, TypeInv', StartUp
  PROVE  OrderInv'
<1>1. NoiseTyped /\ HostTyped /\ faults \in Nat /\ transfer_completed \in Nat
  BY TypeParts, LineTyped DEF OrderInv, TypeInv
<1>2. phase \in StartPhases /\ UNCHANGED <<queued, executed, transfer_completed>>
  BY DEF StartUp, main, ExamineDevice, NoDevice, ClaimInterface, AllocateTransfers,
         SubmitEventIn, SubmitAclIn, Submit, SendReset, Running, controller, StartPhases
<1>3. NothingYet'
  BY <1>2 DEF OrderInv, NothingYet
<1>4. faults' >= faults
  <2>1. Fails \/ Works
    BY DEF StartUp, main, ExamineDevice, NoDevice, ClaimInterface, AllocateTransfers,
           SubmitEventIn, SubmitAclIn, Submit, SendReset, Works
  <2> QED
    BY <1>1, <2>1, FaultsTyped
<1>5. CASE SendReset
  <2>1. Line' = << >> /\ DOMAIN Line' = {}
    <3>1. queued' = << >> /\ executed' = << >>
      BY <1>2 DEF OrderInv, NothingYet
    <3> QED
      BY <3>1, QueuesInARow DEF Line
  <2>2. Position["Reset"] = 1
    BY ResetTyped, PositionOfStep DEF InitLength
  <2>3. Counted(hci_cmd_buffer)'
    BY <1>1, <1>2, <1>5, <2>2 DEF SendReset, Counted
  <2> QED
    BY <1>3, <2>1, <2>3 DEF OrderInv, LineOrdered, BufferNewest, AllCounted, Inits
<1>6. CASE main \/ ExamineDevice \/ NoDevice \/ ClaimInterface \/ AllocateTransfers
             \/ SubmitEventIn \/ SubmitAclIn
  <2>1. /\ UNCHANGED hci_cmd_buffer
        /\ commandOut' = "submitted" => commandOut = "submitted"
    BY <1>6 DEF main, ExamineDevice, NoDevice, ClaimInterface, AllocateTransfers,
                SubmitEventIn, SubmitAclIn, Submit, command
  <2> QED
    BY <1>1, <1>2, <1>3, <1>4, <2>1, IdleKeepsOrder
<1> QED
  BY <1>5, <1>6 DEF StartUp

\* Every step keeps the order.
LEMMA OrderStep == OrderInv /\ [Next]_vars => OrderInv'
<1> SUFFICES ASSUME OrderInv, [Next]_vars PROVE OrderInv'
  OBVIOUS
<1>1. TypeInv' /\ TypeOK /\ NoiseTyped /\ faults \in Nat /\ transfer_completed \in Nat
  BY TypeStep, TypeParts, LineTyped DEF OrderInv, TypeInv
<1>2. CASE StartUp
  BY <1>1, <1>2, StartKeepsOrder
<1>3. CASE EventInCompleted \/ AclInCompleted \/ CommandOutCompleted
  <2>1. Calls /\ (Fails \/ Works) /\ UNCHANGED <<queued, executed>>
    BY <1>1, <1>3, PoolCalls, CommandCalls
    DEF EventInCompleted, AclInCompleted, CommandOutCompleted, Pools, controller
  <2>2. NothingYet'
    BY <1>1, <1>3, PoolCalls
    DEF EventInCompleted, AclInCompleted, CommandOutCompleted, Pools, start, NothingYet,
        StartPhases
  <2>3. faults' >= faults
    BY <1>1, <2>1, FaultsTyped
  <2> QED
    BY <1>1, <2>1, <2>2, <2>3, CallsKeepOrder
<1>4. CASE InLost("eventIn") \/ InLost("aclIn") \/ CommandOutFails
  <2>1. /\ Fails /\ phase = "loop"
        /\ UNCHANGED <<phase, queued, executed, hci_cmd_buffer, transfer_completed>>
    BY <1>4 DEF InLost, CommandOutFails, start, command, controller
  <2>2. faults' >= faults /\ faults' > 0
    BY <1>1, <2>1, FaultsTyped
  <2>3. NothingYet'
    BY <2>1 DEF NothingYet, StartPhases
  <2> QED
    BY <1>1, <2>1, <2>2, <2>3, IdleKeepsOrder
<1>5. CASE DongleTakes
  BY <1>1, <1>5, TakeKeepsOrder
<1>6. CASE DongleExecutes
  BY <1>1, <1>6, ExecuteKeepsOrder
<1>7. CASE RemoteConnects \/ AclArrives \/ OtherEvent \/ UNCHANGED vars
  <2>1. UNCHANGED <<phase, queued, executed, command, transfer_completed, faults>>
    BY <1>7 DEF RemoteConnects, AclArrives, OtherEvent, vars, start, controller
  <2>2. NothingYet'
    BY <2>1 DEF OrderInv, NothingYet
  <2> QED
    BY <1>1, <2>1, <2>2, IdleKeepsOrder DEF command
<1> QED
  BY <1>2, <1>3, <1>4, <1>5, <1>6, <1>7 DEF Next, Callbacks, Dongle

\* The chain of main.c keeps its order whatever events, ACL packets and failures
\* come between: a command is lost or, after a failed transfer, repeated, but no
\* other is executed before it that stands behind it.
THEOREM EarlyInitOrderHolds == Spec => []InitOrder
<1>1. OrderInv => InitOrder
  <2> SUFFICES ASSUME OrderInv, NEW i \in Inits(executed), NEW j \in Inits(executed), i < j
               PROVE  Before(executed[i], executed[j])
    BY DEF InitOrder, Inits, Before
  <2>1. queued \in Seq(Commands) /\ executed \in Seq(Commands)
    BY TypeParts DEF OrderInv, TypeInv, DongleTyped
  <2>2. /\ i \in DOMAIN Line /\ Line[i] = executed[i]
        /\ j \in DOMAIN Line /\ Line[j] = executed[j]
    BY <2>1, QueuesInARow DEF Line, Inits
  <2> QED
    BY <2>2 DEF OrderInv, LineOrdered, Inits
<1> QED
  BY OrderInit, OrderStep, <1>1, PTL DEF Spec
-----------------------------------------------------------------------------
(***************************************************************************)
(* The quiet bring-up.  Command and answer alternate: a command is under   *)
(* way, taken, returned with its transfer, or reported, and the count is   *)
(* even in the first two of these and odd in the others.                   *)
(***************************************************************************)
OneQueued == Len(queued) = 1 /\ queued[1] \notin Replies
NoReport == coming["eventIn"] = << >>
EvenCount == transfer_completed % 2 = 0

UnderWay ==
  /\ commandOut = "submitted" /\ EvenCount /\ queued = << >> /\ NoReport
  /\ hci_cmd_buffer \notin Replies
Taken == commandOut = "taken" /\ EvenCount /\ OneQueued /\ NoReport
Returned == commandOut = "idle" /\ ~EvenCount /\ OneQueued /\ NoReport
Reported ==
  /\ commandOut = "idle" /\ ~EvenCount /\ queued = << >>
  /\ coming["eventIn"] = <<"CommandComplete">>

\* Some command of the list is on its way or about to be answered.
BringingUp ==
  /\ UnderWay \/ Taken \/ Returned \/ Reported
  /\ transfer_completed < 2 * InitLength /\ inFlight = Size
\* The answer to the last one has been read.
Done ==
  /\ commandOut = "idle" /\ queued = << >> /\ NoReport
  /\ transfer_completed = 2 * InitLength

\* Nothing has been sent, taken or reported before the event loop.
Unsent == transfer_completed = 0 /\ queued = << >> /\ NoReport

Alternation ==
  /\ coming["aclIn"] = << >>
  /\ phase \in StartPhases => Unsent
  /\ phase = "loop" => BringingUp \/ Done
QuietInv == environment = "quiet" => Alternation

\* The program starts with nothing sent.
LEMMA QuietInit == Init => QuietInv
  BY DEF Init, QuietInv, Alternation, Unsent, NoReport, Pools, StartPhases

\* find_dev enters the event loop with Reset under way.
LEMMA QuietStart ==
  ASSUME TypeInv, Alternation, environment = "quiet", StartUp
  PROVE  Alternation'
<1>1. /\ phase \in StartPhases /\ ~Fails
      /\ UNCHANGED <<transfer_completed, queued, coming>>
  BY DEF StartUp, main, ExamineDevice, NoDevice, ClaimInterface, AllocateTransfers,
         SubmitEventIn, SubmitAclIn, Submit, SendReset, Running, controller, StartPhases,
         Fails
<1>2. Unsent' /\ coming'["aclIn"] = << >>
  BY <1>1 DEF Alternation, Unsent, NoReport
<1>3. phase' = "loop" => SendReset
  BY <1>1 DEF StartUp, main, ExamineDevice, NoDevice, ClaimInterface, AllocateTransfers,
              SubmitEventIn, SubmitAclIn, Submit, StartPhases
<1>4. ASSUME SendReset, phase' = "loop" PROVE BringingUp'
  <2>1. commandOut' = "submitted" /\ hci_cmd_buffer' = "Reset" /\ inFlight' = Size
    BY <1>1, <1>4 DEF SendReset
  <2>2. "Reset" \notin Replies
    BY DEF Replies, Accept
  <2> QED
    BY <1>2, <2>1, <2>2 DEF BringingUp, UnderWay, Unsent, EvenCount, NoReport, InitLength
<1> QED
  BY <1>2, <1>3, <1>4 DEF Alternation

\* An answer brings the count to the next even number: the next command goes out and
\* the transfer is submitted again, until the list has come to its end.
LEMMA QuietAnswer ==
  ASSUME TypeInv, Alternation, environment = "quiet", EventInCompleted
  PROVE  Alternation'
<1>1. TypeOK /\ transfer_completed \in Nat /\ coming \in [Pools -> Seq(AclKinds)]
  BY TypeParts DEF TypeInv, HostTyped, DongleTyped
<1>2. phase = "loop" /\ coming["eventIn"] # << >>
  BY DEF EventInCompleted, PoolCompleted
<1>3. Reported /\ transfer_completed < 2 * InitLength /\ inFlight = Size
  BY <1>2 DEF Alternation, BringingUp, UnderWay, Taken, Returned, Done, NoReport
<1> DEFINE n == transfer_completed + 1
<1>4. PICK o \in dump_hci_event("CommandComplete"), accepted, resubmitted \in BOOLEAN :
        /\ IF accepted /\ resubmitted THEN Works
           ELSE ~o.dies /\ (o.again \/ NextStep(n) # << >>) /\ Fails
        /\ phase' = IF o.dies THEN "crashed" ELSE phase
        /\ transfer_completed' = IF o.dies THEN transfer_completed ELSE n
        /\ inFlight' = IF resubmitted /\ (o.again \/ NextStep(n) # << >>) /\ ~o.dies
                       THEN inFlight ELSE [inFlight EXCEPT !["eventIn"] = @ - 1]
        /\ IF o.dies THEN UNCHANGED command
           ELSE usb_send_cmd_packet(o.cmds \o NextStep(n), commandOut, accepted)
  <2>1. Head(coming["eventIn"]) = "CommandComplete"
    BY <1>3 DEF Reported
  <2> QED
    BY <2>1 DEF EventInCompleted, PoolCompleted
<1>5. accepted /\ resubmitted
  BY <1>4 DEF Fails
<1>6. /\ queued' = queued /\ coming'["eventIn"] = << >> /\ coming'["aclIn"] = << >>
  <2>1. coming' = [coming EXCEPT !["eventIn"] = Tail(@)] /\ UNCHANGED controller
    BY DEF EventInCompleted, PoolCompleted
  <2>2. Tail(coming["eventIn"]) = << >>
    BY <1>3 DEF Reported
  <2> QED
    BY <1>1, <2>1, <2>2 DEF controller, Alternation, Pools
<1>7. CASE o.dies
  BY <1>4, <1>6, <1>7 DEF Alternation, StartPhases
<1>8. CASE ~o.dies
  <2>1. o.cmds = << >>
    BY <1>4 DEF dump_hci_event, CommandComplete, PrintOnly, MayFault, Outcome
  <2>2. /\ n % 2 = 0 /\ n \in 1..(2 * InitLength) /\ n = 2 * (n \div 2)
        /\ n \div 2 \in 1..InitLength
    BY <1>1, <1>3 DEF Reported, EvenCount, InitLength
  <2>3. transfer_completed' = n /\ EvenCount'
    BY <1>4, <1>8, <2>2 DEF EvenCount
  <2>4. queued' = << >> /\ NoReport'
    BY <1>3, <1>6 DEF Reported, NoReport
  <2>5. ASSUME n < 2 * InitLength PROVE BringingUp'
    <3> DEFINE k == n \div 2 + 1
               c == InitCommands[k]
    <3>1. n \div 2 \in 1..(InitLength - 1) /\ k \in 1..InitLength
      BY <2>2, <2>5 DEF InitLength
    <3>2. NextStep(n) = <<c>>
      BY <2>2, <3>1 DEF NextStep
    <3>3. c \notin Replies
      BY <3>1, StepIsNoReply
    <3> HIDE DEF c, k
    <3>4. o.cmds \o NextStep(n) = <<c>>
      BY <2>1, <3>2
    <3>5. NextStep(n) # << >> /\ <<c>> # << >> /\ <<c>>[Len(<<c>>)] = c
      BY <3>2
    <3>6. inFlight' = Size
      BY <1>3, <1>4, <1>5, <1>8, <3>5
    <3>7. commandOut' = "submitted" /\ hci_cmd_buffer' = c
      BY <1>3, <1>4, <1>5, <1>8, <3>4, <3>5 DEF usb_send_cmd_packet, Reported
    <3> QED
      BY <2>3, <2>4, <2>5, <3>3, <3>6, <3>7 DEF BringingUp, UnderWay
  <2>6. ASSUME ~(n < 2 * InitLength) PROVE Done'
    <3>1. n = 2 * InitLength /\ NextStep(n) = << >>
      BY <2>2, <2>6 DEF NextStep, InitLength
    <3>2. o.cmds \o NextStep(n) = << >>
      BY <2>1, <3>1
    <3>3. commandOut' = "idle"
      BY <1>3, <1>4, <1>8, <3>2 DEF usb_send_cmd_packet, Reported
    <3> QED
      BY <2>3, <2>4, <3>1, <3>3 DEF Done
  <2>7. phase' = "loop"
    BY <1>2, <1>4, <1>8
  <2> QED
    BY <1>6, <2>5, <2>6, <2>7 DEF Alternation, StartPhases
<1> QED
  BY <1>7, <1>8

\* The command transfer completes on an odd count, which sends nothing.
LEMMA QuietReturn ==
  ASSUME TypeInv, Alternation, environment = "quiet", CommandOutCompleted
  PROVE  Alternation'
<1>1. transfer_completed \in Nat
  BY TypeParts DEF TypeInv, HostTyped
<1>2. Taken /\ transfer_completed < 2 * InitLength /\ inFlight = Size
  BY DEF CommandOutCompleted, Alternation, BringingUp, UnderWay, Returned, Reported, Done
<1>3. /\ transfer_completed' = transfer_completed + 1 /\ phase = "loop"
      /\ UNCHANGED <<queued, coming, inFlight, phase>>
  BY DEF CommandOutCompleted, start, controller
<1>4. ~EvenCount' /\ transfer_completed' < 2 * InitLength
  BY <1>1, <1>2, <1>3 DEF Taken, EvenCount, InitLength
<1>5. NextStep(transfer_completed') = << >>
  BY <1>4 DEF NextStep, EvenCount
<1>6. commandOut' = "idle"
  BY <1>5 DEF CommandOutCompleted, usb_send_cmd_packet
<1>7. Returned'
  BY <1>2, <1>3, <1>4, <1>6 DEF Taken, Returned, OneQueued, NoReport
<1> QED
  BY <1>2, <1>3, <1>4, <1>7 DEF Alternation, BringingUp, StartPhases

\* The dongle takes the command under way.
LEMMA QuietTake ==
  ASSUME TypeInv, Alternation, environment = "quiet", DongleTakes
  PROVE  Alternation'
<1>1. UnderWay /\ transfer_completed < 2 * InitLength /\ inFlight = Size
  BY DEF DongleTakes, Alternation, BringingUp, Taken, Returned, Reported, Done
<1>2. /\ commandOut' = "taken" /\ phase = "loop" /\ queued' = Append(queued, hci_cmd_buffer)
      /\ UNCHANGED <<coming, inFlight, phase, transfer_completed>>
  BY DEF DongleTakes, start
<1>3. OneQueued'
  <2>1. queued' = <<hci_cmd_buffer>>
    BY <1>1, <1>2 DEF UnderWay
  <2> QED
    BY <1>1, <2>1 DEF UnderWay, OneQueued
<1>4. Taken'
  BY <1>1, <1>2, <1>3 DEF UnderWay, Taken, EvenCount, NoReport
<1> QED
  BY <1>1, <1>2, <1>4 DEF Alternation, BringingUp, StartPhases

\* It executes a command whose transfer has returned, and reports that.
LEMMA QuietExecute ==
  ASSUME TypeInv, Alternation, environment = "quiet", DongleExecutes
  PROVE  Alternation'
<1>1. queued \in Seq(Commands) /\ coming \in [Pools -> Seq(AclKinds)]
  BY TypeParts DEF TypeInv, DongleTyped
<1>2. Returned /\ transfer_completed < 2 * InitLength /\ inFlight = Size
  BY DEF DongleExecutes, Alternation, BringingUp, UnderWay, Taken, Reported, Done
<1>3. /\ queued' = Tail(queued) /\ phase = "loop"
      /\ UNCHANGED <<commandOut, inFlight, phase, transfer_completed>>
  BY DEF DongleExecutes, start, command
<1>4. queued # << >> /\ Head(queued) = queued[1] /\ Head(queued) \notin Replies
      /\ queued' = << >>
  <2>1. Len(queued) = 1 /\ queued[1] \notin Replies
    BY <1>2 DEF Returned, OneQueued
  <2>2. queued # << >>
    BY <2>1
  <2>3. Head(queued) = queued[1] /\ Tail(queued) \in Seq(Commands) /\ Len(Tail(queued)) = 0
    BY <1>1, <2>1, <2>2, QueueTail
  <2>4. Tail(queued) = << >>
    BY <2>3, EmptySeq
  <2> QED
    BY <1>3, <2>1, <2>2, <2>3, <2>4 DEF DongleExecutes
<1>5. Head(queued) # Accept
  BY <1>4 DEF Replies
<1>6. Report("eventIn", <<"CommandComplete">>)
  BY <1>4, <1>5 DEF DongleExecutes
<1>7. coming'["eventIn"] = <<"CommandComplete">> /\ coming'["aclIn"] = << >>
  BY <1>1, <1>2, <1>6 DEF Report, Returned, NoReport, Alternation, Pools
<1>8. Reported'
  BY <1>2, <1>3, <1>4, <1>7 DEF Reported, Returned, EvenCount
<1> QED
  BY <1>2, <1>3, <1>7, <1>8 DEF Alternation, BringingUp, StartPhases

\* Nothing else happens while the environment is quiet.
LEMMA QuietStep == TypeInv /\ QuietInv /\ [Next]_vars => QuietInv'
<1> SUFFICES ASSUME TypeInv, QuietInv, [Next]_vars, environment' = "quiet"
             PROVE  Alternation'
  BY DEF QuietInv
<1>1. environment' = environment
  <2>1. EventInCompleted \/ AclInCompleted => environment' = environment
    BY DEF EventInCompleted, AclInCompleted, PoolCompleted
  <2> QED
    BY <2>1
    DEF Next, StartUp, main, ExamineDevice, NoDevice, ClaimInterface, AllocateTransfers,
        SubmitEventIn, SubmitAclIn, Submit, SendReset, Running, Callbacks,
        CommandOutCompleted, InLost, CommandOutFails, Dongle, DongleTakes, DongleExecutes,
        RemoteConnects, AclArrives, OtherEvent, vars
<1>2. environment = "quiet" /\ Alternation
  BY <1>1 DEF QuietInv
<1>3. CASE UNCHANGED vars
  BY <1>2, <1>3
  DEF vars, start, command, controller, Alternation, Unsent, BringingUp, Done, UnderWay,
      Taken, Returned, Reported, OneQueued, NoReport, EvenCount
<1>4. ~(InLost("eventIn") \/ InLost("aclIn") \/ CommandOutFails)
  BY <1>2 DEF InLost, CommandOutFails, Fails
<1>5. ~(AclInCompleted \/ RemoteConnects \/ AclArrives \/ OtherEvent)
  BY <1>2 DEF Alternation, AclInCompleted, PoolCompleted, RemoteConnects, AclArrives,
              OtherEvent
<1> QED
  BY <1>2, <1>3, <1>4, <1>5, QuietStart, QuietAnswer, QuietReturn, QuietTake, QuietExecute
  DEF Next, Callbacks, Dongle

\* While the controller only answers, every event that completes sends the next
\* command and so is submitted again: no event-in transfer is lost before the last
\* answer, for pools of any size.
THEOREM PoolLastsThroughBringUp == Spec => []PoolKeptThroughBringUp
<1>1. QuietInv => PoolKeptThroughBringUp
  BY DEF QuietInv, Alternation, BringingUp, Done, PoolKeptThroughBringUp, InitLength
<1> QED
  BY TypeInit, TypeStep, QuietInit, QuietStep, <1>1, PTL DEF Spec
=============================================================================
