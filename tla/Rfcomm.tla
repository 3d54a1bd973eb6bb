------------------------------- MODULE Rfcomm -------------------------------
(***************************************************************************)
(* The RFCOMM server of hci_test.cpp, process_rfcomm: what it answers to   *)
(* the frames of a client that opens the data channel of the service, uses *)
(* it, closes it and opens it again.  The server keeps nothing of the      *)
(* session; its answers are made of the frame it answers and of bytes      *)
(* written into the code.  So frames are sequences of bytes here, as on    *)
(* the wire: address, control field, length, information, check sequence.  *)
(* Which L2CAP channel they travel on, and what becomes of a frame that is *)
(* read back when its transfer completes, is in L2capSignalling.           *)
(***************************************************************************)
EXTENDS Integers, SequencesExt

CONSTANTS
  ACL_IN_BUFFER_COUNT,  \* ACL-in transfers submitted once, never again
  Payloads,             \* what the client may send, sequences of bytes whose number
                        \* takes one octet, which is all the code reads of it
  MaxData,              \* data frames it may send
  OtherCommands,        \* multiplexer commands besides PN and MSC it may send
  OtherControls,        \* frames besides SABM, DISC and UIH it may send
  MaxFailures           \* submissions that fail

Bytes == 0..255
\* Control fields, and the multiplexer commands the code tells apart.
SABM == 63
UA == 115
DISC == 83
UIH == 239
UIHCredits == 255
PNCommand == 131
PNResponse == 129
MSCCommand == 227
MSCResponse == 225
\* The addresses the client uses: the multiplexer's and the data channel's.
Mux == 3
Dlc == 11

ASSUME RfcommAssumption ==
  /\ ACL_IN_BUFFER_COUNT \in Nat
  /\ Payloads \subseteq {p \in Seq(Bytes) : Len(p) <= 127}
  /\ MaxData \in Nat
  /\ MaxFailures \in Nat
  /\ OtherCommands \subseteq Bytes \ {PNCommand, MSCCommand, MSCResponse}
  /\ OtherControls \subseteq Bytes \ {SABM, DISC, UIH, UIHCredits}

VARIABLES
  up,         \* FALSE once an exception has ended the process
  aclInLeft,  \* submitted ACL-in transfers
  failures,   \* failed submissions so far
  aclIn,      \* frames of the client, not read yet
  toClient,   \* packets on their way to the client
  client,     \* the client's side of the session
  sent,       \* history: the payloads the client has sent, in order
  printed     \* what the program has printed for each

server == <<up, aclInLeft, failures, printed>>
vars == <<up, aclInLeft, failures, aclIn, toClient, client, sent, printed>>

\* msc: the client's modem status command is not sent, sent or answered.
\* theirs: the server's has not come, is to be answered, or is answered.
NoChannel(mux) ==
  [mux |-> mux, dlc |-> "closed", msc |-> "none", theirs |-> "none", credits |-> 0]
Init ==
  /\ up = TRUE /\ aclInLeft = ACL_IN_BUFFER_COUNT /\ failures = 0
  /\ aclIn = << >> /\ toClient = << >>
  /\ client = NoChannel("down")
  /\ sent = << >> /\ printed = << >>

-----------------------------------------------------------------------------
(***************************************************************************)
(* The check sequence as the code computes it, with a table.               *)
(***************************************************************************)
ng_btsocket_rfcomm_crc_table == <<
  0, 145, 227, 114, 7, 150, 228, 117, 14, 159, 237, 124, 9, 152, 234, 123,
  28, 141, 255, 110, 27, 138, 248, 105, 18, 131, 241, 96, 21, 132, 246, 103,
  56, 169, 219, 74, 63, 174, 220, 77, 54, 167, 213, 68, 49, 160, 210, 67,
  36, 181, 199, 86, 35, 178, 192, 81, 42, 187, 201, 88, 45, 188, 206, 95,
  112, 225, 147, 2, 119, 230, 148, 5, 126, 239, 157, 12, 121, 232, 154, 11,
  108, 253, 143, 30, 107, 250, 136, 25, 98, 243, 129, 16, 101, 244, 134, 23,
  72, 217, 171, 58, 79, 222, 172, 61, 70, 215, 165, 52, 65, 208, 162, 51,
  84, 197, 183, 38, 83, 194, 176, 33, 90, 203, 185, 40, 93, 204, 190, 47,
  224, 113, 3, 146, 231, 118, 4, 149, 238, 127, 13, 156, 233, 120, 10, 155,
  252, 109, 31, 142, 251, 106, 24, 137, 242, 99, 17, 128, 245, 100, 22, 135,
  216, 73, 59, 170, 223, 78, 60, 173, 214, 71, 53, 164, 209, 64, 50, 163,
  196, 85, 39, 182, 195, 82, 32, 177, 202, 91, 41, 184, 205, 92, 46, 191,
  144, 1, 115, 226, 151, 6, 116, 229, 158, 15, 125, 236, 153, 8, 122, 235,
  140, 29, 111, 254, 139, 26, 104, 249, 130, 19, 97, 240, 133, 20, 102, 247,
  168, 57, 75, 218, 175, 62, 76, 221, 166, 55, 69, 212, 161, 48, 66, 211,
  180, 37, 87, 198, 179, 34, 80, 193, 186, 43, 89, 200, 189, 44, 94, 207 >>

\* The operator ^ of the code, on bytes: the bits of each weight are added modulo 2.
BitXor(a, b, weight) == weight * ((a \div weight + b \div weight) % 2)
ByteXor(a, b) ==
  BitXor(a, b, 1) + BitXor(a, b, 2) + BitXor(a, b, 4) + BitXor(a, b, 8)
    + BitXor(a, b, 16) + BitXor(a, b, 32) + BitXor(a, b, 64) + BitXor(a, b, 128)

\* One turn of the loop over the bytes.
crc_turn(crc, byte) == ng_btsocket_rfcomm_crc_table[ByteXor(crc, byte) + 1]
\* A bug the checks must catch: the register starts at zero.
ng_btsocket_rfcomm_crc_from_zero(data) ==
  crc_turn(crc_turn(crc_turn(0, data[1]), data[2]), data[3])
\* The only call is for three bytes.
ng_btsocket_rfcomm_crc(data) ==
  crc_turn(crc_turn(crc_turn(255, data[1]), data[2]), data[3])
ng_btsocket_rfcomm_fcs3(data) == 255 - ng_btsocket_rfcomm_crc(data)

(***************************************************************************)
(* The check sequence as the client computes it: the remainder by          *)
(* x^8 + x^2 + x + 1, bit by bit, over two bytes for UIH frames and three  *)
(* for others.                                                             *)
(***************************************************************************)
Shift(crc) == IF crc % 2 = 1 THEN ByteXor(crc \div 2, 224) ELSE crc \div 2
Twice(crc) == Shift(Shift(crc))
Remainder == [byte \in Bytes |-> Twice(Twice(Twice(Twice(byte))))]
Register(crc, byte) == Remainder[ByteXor(crc, byte)]
CheckSequence(f) ==
  LET header == Register(Register(255, f[1]), f[2])
  IN 255 - IF f[2] \in {UIH, UIHCredits} THEN header ELSE Register(header, f[3])

\* A frame the client makes of address, control field, credits and information.
FrameOf(address, control, credits, information) ==
  LET f == <<address, control, 2 * Len(information) + 1>> \o credits \o information
  IN Append(f, CheckSequence(f))

\* What a client reads in a packet, and discards otherwise: the lengths of the three
\* layers agree with the bytes that are there, and the check sequence is right.
Information(f) == SubSeq(f, IF f[2] = UIHCredits THEN 5 ELSE 4, Len(f) - 1)
Readable(p) ==
  /\ p.total = p.length + 4
  /\ p.length = Len(p.frame)
  /\ p.frame[3] = 2 * Len(Information(p.frame)) + 1
  /\ p.frame[Len(p.frame)] = CheckSequence(p.frame)

-----------------------------------------------------------------------------
(***************************************************************************)
(* process_rfcomm.  A packet is the total length of the ACL data, the      *)
(* length of the L2CAP packet and the frame; the two lengths are written   *)
(* into the code.  Every packet is submitted once and the result ignored.  *)
(***************************************************************************)
Packet(total, length, frame) == [total |-> total, length |-> length, frame |-> frame]
\* A submission hands the packet on or loses it.
usb_send_acl_packet(p) == {<<p>>, << >>}
\* Of n packets these have been handed on, in their order.
Submitted(n, passed) ==
  /\ toClient' = toClient \o passed
  /\ failures' = failures + n - Len(passed) /\ failures' <= MaxFailures

Acknowledgement(address) ==
  LET ddd == <<address, UA, 1>>
  IN Packet(8, 4, ddd \o <<ng_btsocket_rfcomm_fcs3(ddd)>>)
ModemStatusCommand == Packet(12, 8, <<3, UIH, 9, MSCCommand, 5, 11, 141, 112>>)
Credits == Packet(9, 5, <<9, UIHCredits, 1, 10, 92>>)
DisconnectAcknowledgement == Packet(8, 4, <<11, UA, 1, 146>>)
Parameters == <<17, 2, 224, 0, 0, 222, 3, 0, 0>>
ParameterResponse == Packet(18, 14, <<1, UIH, 21, PNResponse>> \o Parameters \o <<170>>)
ModemStatusResponse == Packet(12, 8, <<1, UIH, 9, MSCResponse, 5, 11, 141, 170>>)

\* A bug the checks must catch: the modem status goes out before the channel is open.
SetModeStatusFirst(f) ==
  /\ \E a \in usb_send_acl_packet(Acknowledgement(f[1])) :
       IF f[1] # Dlc THEN Submitted(1, a)
       ELSE \E m \in usb_send_acl_packet(ModemStatusCommand),
               c \in usb_send_acl_packet(Credits) : Submitted(3, m \o c \o a)
  /\ UNCHANGED <<up, printed>>
\* A bug the checks must catch: no credits for the data channel.
SetModeNoCredits(f) ==
  /\ \E a \in usb_send_acl_packet(Acknowledgement(f[1])) :
       IF f[1] # Dlc THEN Submitted(1, a)
       ELSE \E m \in usb_send_acl_packet(ModemStatusCommand) : Submitted(2, a \o m)
  /\ UNCHANGED <<up, printed>>
\* A bug the checks must catch: the credits are granted twice.
SetModeCreditsTwice(f) ==
  /\ \E a \in usb_send_acl_packet(Acknowledgement(f[1])) :
       IF f[1] # Dlc THEN Submitted(1, a)
       ELSE \E m \in usb_send_acl_packet(ModemStatusCommand),
               c \in usb_send_acl_packet(Credits) : Submitted(4, a \o m \o c \o <<Credits>>)
  /\ UNCHANGED <<up, printed>>
\* SABM.  The data channel's is also what makes the server speak first.
SetMode(f) ==
  /\ \E a \in usb_send_acl_packet(Acknowledgement(f[1])) :
       IF f[1] # Dlc THEN Submitted(1, a)
       ELSE \E m \in usb_send_acl_packet(ModemStatusCommand),
               c \in usb_send_acl_packet(Credits) : Submitted(3, a \o m \o c)
  /\ UNCHANGED <<up, printed>>

Answer(p) ==
  /\ \E a \in usb_send_acl_packet(p) : Submitted(1, a)
  /\ UNCHANGED <<up, printed>>
Disconnect == Answer(DisconnectAcknowledgement)

SendNothing == UNCHANGED <<failures, toClient>>
\* throw 1, which nothing catches.
Throw == up' = FALSE /\ SendNothing /\ UNCHANGED printed
\* A bug the checks must catch: the client's answer is taken for a command.
MultiplexerAnswered(command) ==
  \/ command = PNCommand /\ Answer(ParameterResponse)
  \/ command \in {MSCCommand, MSCResponse} /\ Answer(ModemStatusResponse)
MultiplexerCommand(command) ==
  \/ command = PNCommand /\ Answer(ParameterResponse)
  \/ command = MSCCommand /\ Answer(ModemStatusResponse)
  \/ command = MSCResponse /\ SendNothing /\ UNCHANGED <<up, printed>>
  \/ command \notin {PNCommand, MSCCommand, MSCResponse} /\ Throw

\* The program prints payload_length - 6 bytes from position first of the frame on,
\* where payload_length is the octet 2 * n + 1 as it is.  Behind the frame the buffer
\* of the transfer holds what it was allocated with.
PrintPayload(f, first) ==
  /\ printed' = Append(printed,
       [k \in 1..(f[3] - 6) |-> IF first + k - 1 <= Len(f) THEN f[first + k - 1] ELSE 0])
  /\ SendNothing /\ UNCHANGED up
\* A bug the checks must catch: the byte with the credits is not skipped.
CreditedDataWhole(f) == PrintPayload(f, 4)
CreditedData(f) == PrintPayload(f, 5)

process_rfcomm(f) ==
  \/ f[2] = UIHCredits /\ CreditedData(f)
  \/ f[2] = DISC /\ Disconnect
  \/ f[2] = UIH /\ f[1] = Mux /\ MultiplexerCommand(f[4])
  \/ f[2] = UIH /\ f[1] # Mux /\ PrintPayload(f, 4)
  \/ f[2] = SABM /\ SetMode(f)
  \/ f[2] \notin {UIHCredits, DISC, UIH, SABM} /\ Throw

AclInCompleted ==
  /\ up /\ aclInLeft > 0 /\ aclIn # << >>
  /\ process_rfcomm(Head(aclIn))
  /\ aclIn' = Tail(aclIn)
  /\ aclInLeft' = aclInLeft - 1
  /\ UNCHANGED <<client, sent>>

-----------------------------------------------------------------------------
(***************************************************************************)
(* The client (external), as README.md and the code's comments show it.    *)
(* It opens the multiplexer, negotiates the channel, opens it, exchanges   *)
(* modem status both ways and then has the credits to send data.           *)
(***************************************************************************)
Sends(f) ==
  /\ Len(aclIn) < aclInLeft
  /\ aclIn' = Append(aclIn, f)
  /\ UNCHANGED <<server, toClient>>

OpenMultiplexer ==
  /\ client.mux = "down"
  /\ Sends(FrameOf(Mux, SABM, << >>, << >>))
  /\ client' = [client EXCEPT !.mux = "opening"] /\ UNCHANGED sent
Negotiate ==
  /\ client.mux = "up" /\ client.dlc = "closed"
  /\ Sends(FrameOf(Mux, UIH, << >>, <<PNCommand, 17, 2, 240, 7, 0, 222, 3, 0, 7>>))
  /\ client' = [client EXCEPT !.dlc = "negotiating"] /\ UNCHANGED sent
OpenChannel ==
  /\ client.dlc = "negotiated"
  /\ Sends(FrameOf(Dlc, SABM, << >>, << >>))
  /\ client' = [client EXCEPT !.dlc = "opening"] /\ UNCHANGED sent
SendModemStatus ==
  /\ client.dlc = "open" /\ client.msc = "none"
  /\ Sends(FrameOf(Mux, UIH, << >>, <<MSCCommand, 5, 11, 141>>))
  /\ client' = [client EXCEPT !.msc = "sent"] /\ UNCHANGED sent
AnswerModemStatus ==
  /\ client.theirs = "seen"
  /\ Sends(FrameOf(Mux, UIH, << >>, <<MSCResponse, 5, 11, 141>>))
  /\ client' = [client EXCEPT !.theirs = "answered"] /\ UNCHANGED sent

Connected == client.dlc = "open" /\ client.msc = "answered" /\ client.theirs = "answered"
SendData ==
  /\ Connected /\ client.credits > 0 /\ Len(sent) < MaxData
  /\ \E payload \in Payloads :
       /\ \/ Sends(FrameOf(Dlc, UIHCredits, <<3>>, payload))
          \/ Sends(FrameOf(Dlc, UIH, << >>, payload))
       /\ sent' = Append(sent, payload)
  /\ client' = [client EXCEPT !.credits = @ - 1]
CloseChannel ==
  /\ client.dlc = "open"
  /\ Sends(FrameOf(Dlc, DISC, << >>, << >>))
  /\ client' = [client EXCEPT !.dlc = "closing"] /\ UNCHANGED sent
SendOther ==
  /\ client.mux = "up" /\ Connected
  /\ \/ \E command \in OtherCommands : Sends(FrameOf(Mux, UIH, << >>, <<command, 1>>))
     \/ \E control \in OtherControls : Sends(FrameOf(Mux, control, << >>, << >>))
  /\ client' = [client EXCEPT !.mux = "asking"] /\ UNCHANGED sent

\* What a packet does to the client; frames it does not expect do nothing.
Received(f) ==
  LET command == f[4] IN
  CASE f[2] = UA /\ f[1] = Mux /\ client.mux = "opening" -> [client EXCEPT !.mux = "up"]
    [] f[2] = UA /\ f[1] = Dlc /\ client.dlc = "opening" -> [client EXCEPT !.dlc = "open"]
    [] f[2] = UA /\ f[1] = Dlc /\ client.dlc = "closing" -> NoChannel(client.mux)
    [] f[2] = UIH /\ command = PNResponse /\ client.dlc = "negotiating" ->
         [client EXCEPT !.dlc = "negotiated"]
    [] f[2] = UIH /\ command = MSCResponse /\ client.msc = "sent" ->
         [client EXCEPT !.msc = "answered"]
    [] f[2] = UIH /\ command = MSCCommand /\ client.dlc \in {"open", "closing"} ->
         [client EXCEPT !.theirs = "seen"]
    [] f[2] = UIHCredits /\ client.dlc \in {"open", "closing"} ->
         [client EXCEPT !.credits = @ + f[4]]
    [] OTHER -> client
ClientReceives ==
  /\ toClient # << >>
  /\ toClient' = Tail(toClient)
  /\ client' = IF Readable(Head(toClient)) THEN Received(Head(toClient).frame) ELSE client
  /\ UNCHANGED <<server, aclIn, sent>>

Opening == Negotiate \/ OpenChannel \/ SendModemStatus \/ AnswerModemStatus
Client == OpenMultiplexer \/ Opening \/ SendData \/ CloseChannel \/ SendOther \/ ClientReceives
Next == AclInCompleted \/ Client

(***************************************************************************)
(* The event loop handles what has completed, packets are delivered, and   *)
(* the client goes on with what it has begun.  When the client begins,     *)
(* what it sends and when it closes the channel is up to its user.         *)
(***************************************************************************)
Spec ==
  /\ Init /\ [][Next]_vars
  /\ WF_vars(AclInCompleted) /\ WF_vars(ClientReceives)
  /\ WF_vars(OpenChannel) /\ WF_vars(SendModemStatus) /\ WF_vars(AnswerModemStatus)

-----------------------------------------------------------------------------
\* Types: what the client counts never exceeds the ten credits of one session.
TypeOK ==
  /\ up \in BOOLEAN
  /\ aclInLeft \in 0..ACL_IN_BUFFER_COUNT
  /\ failures \in 0..MaxFailures
  /\ aclIn \in Seq(Seq(Bytes))
  /\ toClient \in Seq([total : Bytes, length : Bytes, frame : Seq(Bytes)])
  /\ client \in [mux : {"down", "opening", "up", "asking"},
                 dlc : {"closed", "negotiating", "negotiated", "opening", "open", "closing"},
                 msc : {"none", "sent", "answered"}, theirs : {"none", "seen", "answered"},
                 credits : 0..10]
  /\ sent \in Seq(Payloads)
  /\ printed \in Seq(Seq(Bytes))

\* Every packet the server sends can be read: the lengths and check sequences, most of
\* them written by hand into the code, are right for the bytes they go with.
EveryFrameReadable == \A k \in DOMAIN toClient : Readable(toClient[k])

\* The answers on their way that only an open request explains.
Acknowledgements(address) ==
  {k \in DOMAIN toClient : toClient[k].frame[2] = UA /\ toClient[k].frame[1] = address}
MultiplexerFrames(command) ==
  {k \in DOMAIN toClient : toClient[k].frame[2] = UIH /\ toClient[k].frame[4] = command}
OneIf(waiting) == IF waiting THEN 1 ELSE 0
\* An acknowledgement, a negotiated parameter or a modem status answer on its way
\* belongs to the one request of the client that waits for it, although the server
\* keeps no session and writes most of its answers without a look at the request.
AnswersBelong ==
  /\ Cardinality(Acknowledgements(Mux)) <= OneIf(client.mux = "opening")
  /\ Cardinality(Acknowledgements(Dlc)) <= OneIf(client.dlc \in {"opening", "closing"})
  /\ Cardinality(MultiplexerFrames(PNResponse)) <= OneIf(client.dlc = "negotiating")
  /\ Cardinality(MultiplexerFrames(MSCResponse)) <= OneIf(client.msc = "sent")

\* The server speaks first, but only behind the acknowledgement that opens the channel:
\* a modem status command or credits on their way meet a client that has the channel
\* open or an acknowledgement before them, unless a submission has failed.
SpeaksOnOpenChannel ==
  failures = 0 =>
    \A k \in DOMAIN toClient :
      LET f == toClient[k].frame
      IN f[2] = UIHCredits \/ (f[2] = UIH /\ f[4] = MSCCommand) =>
           \/ client.dlc \in {"open", "closing"}
           \/ /\ client.dlc = "opening"
              /\ \E j \in 1..(k - 1) : toClient[j].frame[2] = UA

\* What is printed for a data frame is what the client sent in it, in the order of
\* sending: no header byte, nothing of another frame.  The code prints all of a payload of
\* five bytes, the length its author recorded; of a shorter one it prints less, behind a
\* longer one more.
DataPrinted ==
  /\ Len(printed) <= Len(sent)
  /\ \A k \in DOMAIN printed :
       /\ IsPrefix(printed[k], sent[k]) \/ IsPrefix(sent[k], printed[k])
       /\ Len(sent[k]) = 5 => printed[k] = sent[k]

\* A channel that is being negotiated ends up connected, with modem status exchanged both
\* ways and credits to send, unless the client closes it, a submission fails, the
\* process ends, or no transfer is left to receive with.
Over == client.dlc = "closing" \/ ~up \/ failures > 0 \/ Len(aclIn) >= aclInLeft
SessionEstablished == client.dlc = "negotiating" ~> (Connected /\ client.credits > 0) \/ Over
=============================================================================
