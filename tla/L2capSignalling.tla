-------------------------- MODULE L2capSignalling --------------------------
(***************************************************************************)
(* The L2CAP layer of hci_test.cpp: channel set-up, configuration and      *)
(* tear-down on the signalling channel (process_control), dispatch of the  *)
(* other channels (async_acl_callback, process_sdp, process_rfcomm), and   *)
(* the half of the configuration handshake that the code defers to the     *)
(* next event completion (the tail of async_callback).                     *)
(*                                                                         *)
(* One client (the peer) talks to the server over one ACL link.  The       *)
(* program is single threaded: libusb_handle_events runs one completion    *)
(* callback at a time to its end, so each completion is one action.  What  *)
(* interleaves are the completions of four kinds of transfer: ACL in, ACL  *)
(* out, HCI event in and command out.                                      *)
(***************************************************************************)
EXTENDS Integers, Sequences, FiniteSets

CONSTANTS
  PeerCids,               \* channel ids the client may use on its own side
  ACL_IN_BUFFER_COUNT,    \* ACL-in transfers submitted once, never again
  EVENT_IN_BUFFER_COUNT,  \* event-in transfers submitted once, never again
  MaxOpen,                \* channels the client has open at one time
  Services,               \* PSMs the client connects to
  InfoTypes,              \* information types the client asks for
  Readings,               \* what a completed outgoing buffer can read as
  PeerGivesUp,            \* the client may disconnect an unfinished channel
  MaxFailures,            \* transfers that fail in one run
  Spontaneous             \* the controller also sends unrelated events

\* Fields of one and of two bytes.
Bytes == 0..255
Words == 0..65535

ASSUME ConstantsAssumption ==
  /\ PeerCids \subseteq Words \ {0}
  /\ ACL_IN_BUFFER_COUNT \in Nat /\ ACL_IN_BUFFER_COUNT <= 190   \* 150 in the code
  /\ EVENT_IN_BUFFER_COUNT \in Nat                               \* 150 in the code
  /\ MaxOpen \in Nat
  /\ Services \subseteq Words \ {0}
  /\ InfoTypes \subseteq Bytes
  /\ Readings \subseteq {"own", "fill", "other"}
  /\ PeerGivesUp \in BOOLEAN /\ Spontaneous \in BOOLEAN
  /\ MaxFailures \in Nat

SDP == 1
RFCOMM == 3
CidBase == 64       \* 0x40, the offset of the ids the server hands out
\* A bug the checks must catch: the fill read as a signed char.
SignedFillByte == -52
FillByte == 204     \* 0xCC, the debug runtime's fill of a fresh stack frame

(***************************************************************************)
(* Packets.  id is the command identifier (or the SDP transaction), cid    *)
(* the channel id the receiver matches on and arg the remaining field: the *)
(* PSM of a connection request, the id granted by a connection response,   *)
(* the information type.  On the wire a channel id has two bytes.          *)
(***************************************************************************)
ControlCodes == {"CmdReject", "ConnReq", "ConnRsp", "ConfReq", "ConfRsp",
                 "DisconnReq", "DisconnRsp", "InfoReq", "InfoRsp", "Fill"}
DataCodes == {"SdpReq", "SdpRsp", "RfcommCmd", "RfcommReply", "RfcommData"}
Codes == ControlCodes \cup DataCodes

Packet == [code : Codes, id : Bytes, cid : Words, arg : Words]
Msg(code, id, cid, arg) == [code |-> code, id |-> id, cid |-> cid, arg |-> arg]

\* The response each request is to be answered with.
ReplyTo == [ConnReq |-> "ConnRsp", ConfReq |-> "ConfRsp", DisconnReq |-> "DisconnRsp",
            InfoReq |-> "InfoRsp", SdpReq |-> "SdpRsp", RfcommCmd |-> "RfcommReply"]
Requests == DOMAIN ReplyTo
Replies == {ReplyTo[q] : q \in Requests}

ChannelPair == [source_cid : Words, destination_cid : Words, psm : Words]

PeerStates == {"closed", "connecting", "config", "open", "closing"}
PeerChannel == [st : PeerStates, psm : {0} \cup Services, dcid : Words, wait : Bytes,
                in : BOOLEAN, out : BOOLEAN]
Closed == [st |-> "closed", psm |-> 0, dcid |-> 0, wait |-> 0, in |-> FALSE, out |-> FALSE]

VARIABLES
  \* the program's globals
  next_destination_channel_id, channel_map, authentication_request,
  mtu_config_request_received, mtu_config_request_command_identifier,
  mtu_config_request_sent, l2cap_source_cid, l2cap_command_identifier,
  up,          \* FALSE once an exception has ended the process
  \* transfers
  aclInLeft,   \* submitted ACL-in transfers
  eventInLeft, \* submitted event-in transfers
  commandOut,  \* command_out_transfer is in flight
  flying,      \* outgoing ACL transfers whose completion is still to come
  failures,    \* failed transfers so far
  \* controller and client
  aclIn,       \* packets from the client, not read yet
  events,      \* events of the controller, not read yet
  toPeer,      \* packets on their way to the client
  peer,        \* the client's side of each channel
  peerSent,    \* requests the client has sent, the source of its identifiers
  \* history
  asked,       \* responses the client's requests call for
  answers      \* responses the server has sent, in order

config == <<mtu_config_request_received, mtu_config_request_command_identifier,
            mtu_config_request_sent>>
channels == <<next_destination_channel_id, channel_map>>
l2cap == <<l2cap_source_cid, l2cap_command_identifier>>
outgoing == <<flying, toPeer, failures, answers>>
client == <<peer, peerSent, asked>>
vars == <<config, channels, l2cap, outgoing, client, authentication_request, up,
          aclInLeft, eventInLeft, commandOut, aclIn, events>>

Init ==
  /\ next_destination_channel_id = 0
  /\ channel_map = << >>
  /\ authentication_request = FALSE
  /\ mtu_config_request_received = FALSE
  /\ mtu_config_request_command_identifier = 0
  /\ mtu_config_request_sent = FALSE
  /\ l2cap_source_cid = 0
  /\ l2cap_command_identifier = 0
  /\ up = TRUE
  /\ aclInLeft = ACL_IN_BUFFER_COUNT
  /\ eventInLeft = EVENT_IN_BUFFER_COUNT
  /\ commandOut = FALSE
  /\ flying = << >> /\ failures = 0
  /\ aclIn = << >> /\ events = 0 /\ toPeer = << >>
  /\ peer = [c \in PeerCids |-> Closed]
  /\ peerSent = 0
  /\ asked = {} /\ answers = << >>

-----------------------------------------------------------------------------
(***************************************************************************)
(* usb_send_acl_packet: every packet gets a transfer of its own, so the    *)
(* submission does not meet a busy transfer; it can still fail, and then   *)
(* the packet is gone.  rest is what is flying besides this packet.        *)
(***************************************************************************)
Submitted(p, rest) ==
  /\ flying' = Append(rest, p)
  /\ toPeer' = Append(toPeer, p)
  /\ answers' = IF p.code \in Replies
                THEN Append(answers, Msg(p.code, p.id, p.cid, 0)) ELSE answers
  /\ UNCHANGED failures

SubmitFails(rest) ==
  /\ failures < MaxFailures
  /\ failures' = failures + 1
  /\ flying' = rest
  /\ UNCHANGED <<toPeer, answers>>

SendNothing(rest) == flying' = rest /\ UNCHANGED <<toPeer, failures, answers>>

\* The handlers ignore the result of the submission.
usb_send_acl_packet(p, rest) == Submitted(p, rest) \/ SubmitFails(rest)

-----------------------------------------------------------------------------
(* process_control: one operator per case of the command code.             *)

\* Three bugs the checks must catch: the counter stays, it stays and the pair is
\* overwritten (operator[] for insert), the global source cid is not refreshed.
ConnectionRequestSameCid(p, rest) ==
  /\ p.code = "ConnReq"
  /\ l2cap_source_cid' = p.cid
  /\ LET cid == CidBase + next_destination_channel_id
     IN /\ channel_map' =
             [d \in DOMAIN channel_map \cup {cid} |->
                IF d \in DOMAIN channel_map THEN channel_map[d]
                ELSE [source_cid |-> p.cid, destination_cid |-> cid, psm |-> p.arg]]
        /\ usb_send_acl_packet(Msg("ConnRsp", p.id, p.cid, cid % 256), rest)
  /\ UNCHANGED <<next_destination_channel_id, config, authentication_request, commandOut,
                 events>>

ConnectionRequestOverwrites(p, rest) ==
  /\ p.code = "ConnReq"
  /\ l2cap_source_cid' = p.cid
  /\ LET cid == CidBase + next_destination_channel_id
         pair == [source_cid |-> p.cid, destination_cid |-> cid, psm |-> p.arg]
     IN /\ channel_map' = [d \in DOMAIN channel_map \cup {cid} |->
                            IF d = cid THEN pair ELSE channel_map[d]]
        /\ usb_send_acl_packet(Msg("ConnRsp", p.id, p.cid, cid % 256), rest)
  /\ UNCHANGED <<next_destination_channel_id, config, authentication_request, commandOut,
                 events>>

ConnectionRequestOldSource(p, rest) ==
  /\ p.code = "ConnReq"
  /\ next_destination_channel_id' = (next_destination_channel_id + 1) % 65536
  /\ LET cid == CidBase + next_destination_channel_id'
     IN /\ channel_map' =
             [d \in DOMAIN channel_map \cup {cid} |->
                IF d \in DOMAIN channel_map THEN channel_map[d]
                ELSE [source_cid |-> p.cid, destination_cid |-> cid, psm |-> p.arg]]
        /\ usb_send_acl_packet(Msg("ConnRsp", p.id, p.cid, cid % 256), rest)
  /\ UNCHANGED <<l2cap_source_cid, config, authentication_request, commandOut, events>>

\* 0x02: a new id is handed out, the pair is inserted (std::map::insert keeps
\* an older entry) and the response carries only the low byte of the id.
ConnectionRequest(p, rest) ==
  /\ p.code = "ConnReq"
  /\ l2cap_source_cid' = p.cid
  /\ next_destination_channel_id' = (next_destination_channel_id + 1) % 65536
  /\ LET cid == (CidBase + next_destination_channel_id') % 65536
     IN /\ channel_map' =
             [d \in DOMAIN channel_map \cup {cid} |->
                IF d \in DOMAIN channel_map THEN channel_map[d]
                ELSE [source_cid |-> p.cid, destination_cid |-> cid, psm |-> p.arg]]
        /\ usb_send_acl_packet(Msg("ConnRsp", p.id, p.cid, cid % 256), rest)
  /\ UNCHANGED <<config, authentication_request, commandOut, events>>

\* A bug the checks must catch: the response is sent at once.
ConfigureRequestAnswered(p, rest) ==
  /\ p.code = "ConfReq"
  /\ mtu_config_request_received' = TRUE
  /\ mtu_config_request_command_identifier' = p.id
  /\ usb_send_acl_packet(Msg("ConfRsp", p.id, l2cap_source_cid, 0), rest)
  /\ UNCHANGED <<mtu_config_request_sent, channels, l2cap_source_cid,
                 authentication_request, commandOut, events>>

\* 0x04: remembered for async_callback; nothing is sent from here.
ConfigureRequest(p, rest) ==
  /\ p.code = "ConfReq"
  /\ mtu_config_request_received' = TRUE
  /\ mtu_config_request_command_identifier' = p.id
  /\ SendNothing(rest)
  /\ UNCHANGED <<mtu_config_request_sent, channels, l2cap_source_cid,
                 authentication_request, commandOut, events>>

\* 0x06: the ids are echoed; channel_map keeps its entry.
DisconnectRequest(p, rest) ==
  /\ p.code = "DisconnReq"
  /\ authentication_request' = FALSE
  /\ l2cap_source_cid' = p.cid
  /\ usb_send_acl_packet(Msg("DisconnRsp", p.id, p.cid, p.arg), rest)
  /\ UNCHANGED <<config, channels, commandOut, events>>

\* 0x0A: extended features (2) and fixed channels (3) are answered.
InformationRequest(p, rest) ==
  /\ p.code = "InfoReq"
  /\ \/ p.arg \in {2, 3} /\ usb_send_acl_packet(Msg("InfoRsp", p.id, p.cid, p.arg), rest)
     \/ p.arg \notin {2, 3} /\ SendNothing(rest)
  /\ UNCHANGED <<config, channels, l2cap_source_cid, authentication_request,
                 commandOut, events>>

\* 0xCC: an HCI command is sent once; the controller answers it with an event.
\* A command that meets the busy command transfer is lost.
AuthenticationRequest(p, rest) ==
  /\ p.code = "Fill"
  /\ \/ /\ ~authentication_request
        /\ authentication_request' = TRUE
        /\ commandOut' = TRUE
        /\ events' = IF commandOut THEN events ELSE events + 1
     \/ authentication_request /\ UNCHANGED <<authentication_request, commandOut, events>>
  /\ SendNothing(rest)
  /\ UNCHANGED <<config, channels, l2cap_source_cid>>

\* 0x01, 0x0B and the default case only print.
OtherCommand(p, rest) ==
  /\ p.code \in {"CmdReject", "ConnRsp", "ConfRsp", "DisconnRsp", "InfoRsp"}
  /\ SendNothing(rest)
  /\ UNCHANGED <<config, channels, l2cap_source_cid, authentication_request,
                 commandOut, events>>

process_control(p, rest) ==
  /\ p.code \in ControlCodes
  /\ l2cap_command_identifier' = p.id
  /\ \/ ConnectionRequest(p, rest) \/ ConfigureRequest(p, rest)
     \/ DisconnectRequest(p, rest) \/ InformationRequest(p, rest)
     \/ AuthenticationRequest(p, rest) \/ OtherCommand(p, rest)
  /\ UNCHANGED up

-----------------------------------------------------------------------------
(* The other channels.                                                     *)

UnchangedByData == UNCHANGED <<config, channels, l2cap, authentication_request,
                               commandOut, events>>

\* A service search request is answered on the last source cid any request
\* left in the global, not on the one of the channel it came over.
process_sdp(p, rest) ==
  /\ \/ /\ p.code = "SdpReq"
        /\ usb_send_acl_packet(Msg("SdpRsp", p.id, l2cap_source_cid, 0), rest)
     \/ p.code # "SdpReq" /\ SendNothing(rest)
  /\ UNCHANGED up

\* RFCOMM replies go to the source cid of the channel; a frame that is not
\* RFCOMM falls through to "throw 1", and so does the echo of some replies.
process_rfcomm(p, cpair, rest) ==
  \/ /\ p.code = "RfcommCmd"
     /\ usb_send_acl_packet(Msg("RfcommReply", p.id, cpair.source_cid, 0), rest)
     /\ UNCHANGED up
  \/ p.code \in {"RfcommData", "RfcommReply"} /\ SendNothing(rest) /\ UNCHANGED up
  \/ /\ p.code \notin {"RfcommCmd", "RfcommData"}
     /\ up' = FALSE /\ SendNothing(rest)

DataPacket(p, rest) ==
  /\ p.code \in DataCodes
  /\ \/ /\ p.cid \notin DOMAIN channel_map
        /\ SendNothing(rest) /\ UNCHANGED up
     \/ /\ p.cid \in DOMAIN channel_map
        /\ LET cpair == channel_map[p.cid]
           IN \/ cpair.psm = SDP /\ process_sdp(p, rest)
              \/ cpair.psm = RFCOMM /\ process_rfcomm(p, cpair, rest)
              \/ cpair.psm \notin {SDP, RFCOMM} /\ SendNothing(rest) /\ UNCHANGED up
  /\ UnchangedByData

\* The parser behind both kinds of ACL completion.
async_acl_callback(p, rest) == process_control(p, rest) \/ DataPacket(p, rest)

AclInCompleted ==
  /\ up /\ aclInLeft > 0 /\ aclIn # << >>
  /\ aclInLeft' = aclInLeft - 1
  /\ aclIn' = Tail(aclIn)
  /\ async_acl_callback(Head(aclIn), flying)
  /\ UNCHANGED <<eventInLeft, client>>

\* The callback looks neither at the status nor at the length: a transfer that
\* fails is parsed too, as the zeros of its unused buffer (channel id 0).
AclInFailed ==
  /\ up /\ aclInLeft > 0 /\ failures < MaxFailures
  /\ aclInLeft' = aclInLeft - 1
  /\ failures' = failures + 1
  /\ UNCHANGED <<flying, toPeer, answers, aclIn, eventInLeft, client, up>>
  /\ UnchangedByData

\* An outgoing packet completes into the same callback, which parses the
\* sender's stack buffer after the sender has returned: it still holds the
\* packet, or the fill of the new frame behind the header, or other bytes.
AclOutCompleted ==
  /\ up /\ flying # << >>
  /\ \E r \in Readings :
       \/ r = "own" /\ async_acl_callback(Head(flying), Tail(flying))
       \/ r = "fill" /\ async_acl_callback(Msg("Fill", FillByte, 0, 0), Tail(flying))
       \/ /\ r = "other" /\ SendNothing(Tail(flying)) /\ UnchangedByData
          /\ UNCHANGED up
  /\ UNCHANGED <<aclInLeft, aclIn, eventInLeft, client>>

-----------------------------------------------------------------------------
(***************************************************************************)
(* The tail of async_callback, run by every event and every command that   *)
(* completes: first the server's own configure request, and one completion *)
(* later the response to the client's.                                     *)
(***************************************************************************)
\* A bug the checks must catch: the request sent is not remembered.
SendConfigureRequestForgotten ==
  /\ mtu_config_request_received
  /\ Submitted(Msg("ConfReq", (l2cap_command_identifier + 1) % 256, l2cap_source_cid, 0),
               flying)
  /\ mtu_config_request_received' = FALSE
  /\ UNCHANGED <<up, mtu_config_request_sent, mtu_config_request_command_identifier>>

SendConfigureRequest ==
  /\ mtu_config_request_received
  /\ \/ /\ Submitted(Msg("ConfReq", (l2cap_command_identifier + 1) % 256,
                         l2cap_source_cid, 0), flying)
        /\ mtu_config_request_sent' = TRUE
        /\ mtu_config_request_received' = FALSE
        /\ UNCHANGED up
     \/ /\ SubmitFails(flying)
        /\ up' = FALSE
        /\ UNCHANGED <<mtu_config_request_sent, mtu_config_request_received>>
  /\ UNCHANGED mtu_config_request_command_identifier

SendConfigureResponse ==
  /\ ~mtu_config_request_received /\ mtu_config_request_sent
  /\ mtu_config_request_sent' = FALSE
  /\ \/ /\ Submitted(Msg("ConfRsp", mtu_config_request_command_identifier,
                         l2cap_source_cid, 0), flying)
        /\ mtu_config_request_command_identifier' = 0
        /\ UNCHANGED up
     \/ /\ SubmitFails(flying)
        /\ up' = FALSE
        /\ UNCHANGED mtu_config_request_command_identifier
  /\ UNCHANGED mtu_config_request_received

NothingDeferred ==
  /\ ~mtu_config_request_received /\ ~mtu_config_request_sent
  /\ SendNothing(flying)
  /\ UNCHANGED <<config, up>>

async_callback ==
  /\ SendConfigureRequest \/ SendConfigureResponse \/ NothingDeferred
  /\ UNCHANGED <<channels, l2cap, client, authentication_request, aclInLeft, aclIn>>

EventInCompleted ==
  /\ up /\ eventInLeft > 0 /\ events > 0
  /\ eventInLeft' = eventInLeft - 1
  /\ events' = events - 1
  /\ async_callback
  /\ UNCHANGED commandOut

CommandOutCompleted ==
  /\ up /\ commandOut
  /\ commandOut' = FALSE
  /\ async_callback
  /\ UNCHANGED <<eventInLeft, events>>

Program ==
  \/ AclInCompleted \/ AclInFailed \/ AclOutCompleted
  \/ EventInCompleted \/ CommandOutCompleted

-----------------------------------------------------------------------------
(***************************************************************************)
(* The client and the controller.  The client follows the steps of the     *)
(* README: connect, configure, request, disconnect, one request at a time  *)
(* on a channel.  Its packets beyond the last ACL-in transfer are never    *)
(* read, so it sends none of those.                                        *)
(***************************************************************************)
server == <<config, channels, l2cap, authentication_request, up, aclInLeft, eventInLeft,
            commandOut, flying, failures, answers>>

Ident(n) == 1 + (n % 255)

\* Request code of channel c is put on the air; upd is the channel after it.
PeerSends(c, code, cid, arg, upd) ==
  LET id == Ident(peerSent)
  IN /\ Len(aclIn) < aclInLeft
     /\ peerSent' = peerSent + 1
     /\ aclIn' = Append(aclIn, Msg(code, id, cid, arg))
     /\ asked' = IF code \in Requests THEN asked \cup {Msg(ReplyTo[code], id, c, 0)}
                 ELSE asked
     /\ peer' = [peer EXCEPT ![c] = [upd EXCEPT !.wait = IF code \in Requests THEN id ELSE 0]]
     /\ UNCHANGED <<server, events, toPeer>>

PeerConnect(c, psm) ==
  /\ peer[c].st = "closed"
  /\ Cardinality({d \in PeerCids : peer[d].st # "closed"}) < MaxOpen
  /\ PeerSends(c, "ConnReq", c, psm, [Closed EXCEPT !.st = "connecting", !.psm = psm])

PeerConfigure(c) ==
  /\ peer[c].st = "config" /\ peer[c].wait = 0 /\ ~peer[c].out
  /\ PeerSends(c, "ConfReq", peer[c].dcid, 0, peer[c])

PeerRequest(c) ==
  /\ peer[c].st = "open" /\ peer[c].wait = 0
  /\ \/ peer[c].psm = SDP /\ PeerSends(c, "SdpReq", peer[c].dcid, 0, peer[c])
     \/ peer[c].psm = RFCOMM /\ PeerSends(c, "RfcommCmd", peer[c].dcid, 0, peer[c])
     \/ peer[c].psm # SDP /\ PeerSends(c, "RfcommData", peer[c].dcid, 0, peer[c])

PeerDisconnect(c) ==
  /\ \/ peer[c].st = "open" /\ peer[c].wait = 0
     \/ PeerGivesUp /\ peer[c].st \in {"config", "open"}
  /\ PeerSends(c, "DisconnReq", c, peer[c].dcid, [peer[c] EXCEPT !.st = "closing"])

\* The information exchange before the first connection.
PeerInquire(c, type) ==
  /\ peer[c] = Closed
  /\ PeerSends(c, "InfoReq", c, type, [Closed EXCEPT !.psm = 0])

\* What channel c becomes when packet p reaches it.
Settled(ch) == IF ch.st = "config" /\ ch.in /\ ch.out THEN [ch EXCEPT !.st = "open"] ELSE ch
Received(ch, p) ==
  CASE p.code = "ConnRsp" /\ ch.st = "connecting" /\ p.id = ch.wait ->
         [ch EXCEPT !.st = "config", !.dcid = p.arg, !.wait = 0]
    [] p.code = "ConfReq" /\ ch.st = "config" -> Settled([ch EXCEPT !.in = TRUE])
    [] p.code = "ConfRsp" /\ ch.st = "config" /\ p.id = ch.wait ->
         Settled([ch EXCEPT !.out = TRUE, !.wait = 0])
    [] p.code = "DisconnRsp" /\ ch.st = "closing" /\ p.id = ch.wait -> Closed
    [] p.code \in {"SdpRsp", "RfcommReply", "InfoRsp"} /\ p.id = ch.wait ->
         [ch EXCEPT !.wait = 0]
    [] OTHER -> ch

\* A configure request is answered, or rejected when the channel is not known.
PeerAnswer(p) ==
  IF p.code # "ConfReq" THEN aclIn
  ELSE IF p.cid \in PeerCids /\ peer[p.cid].st \in {"config", "open"}
       THEN Append(aclIn, Msg("ConfRsp", p.id, p.cid, 0))
       ELSE Append(aclIn, Msg("CmdReject", p.id, 0, 0))

\* The controller passes a packet to the client and reports it completed, in
\* an event of its own or together with one not read yet.
PeerReceives ==
  /\ toPeer # << >>
  /\ LET p == Head(toPeer)
     IN /\ peer' = IF p.cid \in PeerCids
                   THEN [peer EXCEPT ![p.cid] = Received(peer[p.cid], p)] ELSE peer
        /\ aclIn' = PeerAnswer(p)
  /\ toPeer' = Tail(toPeer)
  /\ \/ events' = events + 1
     \/ events > 0 /\ events' = events
  /\ UNCHANGED <<server, peerSent, asked>>

\* An event that has nothing to do with the client's requests.
ControllerEvent ==
  /\ Spontaneous /\ events < eventInLeft
  /\ events' = events + 1
  /\ UNCHANGED <<server, client, aclIn, toPeer>>

Environment ==
  \/ \E c \in PeerCids :
       \/ \E psm \in Services : PeerConnect(c, psm)
       \/ PeerConfigure(c) \/ PeerRequest(c) \/ PeerDisconnect(c)
       \/ \E type \in InfoTypes : PeerInquire(c, type)
  \/ PeerReceives
  \/ ControllerEvent

Next == Program \/ Environment

Spec == Init /\ [][Next]_vars

(***************************************************************************)
(* Fairness.  main calls libusb_handle_events in an endless loop, which    *)
(* dispatches every completion there is; the radio delivers; the client    *)
(* goes on to configure a channel it has opened.  Connecting, requesting   *)
(* and disconnecting are the client's choice.                              *)
(***************************************************************************)
Fairness ==
  /\ WF_vars(AclInCompleted) /\ WF_vars(AclOutCompleted)
  /\ WF_vars(EventInCompleted) /\ WF_vars(CommandOutCompleted)
  /\ WF_vars(PeerReceives)
  /\ \A c \in PeerCids : WF_vars(PeerConfigure(c))

FairSpec == Spec /\ Fairness
\* The controller reports something whenever the configuration waits for it.
HandshakeWaits == mtu_config_request_received \/ mtu_config_request_sent
BusyControllerSpec == FairSpec /\ WF_vars(HandshakeWaits /\ events = 0 /\ ControllerEvent)
=============================================================================
