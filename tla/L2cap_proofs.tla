---------------------------- MODULE L2cap_proofs ----------------------------
(***************************************************************************)
(* Type correctness, and the routing of granted channel ids: whatever the  *)
(* client does, whatever transfers fail and whatever a completed outgoing  *)
(* buffer reads as, the id in a connection response leads to the entry of  *)
(* channel_map that was made for the client's channel.                     *)
(*                                                                         *)
(* GrantedCidRoutes says nothing while a response is on its way, so it is  *)
(* strengthened to follow an id from the request to the client:            *)
(*   BoundedIds  at most one id and one identifier is used per ACL-in      *)
(*               transfer, so an id fits the one byte the response has and *)
(*               identifiers do not repeat;                                *)
(*   DenseMap    channel_map holds exactly the ids handed out, so a new id *)
(*               never meets an old entry;                                 *)
(*   AskedPsm    a connection request on its way carries the PSM its       *)
(*               channel waits for;                                        *)
(*   GrantPending  a connection response on its way routes as              *)
(*               GrantedCidRoutes wants it once the client has it;         *)
(*   NoRequestFlying  no connection request of the server's own can be     *)
(*               read back from an outgoing buffer.                        *)
(***************************************************************************)
EXTENDS L2capProperties, SequenceFacts

BoundedIds ==
  /\ next_destination_channel_id + aclInLeft <= ACL_IN_BUFFER_COUNT
  /\ peerSent <= ACL_IN_BUFFER_COUNT
  /\ peerSent + aclInLeft <= ACL_IN_BUFFER_COUNT + Len(aclIn)

DenseMap == DOMAIN channel_map = (CidBase + 1)..(CidBase + next_destination_channel_id)

AskedPsm ==
  \A i \in DOMAIN aclIn :
    aclIn[i].code = "ConnReq" =>
      /\ aclIn[i].id \in 1..peerSent
      /\ aclIn[i].cid \in PeerCids
      /\ peer[aclIn[i].cid].st = "connecting" /\ peer[aclIn[i].cid].wait = aclIn[i].id
           => peer[aclIn[i].cid].psm = aclIn[i].arg

\* Entry d of the map was made for channel c of the client.
Routed(map, chans, d, c) ==
  d \in DOMAIN map /\ map[d].source_cid = c /\ map[d].psm = chans[c].psm
RoutesTo(d, c) == Routed(channel_map, peer, d, c)

GrantPending ==
  \A i \in DOMAIN toPeer :
    toPeer[i].code = "ConnRsp" =>
      /\ toPeer[i].id \in 1..peerSent
      /\ toPeer[i].cid \in PeerCids
      /\ peer[toPeer[i].cid].st = "connecting" /\ peer[toPeer[i].cid].wait = toPeer[i].id
           => RoutesTo(toPeer[i].arg, toPeer[i].cid)

NoRequestFlying == \A i \in DOMAIN flying : flying[i].code # "ConnReq"

RouteInv ==
  TypeOK /\ GrantedCidRoutes /\ BoundedIds /\ DenseMap /\ AskedPsm /\ GrantPending
    /\ NoRequestFlying

-----------------------------------------------------------------------------
(* Types.  TypeOK in the parts that different steps touch.                 *)

Flags ==
  /\ authentication_request \in BOOLEAN /\ mtu_config_request_received \in BOOLEAN
  /\ mtu_config_request_sent \in BOOLEAN /\ up \in BOOLEAN /\ commandOut \in BOOLEAN

Numbers ==
  /\ mtu_config_request_command_identifier \in Bytes
  /\ l2cap_source_cid \in Words /\ l2cap_command_identifier \in Bytes
  /\ failures \in Nat /\ events \in Nat

MapTyped ==
  /\ next_destination_channel_id \in Words
  /\ DOMAIN channel_map \subseteq Words
  /\ channel_map \in [DOMAIN channel_map -> ChannelPair]

Counters == aclInLeft \in 0..ACL_IN_BUFFER_COUNT /\ eventInLeft \in 0..EVENT_IN_BUFFER_COUNT

Queues == flying \in Seq(Packet) /\ aclIn \in Seq(Packet) /\ toPeer \in Seq(Packet)

ClientTyped == peer \in [PeerCids -> PeerChannel] /\ peerSent \in Nat

LEMMA TypeParts ==
  /\ TypeOK <=> Flags /\ Numbers /\ MapTyped /\ Counters /\ Queues /\ ClientTyped
  /\ TypeOK' <=> Flags' /\ Numbers' /\ MapTyped' /\ Counters' /\ Queues' /\ ClientTyped'
  BY DEF TypeOK, Flags, Numbers, MapTyped, Counters, Queues, ClientTyped

\* Small numbers fit both fields.
LEMMA SmallNumbers ==
  /\ \A n \in Int : 0 <= n /\ n <= 255 => n \in Words /\ n \in Bytes
  /\ \A n \in Bytes : n \in Int /\ 0 <= n /\ n <= 255
  /\ \A n \in Words : n \in Int /\ 0 <= n
<1>1. ASSUME NEW n \in Int, 0 <= n, n <= 255 PROVE n \in Words /\ n \in Bytes
  BY <1>1, SMTT(60) DEF Words, Bytes
<1>2. ASSUME NEW n \in Bytes PROVE n \in Int /\ 0 <= n /\ n <= 255
  BY SMTT(60) DEF Bytes
<1>3. ASSUME NEW n \in Words PROVE n \in Int /\ 0 <= n
  BY SMTT(60) DEF Words
<1> QED
  BY <1>1, <1>2, <1>3

LEMMA Zero == 0 \in Bytes /\ 0 \in Words
  BY SMT DEF Bytes, Words

\* A packet built from fields in range is a packet.
LEMMA MsgIsPacket ==
  ASSUME NEW code \in Codes, NEW id \in Bytes, NEW cid \in Words, NEW arg \in Words
  PROVE  /\ Msg(code, id, cid, arg) \in Packet
         /\ Msg(code, id, cid, arg).code = code /\ Msg(code, id, cid, arg).id = id
         /\ Msg(code, id, cid, arg).cid = cid /\ Msg(code, id, cid, arg).arg = arg
  BY DEF Msg, Packet

LEMMA PacketFields ==
  ASSUME NEW p \in Packet
  PROVE  p.code \in Codes /\ p.id \in Bytes /\ p.cid \in Words /\ p.arg \in Words
  BY DEF Packet

\* What one callback can do to the two queues of outgoing packets.
Outgoing(rest) ==
  \/ toPeer' = toPeer /\ flying' = rest
  \/ \E q \in Packet : /\ q.code \notin {"ConnReq", "ConnRsp"}
                       /\ toPeer' = Append(toPeer, q) /\ flying' = Append(rest, q)

\* The outcomes of a submission.
LEMMA Sent ==
  ASSUME NEW p, NEW rest, failures \in Nat, usb_send_acl_packet(p, rest)
  PROVE  /\ failures' \in Nat
         /\ \/ toPeer' = toPeer /\ flying' = rest
            \/ toPeer' = Append(toPeer, p) /\ flying' = Append(rest, p)
  BY DEF usb_send_acl_packet, Submitted, SubmitFails

LEMMA SentReply ==
  ASSUME NEW code \in Codes \ {"ConnReq", "ConnRsp"}, NEW id \in Bytes,
         NEW cid \in Words, NEW arg \in Words, NEW rest,
         failures \in Nat, usb_send_acl_packet(Msg(code, id, cid, arg), rest)
  PROVE  failures' \in Nat /\ Outgoing(rest)
<1> DEFINE q == Msg(code, id, cid, arg)
<1>1. q \in Packet /\ q.code = code
  BY MsgIsPacket
<1> HIDE DEF q
<1>2. usb_send_acl_packet(q, rest)
  BY DEF q
<1> QED
  BY <1>1, <1>2, Sent DEF Outgoing

LEMMA SentNothing ==
  ASSUME NEW rest, failures \in Nat, SendNothing(rest)
  PROVE  failures' \in Nat /\ Outgoing(rest)
  BY DEF SendNothing, Outgoing

\* Every packet but a connection request leaves the channels as they are.
LEMMA Handled ==
  ASSUME Flags, Numbers, MapTyped, NEW p \in Packet, NEW rest,
         async_acl_callback(p, rest), p.code # "ConnReq"
  PROVE  Flags' /\ Numbers' /\ Outgoing(rest) /\ UNCHANGED channels
<1>1. p.code \in Codes /\ p.id \in Bytes /\ p.cid \in Words /\ p.arg \in Words
  BY PacketFields
<1>2. failures \in Nat /\ l2cap_source_cid \in Words /\ 0 \in Words
  BY Zero DEF Numbers
<1>3. CASE process_control(p, rest)
  <2>1. l2cap_command_identifier' \in Bytes /\ up' = up
    BY <1>1, <1>3 DEF process_control
  <2>2. CASE ConfigureRequest(p, rest)
    <3>1. failures' \in Nat /\ Outgoing(rest)
      BY <1>2, <2>2, SentNothing DEF ConfigureRequest
    <3>2. Flags'
      BY <2>1, <2>2 DEF ConfigureRequest, Flags
    <3> QED
      BY <1>1, <2>1, <2>2, <3>1, <3>2 DEF ConfigureRequest, Numbers, channels
  <2>3. CASE DisconnectRequest(p, rest)
    <3>1. failures' \in Nat /\ Outgoing(rest)
      <4>1. "DisconnRsp" \in Codes \ {"ConnReq", "ConnRsp"}
        BY DEF Codes, ControlCodes
      <4> QED
        BY <1>1, <1>2, <2>3, <4>1, SentReply DEF DisconnectRequest
    <3>2. Flags'
      BY <2>1, <2>3 DEF DisconnectRequest, Flags, config
    <3> QED
      BY <1>1, <2>1, <2>3, <3>1, <3>2 DEF DisconnectRequest, Numbers, config, channels
  <2>4. CASE InformationRequest(p, rest)
    <3>1. failures' \in Nat /\ Outgoing(rest)
      <4>1. "InfoRsp" \in Codes \ {"ConnReq", "ConnRsp"}
        BY DEF Codes, ControlCodes
      <4> QED
        BY <1>1, <1>2, <2>4, <4>1, SentReply, SentNothing DEF InformationRequest
    <3>2. Flags'
      BY <2>1, <2>4 DEF InformationRequest, Flags, config
    <3> QED
      BY <1>1, <2>1, <2>4, <3>1, <3>2 DEF InformationRequest, Numbers, config, channels
  <2>5. CASE AuthenticationRequest(p, rest)
    <3>1. failures' \in Nat /\ Outgoing(rest)
      BY <1>2, <2>5, SentNothing DEF AuthenticationRequest
    <3>2. Flags'
      BY <2>1, <2>5 DEF AuthenticationRequest, Flags, config
    <3>3. events' \in Nat
      <4>1. events' = events \/ events' = events + 1
        BY <2>5 DEF AuthenticationRequest
      <4> QED
        BY <4>1 DEF Numbers
    <3> QED
      BY <1>1, <2>1, <2>5, <3>1, <3>2, <3>3
      DEF AuthenticationRequest, Numbers, config, channels
  <2>6. CASE OtherCommand(p, rest)
    <3>1. failures' \in Nat /\ Outgoing(rest)
      BY <1>2, <2>6, SentNothing DEF OtherCommand
    <3>2. Flags'
      BY <2>1, <2>6 DEF OtherCommand, Flags, config
    <3> QED
      BY <1>1, <2>1, <2>6, <3>1, <3>2 DEF OtherCommand, Numbers, config, channels
  <2>7. ~ConnectionRequest(p, rest)
    BY DEF ConnectionRequest
  <2> QED
    BY <1>3, <2>2, <2>3, <2>4, <2>5, <2>6, <2>7 DEF process_control
<1>4. CASE DataPacket(p, rest)
  <2>1. UNCHANGED <<config, channels, l2cap, authentication_request, commandOut, events>>
    BY <1>4 DEF DataPacket, UnchangedByData
  <2>2. failures' \in Nat /\ Outgoing(rest)
    <3>1. "SdpRsp" \in Codes \ {"ConnReq", "ConnRsp"}
          /\ "RfcommReply" \in Codes \ {"ConnReq", "ConnRsp"}
      BY DEF Codes, DataCodes
    <3>2. CASE SendNothing(rest)
      BY <1>2, <3>2, SentNothing
    <3>3. CASE process_sdp(p, rest)
      BY <1>1, <1>2, <3>1, <3>3, SentReply, SentNothing DEF process_sdp
    <3>4. ASSUME p.cid \in DOMAIN channel_map, process_rfcomm(p, channel_map[p.cid], rest)
          PROVE  failures' \in Nat /\ Outgoing(rest)
      <4>1. channel_map[p.cid].source_cid \in Words
        BY <3>4 DEF MapTyped, ChannelPair
      <4> QED
        BY <1>1, <1>2, <3>1, <3>4, <4>1, SentReply, SentNothing DEF process_rfcomm
    <3> QED
      BY <1>4, <3>2, <3>3, <3>4 DEF DataPacket
  <2>3. up' \in BOOLEAN
    BY <1>4 DEF DataPacket, process_sdp, process_rfcomm, Flags
  <2> QED
    BY <2>1, <2>2, <2>3 DEF Flags, Numbers, config, l2cap
<1> QED
  BY <1>3, <1>4 DEF async_acl_callback

\* A connection request gets the next id: channel_map grows by its entry, and
\* the response, if it can be submitted, carries the id.
LEMMA HandledConn ==
  ASSUME Flags, Numbers, MapTyped, DenseMap, NEW p \in Packet, NEW rest,
         async_acl_callback(p, rest), p.code = "ConnReq",
         next_destination_channel_id <= 189
  PROVE  LET cid == CidBase + next_destination_channel_id + 1
             q == Msg("ConnRsp", p.id, p.cid, cid)
         IN /\ Flags' /\ Numbers' /\ MapTyped' /\ DenseMap'
            /\ next_destination_channel_id' = next_destination_channel_id + 1
            /\ \A d \in DOMAIN channel_map :
                 d \in DOMAIN channel_map' /\ (channel_map')[d] = channel_map[d]
            /\ cid \in DOMAIN channel_map' /\ cid \in Words
            /\ (channel_map')[cid].source_cid = p.cid /\ (channel_map')[cid].psm = p.arg
            /\ \/ toPeer' = toPeer /\ flying' = rest
               \/ toPeer' = Append(toPeer, q) /\ flying' = Append(rest, q)
<1> DEFINE next == next_destination_channel_id
           cid == CidBase + next + 1
           q == Msg("ConnRsp", p.id, p.cid, cid)
<1>1. p.code \in Codes /\ p.id \in Bytes /\ p.cid \in Words /\ p.arg \in Words
  BY PacketFields
<1>2. next \in Int /\ 0 <= next
  BY SmallNumbers DEF MapTyped
<1>3. /\ cid \in Int /\ 0 <= cid /\ cid <= 255 /\ cid % 256 = cid
      /\ (next + 1) % 65536 = next + 1 /\ (CidBase + (next + 1)) % 65536 = cid
  BY <1>2 DEF CidBase
<1>4. cid \in Words /\ next + 1 \in Words
  BY <1>2, <1>3, SmallNumbers
<1>5. cid \notin DOMAIN channel_map
  BY <1>2 DEF DenseMap, CidBase
<1>6. ConnectionRequest(p, rest)
  <2>1. "ConnReq" \notin DataCodes
    BY DEF DataCodes
  <2> QED
    BY <2>1 DEF async_acl_callback, DataPacket, process_control, ConfigureRequest,
                DisconnectRequest, InformationRequest, AuthenticationRequest, OtherCommand
<1>7. l2cap_command_identifier' = p.id /\ up' = up
  <2>1. "ConnReq" \notin DataCodes
    BY DEF DataCodes
  <2> QED
    BY <2>1 DEF async_acl_callback, DataPacket, process_control
<1>8. next_destination_channel_id' = next + 1
  BY <1>3, <1>6 DEF ConnectionRequest
<1>9. /\ channel_map' =
           [d \in DOMAIN channel_map \cup {cid} |->
              IF d \in DOMAIN channel_map THEN channel_map[d]
              ELSE [source_cid |-> p.cid, destination_cid |-> cid, psm |-> p.arg]]
      /\ usb_send_acl_packet(q, rest)
  BY <1>3, <1>6, <1>8 DEF ConnectionRequest
<1> HIDE DEF cid, q
<1>10. /\ DOMAIN channel_map' = DOMAIN channel_map \cup {cid}
       /\ \A d \in DOMAIN channel_map : (channel_map')[d] = channel_map[d]
       /\ (channel_map')[cid] = [source_cid |-> p.cid, destination_cid |-> cid, psm |-> p.arg]
  BY <1>5, <1>9
<1>11. MapTyped'
  <2>1. [source_cid |-> p.cid, destination_cid |-> cid, psm |-> p.arg] \in ChannelPair
    BY <1>1, <1>4 DEF ChannelPair
  <2>2. channel_map' \in [DOMAIN channel_map' -> ChannelPair]
    BY <1>9, <2>1 DEF MapTyped
  <2> QED
    BY <1>4, <1>8, <1>10, <2>2 DEF MapTyped
<1>12. DenseMap'
  BY <1>2, <1>8, <1>10 DEF DenseMap, CidBase, cid
<1>13. Flags'
  BY <1>6, <1>7 DEF ConnectionRequest, Flags, config
<1>14. /\ failures' \in Nat
       /\ \/ toPeer' = toPeer /\ flying' = rest
          \/ toPeer' = Append(toPeer, q) /\ flying' = Append(rest, q)
  <2>1. failures \in Nat
    BY DEF Numbers
  <2> QED
    BY <1>9, <2>1, Sent
<1>15. Numbers'
  BY <1>1, <1>6, <1>7, <1>14 DEF ConnectionRequest, Numbers, config
<1> QED
  BY <1>4, <1>8, <1>10, <1>11, <1>12, <1>13, <1>14, <1>15 DEF cid, q

\* The tail of async_callback sends configure packets at most.
LEMMA Deferred ==
  ASSUME Flags, Numbers, async_callback, events' \in Nat, commandOut' \in BOOLEAN
  PROVE  /\ Flags' /\ Numbers' /\ Outgoing(flying)
         /\ UNCHANGED <<channels, client, aclInLeft, aclIn>>
<1>1. UNCHANGED <<channels, l2cap, client, authentication_request, aclInLeft, aclIn>>
  BY DEF async_callback
<1>2. failures \in Nat /\ l2cap_source_cid \in Words /\ l2cap_command_identifier \in Bytes
      /\ mtu_config_request_command_identifier \in Bytes
  BY DEF Numbers
<1>3. (l2cap_command_identifier + 1) % 256 \in Bytes
  <2>1. l2cap_command_identifier \in Int
    BY <1>2, SmallNumbers
  <2>2. /\ (l2cap_command_identifier + 1) % 256 \in Int
        /\ 0 <= (l2cap_command_identifier + 1) % 256
        /\ (l2cap_command_identifier + 1) % 256 <= 255
    BY <2>1
  <2> QED
    BY <2>2, SmallNumbers
<1>4. "ConfReq" \in Codes \ {"ConnReq", "ConnRsp"} /\ "ConfRsp" \in Codes \ {"ConnReq", "ConnRsp"}
  BY DEF Codes, ControlCodes
<1>5. mtu_config_request_command_identifier' \in Bytes
  BY <1>2, Zero DEF async_callback, SendConfigureRequest, SendConfigureResponse,
                    NothingDeferred, config
<1>6. failures' \in Nat /\ Outgoing(flying)
  <2>1. CASE SendConfigureRequest
    <3>1. usb_send_acl_packet(Msg("ConfReq", (l2cap_command_identifier + 1) % 256,
                                  l2cap_source_cid, 0), flying)
      BY <2>1 DEF SendConfigureRequest, usb_send_acl_packet
    <3> QED
      BY <1>2, <1>3, <1>4, <3>1, Zero, SentReply
  <2>2. CASE SendConfigureResponse
    <3>1. usb_send_acl_packet(Msg("ConfRsp", mtu_config_request_command_identifier,
                                  l2cap_source_cid, 0), flying)
      BY <2>2 DEF SendConfigureResponse, usb_send_acl_packet
    <3> QED
      BY <1>2, <1>4, <3>1, Zero, SentReply
  <2>3. CASE NothingDeferred
    BY <1>2, <2>3, SentNothing DEF NothingDeferred
  <2> QED
    BY <2>1, <2>2, <2>3 DEF async_callback
<1>7. Flags'
  <2>1. CASE SendConfigureRequest
    BY <1>1, <2>1 DEF SendConfigureRequest, Flags
  <2>2. CASE SendConfigureResponse
    BY <1>1, <2>2 DEF SendConfigureResponse, Flags
  <2>3. CASE NothingDeferred
    BY <1>1, <2>3 DEF NothingDeferred, Flags, config
  <2> QED
    BY <2>1, <2>2, <2>3 DEF async_callback
<1> QED
  BY <1>1, <1>2, <1>5, <1>6, <1>7 DEF Numbers, l2cap

-----------------------------------------------------------------------------
(* The steps of the program.                                               *)

\* Entries of channel_map stay.
MapGrows ==
  \A d \in DOMAIN channel_map :
    d \in DOMAIN channel_map' /\ (channel_map')[d] = channel_map[d]

\* Channels that are granted stay granted while the map grows.
LEMMA GrantedKept ==
  ASSUME GrantedCidRoutes, UNCHANGED peer, MapGrows
  PROVE  GrantedCidRoutes'
  BY DEF GrantedCidRoutes, MapGrows

\* Packets without a grant change nothing about the grants on their way.
LEMMA PacketsSent ==
  ASSUME Queues, GrantPending, UNCHANGED <<peer, peerSent>>, MapGrows,
         NEW rest \in Seq(Packet), \A i \in DOMAIN rest : rest[i].code # "ConnReq",
         Outgoing(rest)
  PROVE  /\ flying' \in Seq(Packet) /\ toPeer' \in Seq(Packet)
         /\ GrantPending' /\ NoRequestFlying'
<1>1. toPeer \in Seq(Packet)
  BY DEF Queues
<1>2. CASE toPeer' = toPeer /\ flying' = rest
  BY <1>1, <1>2 DEF GrantPending, NoRequestFlying, RoutesTo, Routed, MapGrows
<1>3. ASSUME NEW q \in Packet, q.code \notin {"ConnReq", "ConnRsp"},
             toPeer' = Append(toPeer, q), flying' = Append(rest, q)
      PROVE  /\ flying' \in Seq(Packet) /\ toPeer' \in Seq(Packet)
             /\ GrantPending' /\ NoRequestFlying'
  <2>1. /\ flying' \in Seq(Packet) /\ NoRequestFlying'
    BY <1>3, QueueAppend DEF NoRequestFlying
  <2>2. toPeer' \in Seq(Packet) /\ GrantPending'
    BY <1>1, <1>3, QueueAppend, SMTT(60) DEF GrantPending, RoutesTo, Routed, MapGrows
  <2> QED
    BY <2>1, <2>2
<1> QED
  BY <1>2, <1>3 DEF Outgoing

\* What is still to be read from the client stays as it was sent.
LEMMA StillAsked ==
  ASSUME Queues, AskedPsm, UNCHANGED <<peer, peerSent>>, aclIn # << >>, aclIn' = Tail(aclIn)
  PROVE  AskedPsm' /\ aclIn' \in Seq(Packet)
  BY QueueTail, SMTT(60) DEF Queues, AskedPsm

LEMMA AclInKeeps == RouteInv /\ AclInCompleted => RouteInv'
<1> SUFFICES ASSUME RouteInv, AclInCompleted PROVE RouteInv'
  OBVIOUS
<1> DEFINE p == Head(aclIn)
<1>1. /\ Flags /\ Numbers /\ MapTyped /\ Counters /\ Queues /\ ClientTyped
      /\ GrantedCidRoutes /\ BoundedIds /\ DenseMap /\ AskedPsm /\ GrantPending
      /\ NoRequestFlying
  BY TypeParts DEF RouteInv
<1>2. /\ aclInLeft > 0 /\ aclInLeft' = aclInLeft - 1 /\ aclIn # << >> /\ aclIn' = Tail(aclIn)
      /\ async_acl_callback(p, flying) /\ UNCHANGED <<eventInLeft, peer, peerSent>>
  BY DEF AclInCompleted, client
<1>3. p \in Packet /\ Len(aclIn') = Len(aclIn) - 1 /\ p = aclIn[1] /\ 1 \in DOMAIN aclIn
  BY <1>1, <1>2, QueueTail DEF Queues
<1>4. AskedPsm' /\ aclIn' \in Seq(Packet)
  BY <1>1, <1>2, StillAsked
<1>5. Counters' /\ ClientTyped'
  BY <1>1, <1>2, ConstantsAssumption DEF Counters, ClientTyped
<1>6. flying \in Seq(Packet) /\ \A i \in DOMAIN flying : flying[i].code # "ConnReq"
  BY <1>1 DEF Queues, NoRequestFlying
<1> DEFINE next == next_destination_channel_id
           left == aclInLeft
           max == ACL_IN_BUFFER_COUNT
<1>7. /\ next \in Int /\ 0 <= next /\ left \in Int /\ max \in Int /\ max <= 190
      /\ peerSent \in Int /\ Len(aclIn) \in Int
      /\ next + left <= max /\ peerSent <= max /\ peerSent + left <= max + Len(aclIn)
  <2>1. max \in Int /\ max <= 190 /\ max \in Nat
    BY ConstantsAssumption
  <2>2. next \in Int /\ 0 <= next
    BY <1>1, SmallNumbers DEF MapTyped
  <2>3. left \in Int /\ peerSent \in Int
    BY <1>1, <2>1 DEF Counters, ClientTyped
  <2>4. Len(aclIn) \in Int
    BY <1>1 DEF Queues
  <2> QED
    BY <1>1, <2>1, <2>2, <2>3, <2>4 DEF BoundedIds
<1>8. CASE p.code # "ConnReq"
  <2>1. Flags' /\ Numbers' /\ Outgoing(flying) /\ UNCHANGED channels
    BY <1>1, <1>2, <1>3, <1>8, Handled
  <2>2. MapTyped' /\ DenseMap' /\ MapGrows /\ next' = next
    BY <1>1, <2>1 DEF channels, MapTyped, DenseMap, MapGrows
  <2>3. /\ flying' \in Seq(Packet) /\ toPeer' \in Seq(Packet)
        /\ GrantPending' /\ NoRequestFlying' /\ GrantedCidRoutes'
    BY <1>1, <1>2, <1>6, <2>1, <2>2, PacketsSent, GrantedKept
  <2>4. BoundedIds'
    BY <1>2, <1>3, <1>7, <2>2 DEF BoundedIds
  <2>5. Queues'
    BY <1>4, <2>3 DEF Queues
  <2> QED
    BY <1>4, <1>5, <2>1, <2>2, <2>3, <2>4, <2>5, TypeParts DEF RouteInv
<1>9. CASE p.code = "ConnReq"
  <2>1. next <= 189
    BY <1>2, <1>7
  <2>2. PICK cid \in Words, q \in Packet :
          /\ Flags' /\ Numbers' /\ MapTyped' /\ DenseMap' /\ next' = next + 1
          /\ MapGrows
          /\ cid \in DOMAIN channel_map'
          /\ (channel_map')[cid].source_cid = p.cid /\ (channel_map')[cid].psm = p.arg
          /\ q.code = "ConnRsp" /\ q.id = p.id /\ q.cid = p.cid /\ q.arg = cid
          /\ \/ toPeer' = toPeer /\ flying' = flying
             \/ toPeer' = Append(toPeer, q) /\ flying' = Append(flying, q)
    <3> DEFINE cd == CidBase + next + 1
               m == Msg("ConnRsp", p.id, p.cid, cd)
    <3>1. /\ Flags' /\ Numbers' /\ MapTyped' /\ DenseMap' /\ next' = next + 1
          /\ MapGrows
          /\ cd \in DOMAIN channel_map' /\ cd \in Words
          /\ (channel_map')[cd].source_cid = p.cid /\ (channel_map')[cd].psm = p.arg
          /\ \/ toPeer' = toPeer /\ flying' = flying
             \/ toPeer' = Append(toPeer, m) /\ flying' = Append(flying, m)
      BY <1>1, <1>2, <1>3, <1>9, <2>1, HandledConn DEF MapGrows
    <3>2. "ConnRsp" \in Codes /\ p.id \in Bytes /\ p.cid \in Words
      BY <1>3, PacketFields DEF Codes, ControlCodes
    <3>3. m \in Packet /\ m.code = "ConnRsp" /\ m.id = p.id /\ m.cid = p.cid /\ m.arg = cd
      BY <3>1, <3>2, MsgIsPacket
    <3> HIDE DEF cd, m
    <3> QED
      BY <3>1, <3>3
  <2>3. /\ p.id \in 1..peerSent /\ p.cid \in PeerCids
        /\ peer[p.cid].st = "connecting" /\ peer[p.cid].wait = p.id => peer[p.cid].psm = p.arg
    BY <1>1, <1>3, <1>9 DEF AskedPsm
  <2>4. toPeer \in Seq(Packet)
    BY <1>1 DEF Queues
  <2>5. q.id \in 1..peerSent' /\ q.cid \in PeerCids
    BY <1>2, <2>2, <2>3
  <2>6. /\ flying' \in Seq(Packet) /\ toPeer' \in Seq(Packet)
        /\ NoRequestFlying' /\ GrantPending'
    <3>1. CASE toPeer' = toPeer /\ flying' = flying
      <4>1. flying' \in Seq(Packet) /\ toPeer' \in Seq(Packet) /\ NoRequestFlying'
        BY <1>6, <2>4, <3>1 DEF NoRequestFlying
      <4>2. GrantPending'
        BY <1>1, <1>2, <2>2, <3>1 DEF GrantPending, RoutesTo, Routed, MapGrows
      <4> QED
        BY <4>1, <4>2
    <3>2. CASE toPeer' = Append(toPeer, q) /\ flying' = Append(flying, q)
      <4>1. flying' \in Seq(Packet) /\ NoRequestFlying'
        BY <1>6, <2>2, <3>2, QueueAppend DEF NoRequestFlying
      <4>2. ASSUME NEW i \in DOMAIN toPeer, toPeer[i].code = "ConnRsp"
            PROVE  /\ toPeer[i].id \in 1..peerSent' /\ toPeer[i].cid \in PeerCids
                   /\ (peer')[toPeer[i].cid].st = "connecting"
                        /\ (peer')[toPeer[i].cid].wait = toPeer[i].id
                        => Routed(channel_map', peer', toPeer[i].arg, toPeer[i].cid)
        BY <1>1, <1>2, <2>2, <4>2 DEF GrantPending, RoutesTo, Routed, MapGrows
      <4>3. (peer')[q.cid].st = "connecting" /\ (peer')[q.cid].wait = q.id
              => Routed(channel_map', peer', q.arg, q.cid)
        BY <1>2, <2>2, <2>3 DEF Routed
      <4>4. toPeer' \in Seq(Packet) /\ GrantPending'
        BY <2>4, <2>5, <3>2, <4>2, <4>3, QueueAppend DEF GrantPending, RoutesTo
      <4> QED
        BY <4>1, <4>4
    <3> QED
      BY <2>2, <3>1, <3>2
  <2>7. GrantedCidRoutes'
    BY <1>1, <1>2, <2>2, GrantedKept
  <2>8. BoundedIds'
    BY <1>2, <1>3, <1>7, <2>2 DEF BoundedIds
  <2>9. Queues'
    BY <1>4, <2>6 DEF Queues
  <2> QED
    BY <1>4, <1>5, <2>2, <2>6, <2>7, <2>8, <2>9, TypeParts DEF RouteInv
<1> QED
  BY <1>8, <1>9

\* A bound on a sum holds for smaller summands.
LEMMA SmallerSum ==
  ASSUME NEW n \in Int, NEW a \in Int, NEW b \in Int, NEW bound \in Int,
         b <= a, n + a <= bound
  PROVE  n + b <= bound
  OBVIOUS

\* Every other completion: no channel is made, no packet of the client is read.
LEMMA OthersKeep ==
  ASSUME RouteInv, Flags', Numbers', Counters', aclInLeft' <= aclInLeft,
         UNCHANGED <<channels, peer, peerSent, aclIn>>,
         NEW rest \in Seq(Packet), \A i \in DOMAIN rest : rest[i].code # "ConnReq",
         Outgoing(rest)
  PROVE  RouteInv'
<1>1. /\ MapTyped /\ Counters /\ Queues /\ ClientTyped
      /\ GrantedCidRoutes /\ BoundedIds /\ DenseMap /\ AskedPsm /\ GrantPending
  BY TypeParts DEF RouteInv
<1>2. MapTyped' /\ DenseMap' /\ MapGrows /\ ClientTyped' /\ AskedPsm'
  BY <1>1 DEF channels, MapTyped, DenseMap, MapGrows, ClientTyped, AskedPsm
<1>3. /\ flying' \in Seq(Packet) /\ toPeer' \in Seq(Packet)
      /\ GrantPending' /\ NoRequestFlying' /\ GrantedCidRoutes'
  BY <1>1, <1>2, PacketsSent, GrantedKept
<1>4. BoundedIds'
  <2>1. /\ aclInLeft \in Int /\ aclInLeft' \in Int /\ peerSent \in Int
        /\ next_destination_channel_id \in Int /\ ACL_IN_BUFFER_COUNT \in Int
    BY <1>1, SmallNumbers, ConstantsAssumption DEF Counters, ClientTyped, MapTyped
  <2>2. Len(aclIn) \in Int
    BY <1>1 DEF Queues
  <2>3. /\ next_destination_channel_id' = next_destination_channel_id
        /\ peerSent' = peerSent /\ Len(aclIn') = Len(aclIn)
    BY DEF channels
  <2>4. /\ next_destination_channel_id + aclInLeft <= ACL_IN_BUFFER_COUNT
        /\ peerSent <= ACL_IN_BUFFER_COUNT
        /\ peerSent + aclInLeft <= ACL_IN_BUFFER_COUNT + Len(aclIn)
    BY <1>1 DEF BoundedIds
  <2>5. aclInLeft' <= aclInLeft
    OBVIOUS
  <2>6. /\ next_destination_channel_id + aclInLeft' <= ACL_IN_BUFFER_COUNT
        /\ peerSent + aclInLeft' <= ACL_IN_BUFFER_COUNT + Len(aclIn)
    <3>1. ACL_IN_BUFFER_COUNT + Len(aclIn) \in Int
      BY <2>1, <2>2
    <3> QED
      BY <2>1, <2>4, <2>5, <3>1, SmallerSum
  <2> QED
    BY <2>3, <2>4, <2>6 DEF BoundedIds
<1>5. Queues'
  BY <1>1, <1>3 DEF Queues
<1> QED
  BY <1>2, <1>3, <1>4, <1>5, TypeParts DEF RouteInv

\* A failed ACL-in transfer is only used up.
LEMMA AclInFailedKeeps == RouteInv /\ AclInFailed => RouteInv'
<1> SUFFICES ASSUME RouteInv, AclInFailed PROVE RouteInv'
  OBVIOUS
<1>1. Flags /\ Numbers /\ Counters /\ Queues /\ NoRequestFlying
  BY TypeParts DEF RouteInv
<1>2. UNCHANGED <<config, channels, l2cap, authentication_request, commandOut, events, up,
                  flying, toPeer, aclIn, eventInLeft, peer, peerSent>>
  BY DEF AclInFailed, UnchangedByData, client
<1>3. Flags'
  BY <1>1, <1>2 DEF Flags, config
<1>4. failures' \in Nat
  BY <1>1 DEF AclInFailed, Numbers
<1>5. Numbers'
  BY <1>1, <1>2, <1>4 DEF Numbers, config, l2cap
<1>6. Counters' /\ aclInLeft' <= aclInLeft
  BY <1>1, <1>2, ConstantsAssumption DEF AclInFailed, Counters
<1>7. Outgoing(flying) /\ flying \in Seq(Packet) /\ \A i \in DOMAIN flying : flying[i].code # "ConnReq"
  BY <1>1, <1>2 DEF Outgoing, Queues, NoRequestFlying
<1> QED
  BY <1>2, <1>3, <1>5, <1>6, <1>7, OthersKeep

\* Whatever a completed outgoing buffer reads as, it is no connection request.
LEMMA AclOutKeeps == RouteInv /\ AclOutCompleted => RouteInv'
<1> SUFFICES ASSUME RouteInv, AclOutCompleted PROVE RouteInv'
  OBVIOUS
<1>1. Flags /\ Numbers /\ MapTyped /\ Counters /\ Queues /\ NoRequestFlying
  BY TypeParts DEF RouteInv
<1>2. flying # << >> /\ UNCHANGED <<aclInLeft, aclIn, eventInLeft, peer, peerSent>>
  BY DEF AclOutCompleted, client
<1>3. /\ Head(flying) \in Packet /\ Head(flying).code # "ConnReq"
      /\ Tail(flying) \in Seq(Packet)
      /\ \A i \in DOMAIN Tail(flying) : Tail(flying)[i].code # "ConnReq"
  BY <1>1, <1>2, QueueTail DEF Queues, NoRequestFlying
<1>4. Counters' /\ aclInLeft' <= aclInLeft
  BY <1>1, <1>2, ConstantsAssumption DEF Counters
<1>5. Flags' /\ Numbers' /\ Outgoing(Tail(flying)) /\ UNCHANGED channels
  <2>1. CASE async_acl_callback(Head(flying), Tail(flying))
    BY <1>1, <1>3, <2>1, Handled
  <2>2. CASE async_acl_callback(Msg("Fill", FillByte, 0, 0), Tail(flying))
    <3>1. "Fill" \in Codes /\ "Fill" # "ConnReq" /\ FillByte \in Bytes
      BY SmallNumbers DEF Codes, ControlCodes, FillByte
    <3> DEFINE m == Msg("Fill", FillByte, 0, 0)
    <3>2. m \in Packet /\ m.code # "ConnReq"
      BY <3>1, Zero, MsgIsPacket
    <3> HIDE DEF m
    <3>3. async_acl_callback(m, Tail(flying))
      BY <2>2 DEF m
    <3> QED
      BY <1>1, <3>2, <3>3, Handled
  <2>3. CASE SendNothing(Tail(flying)) /\ UnchangedByData /\ UNCHANGED up
    <3>1. failures' \in Nat /\ Outgoing(Tail(flying))
      BY <1>1, <2>3, SentNothing DEF Numbers
    <3>2. Flags'
      BY <1>1, <2>3 DEF Flags, UnchangedByData, config
    <3> QED
      BY <1>1, <2>3, <3>1, <3>2 DEF Numbers, UnchangedByData, config, l2cap, channels
  <2> QED
    BY <2>1, <2>2, <2>3 DEF AclOutCompleted
<1> QED
  BY <1>2, <1>3, <1>4, <1>5, OthersKeep

\* Events and command transfers run the deferred half of the handshake.
LEMMA AsyncKeeps == RouteInv /\ (EventInCompleted \/ CommandOutCompleted) => RouteInv'
<1> SUFFICES ASSUME RouteInv, EventInCompleted \/ CommandOutCompleted PROVE RouteInv'
  OBVIOUS
<1>1. Flags /\ Numbers /\ Counters /\ Queues /\ NoRequestFlying
  BY TypeParts DEF RouteInv
<1>2. async_callback
  BY DEF EventInCompleted, CommandOutCompleted
<1>3. commandOut' \in BOOLEAN
  BY <1>1 DEF EventInCompleted, CommandOutCompleted, Flags
<1>4. events' \in Nat /\ eventInLeft' \in 0..EVENT_IN_BUFFER_COUNT
  BY <1>1, ConstantsAssumption DEF EventInCompleted, CommandOutCompleted, Numbers, Counters
<1>5. /\ Flags' /\ Numbers' /\ Outgoing(flying)
      /\ UNCHANGED <<channels, client, aclInLeft, aclIn>>
  BY <1>1, <1>2, <1>3, <1>4, Deferred
<1>6. Counters' /\ aclInLeft' <= aclInLeft
  BY <1>1, <1>4, <1>5, ConstantsAssumption DEF Counters
<1>7. flying \in Seq(Packet) /\ \A i \in DOMAIN flying : flying[i].code # "ConnReq"
  BY <1>1 DEF Queues, NoRequestFlying
<1>8. UNCHANGED <<channels, peer, peerSent, aclIn>>
  BY <1>5 DEF client
<1> QED
  BY <1>5, <1>6, <1>7, <1>8, OthersKeep

-----------------------------------------------------------------------------
(* The steps of the client and the controller.                             *)

\* Nothing of the program changes in a step of the client.
LEMMA ServerUntouched ==
  ASSUME Flags, Numbers, MapTyped, Counters, UNCHANGED server, events' \in Nat
  PROVE  /\ Flags' /\ Numbers' /\ MapTyped' /\ Counters'
         /\ UNCHANGED <<next_destination_channel_id, channel_map, aclInLeft, flying>>
<1>1. UNCHANGED <<config, channels, l2cap, authentication_request, up, aclInLeft, eventInLeft,
                  commandOut, flying, failures, answers>>
  BY DEF server
<1>2. Flags'
  BY <1>1 DEF Flags, config
<1>3. Numbers'
  BY <1>1 DEF Numbers, config, l2cap
<1>4. MapTyped' /\ Counters'
  BY <1>1 DEF MapTyped, Counters, channels
<1> QED
  BY <1>1, <1>2, <1>3, <1>4 DEF channels

\* The client's identifiers are new as long as they are needed.
LEMMA FreshIdent ==
  ASSUME RouteInv, Len(aclIn) < aclInLeft
  PROVE  /\ Ident(peerSent) = peerSent + 1 /\ Ident(peerSent) \in Bytes
         /\ peerSent \in Nat /\ peerSent + 1 <= ACL_IN_BUFFER_COUNT
<1>1. Counters /\ Queues /\ ClientTyped /\ BoundedIds
  BY TypeParts DEF RouteInv
<1>2. /\ peerSent \in Nat /\ aclInLeft \in Int /\ Len(aclIn) \in Int
      /\ ACL_IN_BUFFER_COUNT \in Int /\ ACL_IN_BUFFER_COUNT <= 190
  BY <1>1, ConstantsAssumption DEF Counters, Queues, ClientTyped
<1>3. peerSent + 1 <= ACL_IN_BUFFER_COUNT
  BY <1>1, <1>2 DEF BoundedIds
<1>4. Ident(peerSent) = peerSent + 1
  BY <1>2, <1>3 DEF Ident
<1> QED
  BY <1>2, <1>3, <1>4, SmallNumbers

\* Grants and requests on their way are not disturbed by a new request: its
\* identifier is larger than theirs.
LEMMA SendingKeeps ==
  ASSUME RouteInv, NEW c \in PeerCids, NEW code \in Codes, NEW cid \in Words,
         NEW arg \in Words, NEW upd \in PeerChannel, PeerSends(c, code, cid, arg, upd),
         code = "ConnReq" => cid = c /\ upd.psm = arg,
         upd.st \in {"config", "open", "closing"} =>
           /\ peer[c].st \in {"config", "open", "closing"}
           /\ upd.dcid = peer[c].dcid /\ upd.psm = peer[c].psm
  PROVE  RouteInv'
<1>1. /\ Flags /\ Numbers /\ MapTyped /\ Counters /\ Queues /\ ClientTyped
      /\ GrantedCidRoutes /\ BoundedIds /\ DenseMap /\ AskedPsm /\ GrantPending
      /\ NoRequestFlying
  BY TypeParts DEF RouteInv
<1>2. /\ Ident(peerSent) = peerSent + 1 /\ Ident(peerSent) \in Bytes
      /\ peerSent \in Nat /\ peerSent + 1 <= ACL_IN_BUFFER_COUNT
  BY FreshIdent DEF PeerSends
<1>3. PICK id \in Bytes, x \in PeerChannel, m \in Packet :
        /\ id = peerSent + 1
        /\ x.st = upd.st /\ x.psm = upd.psm /\ x.dcid = upd.dcid /\ x.wait \in {0, id}
        /\ m.code = code /\ m.id = id /\ m.cid = cid /\ m.arg = arg
        /\ aclIn' = Append(aclIn, m) /\ peer' = [peer EXCEPT ![c] = x]
  <2> DEFINE id == Ident(peerSent)
             w == IF code \in Requests THEN id ELSE 0
             x == [upd EXCEPT !.wait = w]
             m == Msg(code, id, cid, arg)
  <2>1. w \in Bytes /\ w \in {0, id} /\ id \in Bytes /\ id = peerSent + 1
    BY <1>2, Zero
  <2>2. aclIn' = Append(aclIn, m) /\ peer' = [peer EXCEPT ![c] = x]
    BY DEF PeerSends
  <2>3. m \in Packet /\ m.code = code /\ m.id = id /\ m.cid = cid /\ m.arg = arg
    BY <2>1, MsgIsPacket
  <2> HIDE DEF w, m, id
  <2>4. /\ x \in PeerChannel
        /\ x.st = upd.st /\ x.psm = upd.psm /\ x.dcid = upd.dcid /\ x.wait = w
    BY <2>1 DEF PeerChannel
  <2> HIDE DEF x
  <2> QED
    BY <2>1, <2>2, <2>3, <2>4
<1>4. /\ UNCHANGED server /\ events' = events /\ toPeer' = toPeer
      /\ peerSent' = peerSent + 1 /\ Len(aclIn) < aclInLeft
  BY DEF PeerSends
<1>5. /\ Flags' /\ Numbers' /\ MapTyped' /\ Counters'
      /\ UNCHANGED <<next_destination_channel_id, channel_map, aclInLeft, flying>>
  <2>1. events' \in Nat
    BY <1>1, <1>4 DEF Numbers
  <2> QED
    BY <1>1, <1>4, <2>1, ServerUntouched
<1>6. DenseMap' /\ NoRequestFlying'
  BY <1>1, <1>5 DEF DenseMap, NoRequestFlying
<1>7. /\ aclIn' \in Seq(Packet) /\ Len(aclIn') = Len(aclIn) + 1
      /\ DOMAIN aclIn' = 1..(Len(aclIn) + 1) /\ DOMAIN aclIn = 1..Len(aclIn)
      /\ Len(aclIn) \in Nat
      /\ \A i \in DOMAIN aclIn : (aclIn')[i] = aclIn[i]
      /\ (aclIn')[Len(aclIn) + 1] = m
  BY <1>1, <1>3, QueueAppend DEF Queues
<1>8. Queues' /\ ClientTyped'
  <2>1. Queues'
    BY <1>1, <1>4, <1>5, <1>7 DEF Queues
  <2>2. ClientTyped'
    BY <1>1, <1>2, <1>3, <1>4 DEF ClientTyped
  <2> QED
    BY <2>1, <2>2
<1>9. /\ peer \in [PeerCids -> PeerChannel] /\ (peer')[c] = x
      /\ \A d \in PeerCids : d # c => (peer')[d] = peer[d]
  BY <1>1, <1>3 DEF ClientTyped
<1>10. GrantedCidRoutes'
  <2> SUFFICES ASSUME NEW d \in PeerCids, (peer')[d].st \in {"config", "open", "closing"}
               PROVE  Routed(channel_map, peer', (peer')[d].dcid, d)
    BY <1>5 DEF GrantedCidRoutes, Routed
  <2>1. CASE d # c
    BY <1>1, <1>9, <2>1 DEF GrantedCidRoutes, Routed
  <2>2. CASE d = c
    BY <1>1, <1>3, <1>9, <2>2 DEF GrantedCidRoutes, Routed
  <2> QED
    BY <2>1, <2>2
<1>11. \A n \in 1..peerSent : n \in 1..peerSent' /\ n \notin {0, id}
  BY <1>2, <1>3, <1>4
<1>12. GrantPending'
  <2> SUFFICES ASSUME NEW i \in DOMAIN toPeer, toPeer[i].code = "ConnRsp"
               PROVE  /\ toPeer[i].id \in 1..peerSent' /\ toPeer[i].cid \in PeerCids
                      /\ (peer')[toPeer[i].cid].st = "connecting"
                           /\ (peer')[toPeer[i].cid].wait = toPeer[i].id
                         => Routed(channel_map, peer', toPeer[i].arg, toPeer[i].cid)
    BY <1>4, <1>5 DEF GrantPending, RoutesTo
  <2>1. toPeer[i].id \in 1..peerSent /\ toPeer[i].cid \in PeerCids
    BY <1>1 DEF GrantPending
  <2>2. CASE toPeer[i].cid # c
    BY <1>1, <1>9, <1>11, <2>1, <2>2 DEF GrantPending, RoutesTo, Routed
  <2>3. CASE toPeer[i].cid = c
    BY <1>3, <1>9, <1>11, <2>1, <2>3
  <2> QED
    BY <2>2, <2>3
<1>13. AskedPsm'
  <2> SUFFICES ASSUME NEW i \in DOMAIN aclIn', (aclIn')[i].code = "ConnReq"
               PROVE  /\ (aclIn')[i].id \in 1..peerSent' /\ (aclIn')[i].cid \in PeerCids
                      /\ (peer')[(aclIn')[i].cid].st = "connecting"
                           /\ (peer')[(aclIn')[i].cid].wait = (aclIn')[i].id
                         => (peer')[(aclIn')[i].cid].psm = (aclIn')[i].arg
    BY DEF AskedPsm
  <2>1. CASE i = Len(aclIn) + 1
    <3>1. id \in 1..peerSent'
      BY <1>2, <1>3, <1>4
    <3> QED
      BY <1>3, <1>7, <1>9, <2>1, <3>1
  <2>2. CASE i \in DOMAIN aclIn
    <3>1. (aclIn')[i] = aclIn[i] /\ aclIn[i].id \in 1..peerSent /\ aclIn[i].cid \in PeerCids
      BY <1>1, <1>7, <2>2 DEF AskedPsm
    <3>2. CASE aclIn[i].cid # c
      BY <1>1, <1>9, <1>11, <2>2, <3>1, <3>2 DEF AskedPsm
    <3>3. CASE aclIn[i].cid = c
      BY <1>3, <1>9, <1>11, <3>1, <3>3
    <3> QED
      BY <3>2, <3>3
  <2>3. i = Len(aclIn) + 1 \/ i \in DOMAIN aclIn
    BY <1>7
  <2> QED
    BY <2>1, <2>2, <2>3
<1>14. BoundedIds'
  <2>1. /\ aclInLeft \in Int /\ ACL_IN_BUFFER_COUNT \in Int
        /\ peerSent + aclInLeft <= ACL_IN_BUFFER_COUNT + Len(aclIn)
        /\ next_destination_channel_id + aclInLeft <= ACL_IN_BUFFER_COUNT
    BY <1>1, ConstantsAssumption DEF Counters, BoundedIds
  <2>2. peerSent + 1 + aclInLeft <= ACL_IN_BUFFER_COUNT + (Len(aclIn) + 1)
    BY <1>2, <1>7, <2>1
  <2> QED
    BY <1>2, <1>4, <1>5, <1>7, <2>1, <2>2 DEF BoundedIds
<1> QED
  BY <1>5, <1>6, <1>8, <1>10, <1>12, <1>13, <1>14, TypeParts DEF RouteInv

\* The fields of a channel of the client.
LEMMA ChannelFields ==
  ASSUME ClientTyped, NEW c \in PeerCids
  PROVE  /\ peer[c] \in PeerChannel /\ peer[c].st \in PeerStates
         /\ peer[c].psm \in {0} \cup Services /\ peer[c].dcid \in Words
         /\ peer[c].wait \in Bytes /\ c \in Words
  BY ConstantsAssumption DEF ClientTyped, PeerChannel

LEMMA ClosedIsChannel == Closed \in PeerChannel /\ Closed.st = "closed"
  BY Zero DEF Closed, PeerChannel, PeerStates

LEMMA RequestCodes ==
  {"ConnReq", "ConfReq", "DisconnReq", "InfoReq", "SdpReq", "RfcommCmd", "RfcommData"}
    \subseteq Codes
  BY DEF Codes, ControlCodes, DataCodes

LEMMA ClientKeeps ==
  ASSUME RouteInv, NEW c \in PeerCids,
         \/ \E psm \in Services : PeerConnect(c, psm)
         \/ PeerConfigure(c) \/ PeerRequest(c) \/ PeerDisconnect(c)
         \/ \E type \in InfoTypes : PeerInquire(c, type)
  PROVE  RouteInv'
<1>1. /\ peer[c] \in PeerChannel /\ peer[c].st \in PeerStates
      /\ peer[c].psm \in {0} \cup Services /\ peer[c].dcid \in Words /\ c \in Words
  BY TypeParts, ChannelFields DEF RouteInv
<1>2. 0 \in Words
  BY Zero
<1>3. ASSUME NEW psm \in Services, PeerConnect(c, psm) PROVE RouteInv'
  <2> DEFINE upd == [Closed EXCEPT !.st = "connecting", !.psm = psm]
  <2>1. psm \in Words /\ upd \in PeerChannel /\ upd.st = "connecting" /\ upd.psm = psm
    BY ClosedIsChannel, ConstantsAssumption DEF PeerChannel, PeerStates
  <2>2. PeerSends(c, "ConnReq", c, psm, upd)
    BY <1>3 DEF PeerConnect
  <2> HIDE DEF upd
  <2> QED
    BY <1>1, <2>1, <2>2, RequestCodes, SendingKeeps
<1>4. CASE PeerConfigure(c)
  BY <1>1, <1>2, <1>4, RequestCodes, SendingKeeps DEF PeerConfigure
<1>5. CASE PeerRequest(c)
  <2>1. peer[c].st = "open"
        /\ \E code \in {"SdpReq", "RfcommCmd", "RfcommData"} :
             PeerSends(c, code, peer[c].dcid, 0, peer[c])
    BY <1>5 DEF PeerRequest
  <2> QED
    BY <1>1, <1>2, <2>1, RequestCodes, SendingKeeps
<1>6. CASE PeerDisconnect(c)
  <2> DEFINE upd == [peer[c] EXCEPT !.st = "closing"]
  <2>1. /\ upd \in PeerChannel /\ upd.st = "closing"
        /\ upd.psm = peer[c].psm /\ upd.dcid = peer[c].dcid
    BY <1>1 DEF PeerChannel, PeerStates
  <2>2. PeerSends(c, "DisconnReq", c, peer[c].dcid, upd) /\ peer[c].st \in {"config", "open"}
    BY <1>6 DEF PeerDisconnect
  <2> HIDE DEF upd
  <2> QED
    BY <1>1, <2>1, <2>2, RequestCodes, SendingKeeps
<1>7. ASSUME NEW type \in InfoTypes, PeerInquire(c, type) PROVE RouteInv'
  <2> DEFINE upd == [Closed EXCEPT !.psm = 0]
  <2>1. upd \in PeerChannel /\ upd.st = "closed"
    BY ClosedIsChannel DEF PeerChannel
  <2>2. type \in Words
    <3>1. type \in Bytes
      BY ConstantsAssumption
    <3> QED
      BY <3>1, SmallNumbers
  <2>3. PeerSends(c, "InfoReq", c, type, upd)
    BY <1>7 DEF PeerInquire
  <2> HIDE DEF upd
  <2> QED
    BY <1>1, <2>1, <2>2, <2>3, RequestCodes, SendingKeeps
<1> QED
  BY <1>3, <1>4, <1>5, <1>6, <1>7

\* What a packet from the server does to a channel: it grants an id to one that
\* connects, closes it, or leaves its id, its PSM and its connection alone.
LEMMA ReceivedShape ==
  ASSUME NEW ch \in PeerChannel, NEW p \in Packet
  PROVE  /\ Received(ch, p) \in PeerChannel
         /\ \/ /\ p.code = "ConnRsp" /\ ch.st = "connecting" /\ p.id = ch.wait
               /\ Received(ch, p).st = "config" /\ Received(ch, p).dcid = p.arg
               /\ Received(ch, p).psm = ch.psm
            \/ Received(ch, p).st = "closed"
            \/ /\ Received(ch, p).psm = ch.psm /\ Received(ch, p).dcid = ch.dcid
               /\ ch.st = Received(ch, p).st
               /\ Received(ch, p).wait \in {0, ch.wait}
            \/ /\ Received(ch, p).psm = ch.psm /\ Received(ch, p).dcid = ch.dcid
               /\ ch.st = "config" /\ Received(ch, p).st \in {"config", "open"}
<1>1. /\ p.code \in Codes /\ p.id \in Bytes /\ p.arg \in Words /\ 0 \in Bytes
      /\ "config" \in PeerStates /\ "open" \in PeerStates
  BY PacketFields, Zero DEF PeerStates
<1>2. ASSUME NEW x \in PeerChannel, x.st = "config"
      PROVE  /\ Settled(x) \in PeerChannel /\ Settled(x).st \in {"config", "open"}
             /\ Settled(x).psm = x.psm /\ Settled(x).dcid = x.dcid
  BY <1>1, <1>2 DEF Settled, PeerChannel
<1>3. CASE p.code = "ConnRsp" /\ ch.st = "connecting" /\ p.id = ch.wait
  <2>1. Received(ch, p) = [ch EXCEPT !.st = "config", !.dcid = p.arg, !.wait = 0]
    BY <1>3 DEF Received
  <2> QED
    BY <1>1, <1>3, <2>1 DEF PeerChannel
<1>4. CASE p.code = "ConfReq" /\ ch.st = "config"
  <2> DEFINE x == [ch EXCEPT !.in = TRUE]
  <2>1. Received(ch, p) = Settled(x)
    BY <1>4 DEF Received
  <2>2. x \in PeerChannel /\ x.st = "config" /\ x.psm = ch.psm /\ x.dcid = ch.dcid
    BY <1>4 DEF PeerChannel
  <2> HIDE DEF x
  <2> QED
    BY <1>2, <1>4, <2>1, <2>2
<1>5. CASE p.code = "ConfRsp" /\ ch.st = "config" /\ p.id = ch.wait
  <2> DEFINE x == [ch EXCEPT !.out = TRUE, !.wait = 0]
  <2>1. Received(ch, p) = Settled(x)
    BY <1>5 DEF Received
  <2>2. x \in PeerChannel /\ x.st = "config" /\ x.psm = ch.psm /\ x.dcid = ch.dcid
    BY <1>1, <1>5 DEF PeerChannel
  <2> HIDE DEF x
  <2> QED
    BY <1>2, <1>5, <2>1, <2>2
<1>6. CASE p.code = "DisconnRsp" /\ ch.st = "closing" /\ p.id = ch.wait
  <2>1. Received(ch, p) = Closed
    BY <1>6 DEF Received
  <2> QED
    BY <2>1, ClosedIsChannel
<1>7. CASE p.code \in {"SdpRsp", "RfcommReply", "InfoRsp"} /\ p.id = ch.wait
  <2>1. Received(ch, p) = [ch EXCEPT !.wait = 0]
    BY <1>7 DEF Received
  <2> QED
    BY <1>1, <2>1 DEF PeerChannel
<1>8. CASE /\ ~(p.code = "ConnRsp" /\ ch.st = "connecting" /\ p.id = ch.wait)
           /\ ~(p.code = "ConfReq" /\ ch.st = "config")
           /\ ~(p.code = "ConfRsp" /\ ch.st = "config" /\ p.id = ch.wait)
           /\ ~(p.code = "DisconnRsp" /\ ch.st = "closing" /\ p.id = ch.wait)
           /\ ~(p.code \in {"SdpRsp", "RfcommReply", "InfoRsp"} /\ p.id = ch.wait)
  <2>1. Received(ch, p) = ch
    BY <1>8 DEF Received
  <2> QED
    BY <2>1
<1> QED
  BY <1>3, <1>4, <1>5, <1>6, <1>7, <1>8

\* The client answers configure requests, with no request of its own.
LEMMA AnswerShape ==
  ASSUME Queues, NEW p \in Packet
  PROVE  \/ PeerAnswer(p) = aclIn
         \/ \E m \in Packet : m.code # "ConnReq" /\ PeerAnswer(p) = Append(aclIn, m)
<1>1. p.id \in Bytes /\ p.cid \in Words /\ 0 \in Words
  BY PacketFields, Zero
<1>2. "ConfRsp" \in Codes /\ "CmdReject" \in Codes
  BY DEF Codes, ControlCodes
<1>3. /\ Msg("ConfRsp", p.id, p.cid, 0) \in Packet
      /\ Msg("ConfRsp", p.id, p.cid, 0).code = "ConfRsp"
      /\ Msg("CmdReject", p.id, 0, 0) \in Packet
      /\ Msg("CmdReject", p.id, 0, 0).code = "CmdReject"
  BY <1>1, <1>2, MsgIsPacket
<1> QED
  BY <1>3 DEF PeerAnswer

LEMMA ReceivesKeeps == RouteInv /\ PeerReceives => RouteInv'
<1> SUFFICES ASSUME RouteInv, PeerReceives PROVE RouteInv'
  OBVIOUS
<1>1. /\ Flags /\ Numbers /\ MapTyped /\ Counters /\ Queues /\ ClientTyped
      /\ GrantedCidRoutes /\ BoundedIds /\ DenseMap /\ AskedPsm /\ GrantPending
      /\ NoRequestFlying
  BY TypeParts DEF RouteInv
<1>2. /\ toPeer # << >> /\ toPeer' = Tail(toPeer) /\ UNCHANGED <<server, peerSent, asked>>
  BY DEF PeerReceives
<1>3. PICK p \in Packet :
        /\ p = toPeer[1] /\ 1 \in DOMAIN toPeer
        /\ peer' = IF p.cid \in PeerCids
                   THEN [peer EXCEPT ![p.cid] = Received(peer[p.cid], p)] ELSE peer
        /\ aclIn' = PeerAnswer(p)
  BY <1>1, <1>2, QueueTail DEF PeerReceives, Queues
<1>4. /\ Flags' /\ Numbers' /\ MapTyped' /\ Counters'
      /\ UNCHANGED <<next_destination_channel_id, channel_map, aclInLeft, flying>>
  <2>1. events' \in Nat
    BY <1>1 DEF PeerReceives, Numbers
  <2> QED
    BY <1>1, <1>2, <2>1, ServerUntouched
<1>5. DenseMap' /\ NoRequestFlying'
  BY <1>1, <1>4 DEF DenseMap, NoRequestFlying
<1>6. /\ peer \in [PeerCids -> PeerChannel] /\ peer' \in [PeerCids -> PeerChannel]
      /\ \A d \in PeerCids : d # p.cid => (peer')[d] = peer[d]
      /\ p.cid \in PeerCids => (peer')[p.cid] = Received(peer[p.cid], p)
  <2>1. peer \in [PeerCids -> PeerChannel]
    BY <1>1 DEF ClientTyped
  <2>2. p.cid \in PeerCids => Received(peer[p.cid], p) \in PeerChannel
    BY <2>1, ReceivedShape
  <2> QED
    BY <1>3, <2>1, <2>2
<1>7. \A d \in PeerCids :
        \/ /\ d = p.cid /\ p.code = "ConnRsp"
           /\ peer[d].st = "connecting" /\ p.id = peer[d].wait
           /\ (peer')[d].st = "config" /\ (peer')[d].dcid = p.arg
           /\ (peer')[d].psm = peer[d].psm
        \/ (peer')[d].st = "closed"
        \/ /\ (peer')[d].psm = peer[d].psm /\ (peer')[d].dcid = peer[d].dcid
           /\ peer[d].st = (peer')[d].st /\ (peer')[d].wait \in {0, peer[d].wait}
        \/ /\ (peer')[d].psm = peer[d].psm /\ (peer')[d].dcid = peer[d].dcid
           /\ peer[d].st = "config" /\ (peer')[d].st \in {"config", "open"}
  <2> TAKE d \in PeerCids
  <2>1. CASE d # p.cid
    BY <1>6, <2>1
  <2>2. CASE d = p.cid
    <3>1. peer[d] \in PeerChannel /\ (peer')[d] = Received(peer[d], p)
      BY <1>6, <2>2
    <3> QED
      BY <2>2, <3>1, ReceivedShape
  <2> QED
    BY <2>1, <2>2
<1>8. /\ toPeer' \in Seq(Packet)
      /\ \A i \in DOMAIN toPeer' : i + 1 \in DOMAIN toPeer /\ (toPeer')[i] = toPeer[i + 1]
  BY <1>1, <1>2, QueueTail DEF Queues
<1>9. /\ aclIn' \in Seq(Packet) /\ Len(aclIn) <= Len(aclIn')
      /\ Len(aclIn) \in Int /\ Len(aclIn') \in Int
      /\ \A i \in DOMAIN aclIn' :
           (aclIn')[i].code = "ConnReq" => i \in DOMAIN aclIn /\ (aclIn')[i] = aclIn[i]
  <2>1. aclIn \in Seq(Packet)
    BY <1>1 DEF Queues
  <2>2. CASE aclIn' = aclIn
    BY <2>1, <2>2
  <2>3. ASSUME NEW m \in Packet, m.code # "ConnReq", aclIn' = Append(aclIn, m)
        PROVE  /\ aclIn' \in Seq(Packet) /\ Len(aclIn) <= Len(aclIn')
               /\ Len(aclIn) \in Int /\ Len(aclIn') \in Int
               /\ \A i \in DOMAIN aclIn' :
                    (aclIn')[i].code = "ConnReq" => i \in DOMAIN aclIn /\ (aclIn')[i] = aclIn[i]
    <3>1. /\ aclIn' \in Seq(Packet) /\ Len(aclIn') = Len(aclIn) + 1
          /\ DOMAIN aclIn' = 1..(Len(aclIn) + 1) /\ DOMAIN aclIn = 1..Len(aclIn)
          /\ \A i \in DOMAIN aclIn : (aclIn')[i] = aclIn[i]
          /\ (aclIn')[Len(aclIn) + 1] = m /\ Len(aclIn) \in Nat
      BY <2>1, <2>3, QueueAppend
    <3>2. ASSUME NEW i \in DOMAIN aclIn', (aclIn')[i].code = "ConnReq"
          PROVE  i \in DOMAIN aclIn /\ (aclIn')[i] = aclIn[i]
      <4>1. i # Len(aclIn) + 1
        BY <2>3, <3>1, <3>2
      <4> QED
        BY <3>1, <4>1
    <3> QED
      BY <3>1, <3>2
  <2> QED
    BY <1>1, <1>3, <2>2, <2>3, AnswerShape
<1>10. Queues' /\ ClientTyped'
  BY <1>1, <1>2, <1>4, <1>6, <1>8, <1>9 DEF Queues, ClientTyped
<1>11. GrantedCidRoutes'
  <2> SUFFICES ASSUME NEW d \in PeerCids, (peer')[d].st \in {"config", "open", "closing"}
               PROVE  Routed(channel_map, peer', (peer')[d].dcid, d)
    BY <1>4 DEF GrantedCidRoutes, Routed
  <2>1. CASE /\ d = p.cid /\ p.code = "ConnRsp"
             /\ peer[d].st = "connecting" /\ p.id = peer[d].wait
             /\ (peer')[d].dcid = p.arg /\ (peer')[d].psm = peer[d].psm
    <3>1. Routed(channel_map, peer, p.arg, d)
      BY <1>1, <1>3, <2>1 DEF GrantPending, RoutesTo
    <3> QED
      BY <2>1, <3>1 DEF Routed
  <2>2. CASE /\ (peer')[d].psm = peer[d].psm /\ (peer')[d].dcid = peer[d].dcid
             /\ peer[d].st \in {"config", "open", "closing"}
    BY <1>1, <2>2 DEF GrantedCidRoutes, Routed
  <2> QED
    BY <1>7, <2>1, <2>2
<1>12. ASSUME NEW d \in PeerCids, (peer')[d].st = "connecting",
              NEW id \in 1..peerSent, (peer')[d].wait = id
       PROVE  /\ peer[d].st = "connecting" /\ peer[d].wait = id
              /\ (peer')[d].psm = peer[d].psm
  <2>1. id # 0
    BY <1>1 DEF ClientTyped
  <2> QED
    BY <1>7, <1>12, <2>1
<1>13. AskedPsm'
  <2> SUFFICES ASSUME NEW i \in DOMAIN aclIn, aclIn[i].code = "ConnReq"
               PROVE  /\ aclIn[i].id \in 1..peerSent /\ aclIn[i].cid \in PeerCids
                      /\ (peer')[aclIn[i].cid].st = "connecting"
                           /\ (peer')[aclIn[i].cid].wait = aclIn[i].id
                         => (peer')[aclIn[i].cid].psm = aclIn[i].arg
    BY <1>2, <1>9 DEF AskedPsm
  <2> QED
    BY <1>1, <1>12 DEF AskedPsm
<1>14. GrantPending'
  <2> SUFFICES ASSUME NEW i \in DOMAIN toPeer, toPeer[i].code = "ConnRsp"
               PROVE  /\ toPeer[i].id \in 1..peerSent /\ toPeer[i].cid \in PeerCids
                      /\ (peer')[toPeer[i].cid].st = "connecting"
                           /\ (peer')[toPeer[i].cid].wait = toPeer[i].id
                         => Routed(channel_map, peer', toPeer[i].arg, toPeer[i].cid)
    BY <1>2, <1>4, <1>8 DEF GrantPending, RoutesTo
  <2>1. toPeer[i].id \in 1..peerSent /\ toPeer[i].cid \in PeerCids
    BY <1>1 DEF GrantPending
  <2> QED
    BY <1>1, <1>12, <2>1 DEF GrantPending, RoutesTo, Routed
<1>15. BoundedIds'
  <2>1. /\ aclInLeft \in Int /\ ACL_IN_BUFFER_COUNT \in Int /\ peerSent \in Int
        /\ next_destination_channel_id + aclInLeft <= ACL_IN_BUFFER_COUNT
        /\ peerSent <= ACL_IN_BUFFER_COUNT
        /\ peerSent + aclInLeft <= ACL_IN_BUFFER_COUNT + Len(aclIn)
    BY <1>1, ConstantsAssumption DEF Counters, BoundedIds, ClientTyped
  <2>2. peerSent + aclInLeft <= ACL_IN_BUFFER_COUNT + Len(aclIn')
    BY <1>9, <2>1
  <2> QED
    BY <1>2, <1>4, <2>1, <2>2 DEF BoundedIds
<1> QED
  BY <1>4, <1>5, <1>10, <1>11, <1>13, <1>14, <1>15, TypeParts DEF RouteInv

\* An event of the controller's own only waits to be read.
LEMMA ControllerKeeps == RouteInv /\ ControllerEvent => RouteInv'
<1> SUFFICES ASSUME RouteInv, ControllerEvent PROVE RouteInv'
  OBVIOUS
<1>1. /\ Flags /\ Numbers /\ MapTyped /\ Counters /\ Queues /\ NoRequestFlying
  BY TypeParts DEF RouteInv
<1>2. UNCHANGED server /\ UNCHANGED <<client, aclIn, toPeer>> /\ events' \in Nat
  BY <1>1 DEF ControllerEvent, Numbers
<1>3. /\ Flags' /\ Numbers' /\ Counters'
      /\ UNCHANGED <<next_destination_channel_id, channel_map, aclInLeft, flying>>
  BY <1>1, <1>2, ServerUntouched
<1>4. Outgoing(flying) /\ flying \in Seq(Packet) /\ \A i \in DOMAIN flying : flying[i].code # "ConnReq"
  BY <1>1, <1>2, <1>3 DEF Outgoing, Queues, NoRequestFlying
<1>5. UNCHANGED <<channels, peer, peerSent, aclIn>> /\ aclInLeft' <= aclInLeft
  <2>1. aclInLeft \in Int
    BY <1>1, ConstantsAssumption DEF Counters
  <2> QED
    BY <1>2, <1>3, <2>1 DEF channels, client
<1> QED
  BY <1>3, <1>4, <1>5, OthersKeep

-----------------------------------------------------------------------------
(* The theorems.                                                           *)

LEMMA RouteInvInitially == Init => RouteInv
<1> SUFFICES ASSUME Init PROVE RouteInv
  OBVIOUS
<1>1. /\ 0 \in Bytes /\ 0 \in Words /\ ACL_IN_BUFFER_COUNT \in Nat /\ EVENT_IN_BUFFER_COUNT \in Nat
      /\ ACL_IN_BUFFER_COUNT \in Int
  BY Zero, ConstantsAssumption
<1>2. Flags /\ Numbers
  BY <1>1 DEF Init, Flags, Numbers
<1>3. MapTyped /\ Counters /\ Queues
  BY <1>1 DEF Init, MapTyped, Counters, Queues
<1>4. ClientTyped /\ GrantedCidRoutes
  BY <1>1, ClosedIsChannel DEF Init, ClientTyped, GrantedCidRoutes
<1>5. BoundedIds /\ DenseMap
  BY <1>1 DEF Init, BoundedIds, DenseMap, CidBase
<1>6. AskedPsm /\ GrantPending /\ NoRequestFlying
  BY DEF Init, AskedPsm, GrantPending, NoRequestFlying
<1> QED
  BY <1>2, <1>3, <1>4, <1>5, <1>6, TypeParts DEF RouteInv

LEMMA RouteInvStep == RouteInv /\ [Next]_vars => RouteInv'
<1> SUFFICES ASSUME RouteInv, [Next]_vars PROVE RouteInv'
  OBVIOUS
<1>1. CASE Program
  BY <1>1, AclInKeeps, AclInFailedKeeps, AclOutKeeps, AsyncKeeps DEF Program
<1>2. CASE Environment
  BY <1>2, ClientKeeps, ReceivesKeeps, ControllerKeeps DEF Environment
<1>3. CASE UNCHANGED vars
  <2>1. Flags /\ Numbers /\ Counters /\ Queues /\ NoRequestFlying
    BY TypeParts DEF RouteInv
  <2>2. UNCHANGED <<config, channels, l2cap, outgoing, client, authentication_request, up,
                    aclInLeft, eventInLeft, commandOut, aclIn, events>>
    BY <1>3 DEF vars
  <2>3. Flags' /\ Numbers' /\ Counters'
    BY <2>1, <2>2 DEF Flags, Numbers, Counters, config, l2cap, outgoing
  <2>4. Outgoing(flying) /\ flying \in Seq(Packet) /\ \A i \in DOMAIN flying : flying[i].code # "ConnReq"
    BY <2>1, <2>2 DEF Outgoing, Queues, NoRequestFlying, outgoing
  <2>5. UNCHANGED <<channels, peer, peerSent, aclIn>> /\ aclInLeft' <= aclInLeft
    <3>1. aclInLeft \in Int
      BY <2>1, ConstantsAssumption DEF Counters
    <3> QED
      BY <2>2, <3>1 DEF client
  <2> QED
    BY <2>3, <2>4, <2>5, OthersKeep
<1> QED
  BY <1>1, <1>2, <1>3 DEF Next

\* Every variable of the L2CAP layer keeps its type, whatever the client sends,
\* whatever fails and whatever a completed outgoing buffer reads as.
THEOREM L2capTyped == Spec => []TypeOK
<1>1. RouteInv => TypeOK
  BY DEF RouteInv
<1> QED
  BY <1>1, RouteInvInitially, RouteInvStep, PTL DEF Spec

\* The id a client gets in a connection response leads to the entry that was
\* made for its channel, as long as the client uses the channel: the counter,
\* the insert and the one-byte field of the response in process_control agree.
THEOREM GrantedIdsRoute == Spec => []GrantedCidRoutes
<1>1. RouteInv => GrantedCidRoutes
  BY DEF RouteInv
<1> QED
  BY <1>1, RouteInvInitially, RouteInvStep, PTL DEF Spec

\* Only a connection request touches channel_map, and it meets a new id.
LEMMA MapKept == RouteInv /\ [Next]_vars => MapGrows
<1> SUFFICES ASSUME RouteInv, [Next]_vars PROVE MapGrows
  OBVIOUS
<1>1. /\ Flags /\ Numbers /\ MapTyped /\ Counters /\ Queues /\ BoundedIds /\ DenseMap
      /\ NoRequestFlying
  BY TypeParts DEF RouteInv
<1>2. CASE UNCHANGED channels
  BY <1>2 DEF channels, MapGrows
<1>3. CASE AclInCompleted
  <2>1. /\ aclIn # << >> /\ aclInLeft > 0 /\ async_acl_callback(Head(aclIn), flying)
    BY <1>3 DEF AclInCompleted
  <2>2. Head(aclIn) \in Packet
    BY <1>1, <2>1, QueueTail DEF Queues
  <2>3. CASE Head(aclIn).code # "ConnReq"
    BY <1>1, <1>2, <2>1, <2>2, <2>3, Handled
  <2>4. CASE Head(aclIn).code = "ConnReq"
    <3>1. /\ next_destination_channel_id \in Int /\ aclInLeft \in Int
          /\ ACL_IN_BUFFER_COUNT \in Int /\ ACL_IN_BUFFER_COUNT <= 190
          /\ next_destination_channel_id + aclInLeft <= ACL_IN_BUFFER_COUNT
      BY <1>1, SmallNumbers, ConstantsAssumption DEF MapTyped, Counters, BoundedIds
    <3>2. next_destination_channel_id <= 189
      BY <2>1, <3>1
    <3> QED
      BY <1>1, <2>1, <2>2, <2>4, <3>2, HandledConn DEF MapGrows
  <2> QED
    BY <2>3, <2>4
<1>4. CASE AclOutCompleted
  <2>1. /\ flying # << >>
        /\ \/ async_acl_callback(Head(flying), Tail(flying))
           \/ async_acl_callback(Msg("Fill", FillByte, 0, 0), Tail(flying))
           \/ UnchangedByData
    BY <1>4 DEF AclOutCompleted
  <2>2. Head(flying) \in Packet /\ Head(flying).code # "ConnReq"
    BY <1>1, <2>1, QueueTail DEF Queues, NoRequestFlying
  <2> DEFINE m == Msg("Fill", FillByte, 0, 0)
  <2>3. m \in Packet /\ m.code # "ConnReq"
    <3>1. "Fill" \in Codes /\ "Fill" # "ConnReq" /\ FillByte \in Bytes
      BY SmallNumbers DEF Codes, ControlCodes, FillByte
    <3> QED
      BY <3>1, Zero, MsgIsPacket
  <2> HIDE DEF m
  <2>4. \/ async_acl_callback(Head(flying), Tail(flying))
        \/ async_acl_callback(m, Tail(flying))
        \/ UnchangedByData
    BY <2>1 DEF m
  <2>5. UNCHANGED channels
    BY <1>1, <2>2, <2>3, <2>4, Handled DEF UnchangedByData
  <2> QED
    BY <1>2, <2>5
<1>5. CASE AclInFailed
  BY <1>2, <1>5 DEF AclInFailed, UnchangedByData
<1>6. CASE EventInCompleted \/ CommandOutCompleted
  BY <1>2, <1>6 DEF EventInCompleted, CommandOutCompleted, async_callback
<1>7. CASE Environment
  <2>1. UNCHANGED server
    BY <1>7 DEF Environment, PeerConnect, PeerConfigure, PeerRequest, PeerDisconnect,
                PeerInquire, PeerSends, PeerReceives, ControllerEvent
  <2> QED
    BY <1>2, <2>1 DEF server
<1>8. CASE UNCHANGED vars
  BY <1>2, <1>8 DEF vars
<1> QED
  BY <1>3, <1>4, <1>5, <1>6, <1>7, <1>8 DEF Next, Program

\* An id that was handed out leads to the same pair for the rest of the run.
THEOREM IdsNeverRebound == Spec => CidsNeverRebound
<1>1. RouteInv /\ [Next]_vars =>
        [\A d \in DOMAIN channel_map :
           d \in DOMAIN channel_map' /\ channel_map'[d] = channel_map[d]]_vars
  BY MapKept DEF MapGrows
<1> QED
  BY <1>1, RouteInvInitially, RouteInvStep, PTL DEF Spec, CidsNeverRebound
=============================================================================
