-------------------------- MODULE L2capProperties --------------------------
(***************************************************************************)
(* The correctness properties of L2capSignalling.  Which of them hold      *)
(* always, which only for a client that uses one channel at a time, and    *)
(* which not at all is what the configurations of MCL2cap show.            *)
(***************************************************************************)
EXTENDS L2capSignalling

\* The type invariant of every variable of the program and its environment.
TypeOK ==
  /\ next_destination_channel_id \in Words
  /\ DOMAIN channel_map \subseteq Words
  /\ channel_map \in [DOMAIN channel_map -> ChannelPair]
  /\ authentication_request \in BOOLEAN
  /\ mtu_config_request_received \in BOOLEAN
  /\ mtu_config_request_command_identifier \in Bytes
  /\ mtu_config_request_sent \in BOOLEAN
  /\ l2cap_source_cid \in Words
  /\ l2cap_command_identifier \in Bytes
  /\ up \in BOOLEAN
  /\ aclInLeft \in 0..ACL_IN_BUFFER_COUNT
  /\ eventInLeft \in 0..EVENT_IN_BUFFER_COUNT
  /\ commandOut \in BOOLEAN
  /\ failures \in Nat
  /\ flying \in Seq(Packet) /\ aclIn \in Seq(Packet) /\ toPeer \in Seq(Packet)
  /\ events \in Nat
  /\ peer \in [PeerCids -> PeerChannel]
  /\ peerSent \in Nat

\* The id the client was given for a channel leads to the entry of channel_map
\* that holds the client's id and the PSM it asked for, from the moment the
\* connection response reaches it and for as long as it uses the channel:
\* process_control's counter, the insert and the one-byte id in the response
\* have to agree, also after other channels came and went.
GrantedCidRoutes ==
  \A c \in PeerCids :
    peer[c].st \in {"config", "open", "closing"} =>
      /\ peer[c].dcid \in DOMAIN channel_map
      /\ channel_map[peer[c].dcid].source_cid = c
      /\ channel_map[peer[c].dcid].psm = peer[c].psm

\* An id that was handed out once keeps its pair for the rest of the run, so a
\* packet that was delayed past the end of its channel is never parsed as the
\* protocol of a later channel (async_acl_callback looks up the id only).
CidsNeverRebound ==
  [][\A d \in DOMAIN channel_map :
       d \in DOMAIN channel_map' /\ channel_map'[d] = channel_map[d]]_vars

\* Every response the server sends answers one request, on the client's channel
\* the request came from and with its identifier, and answers it once.
Service == INSTANCE RequestService
AnswersMatchRequests == Service!Spec

\* The part of it that two channels open at the same time break: a search is
\* answered on the channel that asked (process_sdp answers through its globals).
SdpRepliesBelong ==
  \A i \in DOMAIN answers : answers[i].code = "SdpRsp" => answers[i] \in asked

\* The client never sees its configure request accepted before it has seen the
\* server's: async_callback keeps the order request, response over two events.
ServerConfiguresFirst == \A c \in PeerCids : peer[c].out => peer[c].in

\* A channel that enters the configuration phase leaves it, unless the program
\* has ended or one of its pools of inbound transfers is used up.
ConfigurationEnds ==
  \A c \in PeerCids :
    peer[c].st = "config" ~>
      (peer[c].st # "config" \/ ~up \/ aclInLeft = 0 \/ eventInLeft = 0)
=============================================================================
