------------------------ MODULE L2capAnswers_proofs ------------------------
(***************************************************************************)
(* A client that uses one channel at a time gets the answers it asked for: *)
(* each response of process_control, process_sdp, process_rfcomm and of    *)
(* the deferred half of the configuration is the one its request called    *)
(* for, on the client's channel, once; and the server configures first.    *)
(*                                                                         *)
(* The answers are addressed from globals, so the invariant follows what   *)
(* is outstanding.  There is one thing at most, and it is in one place: a  *)
(* request not read yet, the handshake remembered in the mtu_ globals, or  *)
(* a response on its way.  While it is, its channel waits for it and       *)
(* l2cap_source_cid names that channel.                                    *)
(***************************************************************************)
EXTENDS L2cap_proofs, FiniteSetTheorems

\* The client of the README: one channel at a time, from connection to disconnection,
\* and outgoing buffers that do not read as packets when they complete.
Sequential ==
  /\ MaxOpen = 1 /\ ~PeerGivesUp /\ InfoTypes = {} /\ Readings \subseteq {"other"}

-----------------------------------------------------------------------------
(* The invariant.                                                          *)

Stage == [ConnRsp |-> "connecting", ConfRsp |-> "config", DisconnRsp |-> "closing",
          SdpRsp |-> "open", RfcommReply |-> "open"]
Answered(m) == \E k \in DOMAIN answers : answers[k] = m

\* Channel c waits for a response of this kind; the response has not been given.
Waits(code, id, c) ==
  code \in DOMAIN Stage /\ c \in PeerCids /\ peer[c].st = Stage[code] /\ peer[c].wait = id
Due(code, id, c) ==
  /\ Waits(code, id, c)
  /\ Msg(code, id, c, 0) \in asked /\ ~Answered(Msg(code, id, c, 0))

RequestsIn == {i \in DOMAIN aclIn : aclIn[i].code \in Requests}
RepliesOut == {i \in DOMAIN toPeer : toPeer[i].code \in Replies}
OffersOut == {i \in DOMAIN toPeer : toPeer[i].code = "ConfReq"}
Handshake == mtu_config_request_received \/ mtu_config_request_sent

OneChannel ==
  \A c, d \in PeerCids : peer[c].st # "closed" /\ peer[d].st # "closed" => c = d

\* The server's global names the channel from the answer to its connection request on.
SourceFollows ==
  \A c \in PeerCids : peer[c].st \in {"config", "open", "closing"} => l2cap_source_cid = c

Addressed(p, c) ==
  /\ p.code \in {"ConnReq", "DisconnReq"} => p.cid = c
  /\ p.code = "RfcommCmd" => p.cid = peer[c].dcid

Known == \A i \in DOMAIN aclIn :
           aclIn[i].code \in Requests \cup {"RfcommData", "ConfRsp", "CmdReject"}

RequestsDue ==
  \A i \in RequestsIn :
    \E c \in PeerCids : Due(ReplyTo[aclIn[i].code], aclIn[i].id, c) /\ Addressed(aclIn[i], c)

HandshakeDue ==
  /\ Handshake => \E c \in PeerCids : Due("ConfRsp", mtu_config_request_command_identifier, c)
  /\ ~(mtu_config_request_received /\ mtu_config_request_sent)

RepliesAwaited ==
  \A i \in RepliesOut :
    /\ Waits(toPeer[i].code, toPeer[i].id, toPeer[i].cid)
    /\ toPeer[i].id \in 1..peerSent /\ toPeer[i].cid = l2cap_source_cid

\* What is outstanding is in one place.
OnePlace ==
  /\ \A i, j \in RequestsIn : i = j
  /\ \A i, j \in RepliesOut : i = j
  /\ RequestsIn # {} => RepliesOut = {} /\ ~Handshake
  /\ RepliesOut # {} => ~Handshake

Books ==
  /\ \A m \in asked : m.id \in 1..peerSent
  /\ answers \in Seq(asked)

\* The server's own configure request: not sent yet, or before place i of the queue.
NotYetOffered ==
  OffersOut = {} /\ \A c \in PeerCids : peer[c].st = "config" => ~peer[c].in
Offered(i) ==
  \/ \E j \in OffersOut : j < i
  \/ \A c \in PeerCids : peer[c].st = "config" => peer[c].in

ChannelOrder ==
  \A c \in PeerCids :
    /\ peer[c].out => peer[c].in
    /\ peer[c].st = "config" => ~peer[c].out
    /\ peer[c].st \in {"closed", "connecting"} => ~peer[c].in /\ ~peer[c].out
    /\ peer[c].st = "config" /\ peer[c].wait = 0 => NotYetOffered

OffersAwaited ==
  /\ \A i \in OffersOut :
       /\ toPeer[i].cid \in PeerCids /\ toPeer[i].cid = l2cap_source_cid
       /\ peer[toPeer[i].cid].st = "config" /\ ~peer[toPeer[i].cid].in
  /\ \A i, j \in OffersOut : i = j

OfferFirst ==
  /\ \A i \in RequestsIn : aclIn[i].code = "ConfReq" => NotYetOffered
  /\ mtu_config_request_received => NotYetOffered
  /\ mtu_config_request_sent => Offered(Len(toPeer) + 1)
  /\ \A i \in RepliesOut : toPeer[i].code = "ConfRsp" => Offered(i)

AnswerInv ==
  /\ OneChannel /\ SourceFollows /\ Known /\ RequestsDue /\ HandshakeDue /\ RepliesAwaited
  /\ OnePlace /\ Books /\ ChannelOrder /\ OffersAwaited /\ OfferFirst

-----------------------------------------------------------------------------
(* The tables, and the parts of a message.                                 *)

LEMMA RequestTable ==
  /\ Requests = {"ConnReq", "ConfReq", "DisconnReq", "InfoReq", "SdpReq", "RfcommCmd"}
  /\ ReplyTo["ConnReq"] = "ConnRsp" /\ ReplyTo["ConfReq"] = "ConfRsp"
  /\ ReplyTo["DisconnReq"] = "DisconnRsp" /\ ReplyTo["InfoReq"] = "InfoRsp"
  /\ ReplyTo["SdpReq"] = "SdpRsp" /\ ReplyTo["RfcommCmd"] = "RfcommReply"
  BY DEF Requests, ReplyTo

LEMMA ReplyTable ==
  Replies = {"ConnRsp", "ConfRsp", "DisconnRsp", "InfoRsp", "SdpRsp", "RfcommReply"}
  BY RequestTable DEF Replies

LEMMA StageTable ==
  /\ DOMAIN Stage = {"ConnRsp", "ConfRsp", "DisconnRsp", "SdpRsp", "RfcommReply"}
  /\ Stage["ConnRsp"] = "connecting" /\ Stage["ConfRsp"] = "config"
  /\ Stage["DisconnRsp"] = "closing" /\ Stage["SdpRsp"] = "open"
  /\ Stage["RfcommReply"] = "open"
  BY DEF Stage

LEMMA MsgParts ==
  ASSUME NEW code, NEW id, NEW cid, NEW arg
  PROVE  /\ Msg(code, id, cid, arg).code = code /\ Msg(code, id, cid, arg).id = id
         /\ Msg(code, id, cid, arg).cid = cid /\ Msg(code, id, cid, arg).arg = arg
  BY DEF Msg

\* Who waits is on a channel in use, for a response with an identifier of its own.
LEMMA WaitsOpen ==
  ASSUME NEW code, NEW id, NEW c, Waits(code, id, c)
  PROVE  c \in PeerCids /\ peer[c].st # "closed" /\ peer[c].wait = id
         /\ code \in DOMAIN Stage /\ peer[c].st = Stage[code]
  BY StageTable DEF Waits

LEMMA DueOpen ==
  ASSUME AnswerInv, NEW code, NEW id, NEW c, Due(code, id, c)
  PROVE  /\ c \in PeerCids /\ peer[c].st # "closed" /\ peer[c].wait = id
         /\ code \in DOMAIN Stage /\ peer[c].st = Stage[code]
         /\ id \in 1..peerSent
         /\ Msg(code, id, c, 0) \in asked /\ ~Answered(Msg(code, id, c, 0))
<1>1. Msg(code, id, c, 0) \in asked
  BY DEF Due
<1>2. id \in 1..peerSent
  <2>1. \A m \in asked : m.id \in 1..peerSent
    BY DEF AnswerInv, Books
  <2> QED
    BY <1>1, <2>1, MsgParts
<1> QED
  BY <1>1, <1>2, WaitsOpen DEF Due

\* While no channel waits, nothing is outstanding.
LEMMA NothingOutstanding ==
  ASSUME AnswerInv, \A d \in PeerCids : peer[d].st # "closed" => peer[d].wait = 0
  PROVE  RequestsIn = {} /\ RepliesOut = {} /\ ~Handshake
<1>1. RequestsIn = {}
  <2> SUFFICES ASSUME NEW i \in RequestsIn PROVE FALSE
    OBVIOUS
  <2>1. PICK c \in PeerCids : Due(ReplyTo[aclIn[i].code], aclIn[i].id, c)
    BY DEF AnswerInv, RequestsDue
  <2>2. peer[c].wait \in 1..peerSent /\ peer[c].st # "closed"
    BY <2>1, DueOpen
  <2> QED
    BY <2>2
<1>2. RepliesOut = {}
  <2> SUFFICES ASSUME NEW i \in RepliesOut PROVE FALSE
    OBVIOUS
  <2>1. Waits(toPeer[i].code, toPeer[i].id, toPeer[i].cid) /\ toPeer[i].id \in 1..peerSent
    BY DEF AnswerInv, RepliesAwaited
  <2> QED
    BY <2>1, WaitsOpen
<1>3. ~Handshake
  <2> SUFFICES ASSUME Handshake PROVE FALSE
    OBVIOUS
  <2>1. PICK c \in PeerCids : Due("ConfRsp", mtu_config_request_command_identifier, c)
    BY DEF AnswerInv, HandshakeDue
  <2>2. peer[c].wait \in 1..peerSent /\ peer[c].st # "closed"
    BY <2>1, DueOpen
  <2> QED
    BY <2>2
<1> QED
  BY <1>1, <1>2, <1>3

LEMMA AnswerInvInitially == Init => AnswerInv
<1> SUFFICES ASSUME Init PROVE AnswerInv
  OBVIOUS
<1>1. \A c \in PeerCids : peer[c] = Closed
  BY DEF Init
<1>2. Closed.st = "closed" /\ Closed.in = FALSE /\ Closed.out = FALSE
  BY DEF Closed
<1>3. ~mtu_config_request_received /\ ~mtu_config_request_sent
      /\ DOMAIN aclIn = {} /\ DOMAIN toPeer = {} /\ asked = {} /\ answers = << >>
  BY DEF Init
<1>4. RequestsIn = {} /\ RepliesOut = {} /\ OffersOut = {} /\ ~Handshake
  BY <1>3 DEF RequestsIn, RepliesOut, OffersOut, Handshake
<1>5. OneChannel /\ SourceFollows /\ ChannelOrder
  BY <1>1, <1>2 DEF OneChannel, SourceFollows, ChannelOrder
<1>6. Known /\ RequestsDue /\ HandshakeDue /\ RepliesAwaited /\ OnePlace
  BY <1>3, <1>4 DEF Known, RequestsDue, HandshakeDue, RepliesAwaited, OnePlace
<1>7. Books /\ OffersAwaited /\ OfferFirst
  BY <1>3, <1>4 DEF Books, OffersAwaited, OfferFirst
<1> QED
  BY <1>5, <1>6, <1>7 DEF AnswerInv

-----------------------------------------------------------------------------
(* The steps of the program.                                               *)

\* The global that names the channel in use is left alone, or set to that channel.
SourceKept ==
  \A c \in PeerCids : peer[c].st # "closed" => l2cap_source_cid' \in {l2cap_source_cid, c}

\* What is outstanding stays so when packets are read, or when nothing is.
LEMMA NothingSent ==
  ASSUME AnswerInv, UNCHANGED <<config, toPeer, answers, client>>, SourceKept,
         NEW k \in {0, 1},
         \A i \in DOMAIN aclIn' : i \in Int /\ i + k \in DOMAIN aclIn /\ (aclIn')[i] = aclIn[i + k]
  PROVE  AnswerInv' /\ UNCHANGED <<asked, answers>>
<1>1. /\ OneChannel /\ SourceFollows /\ Known /\ RequestsDue /\ HandshakeDue /\ RepliesAwaited
      /\ OnePlace /\ Books /\ ChannelOrder /\ OffersAwaited /\ OfferFirst
  BY DEF AnswerInv
<1>2. UNCHANGED <<peer, peerSent, asked, answers, toPeer, mtu_config_request_received,
                  mtu_config_request_command_identifier, mtu_config_request_sent>>
  BY DEF config, client
<1>3. \A i \in RequestsIn' : i \in Int /\ i + k \in RequestsIn /\ (aclIn')[i] = aclIn[i + k]
  BY DEF RequestsIn
<1>4. RepliesOut' = RepliesOut /\ OffersOut' = OffersOut /\ Handshake' = Handshake
      /\ NotYetOffered' = NotYetOffered
  BY <1>2 DEF RepliesOut, OffersOut, Handshake, NotYetOffered
<1>6. OneChannel' /\ ChannelOrder' /\ Books'
  BY <1>1, <1>2, <1>4 DEF OneChannel, ChannelOrder, Books
<1>7. SourceFollows'
  BY <1>1, <1>2 DEF SourceFollows, SourceKept
<1>8. Known'
  BY <1>1 DEF Known
<1>9. \A code, id, c : /\ Waits(code, id, c) => Waits(code, id, c)'
                       /\ Due(code, id, c) => Due(code, id, c)'
  BY <1>2 DEF Waits, Due, Answered
<1>10. RequestsDue'
  <2> SUFFICES ASSUME NEW i \in RequestsIn'
               PROVE  (\E c \in PeerCids : /\ Due(ReplyTo[aclIn[i].code], aclIn[i].id, c)
                                           /\ Addressed(aclIn[i], c))'
    BY DEF RequestsDue
  <2>1. PICK p : p = (aclIn')[i] /\ p = aclIn[i + k] /\ i + k \in RequestsIn
    BY <1>3
  <2>2. PICK c \in PeerCids : Due(ReplyTo[p.code], p.id, c) /\ Addressed(p, c)
    BY <1>1, <2>1 DEF RequestsDue
  <2>3. Due(ReplyTo[p.code], p.id, c)' /\ Addressed(p, c)'
    BY <1>2, <1>9, <2>2 DEF Addressed
  <2> QED
    BY <2>1, <2>3
<1>11. HandshakeDue'
  BY <1>1, <1>2, <1>4, <1>9 DEF HandshakeDue
<1>12. \A i \in RepliesOut \cup OffersOut :
         toPeer[i].cid \in PeerCids /\ peer[toPeer[i].cid].st # "closed"
           /\ toPeer[i].cid = l2cap_source_cid /\ l2cap_source_cid' = l2cap_source_cid
  BY <1>1, WaitsOpen DEF RepliesAwaited, OffersAwaited, SourceKept
<1>13. RepliesAwaited' /\ OffersAwaited'
  BY <1>1, <1>2, <1>4, <1>9, <1>12 DEF RepliesAwaited, OffersAwaited
<1>14. OnePlace'
  BY <1>1, <1>3, <1>4 DEF OnePlace
<1>15. OfferFirst'
  BY <1>1, <1>2, <1>3, <1>4 DEF OfferFirst, Offered
<1> QED
  BY <1>2, <1>6, <1>7, <1>8, <1>10, <1>11, <1>13, <1>14, <1>15 DEF AnswerInv

\* The response a channel waits for is the next answer of the service, and the one
\* thing outstanding from then on.
LEMMA Replied ==
  ASSUME AnswerInv, toPeer \in Seq(Packet), NEW code, NEW id, NEW c, Due(code, id, c),
         RepliesOut = {}, NEW q \in Packet, q.code = code, q.id = id, q.cid = c,
         toPeer' = Append(toPeer, q), answers' = Append(answers, Msg(code, id, c, 0)),
         UNCHANGED client, l2cap_source_cid' = c,
         RequestsIn' = {}, Known', ~Handshake', code = "ConfRsp" => Offered(Len(toPeer) + 1)
  PROVE  AnswerInv' /\ Service!Answer
<1>1. /\ OneChannel /\ OnePlace /\ Books /\ ChannelOrder /\ OffersAwaited /\ OfferFirst
  BY DEF AnswerInv
<1>2. UNCHANGED <<peer, peerSent, asked>>
  BY DEF client
<1>3. /\ c \in PeerCids /\ peer[c].st # "closed" /\ peer[c].wait = id /\ peer[c].st = Stage[code]
      /\ code \in {"ConnRsp", "ConfRsp", "DisconnRsp", "SdpRsp", "RfcommReply"}
      /\ id \in 1..peerSent /\ Waits(code, id, c)
      /\ Msg(code, id, c, 0) \in asked /\ ~Answered(Msg(code, id, c, 0))
  BY DueOpen, StageTable DEF Due
<1> DEFINE n == Len(toPeer) + 1
<1>4. /\ DOMAIN toPeer' = 1..n /\ DOMAIN toPeer = 1..Len(toPeer) /\ Len(toPeer) \in Nat
      /\ (toPeer')[n] = q /\ \A i \in DOMAIN toPeer : (toPeer')[i] = toPeer[i]
  BY QueueAppend
<1>5. OffersOut' = OffersOut /\ \A i \in OffersOut : (toPeer')[i] = toPeer[i] /\ i < n
  BY <1>3, <1>4 DEF OffersOut
<1>6. RepliesOut' = {n}
  <2>1. code \in Replies
    BY <1>3, ReplyTable
  <2>2. \A i \in DOMAIN toPeer : toPeer[i].code \notin Replies
    BY DEF RepliesOut
  <2> QED
    BY <1>4, <2>1, <2>2 DEF RepliesOut
<1> HIDE DEF n
<1>7. \A d \in PeerCids : peer[d].st # "closed" => d = c
  BY <1>1, <1>3 DEF OneChannel
<1>8. OneChannel' /\ SourceFollows'
  BY <1>1, <1>2, <1>7 DEF OneChannel, SourceFollows
<1>9. RequestsDue' /\ HandshakeDue' /\ OnePlace'
  BY <1>6 DEF RequestsDue, HandshakeDue, OnePlace, Handshake
<1>10. RepliesAwaited'
  <2>1. Waits(code, id, c)'
    BY <1>2, <1>3 DEF Waits
  <2>2. q = (toPeer')[n]
    BY <1>4 DEF n
  <2> QED
    BY <1>2, <1>3, <1>6, <2>1, <2>2 DEF RepliesAwaited
<1>11. answers' \in Seq(asked) /\ Len(answers') = Len(answers) + 1
       /\ (answers')[Len(answers) + 1] = Msg(code, id, c, 0)
       /\ DOMAIN answers = 1..Len(answers)
  <2>1. answers \in Seq(asked)
    BY <1>1 DEF Books
  <2> QED
    BY <1>3, <2>1, QueueAppend
<1>12. Books'
  BY <1>1, <1>2, <1>11 DEF Books
<1>13. NotYetOffered' = NotYetOffered
  BY <1>2, <1>5 DEF NotYetOffered
<1>14. ChannelOrder'
  BY <1>1, <1>2, <1>13 DEF ChannelOrder
<1>15. OffersAwaited'
  BY <1>1, <1>2, <1>5, <1>7 DEF OffersAwaited
<1>16. OfferFirst'
  <2>1. code = "ConfRsp" => Offered(n)
    BY DEF n
  <2>2. code = "ConfRsp" => (\/ \E j \in OffersOut' : j < n
                             \/ \A d \in PeerCids : (peer')[d].st = "config" => (peer')[d].in)
    BY <1>2, <1>5, <2>1 DEF Offered
  <2>3. (toPeer')[n].code = code
    BY <1>4 DEF n
  <2>4. ~mtu_config_request_received' /\ ~mtu_config_request_sent'
    BY DEF Handshake
  <2> QED
    BY <1>6, <2>2, <2>3, <2>4 DEF OfferFirst, Offered
<1>17. Service!Answer
  BY <1>2, <1>3, <1>11 DEF Service!Answer, Answered
<1> QED
  BY <1>8, <1>9, <1>10, <1>12, <1>14, <1>15, <1>16, <1>17 DEF AnswerInv

\* A request to configure is put aside until the next event completes.
LEMMA PutAside ==
  ASSUME AnswerInv, aclIn \in Seq(Packet), aclIn # << >>, Head(aclIn).code = "ConfReq",
         aclIn' = Tail(aclIn), UNCHANGED <<l2cap_source_cid, toPeer, answers, client>>,
         mtu_config_request_received' = TRUE,
         mtu_config_request_command_identifier' = Head(aclIn).id,
         UNCHANGED mtu_config_request_sent
  PROVE  AnswerInv' /\ UNCHANGED <<asked, answers>>
<1>1. /\ OneChannel /\ SourceFollows /\ Known /\ RequestsDue /\ HandshakeDue /\ RepliesAwaited
      /\ OnePlace /\ Books /\ ChannelOrder /\ OffersAwaited /\ OfferFirst
  BY DEF AnswerInv
<1>2. UNCHANGED <<peer, peerSent, asked>>
  BY DEF client
<1>3. /\ 1 \in DOMAIN aclIn /\ Head(aclIn) = aclIn[1]
      /\ \A i \in DOMAIN aclIn' : i \in Nat \ {0} /\ i + 1 \in DOMAIN aclIn /\ (aclIn')[i] = aclIn[i + 1]
  BY QueueTail
<1>4. 1 \in RequestsIn
  BY <1>3, RequestTable DEF RequestsIn
<1>5. RepliesOut = {} /\ ~Handshake /\ RequestsIn' = {}
  <2>1. \A i \in RequestsIn : i = 1
    BY <1>1, <1>4 DEF OnePlace
  <2>2. \A i \in RequestsIn' : i \in Nat \ {0} /\ i + 1 \in RequestsIn
    BY <1>3 DEF RequestsIn
  <2>3. RequestsIn' = {}
    BY <2>1, <2>2
  <2> QED
    BY <1>1, <1>4, <2>3 DEF OnePlace
<1>6. RepliesOut' = {} /\ OffersOut' = OffersOut /\ NotYetOffered' = NotYetOffered
  BY <1>2, <1>5 DEF RepliesOut, OffersOut, NotYetOffered
<1>7. NotYetOffered
  BY <1>1, <1>3, <1>4 DEF OfferFirst
<1>8. \E c \in PeerCids : Due("ConfRsp", mtu_config_request_command_identifier', c)
  BY <1>1, <1>3, <1>4, RequestTable DEF RequestsDue
<1>9. HandshakeDue'
  <2>1. \E c \in PeerCids : Due("ConfRsp", mtu_config_request_command_identifier, c)'
    BY <1>2, <1>8 DEF Due, Waits, Answered
  <2> QED
    BY <1>5, <2>1 DEF HandshakeDue, Handshake
<1>10. OneChannel' /\ SourceFollows' /\ ChannelOrder' /\ Books' /\ RequestsDue' /\ Known'
  BY <1>1, <1>2, <1>3, <1>5, <1>6
  DEF OneChannel, SourceFollows, ChannelOrder, Books, RequestsDue, Known
<1>11. RepliesAwaited' /\ OnePlace' /\ OffersAwaited'
  BY <1>1, <1>2, <1>5, <1>6 DEF RepliesAwaited, OnePlace, OffersAwaited
<1>12. OfferFirst'
  BY <1>5, <1>6, <1>7 DEF OfferFirst, Handshake
<1> QED
  BY <1>2, <1>9, <1>10, <1>11, <1>12 DEF AnswerInv

\* A response that is submitted is on its way and recorded; one that is not is lost.
LEMMA Submission ==
  ASSUME NEW code, NEW id \in Bytes, NEW cid \in Words, NEW arg \in Words, NEW rest,
         code \in Replies, usb_send_acl_packet(Msg(code, id, cid, arg), rest)
  PROVE  \/ UNCHANGED <<toPeer, answers>>
         \/ \E q \in Packet :
              /\ q.code = code /\ q.id = id /\ q.cid = cid
              /\ toPeer' = Append(toPeer, q)
              /\ answers' = Append(answers, Msg(code, id, cid, 0))
<1> DEFINE q == Msg(code, id, cid, arg)
<1>1. q \in Packet /\ q.code = code /\ q.id = id /\ q.cid = cid
  <2>1. code \in Codes
    BY ReplyTable DEF Codes, ControlCodes, DataCodes
  <2> QED
    BY <2>1, MsgIsPacket
<1> HIDE DEF q
<1>2. Submitted(q, rest) \/ SubmitFails(rest)
  BY DEF usb_send_acl_packet, q
<1>3. CASE Submitted(q, rest)
  BY <1>1, <1>3 DEF Submitted
<1>4. CASE SubmitFails(rest)
  BY <1>4 DEF SubmitFails
<1> QED
  BY <1>2, <1>3, <1>4

\* What the client sends besides requests is not answered.
LEMMA ReadOther ==
  ASSUME NEW p, NEW rest, async_acl_callback(p, rest),
         p.code \in {"RfcommData", "ConfRsp", "CmdReject"}
  PROVE  UNCHANGED <<config, l2cap_source_cid, toPeer, answers>>
<1>1. CASE process_control(p, rest)
  <2>1. OtherCommand(p, rest)
    BY <1>1 DEF process_control, ControlCodes, ConnectionRequest, ConfigureRequest,
                DisconnectRequest, InformationRequest, AuthenticationRequest
  <2> QED
    BY <2>1 DEF OtherCommand, SendNothing
<1>2. CASE DataPacket(p, rest)
  <2>1. p.code = "RfcommData" /\ UnchangedByData
    BY <1>2 DEF DataPacket, DataCodes
  <2>2. SendNothing(rest)
    BY <1>2, <2>1 DEF DataPacket, process_sdp, process_rfcomm
  <2> QED
    BY <2>1, <2>2 DEF UnchangedByData, SendNothing, l2cap
<1> QED
  BY <1>1, <1>2 DEF async_acl_callback

\* A request is passed over, put aside, or answered: with its own identifier, and to
\* the channel that waits for it.
LEMMA ReadRequest ==
  ASSUME AnswerInv, GrantedCidRoutes, MapTyped,
         NEW p \in Packet, NEW rest, async_acl_callback(p, rest),
         p.code \in Requests, NEW c, Due(ReplyTo[p.code], p.id, c), Addressed(p, c)
  PROVE  \/ /\ UNCHANGED <<config, toPeer, answers>>
            /\ l2cap_source_cid' \in {l2cap_source_cid, c}
         \/ /\ p.code = "ConfReq" /\ UNCHANGED <<l2cap_source_cid, toPeer, answers>>
            /\ mtu_config_request_received' = TRUE
            /\ mtu_config_request_command_identifier' = p.id
            /\ UNCHANGED mtu_config_request_sent
         \/ /\ p.code # "ConfReq" /\ UNCHANGED config /\ l2cap_source_cid' = c
            /\ \E q \in Packet :
                 /\ q.code = ReplyTo[p.code] /\ q.id = p.id /\ q.cid = c
                 /\ toPeer' = Append(toPeer, q)
                 /\ answers' = Append(answers, Msg(ReplyTo[p.code], p.id, c, 0))
<1> DEFINE reply == ReplyTo[p.code]
<1>1. /\ c \in PeerCids /\ peer[c].st = Stage[reply]
      /\ reply \in {"ConnRsp", "ConfRsp", "DisconnRsp", "SdpRsp", "RfcommReply"}
  BY DueOpen, StageTable
<1>2. p.code \in {"ConnReq", "ConfReq", "DisconnReq", "SdpReq", "RfcommCmd"}
  BY <1>1, RequestTable
<1>3. p.id \in Bytes /\ p.cid \in Words /\ p.arg \in Words /\ c \in Words /\ 0 \in Words
  BY <1>1, PacketFields, Zero, ConstantsAssumption
<1>4. CASE p.code = "ConnReq"
  <2>1. ConnectionRequest(p, rest) /\ p.cid = c /\ reply = "ConnRsp" /\ reply \in Replies
    BY <1>4, RequestTable, ReplyTable
    DEF async_acl_callback, process_control, ConnectionRequest, ConfigureRequest,
        DisconnectRequest, InformationRequest, AuthenticationRequest, OtherCommand,
        DataPacket, DataCodes, Addressed
  <2>2. PICK arg \in Words : usb_send_acl_packet(Msg(reply, p.id, c, arg), rest)
    <3>1. ((CidBase + next_destination_channel_id') % 65536) % 256 \in Words
      <4>1. next_destination_channel_id \in Int
        BY SmallNumbers DEF MapTyped
      <4>2. next_destination_channel_id' \in Int
        BY <2>1, <4>1 DEF ConnectionRequest
      <4>3. \A n \in Int : (n % 65536) % 256 \in 0..255
        OBVIOUS
      <4>4. CidBase + next_destination_channel_id' \in Int
        BY <4>2 DEF CidBase
      <4> QED
        BY <4>3, <4>4, SmallNumbers
    <3> QED
      BY <2>1, <3>1 DEF ConnectionRequest
  <2> QED
    BY <1>3, <1>4, <2>1, <2>2, Submission DEF ConnectionRequest
<1>5. CASE p.code = "ConfReq"
  <2>1. ConfigureRequest(p, rest)
    BY <1>5
    DEF async_acl_callback, process_control, ConnectionRequest, ConfigureRequest,
        DisconnectRequest, InformationRequest, AuthenticationRequest, OtherCommand,
        DataPacket, DataCodes
  <2> QED
    BY <1>5, <2>1 DEF ConfigureRequest, SendNothing
<1>6. CASE p.code = "DisconnReq"
  <2>1. DisconnectRequest(p, rest) /\ p.cid = c /\ reply = "DisconnRsp" /\ reply \in Replies
    BY <1>6, RequestTable, ReplyTable
    DEF async_acl_callback, process_control, ConnectionRequest, ConfigureRequest,
        DisconnectRequest, InformationRequest, AuthenticationRequest, OtherCommand,
        DataPacket, DataCodes, Addressed
  <2> QED
    BY <1>3, <1>6, <2>1, Submission DEF DisconnectRequest
<1>7. CASE p.code \in {"SdpReq", "RfcommCmd"}
  <2>1. DataPacket(p, rest) /\ peer[c].st = "open" /\ reply \in Replies /\ l2cap_source_cid = c
    <3>1. DataPacket(p, rest) /\ peer[c].st = "open" /\ reply \in Replies
      BY <1>1, <1>7, RequestTable, ReplyTable, StageTable
      DEF async_acl_callback, process_control, ControlCodes
    <3> QED
      BY <1>1, <3>1 DEF AnswerInv, SourceFollows
  <2>2. UNCHANGED <<config, l2cap_source_cid>>
    BY <2>1 DEF DataPacket, UnchangedByData, l2cap
  <2>3. \/ SendNothing(rest)
        \/ usb_send_acl_packet(Msg(reply, p.id, c, 0), rest)
    <3>1. CASE p.code = "SdpReq"
      BY <2>1, <3>1, RequestTable DEF DataPacket, process_sdp, process_rfcomm
    <3>2. CASE p.code = "RfcommCmd"
      <4>1. p.cid = peer[c].dcid /\ channel_map[p.cid].source_cid = c
        BY <1>1, <2>1, <3>2 DEF Addressed, GrantedCidRoutes
      <4> QED
        BY <2>1, <3>2, <4>1, RequestTable DEF DataPacket, process_sdp, process_rfcomm
    <3> QED
      BY <1>7, <3>1, <3>2
  <2>4. \/ UNCHANGED <<toPeer, answers>>
        \/ \E q \in Packet :
             /\ q.code = reply /\ q.id = p.id /\ q.cid = c
             /\ toPeer' = Append(toPeer, q)
             /\ answers' = Append(answers, Msg(reply, p.id, c, 0))
    BY <1>3, <2>1, <2>3, Submission DEF SendNothing
  <2> QED
    BY <1>7, <2>1, <2>2, <2>4
<1> QED
  BY <1>2, <1>4, <1>5, <1>6, <1>7

\* While a channel waits, it is the only one in use.
LEMMA OnlyChannel ==
  ASSUME AnswerInv, NEW c \in PeerCids, peer[c].st # "closed"
  PROVE  \A d \in PeerCids : peer[d].st # "closed" => d = c
  BY DEF AnswerInv, OneChannel

LEMMA AclInAnswers ==
  ASSUME RouteInv, AnswerInv, AclInCompleted
  PROVE  AnswerInv' /\ (Service!Answer \/ UNCHANGED <<asked, answers>>)
<1>1. MapTyped /\ Queues /\ GrantedCidRoutes
  BY TypeParts DEF RouteInv
<1>2. /\ aclIn # << >> /\ aclIn' = Tail(aclIn) /\ UNCHANGED client
      /\ async_acl_callback(Head(aclIn), flying)
  BY DEF AclInCompleted
<1>3. aclIn \in Seq(Packet) /\ toPeer \in Seq(Packet)
  BY <1>1 DEF Queues
<1>4. PICK p \in Packet :
        /\ p = Head(aclIn) /\ p = aclIn[1] /\ 1 \in DOMAIN aclIn
        /\ \A i \in DOMAIN aclIn' : i \in Nat \ {0} /\ i + 1 \in DOMAIN aclIn /\ (aclIn')[i] = aclIn[i + 1]
  BY <1>2, <1>3, QueueTail
<1>5. p.code \in Requests \cup {"RfcommData", "ConfRsp", "CmdReject"}
  BY <1>4 DEF AnswerInv, Known
<1>6. ASSUME UNCHANGED <<config, toPeer, answers>>, SourceKept
      PROVE  AnswerInv' /\ UNCHANGED <<asked, answers>>
  <2>1. \A i \in DOMAIN aclIn' : i \in Int /\ i + 1 \in DOMAIN aclIn /\ (aclIn')[i] = aclIn[i + 1]
    BY <1>4
  <2> QED
    BY <1>2, <1>6, <2>1, NothingSent
<1>7. CASE p.code \notin Requests
  <2>1. UNCHANGED <<config, l2cap_source_cid, toPeer, answers>>
    BY <1>2, <1>4, <1>5, <1>7, ReadOther
  <2> QED
    BY <1>6, <2>1 DEF SourceKept
<1>8. CASE p.code \in Requests
  <2>1. PICK c \in PeerCids : Due(ReplyTo[p.code], p.id, c) /\ Addressed(p, c)
    BY <1>4, <1>8 DEF AnswerInv, RequestsDue, RequestsIn
  <2>2. CASE /\ UNCHANGED <<config, toPeer, answers>>
             /\ l2cap_source_cid' \in {l2cap_source_cid, c}
    <3>1. SourceKept
      BY <2>1, <2>2, DueOpen, OnlyChannel DEF SourceKept
    <3> QED
      BY <1>6, <2>2, <3>1
  <2>3. CASE /\ p.code = "ConfReq" /\ UNCHANGED <<l2cap_source_cid, toPeer, answers>>
             /\ mtu_config_request_received' = TRUE
             /\ mtu_config_request_command_identifier' = p.id
             /\ UNCHANGED mtu_config_request_sent
    BY <1>2, <1>3, <1>4, <2>3, PutAside
  <2>4. CASE /\ p.code # "ConfReq" /\ UNCHANGED config /\ l2cap_source_cid' = c
             /\ \E q \in Packet :
                  /\ q.code = ReplyTo[p.code] /\ q.id = p.id /\ q.cid = c
                  /\ toPeer' = Append(toPeer, q)
                  /\ answers' = Append(answers, Msg(ReplyTo[p.code], p.id, c, 0))
    <3>1. 1 \in RequestsIn
      BY <1>4, <1>8 DEF RequestsIn
    <3>2. RepliesOut = {} /\ ~Handshake /\ \A i \in RequestsIn : i = 1
      BY <3>1 DEF AnswerInv, OnePlace
    <3>3. RequestsIn' = {}
      <4>1. \A i \in RequestsIn' : i \in Nat \ {0} /\ i + 1 \in RequestsIn
        BY <1>4 DEF RequestsIn
      <4> QED
        BY <3>2, <4>1
    <3>4. ~Handshake'
      BY <2>4, <3>2 DEF Handshake, config
    <3>5. Known'
      BY <1>4 DEF AnswerInv, Known
    <3>6. ReplyTo[p.code] # "ConfRsp"
      BY <1>8, <2>4, RequestTable
    <3> QED
      BY <1>2, <1>3, <2>1, <2>4, <3>2, <3>3, <3>4, <3>5, <3>6, Replied
  <2>5. async_acl_callback(p, flying)
    BY <1>2, <1>4
  <2> QED
    BY <1>1, <1>8, <2>1, <2>2, <2>3, <2>4, <2>5, ReadRequest
<1> QED
  BY <1>7, <1>8

\* The server's own configure request goes first, and only then the response.
LEMMA RequestSent ==
  ASSUME AnswerInv, Queues, UNCHANGED <<aclIn, client, l2cap_source_cid>>,
         mtu_config_request_received, NEW q \in Packet,
         q.code = "ConfReq", q.cid = l2cap_source_cid, toPeer' = Append(toPeer, q),
         UNCHANGED <<answers, mtu_config_request_command_identifier>>,
         mtu_config_request_sent' = TRUE, mtu_config_request_received' = FALSE
  PROVE  AnswerInv' /\ UNCHANGED <<asked, answers>>
<1>1. /\ OneChannel /\ SourceFollows /\ Known /\ RequestsDue /\ HandshakeDue /\ RepliesAwaited
      /\ OnePlace /\ Books /\ ChannelOrder /\ OffersAwaited /\ OfferFirst
  BY DEF AnswerInv
<1>2. UNCHANGED <<peer, peerSent, asked>>
  BY DEF client
<1> DEFINE n == Len(toPeer) + 1
<1>3. /\ DOMAIN toPeer' = 1..n /\ DOMAIN toPeer = 1..Len(toPeer) /\ Len(toPeer) \in Nat
      /\ (toPeer')[n] = q /\ \A i \in DOMAIN toPeer : (toPeer')[i] = toPeer[i]
      /\ Len(toPeer') = n
  BY QueueAppend DEF Queues
<1>4. Handshake /\ RequestsIn = {} /\ RepliesOut = {} /\ NotYetOffered
  BY <1>1 DEF Handshake, OnePlace, OfferFirst
<1>5. RequestsIn' = {} /\ RepliesOut' = {} /\ OffersOut' = {n}
  <2>1. RequestsIn' = {}
    BY <1>4 DEF RequestsIn
  <2>2. RepliesOut' = {}
    BY <1>3, <1>4, ReplyTable DEF RepliesOut
  <2>3. OffersOut' = {n}
    BY <1>3, <1>4 DEF OffersOut, NotYetOffered
  <2> QED
    BY <2>1, <2>2, <2>3
<1>6. PICK c \in PeerCids : Due("ConfRsp", mtu_config_request_command_identifier, c)
  BY <1>1, <1>4 DEF HandshakeDue
<1>7. /\ peer[c].st = "config" /\ l2cap_source_cid = c /\ peer[c].wait # 0 /\ ~peer[c].in
      /\ \A d \in PeerCids : peer[d].st # "closed" => d = c
  <2>1. peer[c].st = "config" /\ peer[c].wait \in 1..peerSent
    BY <1>6, DueOpen, StageTable
  <2> QED
    BY <1>1, <1>4, <2>1, OnlyChannel DEF SourceFollows, NotYetOffered
<1>8. HandshakeDue'
  <2>1. Due("ConfRsp", mtu_config_request_command_identifier, c)'
    BY <1>2, <1>6 DEF Due, Waits, Answered
  <2> QED
    BY <2>1 DEF HandshakeDue
<1>9. ChannelOrder'
  BY <1>1, <1>2, <1>7 DEF ChannelOrder
<1>10. OffersAwaited'
  BY <1>2, <1>3, <1>5, <1>7 DEF OffersAwaited
<1>11. OfferFirst'
  <2>1. n < Len(toPeer') + 1
    BY <1>3
  <2> QED
    BY <1>5, <2>1 DEF OfferFirst, Offered
<1>12. OneChannel' /\ SourceFollows' /\ Known' /\ RequestsDue' /\ RepliesAwaited'
       /\ OnePlace' /\ Books'
  BY <1>1, <1>2, <1>5
  DEF OneChannel, SourceFollows, Known, RequestsDue, RepliesAwaited, OnePlace, Books
<1> QED
  BY <1>2, <1>8, <1>9, <1>10, <1>11, <1>12 DEF AnswerInv

\* A step that touches neither the handshake nor the packets changes nothing here.
LEMMA Unaffected ==
  ASSUME AnswerInv, aclIn \in Seq(Packet),
         UNCHANGED <<config, l2cap_source_cid, toPeer, answers, client, aclIn>>
  PROVE  AnswerInv' /\ UNCHANGED <<asked, answers>>
<1>1. \A i \in DOMAIN aclIn' : i \in Int /\ i + 0 \in DOMAIN aclIn /\ (aclIn')[i] = aclIn[i + 0]
  OBVIOUS
<1>2. SourceKept
  BY DEF SourceKept
<1> QED
  BY <1>1, <1>2, NothingSent

\* The deferred half of the handshake is given up when its packet cannot be submitted.
LEMMA GivenUp ==
  ASSUME AnswerInv, UNCHANGED <<aclIn, client, l2cap_source_cid, toPeer, answers>>,
         UNCHANGED <<mtu_config_request_received, mtu_config_request_command_identifier>>,
         ~mtu_config_request_sent'
  PROVE  AnswerInv' /\ UNCHANGED <<asked, answers>>
<1>1. /\ OneChannel /\ SourceFollows /\ Known /\ RequestsDue /\ HandshakeDue /\ RepliesAwaited
      /\ OnePlace /\ Books /\ ChannelOrder /\ OffersAwaited /\ OfferFirst
  BY DEF AnswerInv
<1>2. UNCHANGED <<peer, peerSent, asked>>
  BY DEF client
<1>3. /\ RequestsIn' = RequestsIn /\ RepliesOut' = RepliesOut /\ OffersOut' = OffersOut
      /\ NotYetOffered' = NotYetOffered /\ (Handshake' => Handshake)
  BY <1>2 DEF RequestsIn, RepliesOut, OffersOut, NotYetOffered, Handshake
<1>4. OneChannel' /\ SourceFollows' /\ Known' /\ RepliesAwaited' /\ OnePlace' /\ Books'
      /\ ChannelOrder' /\ OffersAwaited'
  BY <1>1, <1>2, <1>3
  DEF OneChannel, SourceFollows, Known, RepliesAwaited, OnePlace, Books, ChannelOrder,
      OffersAwaited, Waits
<1>5. RequestsDue' /\ HandshakeDue'
  BY <1>1, <1>2, <1>3
  DEF RequestsDue, HandshakeDue, Due, Waits, Answered, Addressed
<1>6. OfferFirst'
  BY <1>1, <1>2, <1>3 DEF OfferFirst, Offered
<1> QED
  BY <1>2, <1>4, <1>5, <1>6 DEF AnswerInv

LEMMA DeferredAnswers ==
  ASSUME RouteInv, AnswerInv, async_callback
  PROVE  AnswerInv' /\ (Service!Answer \/ UNCHANGED <<asked, answers>>)
<1>1. Queues /\ Numbers
  BY TypeParts DEF RouteInv
<1>2. /\ aclIn \in Seq(Packet) /\ toPeer \in Seq(Packet) /\ l2cap_source_cid \in Words
      /\ mtu_config_request_command_identifier \in Bytes /\ 0 \in Words
  BY <1>1, Zero DEF Queues, Numbers
<1>3. UNCHANGED <<l2cap_source_cid, client, aclIn>>
  BY DEF async_callback, l2cap
<1>4. CASE NothingDeferred
  BY <1>2, <1>3, <1>4, Unaffected DEF NothingDeferred, SendNothing
<1>5. CASE SendConfigureRequest
  <2> DEFINE q == Msg("ConfReq", (l2cap_command_identifier + 1) % 256, l2cap_source_cid, 0)
  <2>1. q \in Packet /\ q.code = "ConfReq" /\ q.cid = l2cap_source_cid
    <3>1. (l2cap_command_identifier + 1) % 256 \in Bytes
      <4>1. l2cap_command_identifier \in Int
        BY <1>1, SmallNumbers DEF Numbers
      <4> QED
        BY <4>1 DEF Bytes
    <3> QED
      BY <1>2, <3>1, RequestCodes, MsgIsPacket
  <2>2. /\ mtu_config_request_received /\ UNCHANGED mtu_config_request_command_identifier
        /\ \/ /\ Submitted(q, flying)
              /\ mtu_config_request_sent' = TRUE /\ mtu_config_request_received' = FALSE
           \/ /\ SubmitFails(flying)
              /\ UNCHANGED <<mtu_config_request_sent, mtu_config_request_received>>
    BY <1>5 DEF SendConfigureRequest
  <2> HIDE DEF q
  <2>3. CASE /\ Submitted(q, flying)
             /\ mtu_config_request_sent' = TRUE /\ mtu_config_request_received' = FALSE
    <3>1. toPeer' = Append(toPeer, q) /\ UNCHANGED answers
      BY <2>1, <2>3, ReplyTable DEF Submitted
    <3> QED
      BY <1>1, <1>3, <2>1, <2>2, <2>3, <3>1, RequestSent
  <2>4. CASE /\ SubmitFails(flying)
             /\ UNCHANGED <<mtu_config_request_sent, mtu_config_request_received>>
    <3>1. UNCHANGED <<config, toPeer, answers>>
      BY <2>2, <2>4 DEF SubmitFails, config
    <3> QED
      BY <1>2, <1>3, <3>1, Unaffected
  <2> QED
    BY <2>2, <2>3, <2>4
<1>6. CASE SendConfigureResponse
  <2> DEFINE id == mtu_config_request_command_identifier
             q == Msg("ConfRsp", id, l2cap_source_cid, 0)
  <2>1. q \in Packet /\ q.code = "ConfRsp" /\ q.id = id /\ q.cid = l2cap_source_cid
    <3>1. "ConfRsp" \in Codes
      BY DEF Codes, ControlCodes
    <3> QED
      BY <1>2, <3>1, MsgIsPacket
  <2>2. /\ ~mtu_config_request_received /\ mtu_config_request_sent
        /\ mtu_config_request_sent' = FALSE /\ UNCHANGED mtu_config_request_received
        /\ \/ Submitted(q, flying)
           \/ SubmitFails(flying) /\ UNCHANGED mtu_config_request_command_identifier
    BY <1>6 DEF SendConfigureResponse
  <2> HIDE DEF q
  <2>3. CASE Submitted(q, flying)
    <3>1. toPeer' = Append(toPeer, q)
          /\ answers' = Append(answers, Msg("ConfRsp", id, l2cap_source_cid, 0))
      BY <2>1, <2>3, ReplyTable DEF Submitted
    <3>2. Handshake /\ RequestsIn = {} /\ RepliesOut = {} /\ Offered(Len(toPeer) + 1)
      BY <2>2 DEF AnswerInv, Handshake, OnePlace, OfferFirst
    <3>3. PICK c \in PeerCids : Due("ConfRsp", id, c)
      BY <3>2 DEF AnswerInv, HandshakeDue
    <3>4. l2cap_source_cid = c
      <4>1. peer[c].st = "config"
        BY <3>3, DueOpen, StageTable
      <4> QED
        BY <4>1 DEF AnswerInv, SourceFollows
    <3>5. RequestsIn' = {} /\ Known' /\ ~Handshake'
      BY <1>3, <2>2, <3>2 DEF RequestsIn, Known, AnswerInv, Handshake
    <3> HIDE DEF id
    <3> QED
      BY <1>2, <1>3, <2>1, <3>1, <3>2, <3>3, <3>4, <3>5, Replied
  <2>4. CASE SubmitFails(flying) /\ UNCHANGED mtu_config_request_command_identifier
    BY <1>3, <2>2, <2>4, GivenUp DEF SubmitFails
  <2> QED
    BY <2>2, <2>3, <2>4
<1> QED
  BY <1>4, <1>5, <1>6 DEF async_callback

LEMMA ProgramAnswers ==
  ASSUME Sequential, RouteInv, AnswerInv, Program
  PROVE  AnswerInv' /\ (Service!Answer \/ UNCHANGED <<asked, answers>>)
<1>1. aclIn \in Seq(Packet)
  BY TypeParts DEF RouteInv, Queues
<1>2. CASE AclInCompleted
  BY <1>2, AclInAnswers
<1>3. CASE AclInFailed
  <2>1. UNCHANGED <<config, l2cap_source_cid, toPeer, answers, client, aclIn>>
    BY <1>3 DEF AclInFailed, UnchangedByData, l2cap
  <2> QED
    BY <1>1, <2>1, Unaffected
<1>4. CASE AclOutCompleted
  <2>1. UNCHANGED <<config, l2cap_source_cid, toPeer, answers, client, aclIn>>
    BY <1>4 DEF AclOutCompleted, Sequential, SendNothing, UnchangedByData, l2cap
  <2> QED
    BY <1>1, <2>1, Unaffected
<1>5. CASE EventInCompleted \/ CommandOutCompleted
  BY <1>5, DeferredAnswers DEF EventInCompleted, CommandOutCompleted
<1> QED
  BY <1>2, <1>3, <1>4, <1>5 DEF Program

-----------------------------------------------------------------------------
(* The steps of the client and the controller.                             *)

\* A request of a client that waits for nothing is the one thing outstanding.
LEMMA Asked ==
  ASSUME RouteInv, AnswerInv, NEW c \in PeerCids,
         NEW code \in {"ConnReq", "ConfReq", "DisconnReq", "SdpReq", "RfcommCmd"},
         NEW cid \in Words, NEW arg \in Words, NEW upd \in PeerChannel,
         PeerSends(c, code, cid, arg, upd),
         \A d \in PeerCids : d # c => peer[d].st = "closed",
         peer[c].st # "closed" => peer[c].wait = 0,
         upd.st = Stage[ReplyTo[code]], upd.st # "connecting" => l2cap_source_cid = c,
         code \in {"ConnReq", "DisconnReq"} => cid = c, code = "RfcommCmd" => cid = upd.dcid,
         upd.out => upd.in, upd.st \in {"connecting", "config"} => ~upd.out,
         upd.st = "connecting" \/ code = "ConfReq" => ~upd.in,
         OffersOut = {}
  PROVE  AnswerInv' /\ Service!Ask
<1>1. OneChannel /\ Books /\ Known /\ ClientTyped /\ Queues
  BY TypeParts DEF AnswerInv, RouteInv
<1>2. RequestsIn = {} /\ RepliesOut = {} /\ ~Handshake
  BY NothingOutstanding
<1>3. /\ UNCHANGED <<server, events, toPeer>>
      /\ Ident(peerSent) = peerSent + 1 /\ Ident(peerSent) \in Bytes
      /\ peerSent \in Nat /\ peerSent' = peerSent + 1
  BY FreshIdent DEF PeerSends
<1>4. PICK id \in Bytes, reply \in Replies, x \in PeerChannel, p \in Packet :
        /\ id = peerSent' /\ reply = ReplyTo[code]
        /\ x = [upd EXCEPT !.wait = id]
        /\ x.st = upd.st /\ x.dcid = upd.dcid /\ x.wait = id /\ x.in = upd.in /\ x.out = upd.out
        /\ p.code = code /\ p.id = id /\ p.cid = cid
        /\ aclIn' = Append(aclIn, p) /\ asked' = asked \cup {Msg(reply, id, c, 0)}
        /\ peer' = [peer EXCEPT ![c] = x]
  <2> DEFINE id == Ident(peerSent)
             p == Msg(code, id, cid, arg)
             x == [upd EXCEPT !.wait = id]
  <2>1. code \in Requests /\ code \in Codes /\ ReplyTo[code] \in Replies
    BY RequestTable, RequestCodes DEF Replies
  <2>2. p \in Packet /\ p.code = code /\ p.id = id /\ p.cid = cid
    BY <1>3, <2>1, MsgIsPacket
  <2>3. /\ x \in PeerChannel /\ x.st = upd.st /\ x.dcid = upd.dcid /\ x.wait = id
        /\ x.in = upd.in /\ x.out = upd.out
    BY <1>3 DEF PeerChannel
  <2>4. /\ aclIn' = Append(aclIn, p) /\ asked' = asked \cup {Msg(ReplyTo[code], id, c, 0)}
        /\ peer' = [peer EXCEPT ![c] = x]
    BY <2>1 DEF PeerSends
  <2> HIDE DEF p, x
  <2>5. x = [upd EXCEPT !.wait = id]
    BY DEF x
  <2>6. id \in Bytes /\ id = peerSent'
    BY <1>3
  <2> HIDE DEF id
  <2> id \in Bytes /\ ReplyTo[code] \in Replies /\ x \in PeerChannel /\ p \in Packet
    BY <2>1, <2>2, <2>3, <2>6
  <2> WITNESS id \in Bytes, ReplyTo[code] \in Replies, x \in PeerChannel, p \in Packet
  <2> QED
    BY <2>2, <2>3, <2>4, <2>5, <2>6
<1>5. /\ (peer')[c] = x /\ \A d \in PeerCids : d # c => (peer')[d].st = "closed"
      /\ (peer')[c].st = Stage[reply] /\ id \in Nat \ {0}
      /\ \A d \in PeerCids : d # c => (peer')[d] = peer[d]
  <2>1. peer \in [PeerCids -> PeerChannel]
    BY <1>1 DEF ClientTyped
  <2> QED
    BY <1>3, <1>4, <2>1
<1>6. reply \in DOMAIN Stage /\ x.st # "closed"
  BY <1>4, <1>5, RequestTable, StageTable
<1>7. UNCHANGED <<l2cap_source_cid, config, answers, toPeer>>
  BY <1>3 DEF server, l2cap
<1>8. /\ DOMAIN aclIn' = 1..(Len(aclIn) + 1) /\ DOMAIN aclIn = 1..Len(aclIn)
      /\ Len(aclIn) \in Nat
      /\ \A i \in DOMAIN aclIn : (aclIn')[i] = aclIn[i] /\ aclIn[i].code \notin Requests
      /\ (aclIn')[Len(aclIn) + 1] = p
  BY <1>1, <1>2, <1>4, QueueAppend DEF Queues, RequestsIn
<1>9. RequestsIn' = {Len(aclIn) + 1}
  BY <1>4, <1>8, RequestTable DEF RequestsIn
<1>10. RepliesOut' = {} /\ OffersOut' = {} /\ ~Handshake'
  BY <1>2, <1>7 DEF RepliesOut, OffersOut, Handshake, config
<1>11. \A m \in asked : m.id # id /\ m.id \in 1..peerSent'
  BY <1>1, <1>3, <1>4 DEF Books
<1>12. Msg(reply, id, c, 0) \notin asked /\ Msg(reply, id, c, 0).id = id
  BY <1>11, MsgParts
<1>13. Service!Ask
  BY <1>4, <1>7, <1>12 DEF Service!Ask
<1>14. Books'
  <2>1. answers' \in Seq(asked')
    BY <1>1, <1>4, <1>7 DEF Books
  <2>2. id \in 1..peerSent'
    BY <1>3, <1>4
  <2> QED
    BY <1>4, <1>11, <1>12, <2>1, <2>2 DEF Books
<1>15. OneChannel' /\ SourceFollows'
  BY <1>4, <1>5, <1>7 DEF OneChannel, SourceFollows
<1>16. Known'
  BY <1>1, <1>4, <1>8, RequestTable DEF Known
<1>17. RequestsDue'
  <2>1. Due(reply, id, c)'
    <3>1. Msg(reply, id, c, 0) \in asked'
      BY <1>4
    <3>2. ~Answered(Msg(reply, id, c, 0))'
      BY <1>1, <1>7, <1>12 DEF Answered, Books
    <3>3. Waits(reply, id, c)'
      BY <1>4, <1>5, <1>6 DEF Waits
    <3> QED
      BY <3>1, <3>2, <3>3 DEF Due
  <2>2. Addressed(p, c)'
    BY <1>4, <1>5 DEF Addressed
  <2> SUFFICES ASSUME NEW i \in RequestsIn'
               PROVE  (\E d \in PeerCids : /\ Due(ReplyTo[aclIn[i].code], aclIn[i].id, d)
                                           /\ Addressed(aclIn[i], d))'
    BY DEF RequestsDue
  <2>3. p = (aclIn')[i]
    BY <1>8, <1>9
  <2>4. Due(ReplyTo[p.code], p.id, c)' /\ Addressed(p, c)'
    BY <1>4, <2>1, <2>2
  <2> QED
    BY <2>3, <2>4
<1>18. HandshakeDue' /\ RepliesAwaited' /\ OnePlace' /\ OffersAwaited'
  BY <1>9, <1>10 DEF HandshakeDue, RepliesAwaited, OnePlace, OffersAwaited, Handshake
<1>19. ChannelOrder'
  <2> SUFFICES ASSUME NEW d \in PeerCids
               PROVE  /\ (peer')[d].out => (peer')[d].in
                      /\ (peer')[d].st = "config" => ~(peer')[d].out
                      /\ (peer')[d].st \in {"closed", "connecting"} => ~(peer')[d].in /\ ~(peer')[d].out
                      /\ ~((peer')[d].st = "config" /\ (peer')[d].wait = 0)
    BY DEF ChannelOrder
  <2>1. CASE d = c
    <3>1. /\ x.out => x.in
          /\ x.st \in {"connecting", "config"} => ~x.out
          /\ x.st = "connecting" => ~x.in
      BY <1>4
    <3>2. x.st # "closed" /\ x.wait # 0 /\ (peer')[d] = x
      BY <1>4, <1>5, <1>6, <2>1
    <3> QED
      BY <3>1, <3>2
  <2>2. CASE d # c
    BY <1>5, <2>2 DEF AnswerInv, ChannelOrder
  <2> QED
    BY <2>1, <2>2
<1>20. OfferFirst'
  <2>1. code = "ConfReq" => NotYetOffered'
    BY <1>4, <1>5, <1>10 DEF NotYetOffered
  <2> QED
    BY <1>4, <1>8, <1>9, <1>10, <2>1 DEF OfferFirst, Handshake
<1> QED
  BY <1>13, <1>14, <1>15, <1>16, <1>17, <1>18, <1>19, <1>20 DEF AnswerInv

\* What the client sends besides requests leaves the requests where they are.
LEMMA OtherSent ==
  ASSUME AnswerInv, aclIn \in Seq(Packet),
         \/ aclIn' = aclIn
         \/ \E p \in Packet : /\ p.code \in {"RfcommData", "ConfRsp", "CmdReject"}
                              /\ aclIn' = Append(aclIn, p)
  PROVE  Known' /\ RequestsIn' = RequestsIn /\ \A i \in RequestsIn : (aclIn')[i] = aclIn[i]
<1>1. Known
  BY DEF AnswerInv
<1>2. CASE aclIn' = aclIn
  BY <1>1, <1>2 DEF Known, RequestsIn
<1>3. ASSUME NEW p \in Packet, p.code \in {"RfcommData", "ConfRsp", "CmdReject"},
             aclIn' = Append(aclIn, p)
      PROVE  Known' /\ RequestsIn' = RequestsIn /\ \A i \in RequestsIn : (aclIn')[i] = aclIn[i]
  <2>1. /\ DOMAIN aclIn' = 1..(Len(aclIn) + 1) /\ DOMAIN aclIn = 1..Len(aclIn)
        /\ Len(aclIn) \in Nat /\ (aclIn')[Len(aclIn) + 1] = p
        /\ \A i \in DOMAIN aclIn : (aclIn')[i] = aclIn[i]
    BY <1>3, QueueAppend
  <2>2. p.code \notin Requests
    BY <1>3, RequestTable
  <2>3. \A i \in DOMAIN aclIn' : i \in DOMAIN aclIn \/ (aclIn')[i] = p
    BY <2>1
  <2>4. Known'
    BY <1>1, <1>3, <2>1, <2>3 DEF Known
  <2> QED
    BY <2>1, <2>2, <2>4 DEF RequestsIn
<1> QED
  BY <1>2, <1>3

\* A request on its way stays due while its channel waits.
LEMMA RequestsStay ==
  ASSUME RequestsDue, RequestsIn' = RequestsIn,
         \A i \in RequestsIn : (aclIn')[i] = aclIn[i],
         \A code, id, c : Due(code, id, c) => Due(code, id, c)',
         \A c \in PeerCids : (peer')[c].dcid = peer[c].dcid
  PROVE  RequestsDue'
<1> SUFFICES ASSUME NEW i \in RequestsIn'
             PROVE  (\E c \in PeerCids : /\ Due(ReplyTo[aclIn[i].code], aclIn[i].id, c)
                                         /\ Addressed(aclIn[i], c))'
  BY DEF RequestsDue
<1>1. PICK p : p = (aclIn')[i] /\ p = aclIn[i] /\ i \in RequestsIn
  OBVIOUS
<1>2. PICK c \in PeerCids : Due(ReplyTo[p.code], p.id, c) /\ Addressed(p, c)
  BY <1>1 DEF RequestsDue
<1>3. Due(ReplyTo[p.code], p.id, c)' /\ Addressed(p, c)'
  BY <1>2 DEF Addressed
<1> QED
  BY <1>1, <1>3

LEMMA DataSent ==
  ASSUME AnswerInv, aclIn \in Seq(Packet), peerSent \in Nat, peerSent' = peerSent + 1,
         NEW p \in Packet, p.code = "RfcommData", aclIn' = Append(aclIn, p),
         UNCHANGED <<config, l2cap_source_cid, toPeer, answers, peer, asked>>
  PROVE  AnswerInv'
<1>1. /\ OneChannel /\ SourceFollows /\ RequestsDue /\ HandshakeDue /\ RepliesAwaited
      /\ OnePlace /\ Books /\ ChannelOrder /\ OffersAwaited /\ OfferFirst
  BY DEF AnswerInv
<1>2. Known' /\ RequestsIn' = RequestsIn /\ \A i \in RequestsIn : (aclIn')[i] = aclIn[i]
  BY OtherSent
<1>3. /\ RepliesOut' = RepliesOut /\ OffersOut' = OffersOut /\ Handshake' = Handshake
      /\ NotYetOffered' = NotYetOffered
  BY DEF RepliesOut, OffersOut, Handshake, NotYetOffered, config
<1>4. UNCHANGED <<mtu_config_request_received, mtu_config_request_sent,
                  mtu_config_request_command_identifier>>
  BY DEF config
<1>5. Books' /\ \A id \in 1..peerSent : id \in 1..peerSent'
  BY <1>1 DEF Books
<1>6. RepliesAwaited'
  BY <1>1, <1>3, <1>5 DEF RepliesAwaited, Waits
<1>7. HandshakeDue'
  BY <1>1, <1>3, <1>4 DEF HandshakeDue, Due, Waits, Answered
<1>8. RequestsDue'
  <2>1. \A code, id, c : Due(code, id, c) => Due(code, id, c)'
    BY DEF Due, Waits, Answered
  <2> QED
    BY <1>1, <1>2, <2>1, RequestsStay
<1>9. OneChannel' /\ SourceFollows' /\ OnePlace' /\ ChannelOrder' /\ OffersAwaited'
  BY <1>1, <1>2, <1>3 DEF OneChannel, SourceFollows, OnePlace, ChannelOrder, OffersAwaited
<1>10. OfferFirst'
  BY <1>1, <1>2, <1>3, <1>4 DEF OfferFirst, Offered
<1> QED
  BY <1>2, <1>5, <1>6, <1>7, <1>8, <1>9, <1>10 DEF AnswerInv

LEMMA ClientAnswers ==
  ASSUME Sequential, RouteInv, AnswerInv, NEW c \in PeerCids,
         \/ \E psm \in Services : PeerConnect(c, psm)
         \/ PeerConfigure(c) \/ PeerRequest(c) \/ PeerDisconnect(c)
         \/ \E type \in InfoTypes : PeerInquire(c, type)
  PROVE  AnswerInv' /\ (Service!Ask \/ UNCHANGED <<asked, answers>>)
<1>1. /\ peer[c] \in PeerChannel /\ peer[c].st \in PeerStates
      /\ peer[c].psm \in {0} \cup Services /\ peer[c].dcid \in Words /\ c \in Words
      /\ 0 \in Words /\ Queues /\ ClientTyped
  BY TypeParts, ChannelFields, Zero DEF RouteInv
<1>2. ChannelOrder /\ OffersAwaited /\ SourceFollows /\ OneChannel
  BY DEF AnswerInv
<1>3. ASSUME peer[c].st \in {"config", "open"}
      PROVE  /\ \A d \in PeerCids : d # c => peer[d].st = "closed"
             /\ l2cap_source_cid = c
             /\ peer[c].st = "open" => OffersOut = {}
  <2>1. \A d \in PeerCids : d # c => peer[d].st = "closed"
    BY <1>3, OnlyChannel
  <2> QED
    BY <1>2, <1>3, <2>1 DEF SourceFollows, OffersAwaited
<1>4. ASSUME NEW psm \in Services, PeerConnect(c, psm) PROVE AnswerInv' /\ Service!Ask
  <2> DEFINE upd == [Closed EXCEPT !.st = "connecting", !.psm = psm]
             used == {d \in PeerCids : peer[d].st # "closed"}
  <2>1. /\ psm \in Words /\ upd \in PeerChannel /\ upd.st = "connecting"
        /\ ~upd.in /\ ~upd.out
    BY ClosedIsChannel, ConstantsAssumption DEF PeerChannel, PeerStates, Closed
  <2>2. PeerSends(c, "ConnReq", c, psm, upd) /\ Cardinality(used) < 1
    BY <1>4 DEF PeerConnect, Sequential
  <2>3. used = {}
    <3> SUFFICES ASSUME NEW d \in used PROVE FALSE
      OBVIOUS
    <3>1. used = {d}
      BY OnlyChannel
    <3>2. Cardinality({d}) = 1
      BY FS_Singleton
    <3> QED
      BY <2>2, <3>1, <3>2
  <2>4. \A d \in PeerCids : peer[d].st = "closed"
    BY <2>3
  <2>5. OffersOut = {}
    BY <1>2, <2>4 DEF OffersAwaited
  <2>6. Stage[ReplyTo["ConnReq"]] = "connecting"
    BY RequestTable, StageTable
  <2> HIDE DEF upd
  <2> QED
    BY <1>1, <2>1, <2>2, <2>4, <2>5, <2>6, Asked
<1>5. CASE PeerConfigure(c)
  <2>1. /\ peer[c].st = "config" /\ peer[c].wait = 0 /\ ~peer[c].out
        /\ PeerSends(c, "ConfReq", peer[c].dcid, 0, peer[c])
    BY <1>5 DEF PeerConfigure
  <2>2. OffersOut = {} /\ ~peer[c].in
    BY <1>2, <2>1 DEF ChannelOrder, NotYetOffered
  <2>3. Stage[ReplyTo["ConfReq"]] = "config"
    BY RequestTable, StageTable
  <2> QED
    BY <1>1, <1>3, <2>1, <2>2, <2>3, Asked
<1>6. CASE PeerRequest(c)
  <2>1. peer[c].st = "open" /\ peer[c].wait = 0
        /\ \E code \in {"SdpReq", "RfcommCmd", "RfcommData"} :
             PeerSends(c, code, peer[c].dcid, 0, peer[c])
    BY <1>6 DEF PeerRequest
  <2>2. ASSUME NEW code \in {"SdpReq", "RfcommCmd"}, PeerSends(c, code, peer[c].dcid, 0, peer[c])
        PROVE  AnswerInv' /\ Service!Ask
    <3>1. Stage[ReplyTo[code]] = "open"
      BY RequestTable, StageTable
    <3>2. peer[c].out => peer[c].in
      BY <1>2 DEF ChannelOrder
    <3> QED
      BY <1>1, <1>3, <2>1, <2>2, <3>1, <3>2, Asked
  <2>3. ASSUME PeerSends(c, "RfcommData", peer[c].dcid, 0, peer[c])
        PROVE  AnswerInv' /\ UNCHANGED <<asked, answers>>
    <3>1. /\ Ident(peerSent) = peerSent + 1 /\ Ident(peerSent) \in Bytes
          /\ peerSent \in Nat /\ peerSent' = peerSent + 1
      BY <2>3, FreshIdent DEF PeerSends
    <3>2. UNCHANGED <<config, l2cap_source_cid, toPeer, answers, asked>>
      BY <2>3, RequestTable DEF PeerSends, server, l2cap
    <3>3. PICK p \in Packet : p.code = "RfcommData" /\ aclIn' = Append(aclIn, p)
      BY <1>1, <2>3, <3>1, RequestCodes, MsgIsPacket DEF PeerSends
    <3>4. UNCHANGED peer
      <4>1. peer' = [peer EXCEPT ![c] = [peer[c] EXCEPT !.wait = 0]]
        BY <2>3, RequestTable DEF PeerSends
      <4>2. [peer[c] EXCEPT !.wait = 0] = peer[c]
        BY <1>1, <2>1 DEF PeerChannel
      <4> QED
        BY <1>1, <4>1, <4>2 DEF ClientTyped
    <3>5. aclIn \in Seq(Packet)
      BY <1>1 DEF Queues
    <3> QED
      BY <3>1, <3>2, <3>3, <3>4, <3>5, DataSent
  <2> QED
    BY <2>1, <2>2, <2>3
<1>7. CASE PeerDisconnect(c)
  <2> DEFINE upd == [peer[c] EXCEPT !.st = "closing"]
  <2>1. /\ upd \in PeerChannel /\ upd.st = "closing"
        /\ upd.in = peer[c].in /\ upd.out = peer[c].out
    BY <1>1 DEF PeerChannel, PeerStates
  <2>2. /\ peer[c].st = "open" /\ peer[c].wait = 0
        /\ PeerSends(c, "DisconnReq", c, peer[c].dcid, upd)
    BY <1>7 DEF PeerDisconnect, Sequential
  <2>3. Stage[ReplyTo["DisconnReq"]] = "closing" /\ (upd.out => upd.in)
    BY <1>2, <2>1, RequestTable, StageTable DEF ChannelOrder
  <2> HIDE DEF upd
  <2> QED
    BY <1>1, <1>3, <2>1, <2>2, <2>3, Asked
<1> QED
  BY <1>4, <1>5, <1>6, <1>7 DEF Sequential

\* What a response does to the channel that waits for it: the channel waits no more.
LEMMA ReplyReceived ==
  ASSUME NEW ch \in PeerChannel, NEW p \in Packet, p.code \in DOMAIN Stage,
         ch.st = Stage[p.code], p.id = ch.wait,
         ch.out => ch.in, ch.st = "connecting" => ~ch.in /\ ~ch.out,
         p.code = "ConfRsp" => ch.in
  PROVE  LET x == Received(ch, p)
         IN /\ x.st \in {"closed", "config", "open"} /\ x.wait = 0
            /\ x.st # "open" => ~x.in /\ ~x.out
            /\ x.out => x.in
<1>1. Closed.st = "closed" /\ Closed.wait = 0 /\ ~Closed.in /\ ~Closed.out
  BY DEF Closed
<1>2. CASE p.code = "ConnRsp"
  <2>1. Received(ch, p) = [ch EXCEPT !.st = "config", !.dcid = p.arg, !.wait = 0]
    BY <1>2, StageTable DEF Received
  <2> QED
    BY <1>2, <2>1, StageTable DEF PeerChannel
<1>3. CASE p.code = "ConfRsp"
  <2> DEFINE y == [ch EXCEPT !.out = TRUE, !.wait = 0]
  <2>1. y \in PeerChannel /\ y.st = "config" /\ y.wait = 0 /\ y.in /\ y.out
    BY <1>3, StageTable, Zero DEF PeerChannel
  <2>2. Received(ch, p) = Settled(y)
    BY <1>3, StageTable DEF Received
  <2> HIDE DEF y
  <2>3. Settled(y) = [y EXCEPT !.st = "open"]
    BY <2>1 DEF Settled
  <2> QED
    BY <2>1, <2>2, <2>3 DEF PeerChannel
<1>4. CASE p.code = "DisconnRsp"
  <2>1. Received(ch, p) = Closed
    BY <1>4, StageTable DEF Received
  <2> QED
    BY <1>1, <2>1
<1>5. CASE p.code \in {"SdpRsp", "RfcommReply"}
  <2>1. Received(ch, p) = [ch EXCEPT !.wait = 0] /\ ch.st = "open"
    BY <1>5, StageTable DEF Received
  <2> QED
    BY <2>1 DEF PeerChannel
<1> QED
  BY <1>2, <1>3, <1>4, <1>5, StageTable

LEMMA ReceivesAnswers ==
  ASSUME RouteInv, AnswerInv, PeerReceives
  PROVE  AnswerInv' /\ UNCHANGED <<asked, answers>>
<1>1. /\ OneChannel /\ SourceFollows /\ RequestsDue /\ HandshakeDue /\ RepliesAwaited
      /\ OnePlace /\ Books /\ ChannelOrder /\ OffersAwaited /\ OfferFirst
  BY DEF AnswerInv
<1>2. /\ aclIn \in Seq(Packet) /\ toPeer \in Seq(Packet) /\ peer \in [PeerCids -> PeerChannel]
      /\ Queues
  BY TypeParts DEF RouteInv, Queues, ClientTyped
<1>3. /\ toPeer # << >> /\ toPeer' = Tail(toPeer)
      /\ UNCHANGED <<l2cap_source_cid, answers, peerSent, asked, mtu_config_request_received,
                     mtu_config_request_sent, mtu_config_request_command_identifier>>
  BY DEF PeerReceives, server, config, l2cap
<1>4. PICK p \in Packet :
        /\ p = toPeer[1] /\ 1 \in DOMAIN toPeer
        /\ peer' = IF p.cid \in PeerCids
                   THEN [peer EXCEPT ![p.cid] = Received(peer[p.cid], p)] ELSE peer
        /\ aclIn' = PeerAnswer(p)
  BY <1>2, <1>3, QueueTail DEF PeerReceives
<1>5. /\ Len(toPeer') = Len(toPeer) - 1 /\ Len(toPeer) \in Nat
      /\ DOMAIN toPeer' = 1..(Len(toPeer) - 1) /\ DOMAIN toPeer = 1..Len(toPeer)
      /\ \A i \in DOMAIN toPeer' : i + 1 \in DOMAIN toPeer /\ (toPeer')[i] = toPeer[i + 1]
  <2>1. toPeer' \in Seq(Packet) /\ Len(toPeer') = Len(toPeer) - 1
    BY <1>2, <1>3, QueueTail
  <2>2. \A i \in DOMAIN toPeer' : i + 1 \in DOMAIN toPeer /\ (toPeer')[i] = toPeer[i + 1]
    BY <1>2, <1>3, QueueTail
  <2> QED
    BY <1>2, <2>1, <2>2
<1>6. /\ \A i \in RepliesOut' : i \in Nat \ {0} /\ i + 1 \in RepliesOut /\ (toPeer')[i] = toPeer[i + 1]
      /\ \A i \in OffersOut' : i \in Nat \ {0} /\ i + 1 \in OffersOut /\ (toPeer')[i] = toPeer[i + 1]
  BY <1>5 DEF RepliesOut, OffersOut
<1>7. Known' /\ RequestsIn' = RequestsIn /\ \A i \in RequestsIn : (aclIn')[i] = aclIn[i]
  <2>1. \/ aclIn' = aclIn
        \/ \E m \in Packet : /\ m.code \in {"RfcommData", "ConfRsp", "CmdReject"}
                             /\ aclIn' = Append(aclIn, m)
    <3>1. p.id \in Bytes /\ p.cid \in Words /\ 0 \in Words
      BY PacketFields, Zero
    <3>2. "ConfRsp" \in Codes /\ "CmdReject" \in Codes
      BY DEF Codes, ControlCodes
    <3>3. /\ Msg("ConfRsp", p.id, p.cid, 0) \in Packet
          /\ Msg("ConfRsp", p.id, p.cid, 0).code = "ConfRsp"
          /\ Msg("CmdReject", p.id, 0, 0) \in Packet
          /\ Msg("CmdReject", p.id, 0, 0).code = "CmdReject"
      BY <3>1, <3>2, MsgIsPacket
    <3> QED
      BY <1>4, <3>3 DEF PeerAnswer
  <2> QED
    BY <1>2, <2>1, OtherSent
<1>8. Handshake' = Handshake /\ Books'
  BY <1>1, <1>3 DEF Handshake, Books
<1>9. OnePlace'
  <2>1. (RepliesOut' # {} => RepliesOut # {}) /\ \A i, j \in RepliesOut' : i = j
    <3> SUFFICES ASSUME NEW i \in RepliesOut', NEW j \in RepliesOut'
                 PROVE  RepliesOut # {} /\ i = j
      OBVIOUS
    <3>1. i + 1 = j + 1 /\ i \in Nat /\ j \in Nat
      BY <1>1, <1>6 DEF OnePlace
    <3> QED
      BY <1>6, <3>1
  <2> QED
    BY <1>1, <1>7, <1>8, <2>1 DEF OnePlace
<1>10. CASE p.code \in Replies
  <2>1. 1 \in RepliesOut
    BY <1>4, <1>10 DEF RepliesOut
  <2>2. PICK c \in PeerCids :
          /\ c = p.cid /\ peer[c].wait = p.id /\ peer[c].st = Stage[p.code]
          /\ p.code \in DOMAIN Stage /\ peer[c].st # "closed" /\ l2cap_source_cid = c
    BY <1>1, <1>4, <2>1, WaitsOpen DEF RepliesAwaited
  <2>3. RepliesOut' = {} /\ RequestsIn' = {} /\ ~Handshake'
    <3>1. \A i \in RepliesOut : i = 1
      BY <1>1, <2>1 DEF OnePlace
    <3>2. RepliesOut' = {}
      BY <1>6, <3>1
    <3> QED
      BY <1>1, <1>7, <1>8, <2>1, <3>2 DEF OnePlace
  <2>4. \A d \in PeerCids : peer[d].st # "closed" => d = c
    BY <2>2, OnlyChannel
  <2>5. p.code = "ConfRsp" => peer[c].in
    <3> SUFFICES ASSUME p.code = "ConfRsp" PROVE peer[c].in
      OBVIOUS
    <3>1. Offered(1)
      BY <1>1, <1>4, <2>1 DEF OfferFirst
    <3>2. \A j \in OffersOut : ~(j < 1)
      BY <1>5 DEF OffersOut
    <3> QED
      BY <2>2, <3>1, <3>2, StageTable DEF Offered
  <2>6. OffersOut = {} /\ OffersOut' = {}
    <3>1. \A i \in OffersOut : peer[c].st = "config" /\ ~peer[c].in
      BY <1>1, <2>2 DEF OffersAwaited
    <3>2. peer[c].st = "config" => p.code = "ConfRsp"
      BY <2>2, StageTable
    <3> QED
      BY <1>6, <2>5, <3>1, <3>2
  <2> DEFINE x == Received(peer[c], p)
  <2>7. /\ x.st \in {"closed", "config", "open"} /\ x.wait = 0
        /\ x.st # "open" => ~x.in /\ ~x.out
        /\ x.out => x.in
    <3>1. peer[c] \in PeerChannel
      BY <1>2
    <3> QED
      BY <1>1, <2>2, <2>5, <3>1, ReplyReceived DEF ChannelOrder
  <2>8. (peer')[c] = x /\ \A d \in PeerCids : d # c => (peer')[d] = peer[d] /\ peer[d].st = "closed"
    BY <1>2, <1>4, <2>2, <2>4
  <2> HIDE DEF x
  <2>9. OneChannel' /\ SourceFollows'
    BY <1>3, <2>2, <2>8 DEF OneChannel, SourceFollows
  <2>10. NotYetOffered'
    BY <2>6, <2>7, <2>8 DEF NotYetOffered
  <2>11. ChannelOrder'
    BY <1>1, <2>7, <2>8, <2>10 DEF ChannelOrder
  <2>12. /\ RequestsDue' /\ HandshakeDue' /\ RepliesAwaited' /\ OffersAwaited' /\ OfferFirst'
    BY <2>3, <2>6 DEF RequestsDue, HandshakeDue, RepliesAwaited, OffersAwaited, OfferFirst, Handshake
  <2> QED
    BY <1>3, <1>7, <1>8, <1>9, <2>9, <2>11, <2>12 DEF AnswerInv
<1>11. CASE p.code = "ConfReq"
  <2>1. 1 \in OffersOut
    BY <1>4, <1>11 DEF OffersOut
  <2>2. PICK c \in PeerCids : c = p.cid /\ peer[c].st = "config" /\ ~peer[c].in
    BY <1>1, <1>4, <2>1 DEF OffersAwaited
  <2>3. /\ \A d \in PeerCids : peer[d].st # "closed" => d = c
        /\ ~NotYetOffered /\ peer[c].wait # 0 /\ ~peer[c].out
    BY <1>1, <2>1, <2>2, OnlyChannel DEF NotYetOffered, ChannelOrder
  <2>4. OffersOut' = {}
    <3>1. \A i \in OffersOut : i = 1
      BY <1>1, <2>1 DEF OffersAwaited
    <3> QED
      BY <1>6, <3>1
  <2> DEFINE y == [peer[c] EXCEPT !.in = TRUE]
  <2>5. Received(peer[c], p) = y
    BY <1>2, <1>11, <2>2, <2>3 DEF Received, Settled, PeerChannel
  <2>6. /\ y.st = peer[c].st /\ y.wait = peer[c].wait /\ y.dcid = peer[c].dcid
        /\ y.out = peer[c].out /\ y.in
    BY <1>2 DEF PeerChannel
  <2> HIDE DEF y
  <2>7. (peer')[c] = y /\ \A d \in PeerCids : d # c => (peer')[d] = peer[d]
    BY <1>2, <1>4, <2>2, <2>5
  <2>8. \A d \in PeerCids : /\ (peer')[d].st = peer[d].st /\ (peer')[d].wait = peer[d].wait
                            /\ (peer')[d].dcid = peer[d].dcid
    BY <2>6, <2>7
  <2>9. \A code, id, d : /\ Waits(code, id, d) => Waits(code, id, d)'
                         /\ Due(code, id, d) => Due(code, id, d)'
    BY <1>3, <2>8 DEF Waits, Due, Answered
  <2>10. RequestsDue'
    BY <1>1, <1>7, <2>8, <2>9, RequestsStay
  <2>11. HandshakeDue'
    BY <1>1, <1>3, <1>8, <2>9 DEF HandshakeDue
  <2>12. RepliesAwaited'
    BY <1>1, <1>3, <1>6, <2>9 DEF RepliesAwaited
  <2>13. OneChannel' /\ SourceFollows' /\ OffersAwaited'
    BY <1>1, <1>3, <2>4, <2>8 DEF OneChannel, SourceFollows, OffersAwaited
  <2>14. ChannelOrder'
    <3> SUFFICES ASSUME NEW d \in PeerCids
                 PROVE  /\ (peer')[d].out => (peer')[d].in
                        /\ (peer')[d].st = "config" => ~(peer')[d].out
                        /\ (peer')[d].st \in {"closed", "connecting"} => ~(peer')[d].in /\ ~(peer')[d].out
                        /\ ~((peer')[d].st = "config" /\ (peer')[d].wait = 0)
      BY DEF ChannelOrder
    <3>1. CASE d = c
      BY <2>2, <2>3, <2>6, <2>7, <3>1
    <3>2. CASE d # c
      BY <1>1, <2>3, <2>7, <3>2 DEF ChannelOrder
    <3> QED
      BY <3>1, <3>2
  <2>15. OfferFirst'
    <3>1. \A d \in PeerCids : (peer')[d].st = "config" => (peer')[d].in
      BY <2>3, <2>6, <2>7, <2>8
    <3>2. \A i : Offered(i)'
      BY <3>1 DEF Offered
    <3>3. ~mtu_config_request_received' /\ \A i \in RequestsIn' : (aclIn')[i].code # "ConfReq"
      BY <1>1, <1>3, <1>7, <2>3 DEF OfferFirst
    <3> QED
      BY <3>1, <3>3 DEF OfferFirst, Offered
  <2> QED
    BY <1>3, <1>7, <1>8, <1>9, <2>10, <2>11, <2>12, <2>13, <2>14, <2>15 DEF AnswerInv
<1>12. CASE p.code \notin Replies /\ p.code # "ConfReq"
  <2>1. UNCHANGED peer
    <3>1. ASSUME p.cid \in PeerCids PROVE Received(peer[p.cid], p) = peer[p.cid]
      BY <1>12, ReplyTable DEF Received
    <3> QED
      BY <1>2, <1>4, <3>1
  <2>2. /\ \A i \in OffersOut : i - 1 \in OffersOut'
        /\ OffersOut = {} => OffersOut' = {}
    <3>1. \A i \in OffersOut : i # 1
      BY <1>4, <1>12 DEF OffersOut
    <3>2. \A i \in OffersOut : i - 1 \in DOMAIN toPeer' /\ (toPeer')[i - 1] = toPeer[i]
      <4> SUFFICES ASSUME NEW i \in OffersOut
                   PROVE  i - 1 \in DOMAIN toPeer' /\ (toPeer')[i - 1] = toPeer[i]
        OBVIOUS
      <4>1. i \in 1..Len(toPeer) /\ i # 1
        BY <1>5, <3>1 DEF OffersOut
      <4>2. i - 1 \in DOMAIN toPeer' /\ (i - 1) + 1 = i
        BY <1>5, <4>1
      <4> QED
        BY <1>5, <4>2
    <3> QED
      BY <1>6, <3>2 DEF OffersOut
  <2>3. \A i \in Int : Offered(i + 1) =>
          (\/ \E j \in OffersOut' : j < i
           \/ \A c \in PeerCids : (peer')[c].st = "config" => (peer')[c].in)
    <3> SUFFICES ASSUME NEW i \in Int, NEW j \in OffersOut, j < i + 1
                 PROVE  \E k \in OffersOut' : k < i
      BY <2>1 DEF Offered
    <3>1. j - 1 \in OffersOut' /\ j \in Int
      BY <1>5, <2>2 DEF OffersOut
    <3>2. j - 1 < i
      BY <3>1
    <3> QED
      BY <3>1, <3>2
  <2>4. \A code, id, d : /\ Waits(code, id, d) => Waits(code, id, d)'
                         /\ Due(code, id, d) => Due(code, id, d)'
    BY <1>3, <2>1 DEF Waits, Due, Answered
  <2>5. RequestsDue' /\ HandshakeDue'
    <3>1. RequestsDue'
      BY <1>1, <1>7, <2>1, <2>4, RequestsStay
    <3> QED
      BY <1>1, <1>3, <1>8, <2>4, <3>1 DEF HandshakeDue
  <2>6. RepliesAwaited'
    BY <1>1, <1>3, <1>6, <2>4 DEF RepliesAwaited
  <2>7. NotYetOffered => NotYetOffered'
    BY <2>1, <2>2 DEF NotYetOffered
  <2>8. OneChannel' /\ SourceFollows' /\ ChannelOrder'
    BY <1>1, <1>3, <2>1, <2>7 DEF OneChannel, SourceFollows, ChannelOrder
  <2>9. OffersAwaited'
    <3>1. \A i, j \in OffersOut' : i = j
      <4> SUFFICES ASSUME NEW i \in OffersOut', NEW j \in OffersOut' PROVE i = j
        OBVIOUS
      <4>1. i + 1 = j + 1 /\ i \in Nat /\ j \in Nat
        BY <1>1, <1>6 DEF OffersAwaited
      <4> QED
        BY <4>1
    <3>2. ASSUME NEW i \in OffersOut'
          PROVE  /\ (toPeer')[i].cid \in PeerCids /\ (toPeer')[i].cid = l2cap_source_cid
                 /\ peer[(toPeer')[i].cid].st = "config" /\ ~peer[(toPeer')[i].cid].in
      <4>1. i + 1 \in OffersOut /\ (toPeer')[i] = toPeer[i + 1]
        BY <1>6
      <4> QED
        BY <1>1, <4>1 DEF OffersAwaited
    <3> QED
      BY <1>3, <2>1, <3>1, <3>2 DEF OffersAwaited
  <2>10. OfferFirst'
    <3> DEFINE Before(i) == \/ \E j \in OffersOut' : j < i
                            \/ \A c \in PeerCids : (peer')[c].st = "config" => (peer')[c].in
    <3>1. mtu_config_request_sent' => Before(Len(toPeer') + 1)
      <4>1. Len(toPeer') + 1 \in Int /\ (Len(toPeer') + 1) + 1 = Len(toPeer) + 1
        BY <1>5
      <4>2. mtu_config_request_sent' => Offered(Len(toPeer) + 1)
        BY <1>1, <1>3 DEF OfferFirst
      <4> HIDE DEF Before
      <4>3. \A i \in Int : Offered(i + 1) => Before(i)
        BY <2>3 DEF Before
      <4>4. Offered(Len(toPeer) + 1) => Before(Len(toPeer') + 1)
        BY <4>1, <4>3
      <4> QED
        BY <4>2, <4>4
    <3>2. \A i \in RepliesOut' : (toPeer')[i].code = "ConfRsp" => Before(i)
      <4> SUFFICES ASSUME NEW i \in RepliesOut', (toPeer')[i].code = "ConfRsp"
                   PROVE  Before(i)
        OBVIOUS
      <4>1. i \in Int /\ Offered(i + 1)
        BY <1>1, <1>6 DEF OfferFirst
      <4> QED
        BY <2>3, <4>1
    <3>3. \A i \in RequestsIn' : (aclIn')[i].code = "ConfReq" => NotYetOffered'
      BY <1>1, <1>7, <2>7 DEF OfferFirst
    <3>4. mtu_config_request_received' => NotYetOffered'
      BY <1>1, <1>3, <2>7 DEF OfferFirst
    <3> QED
      BY <3>1, <3>2, <3>3, <3>4 DEF OfferFirst, Offered
  <2> QED
    BY <1>3, <1>7, <1>8, <1>9, <2>5, <2>6, <2>8, <2>9, <2>10 DEF AnswerInv
<1> QED
  BY <1>10, <1>11, <1>12

-----------------------------------------------------------------------------
(* The theorems.                                                           *)

LEMMA AnswerInvStep ==
  ASSUME Sequential, RouteInv, AnswerInv, [Next]_vars
  PROVE  AnswerInv' /\ [Service!Next]_<<asked, answers>>
<1>1. aclIn \in Seq(Packet)
  BY TypeParts DEF RouteInv, Queues
<1>2. CASE Program
  BY <1>2, ProgramAnswers DEF Service!Next
<1>3. CASE Environment
  <2>1. CASE \E c \in PeerCids :
               \/ \E psm \in Services : PeerConnect(c, psm)
               \/ PeerConfigure(c) \/ PeerRequest(c) \/ PeerDisconnect(c)
               \/ \E type \in InfoTypes : PeerInquire(c, type)
    BY <2>1, ClientAnswers DEF Service!Next
  <2>2. CASE PeerReceives
    BY <2>2, ReceivesAnswers
  <2>3. CASE ControllerEvent
    <3>1. UNCHANGED <<config, l2cap_source_cid, toPeer, answers, client, aclIn>>
      BY <2>3 DEF ControllerEvent, server, l2cap
    <3> QED
      BY <1>1, <3>1, Unaffected
  <2> QED
    BY <1>3, <2>1, <2>2, <2>3 DEF Environment
<1>4. CASE UNCHANGED vars
  <2>1. UNCHANGED <<config, l2cap_source_cid, toPeer, answers, client, aclIn>>
    BY <1>4 DEF vars, l2cap, outgoing
  <2> QED
    BY <1>1, <2>1, Unaffected
<1> QED
  BY <1>2, <1>3, <1>4 DEF Next

\* A client that uses one channel at a time gets each response on the channel that
\* asked, with the identifier it asked with, and once, whatever transfers fail: the
\* answers of process_control, of process_sdp and of process_rfcomm, and the one
\* async_callback sends later from the globals, implement the request service.
THEOREM SequentialAnswers ==
  ASSUME Sequential
  PROVE  Spec => AnswersMatchRequests
<1>1. RouteInv /\ AnswerInv /\ [Next]_vars
        => RouteInv' /\ AnswerInv' /\ [Service!Next]_<<asked, answers>>
  BY RouteInvStep, AnswerInvStep
<1>2. Init => RouteInv /\ AnswerInv /\ Service!Init
  BY RouteInvInitially, AnswerInvInitially DEF Init, Service!Init
<1> QED
  BY <1>1, <1>2, PTL DEF Spec, AnswersMatchRequests, Service!Spec

\* Such a client sees the server's configure request before the response to its own:
\* async_callback keeps their order over the two events that let them go.
THEOREM ConfiguresFirst ==
  ASSUME Sequential
  PROVE  Spec => []ServerConfiguresFirst
<1>1. RouteInv /\ AnswerInv /\ [Next]_vars => RouteInv' /\ AnswerInv'
  BY RouteInvStep, AnswerInvStep
<1>2. Init => RouteInv /\ AnswerInv
  BY RouteInvInitially, AnswerInvInitially
<1>3. AnswerInv => ServerConfiguresFirst
  BY DEF AnswerInv, ChannelOrder, ServerConfiguresFirst
<1> QED
  BY <1>1, <1>2, <1>3, PTL DEF Spec
=============================================================================
