----------------------------- MODULE SdpServer -----------------------------
(***************************************************************************)
(* process_sdp of hci_test.cpp with the request and the response of        *)
(* sdp/sdp.cpp, and the packet log it writes to, which another program     *)
(* reads once this one has been ended.  The callback runs alone; its loops *)
(* are taken turn by turn because what they do is what can go wrong.       *)
(***************************************************************************)
EXTENDS DataElement, PacketLog

CONSTANTS
  Packets,     \* ACL packets of the client: their bytes, whether the channel is an SDP
               \* channel, the UUIDs the pattern of a request names, and where the
               \* elements of the pattern and of the attribute list begin and end
  SourceCid,   \* the channel the answers go to, two bytes
  MaxPackets   \* bound: packets received in a run

Bytes256 == 0..255

\* Bytes 0 to 7 are the headers, byte 8 is the kind of request; 9 to 12 are its
\* transaction and its length, the pattern begins at 13.
PatternIndex == 13
IsSearch(p) == p.sdp /\ p.bytes[9] = 6

ASSUME SdpAssumption ==
  /\ MaxPackets \in Nat
  /\ SourceCid \in Bytes256 \X Bytes256
  /\ \A p \in Packets : /\ p.bytes \in Seq(Bytes256) /\ p.sdp \in BOOLEAN
                        /\ IsSearch(p) => Len(p.bytes) >= PatternIndex

\* A sequence of elements of one type, of 2, 4 or 16 bytes each, as the Bluetooth standard
\* has a client send it: places are where each element begins and where the last one
\* ends, counted like the positions of the code.
HeaderAt(bytes, from, first, size) ==
  /\ At(bytes, from) \in {53, 54, 55}
  /\ first = from + 1 + (At(bytes, from) - 52)
  /\ first <= Len(bytes)
  /\ Word(LastBytes(2, SubSeq(bytes, from + 2, first))) = size
ElementAt(bytes, type, from, to) ==
  \E code \in {1, 2, 4} :
    At(bytes, from) = 8 * Code[type] + code /\ to = from + 1 + 2^code
SequenceAt(bytes, from, places, type) ==
  /\ places # << >> /\ places \in Seq(Nat)
  /\ HeaderAt(bytes, from, Head(places), Last(places) - Head(places))
  /\ Last(places) <= Len(bytes)
  /\ \A k \in 1..Len(places) - 1 : ElementAt(bytes, type, places[k], places[k + 1])

\* A request: the pattern, the largest count, the attributes and a continuation state of
\* one byte.  The UUIDs it names are told apart by their last 16 bits.
WellFormed(p) ==
  /\ SequenceAt(p.bytes, PatternIndex, p.pattern, "uuid")
  /\ SequenceAt(p.bytes, Last(p.pattern) + 2, p.attributes, "uint")
  /\ Len(p.bytes) = Last(p.attributes) + 1 /\ Len(p.bytes) < 256
  /\ p.uuids = [k \in 1..Len(p.pattern) - 1 |->
                  SubSeq(p.bytes, p.pattern[k + 1] - 1, p.pattern[k + 1])]

VARIABLES
  stage,     \* idle, pattern, attributes, response, threw, crashed or closed
  packet,    \* the buffer of the transfer that has completed
  idx,       \* how far the request is read
  reader,    \* deserializeDataElement
  pattern,   \* the elements of the service search pattern
  writer,    \* serializeSequenceDataElement
  file,      \* the log
  log,       \* the program that reads the log: place, records read, whether it stopped
  flying,    \* answers whose transfers have not completed
  received,  \* packets received
  traffic    \* history: every packet the program logged, with its request

vars == <<stage, packet, idx, reader, pattern, writer, file, log, flying, received, traffic>>
server == <<packet, idx, reader, pattern, writer>>

NoReader == Reading(<< >>, 0, Null)

-----------------------------------------------------------------------------
(* The answer: one service record, whatever was searched for.  A part is   *)
(* type, size, value and the number of the part that contains it.          *)

ServiceParts == <<
  <<"sequence", 95, << >>, 0>>,
    <<"sequence", 92, << >>, 1>>,
      <<"uint", 2, <<0, 0>>, 2>>, <<"uint", 4, <<0, 1, 0, 1>>, 2>>,     \* record handle
      <<"uint", 2, <<0, 1>>, 2>>, <<"sequence", 3, << >>, 2>>,          \* class ids
        <<"uuid", 2, <<17, 1>>, 6>>,
      <<"uint", 2, <<0, 4>>, 2>>, <<"sequence", 14, << >>, 2>>,         \* protocols
        <<"sequence", 3, << >>, 9>>, <<"uuid", 2, <<1, 0>>, 10>>,       \* L2CAP
        <<"sequence", 5, << >>, 9>>, <<"uuid", 2, <<0, 3>>, 12>>,       \* RFCOMM
          <<"dummy_uint", 2, <<8, 1>>, 12>> >>

ProfileParts == <<
      <<"uint", 2, <<0, 5>>, 2>>, <<"sequence", 3, << >>, 2>>,          \* browse groups
        <<"uuid", 2, <<16, 2>>, 16>>,
      <<"uint", 2, <<0, 6>>, 2>>, <<"sequence", 9, << >>, 2>>,          \* languages
        <<"uint", 2, <<101, 110>>, 19>>, <<"uint", 2, <<0, 106>>, 19>>,
        <<"uint", 2, <<1, 0>>, 19>>,
      <<"uint", 2, <<0, 9>>, 2>>, <<"sequence", 9, << >>, 2>>,          \* profiles
        <<"sequence", 6, << >>, 24>>, <<"uuid", 2, <<17, 1>>, 25>>,
          <<"uint", 2, <<17, 2>>, 25>>,
      <<"uint", 2, <<1, 0>>, 2>>,                                       \* service name
      <<"text_string", 11, <<83, 80, 80, 32, 67, 111, 117, 110, 116, 101, 114>>, 2>> >>

\* Bug the checks must catch: a size one short, for the sequence in the root.
ServiceRecordMiscounted ==
  LET parts == ServiceParts \o ProfileParts
  IN [n \in DOMAIN parts |->
        [Node(parts[n][1], parts[n][2] - (IF n = 2 THEN 1 ELSE 0), parts[n][4])
           EXCEPT !.value = parts[n][3]]]

ServiceRecord ==
  LET parts == ServiceParts \o ProfileParts
  IN [n \in DOMAIN parts |->
        [Node(parts[n][1], parts[n][2], parts[n][4]) EXCEPT !.value = parts[n][3]]]

-----------------------------------------------------------------------------
Init ==
  /\ stage = "idle"
  /\ packet = << >>
  /\ idx = 0
  /\ reader = NoReader
  /\ pattern = << >>
  /\ writer = Writing(<< >>)
  /\ file = << >>
  /\ log = [position |-> 0, records |-> << >>, stopped |-> FALSE]
  /\ flying = << >>
  /\ received = 0
  /\ traffic = << >>

\* The packet is logged before anything looks at it.
AclInCompleted(p) ==
  /\ stage = "idle"
  /\ received < MaxPackets
  /\ received' = received + 1
  /\ file' = write_packet(file, "hci_synchronous_data", p.bytes)
  /\ traffic' = Append(traffic, [type |-> "hci_synchronous_data", bytes |-> p.bytes,
                                 search |-> IsSearch(p), uuids |-> p.uuids])
  /\ IF IsSearch(p)
     THEN /\ stage' = "pattern"
          /\ packet' = p.bytes
          /\ idx' = PatternIndex
          /\ \E root \in {Null, Unset} : reader' = Reading(p.bytes, PatternIndex, root)
          /\ UNCHANGED <<pattern, writer>>
     ELSE UNCHANGED <<stage, server>>
  /\ UNCHANGED <<log, flying>>

\* What a completed answer is read back as: its buffer is on the stack of a function
\* that has returned, and holds the answer still, or the debug runtime's fill behind
\* the headers, or, when the transfer has failed, nothing counts.
ReadBack(answer) ==
  {answer, [k \in DOMAIN answer |-> IF k <= 8 THEN answer[k] ELSE 204], << >>}

\* An answer completes into the same callback, which logs it again, as a packet
\* received, and finds no search in it.
AclOutCompleted ==
  /\ stage = "idle" /\ flying # << >>
  /\ flying' = Tail(flying)
  /\ \E bytes \in ReadBack(Head(flying)) :
       /\ file' = write_packet(file, "hci_synchronous_data", bytes)
       /\ traffic' = Append(traffic, [type |-> "hci_synchronous_data", bytes |-> bytes,
                                      search |-> FALSE, uuids |-> << >>])
  /\ UNCHANGED <<stage, server, log, received>>

\* Bug the checks must catch: the elements of the pattern counted from one.
FirstUuidFromOne(nodes) == Len(Children(nodes, 1)) > 1

\* children.at(0) throws when the pattern is empty.
FirstUuid(nodes) == Len(Children(nodes, 1)) > 0

\* The pattern, then two bytes of the largest count, which nothing is done with.
ReadPattern ==
  /\ stage = "pattern"
  /\ \E h \in {HeaderRead(reader)} : \E b \in {BodyRead(h)} : \E r \in {TurnEnded(b)} :
        IF r.state # "done"
        THEN /\ reader' = r
             /\ stage' = IF r.state = "reading" THEN stage ELSE r.state
             /\ UNCHANGED <<pattern, idx>>
        ELSE /\ pattern' = r.nodes
             /\ idx' = Octet(idx + r.consumed + 2)
             /\ stage' = IF FirstUuid(r.nodes) THEN "attributes" ELSE "threw"
             /\ \E root \in {Null, Unset} : reader' = Reading(packet, idx', root)
  /\ UNCHANGED <<packet, writer, file, log, flying, received, traffic>>

ReadAttributes ==
  /\ stage = "attributes"
  /\ \E h \in {HeaderRead(reader)} : \E b \in {BodyRead(h)} : \E r \in {TurnEnded(b)} :
        /\ reader' = r
        /\ stage' = CASE r.state = "reading" -> stage
                      [] r.state = "done" -> "response"
                      [] OTHER -> r.state
        /\ idx' = IF r.state = "done" THEN Octet(idx + r.consumed) ELSE idx
        /\ writer' = IF r.state = "done" THEN Writing(ServiceRecord) ELSE writer
  /\ UNCHANGED <<packet, pattern, file, log, flying, received, traffic>>

\* Bug the checks must catch: the continuation state is not counted.
ResponseWithoutContinuation(request, data) ==
  LET count == Len(data)
  IN <<11, 32, Octet(count + 12), 0>> \o <<Octet(count + 8), (count + 8) \div 256>>
     \o SourceCid \o <<7>> \o SubSeq(request, 10, 11) \o Bytes(count + 2) \o Bytes(count)
     \o data \o <<0>>

\* Handle, lengths and channel, response code, transaction, lengths, record and no
\* continuation.  The upper byte of the first length is zero for any length.
Response(request, data) ==
  LET count == Len(data)
  IN <<11, 32, Octet(count + 12), 0>> \o <<Octet(count + 8), (count + 8) \div 256>>
     \o SourceCid \o <<7>> \o SubSeq(request, 10, 11) \o Bytes(count + 3) \o Bytes(count)
     \o data \o <<0>>

\* The record is written, sent and logged, sent or not, and the callback returns.
WriteResponse ==
  /\ stage = "response"
  /\ \E w \in {serializeSequenceDataElement(writer)} :
     \E answer \in {Response(packet, w.target)} :
        /\ writer' = w
        /\ IF w.state = "done"
           THEN /\ stage' = "idle"
                /\ flying' \in {flying, Append(flying, answer)}
                /\ packet' = << >> /\ reader' = NoReader /\ pattern' = << >> /\ idx' = 0
                /\ file' = write_packet(file, "hci_asynchronous_data", answer)
                /\ traffic' = Append(traffic, [type |-> "hci_asynchronous_data",
                                bytes |-> answer, search |-> FALSE, uuids |-> << >>])
           ELSE /\ stage' = IF w.state = "threw" THEN "threw" ELSE stage
                /\ UNCHANGED <<packet, reader, pattern, idx, file, flying, traffic>>
  /\ UNCHANGED <<log, received>>

\* The event loop never ends: the program is killed, at any time.
Killed ==
  /\ stage # "closed"
  /\ stage' = "closed"
  /\ packet' = << >> /\ reader' = NoReader /\ pattern' = << >> /\ idx' = 0
  /\ writer' = Writing(<< >>)
  /\ UNCHANGED <<file, log, flying, received, traffic>>

\* A reader of the log goes on until a header is refused.
ReadLog ==
  /\ stage = "closed"
  /\ ~log.stopped
  /\ LET r == packetlogger_read_packet(file, log.position)
     IN log' = IF r.ok
               THEN [log EXCEPT !.position = r.next,
                                !.records = Append(@, [type |-> r.type, data |-> r.data])]
               ELSE [log EXCEPT !.stopped = TRUE]
  /\ UNCHANGED <<stage, server, file, flying, received, traffic>>

Program == ReadPattern \/ ReadAttributes \/ WriteResponse
Next ==
  (\E p \in Packets : AclInCompleted(p)) \/ AclOutCompleted \/ Program \/ Killed \/ ReadLog

Spec == Init /\ [][Next]_vars

\* A callback that has begun runs on.
FairSpec == Spec /\ WF_vars(Program)

-----------------------------------------------------------------------------
Stages == {"idle", "pattern", "attributes", "response", "threw", "crashed", "closed"}
MaxSize == 65535     \* 16 bits
Nodes == [type : DOMAIN Code \cup {"unknown", "dummy_uint"}, size : 0..MaxSize,
          parent : Int, start_index : Bytes256, value : Seq(Bytes256)]

\* Counts fit 8 bits and everything that is read, written or logged is made of
\* bytes; the array of 256 bytes is never exceeded.
TypeOK ==
  /\ stage \in Stages
  /\ idx \in Bytes256
  /\ packet \in Seq(Bytes256) /\ file \in Seq(Bytes256)
  /\ reader.consumed \in Bytes256 /\ reader.current \in DOMAIN reader.nodes
  /\ reader.nodes \in Seq(Nodes) /\ pattern \in Seq(Nodes)
  /\ writer.target \in Seq(Bytes256) /\ Len(writer.target) <= 256
  /\ log.position \in Nat /\ log.stopped \in BOOLEAN
  /\ flying \in Seq(Seq(Bytes256)) /\ received \in 0..MaxPackets
  /\ \A i \in DOMAIN traffic : traffic[i].bytes \in Seq(Bytes256)

Asked == SelectSeq(traffic, LAMBDA t : t.search)
Answered == SelectSeq(traffic, LAMBDA t : t.type = "hci_asynchronous_data")

\* The request is read to its end, however its sequences announce their lengths and
\* whatever their elements: only the continuation state is left.  The count of bytes
\* starts from a size to which two is added for a header of two to four bytes
\* (deserializeDataElement).
WholeRequestRead == stage = "response" => idx = Len(packet) - 1

\* The UUIDs of the pattern are the children of its root, in their order, with their
\* last 16 bits, although the reader finds its way by counting bytes from two origins.
PatternKeepsPlace ==
  stage = "attributes" =>
    LET children == Children(pattern, 1)
    IN [k \in DOMAIN children |-> pattern[children[k]].value] = Last(traffic).uuids

\* No step follows the parent pointer of a root, which reset() does not set.
NoUnsetParentFollowed == stage # "crashed"

\* Where the bytes of a node end, and where a sequence, whose header takes three bytes,
\* declares that its own end.
WrittenEnd(w, d) == IF d = Len(w.nodes) THEN Len(w.target) ELSE w.begins[d + 1]
DeclaredEnd(w, n) == w.begins[n] + 3 + w.nodes[n].size
Within(w, n, d) == w.begins[n] < w.begins[d] /\ WrittenEnd(w, d) <= DeclaredEnd(w, n)
Above(nodes, n) ==
  LET above[k \in 0..Len(nodes)] ==
        IF k = 0 THEN {} ELSE {nodes[k].parent} \cup above[nodes[k].parent]
  IN above[n]

\* The record agrees with itself: the elements keep their order, an element lies, to its
\* end, within the bytes a sequence declares exactly when it belongs to the sequence, and
\* these bytes end where the last such element ends (the sizes are counted by hand).
RecordNested ==
  writer.state = "done" =>
    \A n \in DOMAIN writer.nodes :
      /\ \A d \in DOMAIN writer.nodes : n < d => writer.begins[n] < writer.begins[d]
      /\ writer.nodes[n].type = "sequence" =>
           /\ \A d \in DOMAIN writer.nodes :
                Within(writer, n, d) <=> n \in Above(writer.nodes, d)
           /\ \E d \in DOMAIN writer.nodes :
                n \in Above(writer.nodes, d) /\ WrittenEnd(writer, d) = DeclaredEnd(writer, n)

\* Each length of an answer, a constant more than the length of the record, counts what
\* follows it, and the transaction is the request's: the packet before it, which is the
\* only thing that is ever answered.
AnswersWellFormed ==
  \A i \in DOMAIN traffic :
    traffic[i].type = "hci_asynchronous_data" =>
      LET a == traffic[i].bytes
      IN /\ a[3] + 256 * a[4] = Len(a) - 4
         /\ a[5] + 256 * a[6] = Len(a) - 8
         /\ Word(SubSeq(a, 12, 13)) = Len(a) - 13
         /\ Word(SubSeq(a, 14, 15)) = Len(a) - 16
         /\ Word(SubSeq(a, 17, 18)) = Len(a) - 19
         /\ i > 1 /\ traffic[i - 1].search
         /\ SubSeq(a, 10, 11) = SubSeq(traffic[i - 1].bytes, 10, 11)

\* A log that is read to its end has every packet, in the order it was seen, with its
\* type, and an answer once more when its transfer has completed; a packet of 256 bytes or
\* more comes back shortened, and the records behind it are still found (write_packet,
\* packetlogger_read_packet).
LogReadsBack ==
  log.stopped =>
    log.records = [i \in DOMAIN traffic |->
      [type |-> HciPacketType[traffic[i].type],
       data |-> SubSeq(traffic[i].bytes, 1, Len(traffic[i].bytes) % 256)]]

\* Every search is answered unless the program is killed: neither the loops of the
\* reader go on for ever nor does an exception leave the callback.
SearchesAnswered ==
  \A k \in 1..MaxPackets : Len(Asked) >= k ~> (Len(Answered) >= k \/ stage = "closed")
=============================================================================
