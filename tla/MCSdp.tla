------------------------------- MODULE MCSdp -------------------------------
(* SdpServer for TLC: searches for one or two services, with UUIDs of 16, 32 *)
(* and 128 bits, all sequence headers, and packets that are not searches.    *)
EXTENDS SdpServer

\* A sequence whose length takes one, two or three bytes.
Sequence(width, es) ==
  LET content == FlattenSeq(es)
  IN [bytes |-> <<52 + width>> \o [k \in 1..width - 1 |-> 0] \o <<Len(content)>> \o content,
      places |-> [k \in 1..Len(es) + 1 |-> width + 1 + Len(FlattenSeq(SubSeq(es, 1, k - 1)))]]
Shifted(places, by) == [k \in DOMAIN places |-> places[k] + by]
Uuid16(u) == <<25>> \o u
Uuid32(u) == <<26, 0, 0>> \o u
Uuid128(u) == <<28, 0, 0, 17, 1, 0, 0, 16, 0, 128, 0, 0, 128, 95, 155>> \o u
Id16 == <<9, 0, 1>>
Range32 == <<10, 0, 0, 255, 255>>

Search(transaction, elements, uuids) ==
  LET parameters == elements[1].bytes \o <<255, 255>> \o elements[2].bytes \o <<0>>
      count == Len(parameters)
  IN [bytes |-> <<11, 32, count + 9, 0, count + 5, 0, 65, 0, 6, 0, transaction, 0, count>>
                \o parameters,
      sdp |-> TRUE, uuids |-> uuids, pattern |-> Shifted(elements[1].places, PatternIndex),
      attributes |-> Shifted(elements[2].places,
                             PatternIndex + Len(elements[1].bytes) + 2)]

SerialPort == <<17, 1>>
L2cap == <<1, 0>>
BaseEnd == <<52, 251>>
Vendor == <<7, 9>>
Searches == {
  Search(1, <<Sequence(1, <<Uuid16(SerialPort)>>), Sequence(1, <<Range32>>)>>, <<SerialPort>>),
  Search(2, <<Sequence(2, <<Uuid16(L2cap)>>), Sequence(2, <<Id16, Id16>>)>>, <<L2cap>>),
  Search(3, <<Sequence(3, <<Uuid32(SerialPort), Uuid16(L2cap)>>), Sequence(3, <<Id16>>)>>,
         <<SerialPort, L2cap>>),
  Search(4, <<Sequence(1, <<Uuid128(Vendor), Uuid128(BaseEnd)>>),
              Sequence(2, <<Range32, Id16>>)>>, <<Vendor, BaseEnd>>)}

\* Another request of SDP, a long packet of another channel and one of 256 bytes.
Others == {
  [bytes |-> <<11, 32, 7, 0, 3, 0, 65, 0, 2, 0, 9>>, sdp |-> TRUE, uuids |-> << >>,
   pattern |-> << >>, attributes |-> << >>],
  [bytes |-> [k \in 1..300 |-> k % 256], sdp |-> FALSE, uuids |-> << >>,
   pattern |-> << >>, attributes |-> << >>],
  [bytes |-> [k \in 1..256 |-> k % 256], sdp |-> FALSE, uuids |-> << >>,
   pattern |-> << >>, attributes |-> << >>]}

Traffic == Searches \cup Others

\* What the theorems about requests assume of them.
ASSUME SearchesWellFormed == \A p \in Searches : IsSearch(p) /\ WellFormed(p)

Cid == <<64, 0>>
=============================================================================
