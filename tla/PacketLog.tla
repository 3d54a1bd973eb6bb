----------------------------- MODULE PacketLog -----------------------------
(***************************************************************************)
(* The packet log of apple_pklg/pklg.cpp: a record per packet, of a length *)
(* (4 bytes), a time stamp (8), a type (1) and the packet.  A file is the  *)
(* sequence of its bytes.                                                  *)
(***************************************************************************)
EXTENDS Integers, Sequences

HciPacketType == [hci_command |-> 0, hci_event |-> 1, hci_asynchronous_data |-> 2,
                  hci_synchronous_data |-> 3]

\* The length counts what follows it; it is written big-endian.  The time is zero.
packetlogger_header(type, count) ==
  <<0, 0, (9 + count) \div 256, (9 + count) % 256, 0, 0, 0, 0, 0, 0, 0, 0, HciPacketType[type]>>

\* Bug the checks must catch: the type is not counted.
write_packet_type_not_counted(file, type, data) ==
  LET data_len == Len(data) % 256
  IN file \o packetlogger_header(type, data_len - 1) \o SubSeq(data, 1, data_len)

\* The length of the packet is passed in 8 bits: of a longer packet the file gets
\* the first Len(data) % 256 bytes.
write_packet(file, type, data) ==
  LET data_len == Len(data) % 256
  IN file \o packetlogger_header(type, data_len) \o SubSeq(data, 1, data_len)

\* What is read behind a position; at the end of the file everything stays zero.
Behind(file, position, count) ==
  IF position + count > Len(file) THEN [k \in 1..count |-> 0]
  ELSE SubSeq(file, position + 1, position + count)

\* "check magic": a length from 8 to 65535 and a type below 4 or of a text.
packetlogger_read_header(file, position) ==
  LET h == Behind(file, position, 13)
      len == 256 * h[3] + h[4]
  IN [ok |-> /\ h[1] = 0 /\ h[2] = 0 /\ len >= 8
             /\ h[13] \in 0..3 \cup {251, 252, 254, 255},
      len |-> len, type |-> h[13]]

\* One record, and where the next one begins.
packetlogger_read_packet(file, position) ==
  LET h == packetlogger_read_header(file, position)
  IN [ok |-> h.ok, type |-> h.type, next |-> position + 4 + h.len,
      data |-> IF h.ok THEN Behind(file, position + 13, h.len - 9) ELSE << >>]
=============================================================================
