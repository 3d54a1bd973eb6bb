---------------------------- MODULE Rfcomm_proofs ----------------------------
(***************************************************************************)
(* The RFCOMM server for any payloads, buffers and failing submissions:    *)
(* its variables are well-typed, the client can read every packet, an      *)
(* answer on its way belongs to the request that waits for it, the server  *)
(* speaks only on an open channel, and what is printed was sent.           *)
(*                                                                         *)
(* The server keeps nothing of a session, so what it does right it does    *)
(* right because the two queues keep their order.  The invariant is about  *)
(* both of them: of each kind of request at most one is on its way, as a   *)
(* request or as its answer, and only while the client waits for it; and   *)
(* when the channel closes, the answer to that comes behind everything     *)
(* the server has said on it.                                              *)
(***************************************************************************)
EXTENDS Rfcomm, SequenceFacts, FiniteSetTheorems

-----------------------------------------------------------------------------
(* Check sequences.                                                        *)

\* The operator ^ gives a byte.
LEMMA XorTyped ==
  ASSUME NEW a \in Bytes, NEW b \in Bytes
  PROVE  ByteXor(a, b) \in Bytes
<1>1. ASSUME NEW weight \in {1, 2, 4, 8, 16, 32, 64, 128}
      PROVE  BitXor(a, b, weight) \in {0, weight}
  BY <1>1 DEF BitXor, Bytes
<1> HIDE DEF BitXor
<1> QED
  BY <1>1 DEF ByteXor, Bytes

\* So do the table and the shift register.
LEMMA TurnTyped ==
  ASSUME NEW crc \in Bytes, NEW byte \in Bytes
  PROVE  crc_turn(crc, byte) \in Bytes
<1>1. \A k \in 1..256 : ng_btsocket_rfcomm_crc_table[k] \in Bytes
  BY DEF ng_btsocket_rfcomm_crc_table, Bytes
<1>2. ByteXor(crc, byte) \in Bytes
  BY XorTyped
<1>3. ByteXor(crc, byte) + 1 \in 1..256
  BY <1>2 DEF Bytes
<1> HIDE DEF ng_btsocket_rfcomm_crc_table
<1> QED
  BY <1>1, <1>3 DEF crc_turn

LEMMA ShiftTyped ==
  ASSUME NEW crc \in Bytes
  PROVE  Shift(crc) \in Bytes
<1>1. crc \div 2 \in Bytes /\ 224 \in Bytes
  BY DEF Bytes
<1> QED
  BY <1>1, XorTyped DEF Shift

LEMMA RegisterTyped ==
  ASSUME NEW crc \in Bytes, NEW byte \in Bytes
  PROVE  Register(crc, byte) \in Bytes
<1>1. ASSUME NEW x \in Bytes PROVE Twice(x) \in Bytes
  BY ShiftTyped DEF Twice
<1>2. ByteXor(crc, byte) \in Bytes
  BY XorTyped
<1> HIDE DEF Twice, ByteXor
<1>3. Remainder[ByteXor(crc, byte)] \in Bytes
  BY <1>1, <1>2 DEF Remainder
<1> QED
  BY <1>3 DEF Register

\* The check sequence of a frame of bytes is a byte.
LEMMA CheckSequenceTyped ==
  ASSUME NEW f, f[1] \in Bytes, f[2] \in Bytes, f[3] \in Bytes
  PROVE  CheckSequence(f) \in Bytes
<1>1. 255 \in Bytes
  BY DEF Bytes
<1> DEFINE header == Register(Register(255, f[1]), f[2])
<1>2. header \in Bytes /\ Register(header, f[3]) \in Bytes
  BY <1>1, RegisterTyped
<1> HIDE DEF header
<1>3. CheckSequence(f) = 255 - IF f[2] \in {UIH, UIHCredits} THEN header ELSE Register(header, f[3])
  BY DEF CheckSequence, header
<1> QED
  BY <1>2, <1>3 DEF Bytes

\* It depends on the three bytes of the header alone.
LEMMA CheckSequenceOfHeader ==
  ASSUME NEW f, NEW g, f[1] = g[1], f[2] = g[2], f[3] = g[3]
  PROVE  CheckSequence(f) = CheckSequence(g)
  BY DEF CheckSequence

\* The remainders the server's own frames need, bit by bit.
LEMMA Remainders ==
  /\ Remainder[254] = 94 /\ Remainder[177] = 85
  /\ Remainder[252] = 189 /\ Remainder[82] = 143
  /\ Remainder[206] = 122 /\ Remainder[123] = 40
  /\ Remainder[246] = 80 /\ Remainder[175] = 163
  /\ Remainder[244] = 179 /\ Remainder[192] = 144 /\ Remainder[145] = 109
<1>1. Remainder[254] = 94
  <2>1. /\ Shift(254) = 127 /\ Shift(127) = 223 /\ Shift(223) = 143 /\ Shift(143) = 167
        /\ Shift(167) = 179 /\ Shift(179) = 185 /\ Shift(185) = 188 /\ Shift(188) = 94
    BY DEF Shift, ByteXor, BitXor
  <2> QED
    BY <2>1 DEF Remainder, Twice, Bytes
<1>2. Remainder[177] = 85
  <2>1. /\ Shift(177) = 184 /\ Shift(184) = 92 /\ Shift(92) = 46 /\ Shift(46) = 23
        /\ Shift(23) = 235 /\ Shift(235) = 149 /\ Shift(149) = 170 /\ Shift(170) = 85
    BY DEF Shift, ByteXor, BitXor
  <2> QED
    BY <2>1 DEF Remainder, Twice, Bytes
<1>3. Remainder[252] = 189
  <2>1. /\ Shift(252) = 126 /\ Shift(126) = 63 /\ Shift(63) = 255 /\ Shift(255) = 159
        /\ Shift(159) = 175 /\ Shift(175) = 183 /\ Shift(183) = 187 /\ Shift(187) = 189
    BY DEF Shift, ByteXor, BitXor
  <2> QED
    BY <2>1 DEF Remainder, Twice, Bytes
<1>4. Remainder[82] = 143
  <2>1. /\ Shift(82) = 41 /\ Shift(41) = 244 /\ Shift(244) = 122 /\ Shift(122) = 61
        /\ Shift(61) = 254 /\ Shift(254) = 127 /\ Shift(127) = 223 /\ Shift(223) = 143
    BY DEF Shift, ByteXor, BitXor
  <2> QED
    BY <2>1 DEF Remainder, Twice, Bytes
<1>5. Remainder[206] = 122
  <2>1. /\ Shift(206) = 103 /\ Shift(103) = 211 /\ Shift(211) = 137 /\ Shift(137) = 164
        /\ Shift(164) = 82 /\ Shift(82) = 41 /\ Shift(41) = 244 /\ Shift(244) = 122
    BY DEF Shift, ByteXor, BitXor
  <2> QED
    BY <2>1 DEF Remainder, Twice, Bytes
<1>6. Remainder[123] = 40
  <2>1. /\ Shift(123) = 221 /\ Shift(221) = 142 /\ Shift(142) = 71 /\ Shift(71) = 195
        /\ Shift(195) = 129 /\ Shift(129) = 160 /\ Shift(160) = 80 /\ Shift(80) = 40
    BY DEF Shift, ByteXor, BitXor
  <2> QED
    BY <2>1 DEF Remainder, Twice, Bytes
<1>7. Remainder[246] = 80
  <2>1. /\ Shift(246) = 123 /\ Shift(123) = 221 /\ Shift(221) = 142 /\ Shift(142) = 71
        /\ Shift(71) = 195 /\ Shift(195) = 129 /\ Shift(129) = 160 /\ Shift(160) = 80
    BY DEF Shift, ByteXor, BitXor
  <2> QED
    BY <2>1 DEF Remainder, Twice, Bytes
<1>8. Remainder[175] = 163
  <2>1. /\ Shift(175) = 183 /\ Shift(183) = 187 /\ Shift(187) = 189 /\ Shift(189) = 190
        /\ Shift(190) = 95 /\ Shift(95) = 207 /\ Shift(207) = 135 /\ Shift(135) = 163
    BY DEF Shift, ByteXor, BitXor
  <2> QED
    BY <2>1 DEF Remainder, Twice, Bytes
<1>9. Remainder[244] = 179
  <2>1. /\ Shift(244) = 122 /\ Shift(122) = 61 /\ Shift(61) = 254 /\ Shift(254) = 127
        /\ Shift(127) = 223 /\ Shift(223) = 143 /\ Shift(143) = 167 /\ Shift(167) = 179
    BY DEF Shift, ByteXor, BitXor
  <2> QED
    BY <2>1 DEF Remainder, Twice, Bytes
<1>10. Remainder[192] = 144
  <2>1. /\ Shift(192) = 96 /\ Shift(96) = 48 /\ Shift(48) = 24 /\ Shift(24) = 12
        /\ Shift(12) = 6 /\ Shift(6) = 3 /\ Shift(3) = 225 /\ Shift(225) = 144
    BY DEF Shift, ByteXor, BitXor
  <2> QED
    BY <2>1 DEF Remainder, Twice, Bytes
<1>11. Remainder[145] = 109
  <2>1. /\ Shift(145) = 168 /\ Shift(168) = 84 /\ Shift(84) = 42 /\ Shift(42) = 21
        /\ Shift(21) = 234 /\ Shift(234) = 117 /\ Shift(117) = 218 /\ Shift(218) = 109
    BY DEF Shift, ByteXor, BitXor
  <2> QED
    BY <2>1 DEF Remainder, Twice, Bytes
<1> QED
  BY <1>1, <1>2, <1>3, <1>4, <1>5, <1>6, <1>7, <1>8, <1>9, <1>10, <1>11

\* The check sequences a client expects in the frames of the server.
LEMMA CheckSequences ==
  ASSUME NEW f
  PROVE  /\ f[1] = 1 /\ f[2] = UIH => CheckSequence(f) = 170
         /\ f[1] = 3 /\ f[2] = UIH => CheckSequence(f) = 112
         /\ f[1] = 9 /\ f[2] = UIHCredits => CheckSequence(f) = 92
         /\ f[1] = 3 /\ f[2] = UA /\ f[3] = 1 => CheckSequence(f) = 215
         /\ f[1] = 11 /\ f[2] = UA /\ f[3] = 1 => CheckSequence(f) = 146
<1>1. /\ ByteXor(255, 1) = 254 /\ ByteXor(94, 239) = 177
      /\ ByteXor(255, 3) = 252 /\ ByteXor(189, 239) = 82
      /\ ByteXor(189, 115) = 206 /\ ByteXor(122, 1) = 123
  BY DEF ByteXor, BitXor
<1>2. /\ ByteXor(255, 9) = 246 /\ ByteXor(80, 255) = 175
      /\ ByteXor(255, 11) = 244 /\ ByteXor(179, 115) = 192 /\ ByteXor(144, 1) = 145
  BY DEF ByteXor, BitXor
<1> HIDE DEF ByteXor, Remainder
<1>3. /\ Register(255, 1) = 94 /\ Register(94, 239) = 85
      /\ Register(255, 3) = 189 /\ Register(189, 239) = 143
      /\ Register(189, 115) = 122 /\ Register(122, 1) = 40
      /\ Register(255, 9) = 80 /\ Register(80, 255) = 163
      /\ Register(255, 11) = 179 /\ Register(179, 115) = 144 /\ Register(144, 1) = 109
  BY <1>1, <1>2, Remainders DEF Register
<1> HIDE DEF Register
<1> QED
  BY <1>3 DEF CheckSequence, UIH, UIHCredits, UA

\* The table gives the same for the acknowledgements of the two channels.
LEMMA Table ==
  /\ ng_btsocket_rfcomm_fcs3(<<3, UA, 1>>) = 215
  /\ ng_btsocket_rfcomm_fcs3(<<11, UA, 1>>) = 146
<1>1. /\ ng_btsocket_rfcomm_crc_table[253] = 189 /\ ng_btsocket_rfcomm_crc_table[207] = 122
      /\ ng_btsocket_rfcomm_crc_table[124] = 40
      /\ ng_btsocket_rfcomm_crc_table[245] = 179 /\ ng_btsocket_rfcomm_crc_table[193] = 144
      /\ ng_btsocket_rfcomm_crc_table[146] = 109
  BY DEF ng_btsocket_rfcomm_crc_table
<1>2. /\ ByteXor(255, 3) = 252 /\ ByteXor(189, 115) = 206 /\ ByteXor(122, 1) = 123
      /\ ByteXor(255, 11) = 244 /\ ByteXor(179, 115) = 192 /\ ByteXor(144, 1) = 145
  BY DEF ByteXor, BitXor
<1> HIDE DEF ng_btsocket_rfcomm_crc_table, ByteXor
<1>3. /\ crc_turn(255, 3) = 189 /\ crc_turn(189, 115) = 122 /\ crc_turn(122, 1) = 40
      /\ crc_turn(255, 11) = 179 /\ crc_turn(179, 115) = 144 /\ crc_turn(144, 1) = 109
  BY <1>1, <1>2 DEF crc_turn
<1> HIDE DEF crc_turn
<1> QED
  BY <1>3 DEF ng_btsocket_rfcomm_fcs3, ng_btsocket_rfcomm_crc, UA
-----------------------------------------------------------------------------
(* Frames and packets.                                                     *)

\* A frame of the client is made of bytes, and stands as it was put together.
LEMMA FrameIs ==
  ASSUME NEW address \in Bytes, NEW control \in Bytes, NEW credits \in Seq(Bytes),
         NEW information \in Seq(Bytes), Len(information) <= 127
  PROVE  LET f == FrameOf(address, control, credits, information)
         IN /\ f \in Seq(Bytes) /\ Len(f) = 4 + Len(credits) + Len(information)
            /\ f[1] = address /\ f[2] = control /\ f[3] = 2 * Len(information) + 1
            /\ \A k \in 1..Len(credits) : f[3 + k] = credits[k]
            /\ \A k \in 1..Len(information) : f[3 + Len(credits) + k] = information[k]
<1> DEFINE length == 2 * Len(information) + 1
           h == <<address, control, length>>
           g == h \o credits
           u == g \o information
           f == Append(u, CheckSequence(u))
           m == Len(information)
           c == Len(credits)
<1>1. m \in Nat /\ c \in Nat /\ m <= 127
  OBVIOUS
<1> HIDE DEF m, c
<1>2. length \in Bytes
  <2>1. 2 * m + 1 \in Bytes
    BY <1>1 DEF Bytes
  <2> QED
    BY <2>1 DEF m
<1>3. length = 2 * m + 1 /\ Len(information) = m /\ Len(credits) = c
  BY DEF m, c
<1> HIDE DEF length
<1>4. /\ h \in Seq(Bytes) /\ Len(h) = 3
      /\ h[1] = address /\ h[2] = control /\ h[3] = length
  BY <1>2
<1> HIDE DEF h
<1>5. /\ h \o credits \in Seq(Bytes) /\ Len(h \o credits) = 3 + c
      /\ \A i \in 1..3 : (h \o credits)[i] = h[i]
      /\ \A i \in 1..c : (h \o credits)[3 + i] = credits[i]
  <2>1. /\ h \o credits \in Seq(Bytes) /\ Len(h \o credits) = Len(h) + Len(credits)
        /\ \A i \in 1..Len(h) : (h \o credits)[i] = h[i]
        /\ \A i \in 1..Len(credits) : (h \o credits)[Len(h) + i] = credits[i]
    <3>1. h \in Seq(Bytes)
      BY <1>4
    <3> QED
      BY <3>1, Joined
  <2> QED
    BY <1>3, <1>4, <2>1
<1>6. /\ g \in Seq(Bytes) /\ Len(g) = 3 + c
      /\ g[1] = address /\ g[2] = control /\ g[3] = length
      /\ \A i \in 1..c : g[3 + i] = credits[i]
  <2>1. /\ g \in Seq(Bytes) /\ Len(g) = 3 + c
        /\ \A i \in 1..3 : g[i] = h[i]
        /\ \A i \in 1..c : g[3 + i] = credits[i]
    BY <1>5
  <2> HIDE DEF g
  <2> QED
    BY <1>4, <2>1
<1> HIDE DEF g
<1>7. /\ g \o information \in Seq(Bytes) /\ Len(g \o information) = (3 + c) + m
      /\ \A i \in 1..3 + c : (g \o information)[i] = g[i]
      /\ \A i \in 1..m : (g \o information)[(3 + c) + i] = information[i]
  <2>1. /\ g \o information \in Seq(Bytes)
        /\ Len(g \o information) = Len(g) + Len(information)
        /\ \A i \in 1..Len(g) : (g \o information)[i] = g[i]
        /\ \A i \in 1..Len(information) :
             (g \o information)[Len(g) + i] = information[i]
    <3>1. g \in Seq(Bytes)
      BY <1>6
    <3> QED
      BY <3>1, Joined
  <2> QED
    BY <1>3, <1>6, <2>1
<1>8. /\ u \in Seq(Bytes) /\ Len(u) = 3 + c + m
      /\ u[1] = address /\ u[2] = control /\ u[3] = length
      /\ \A i \in 1..c : u[3 + i] = credits[i]
      /\ \A i \in 1..m : u[3 + c + i] = information[i]
  <2>1. u[1] = address /\ u[2] = control /\ u[3] = length
    BY <1>1, <1>6, <1>7
  <2>2. ASSUME NEW i \in 1..c PROVE u[3 + i] = credits[i]
    <3>1. 3 + i \in 1..3 + c
      BY <1>1
    <3> QED
      BY <1>6, <1>7, <3>1
  <2> QED
    BY <1>7, <2>1, <2>2
<1> HIDE DEF u
<1>9. CheckSequence(u) \in Bytes
  BY <1>2, <1>8, CheckSequenceTyped
<1>10. /\ f \in Seq(Bytes) /\ Len(f) = 4 + c + m
       /\ \A i \in 1..3 + c + m : f[i] = u[i]
       /\ f[4 + c + m] = CheckSequence(u)
  BY <1>1, <1>8, <1>9, QueueAppend
<1> HIDE DEF f
<1>11. f[1] = address /\ f[2] = control /\ f[3] = length
  BY <1>1, <1>8, <1>10
<1>12. ASSUME NEW i \in 1..c PROVE f[3 + i] = credits[i]
  <2>1. 3 + i \in 1..3 + c + m
    BY <1>1
  <2> QED
    BY <1>8, <1>10, <2>1
<1>13. ASSUME NEW i \in 1..m PROVE f[3 + c + i] = information[i]
  <2>1. 3 + c + i \in 1..3 + c + m
    BY <1>1
  <2> QED
    BY <1>8, <1>10, <2>1
<1>14. FrameOf(address, control, credits, information) = f
  BY DEF FrameOf, f, u, g, h, length
<1> QED
  BY <1>3, <1>10, <1>11, <1>12, <1>13, <1>14

\* The packets the server has, and the kind of answer each of them is.
AnswerPackets ==
  {Acknowledgement(Mux), Acknowledgement(Dlc), ModemStatusCommand, Credits,
   DisconnectAcknowledgement, ParameterResponse, ModemStatusResponse}
AnswerKind(f) ==
  IF f[2] = UA THEN IF f[1] = Mux THEN "mux" ELSE "dlc"
  ELSE IF f[2] = UIHCredits THEN "credits"
  ELSE IF f[4] = PNResponse THEN "pn"
  ELSE IF f[4] = MSCResponse THEN "msc" ELSE "status"

\* A tuple of three and one more.
LEMMA ThreeAndOne ==
  ASSUME NEW a \in Bytes, NEW b \in Bytes, NEW c \in Bytes, NEW d \in Bytes
  PROVE  <<a, b, c>> \o <<d>> = <<a, b, c, d>>
<1> DEFINE s == <<a, b, c>>
           t == <<d>>
           u == <<a, b, c, d>>
<1>1. /\ s \in Seq(Bytes) /\ Len(s) = 3 /\ s[1] = a /\ s[2] = b /\ s[3] = c
      /\ t \in Seq(Bytes) /\ Len(t) = 1 /\ t[1] = d
  OBVIOUS
<1>2. /\ u \in Seq(Bytes) /\ Len(u) = 4 /\ u[1] = a /\ u[2] = b /\ u[3] = c /\ u[4] = d
  OBVIOUS
<1> HIDE DEF s, t, u
<1>3. /\ s \o t \in Seq(Bytes) /\ Len(s \o t) = 4
      /\ \A i \in 1..4 : (s \o t)[i] = IF i <= 3 THEN s[i] ELSE t[i - 3]
  <2>1. /\ s \o t \in Seq(Bytes) /\ Len(s \o t) = Len(s) + Len(t)
        /\ \A i \in 1..Len(s) + Len(t) :
             (s \o t)[i] = IF i <= Len(s) THEN s[i] ELSE t[i - Len(s)]
    BY <1>1, ConcatProperties
  <2> QED
    BY <1>1, <2>1
<1>4. \A i \in 1..4 : (s \o t)[i] = u[i]
  <2>1. 1..4 = {1, 2, 3, 4}
    OBVIOUS
  <2>2. (s \o t)[1] = a /\ (s \o t)[2] = b /\ (s \o t)[3] = c /\ (s \o t)[4] = d
    BY <1>1, <1>3
  <2> QED
    BY <1>2, <2>1, <2>2
<1>5. s \o t = u
  BY <1>2, <1>3, <1>4, SeqEqual
<1> QED
  BY <1>5 DEF s, t, u

\* The acknowledgements, byte by byte.
LEMMA AcknowledgementBytes ==
  /\ Acknowledgement(Mux) = Packet(8, 4, <<3, UA, 1, 215>>)
  /\ Acknowledgement(Dlc) = Packet(8, 4, <<11, UA, 1, 146>>)
<1>1. 3 \in Bytes /\ 11 \in Bytes /\ UA \in Bytes /\ 1 \in Bytes /\ 215 \in Bytes /\ 146 \in Bytes
  BY DEF Bytes, UA
<1>2. /\ <<3, UA, 1>> \o <<215>> = <<3, UA, 1, 215>>
      /\ <<11, UA, 1>> \o <<146>> = <<11, UA, 1, 146>>
  BY <1>1, ThreeAndOne
<1> HIDE DEF UA
<1>3. Acknowledgement(Mux) = Packet(8, 4, <<3, UA, 1, 215>>)
  BY <1>2, Table DEF Acknowledgement, Mux
<1>4. Acknowledgement(Dlc) = Packet(8, 4, <<11, UA, 1, 146>>)
  BY <1>2, Table DEF Acknowledgement, Dlc
<1> QED
  BY <1>3, <1>4

\* What matters of the frame of the negotiated parameters.
LEMMA ParameterFrame ==
  LET f == ParameterResponse.frame
  IN /\ f \in Seq(Bytes) /\ Len(f) = 14 /\ ParameterResponse = Packet(18, 14, f)
     /\ f[1] = 1 /\ f[2] = UIH /\ f[3] = 21 /\ f[4] = PNResponse /\ f[14] = 170
<1> DEFINE h == <<1, UIH, 21, PNResponse>>
           g == h \o Parameters
           e == <<170>>
           f == g \o e
<1>1. /\ h \in Seq(Bytes) /\ Len(h) = 4 /\ h[1] = 1 /\ h[2] = UIH /\ h[3] = 21
      /\ h[4] = PNResponse /\ e \in Seq(Bytes) /\ Len(e) = 1 /\ e[1] = 170
  BY DEF Bytes, UIH, PNResponse
<1>2. Parameters \in Seq(Bytes) /\ Len(Parameters) = 9
  BY DEF Bytes, Parameters
<1> HIDE DEF h, e
<1>3. /\ g \in Seq(Bytes) /\ Len(g) = 4 + 9 /\ \A i \in 1..4 : g[i] = h[i]
  <2>1. /\ h \o Parameters \in Seq(Bytes) /\ Len(h \o Parameters) = Len(h) + Len(Parameters)
        /\ \A i \in 1..Len(h) : (h \o Parameters)[i] = h[i]
    <3>1. h \in Seq(Bytes) /\ Parameters \in Seq(Bytes)
      BY <1>1, <1>2
    <3> QED
      BY <3>1, Joined
  <2> QED
    BY <1>1, <1>2, <2>1
<1> HIDE DEF g
<1>4. /\ f \in Seq(Bytes) /\ Len(f) = 13 + 1
      /\ \A i \in 1..13 : f[i] = g[i]
      /\ \A i \in 1..1 : f[13 + i] = e[i]
  <2>1. /\ g \o e \in Seq(Bytes) /\ Len(g \o e) = Len(g) + Len(e)
        /\ \A i \in 1..Len(g) : (g \o e)[i] = g[i]
        /\ \A i \in 1..Len(e) : (g \o e)[Len(g) + i] = e[i]
    <3>1. g \in Seq(Bytes) /\ e \in Seq(Bytes)
      BY <1>1, <1>3
    <3> QED
      BY <3>1, Joined
  <2>2. Len(g) = 13 /\ Len(e) = 1
    BY <1>1, <1>3
  <2> HIDE DEF g
  <2> QED
    BY <2>1, <2>2
<1>5. ParameterResponse = Packet(18, 14, f)
  BY DEF ParameterResponse, f, g, h, e
<1> HIDE DEF f
<1>6. f[1] = 1 /\ f[2] = UIH /\ f[3] = 21 /\ f[4] = PNResponse /\ Len(f) = 14
  BY <1>1, <1>3, <1>4
<1>7. f[13 + 1] = 170
  BY <1>1, <1>4
<1>8. ParameterResponse.frame = f
  BY <1>5 DEF Packet
<1> QED
  BY <1>4, <1>5, <1>6, <1>7, <1>8

\* How many bytes of information a frame has.
LEMMA InformationLength ==
  ASSUME NEW f \in Seq(Bytes), NEW first, first \in {4, 5},
         first = IF f[2] = UIHCredits THEN 5 ELSE 4, Len(f) >= first
  PROVE  Len(Information(f)) = Len(f) - first
<1> DEFINE n == Len(f)
<1>1. n \in Nat /\ first <= n /\ first >= 1 /\ first \in Int /\ n - 1 \in Int
  OBVIOUS
<1>2. \A i \in first..n - 1 : f[i] \in Bytes
  BY <1>1, ElementOfSeq
<1> HIDE DEF n
<1>3. Len(SubSeq(f, first, n - 1)) = IF first <= n - 1 THEN (n - 1) - first + 1 ELSE 0
  BY <1>1, <1>2, SubSeqProperties
<1>4. Len(SubSeq(f, first, n - 1)) = n - first
  BY <1>1, <1>3
<1>5. Information(f) = SubSeq(f, first, n - 1)
  BY DEF Information, n
<1> QED
  BY <1>4, <1>5 DEF n

PacketType == [total : Bytes, length : Bytes, frame : Seq(Bytes)]

\* Lengths that fit and the right check sequence make a packet readable.
Fits(f, first) ==
  /\ f \in Seq(Bytes) /\ Len(f) \in 4..100 /\ first \in {4, 5} /\ Len(f) >= first
  /\ first = IF f[2] = UIHCredits THEN 5 ELSE 4
  /\ f[3] = 2 * (Len(f) - first) + 1 /\ f[Len(f)] = CheckSequence(f)
LEMMA ReadableIf ==
  ASSUME NEW f, NEW first, Fits(f, first)
  PROVE  LET p == Packet(Len(f) + 4, Len(f), f)
         IN p \in PacketType /\ Len(p.frame) >= 4 /\ Readable(p) /\ p.frame = f
<1>1. Len(f) + 4 \in Bytes /\ Len(f) \in Bytes
  <2>1. Len(f) \in 4..100
    BY DEF Fits
  <2>2. \A n \in 4..100 : n + 4 \in Bytes /\ n \in Bytes
    BY DEF Bytes
  <2> QED
    BY <2>1, <2>2
<1>2. Len(Information(f)) = Len(f) - first
  BY InformationLength DEF Fits
<1>3. Len(f) >= 4
  BY DEF Fits
<1> QED
  BY <1>1, <1>2, <1>3 DEF PacketType, Packet, Readable, Fits

\* The server's packets are of bytes, can be read, say one of a few things, and have the
\* kind their name says.
Worded(f) ==
  \/ f[2] = UA /\ f[1] \in {Mux, Dlc}
  \/ f[2] = UIHCredits /\ f[4] = 10
  \/ f[2] = UIH /\ f[4] \in {PNResponse, MSCResponse, MSCCommand}
LEMMA AnswersReadable ==
  /\ \A p \in AnswerPackets :
       p \in PacketType /\ Len(p.frame) >= 4 /\ Readable(p) /\ Worded(p.frame)
  /\ AnswerKind(Acknowledgement(Mux).frame) = "mux"
  /\ AnswerKind(Acknowledgement(Dlc).frame) = "dlc"
  /\ AnswerKind(DisconnectAcknowledgement.frame) = "dlc"
  /\ AnswerKind(ModemStatusCommand.frame) = "status"
  /\ AnswerKind(Credits.frame) = "credits"
  /\ AnswerKind(ParameterResponse.frame) = "pn"
  /\ AnswerKind(ModemStatusResponse.frame) = "msc"
<1> DEFINE Good(p, kind) ==
      /\ p \in PacketType /\ Len(p.frame) >= 4 /\ Readable(p)
      /\ AnswerKind(p.frame) = kind /\ Worded(p.frame)
<1>1. ASSUME NEW f, NEW first, Fits(f, first), Worded(f)
      PROVE  Good(Packet(Len(f) + 4, Len(f), f), AnswerKind(f))
  BY <1>1, ReadableIf
<1> HIDE DEF Good
<1>2. Good(Packet(8, 4, <<3, UA, 1, 215>>), "mux")
  <2> DEFINE f == <<3, UA, 1, 215>>
  <2>1. /\ f \in Seq(Bytes) /\ Len(f) = 4
        /\ f[1] = 3 /\ f[2] = UA /\ f[3] = 1 /\ f[4] = 215
    BY DEF Bytes, UA
  <2> HIDE DEF f
  <2>2. f[4] = CheckSequence(f) /\ UA # UIHCredits /\ AnswerKind(f) = "mux" /\ Worded(f)
    BY <2>1, CheckSequences DEF Worded, UA, UIHCredits, AnswerKind, Mux, Dlc
  <2>3. Fits(f, 4)
    BY <2>1, <2>2 DEF Fits
  <2>4. Good(Packet(Len(f) + 4, Len(f), f), AnswerKind(f))
    BY <1>1, <2>2, <2>3
  <2>5. Len(f) + 4 = 8 /\ Len(f) = 4
    BY <2>1
  <2> QED
    BY <2>2, <2>4, <2>5 DEF f
<1>3. Good(Packet(8, 4, <<11, UA, 1, 146>>), "dlc")
  <2> DEFINE f == <<11, UA, 1, 146>>
  <2>1. /\ f \in Seq(Bytes) /\ Len(f) = 4
        /\ f[1] = 11 /\ f[2] = UA /\ f[3] = 1 /\ f[4] = 146
    BY DEF Bytes, UA
  <2> HIDE DEF f
  <2>2. f[4] = CheckSequence(f) /\ UA # UIHCredits /\ AnswerKind(f) = "dlc" /\ Worded(f)
    BY <2>1, CheckSequences DEF Worded, UA, UIHCredits, AnswerKind, Mux, Dlc
  <2>3. Fits(f, 4)
    BY <2>1, <2>2 DEF Fits
  <2>4. Good(Packet(Len(f) + 4, Len(f), f), AnswerKind(f))
    BY <1>1, <2>2, <2>3
  <2>5. Len(f) + 4 = 8 /\ Len(f) = 4
    BY <2>1
  <2> QED
    BY <2>2, <2>4, <2>5 DEF f
<1>4. Good(ModemStatusCommand, "status")
  <2> DEFINE f == <<3, UIH, 9, MSCCommand, 5, 11, 141, 112>>
  <2>1. /\ f \in Seq(Bytes) /\ Len(f) = 8
        /\ f[1] = 3 /\ f[2] = UIH /\ f[3] = 9 /\ f[4] = MSCCommand /\ f[8] = 112
    BY DEF Bytes, UIH, MSCCommand
  <2> HIDE DEF f
  <2>2. f[8] = CheckSequence(f) /\ UIH # UIHCredits /\ AnswerKind(f) = "status" /\ Worded(f)
    BY <2>1, CheckSequences
    DEF Worded, UIH, UIHCredits, UA, AnswerKind, MSCCommand, MSCResponse, PNResponse
  <2>3. Fits(f, 4)
    BY <2>1, <2>2 DEF Fits
  <2>4. Good(Packet(Len(f) + 4, Len(f), f), AnswerKind(f))
    BY <1>1, <2>2, <2>3
  <2>5. Len(f) + 4 = 12 /\ Len(f) = 8
    BY <2>1
  <2> QED
    BY <2>2, <2>4, <2>5 DEF f, ModemStatusCommand
<1>5. Good(ModemStatusResponse, "msc")
  <2> DEFINE f == <<1, UIH, 9, MSCResponse, 5, 11, 141, 170>>
  <2>1. /\ f \in Seq(Bytes) /\ Len(f) = 8
        /\ f[1] = 1 /\ f[2] = UIH /\ f[3] = 9 /\ f[4] = MSCResponse /\ f[8] = 170
    BY DEF Bytes, UIH, MSCResponse
  <2> HIDE DEF f
  <2>2. f[8] = CheckSequence(f) /\ UIH # UIHCredits /\ AnswerKind(f) = "msc" /\ Worded(f)
    BY <2>1, CheckSequences
    DEF Worded, UIH, UIHCredits, UA, AnswerKind, MSCResponse, PNResponse
  <2>3. Fits(f, 4)
    BY <2>1, <2>2 DEF Fits
  <2>4. Good(Packet(Len(f) + 4, Len(f), f), AnswerKind(f))
    BY <1>1, <2>2, <2>3
  <2>5. Len(f) + 4 = 12 /\ Len(f) = 8
    BY <2>1
  <2> QED
    BY <2>2, <2>4, <2>5 DEF f, ModemStatusResponse
<1>6. Good(ParameterResponse, "pn")
  <2> DEFINE f == ParameterResponse.frame
  <2>1. /\ f \in Seq(Bytes) /\ Len(f) = 14 /\ ParameterResponse = Packet(18, 14, f)
        /\ f[1] = 1 /\ f[2] = UIH /\ f[3] = 21 /\ f[4] = PNResponse /\ f[14] = 170
    BY ParameterFrame
  <2> HIDE DEF f
  <2>2. f[14] = CheckSequence(f) /\ UIH # UIHCredits /\ AnswerKind(f) = "pn" /\ Worded(f)
    BY <2>1, CheckSequences DEF Worded, UIH, UIHCredits, UA, AnswerKind, PNResponse
  <2>3. Fits(f, 4)
    BY <2>1, <2>2 DEF Fits
  <2>4. Good(Packet(Len(f) + 4, Len(f), f), AnswerKind(f))
    BY <1>1, <2>2, <2>3
  <2>5. Len(f) + 4 = 18 /\ Len(f) = 14
    BY <2>1
  <2> QED
    BY <2>1, <2>2, <2>4, <2>5
<1>7. Good(Credits, "credits")
  <2> DEFINE f == <<9, UIHCredits, 1, 10, 92>>
  <2>1. /\ f \in Seq(Bytes) /\ Len(f) = 5
        /\ f[1] = 9 /\ f[2] = UIHCredits /\ f[3] = 1 /\ f[4] = 10 /\ f[5] = 92
    BY DEF Bytes, UIHCredits
  <2> HIDE DEF f
  <2>2. f[5] = CheckSequence(f) /\ AnswerKind(f) = "credits" /\ Worded(f)
    BY <2>1, CheckSequences DEF Worded, UIHCredits, UA, UIH, AnswerKind
  <2>3. Fits(f, 5)
    BY <2>1, <2>2 DEF Fits
  <2>4. Good(Packet(Len(f) + 4, Len(f), f), AnswerKind(f))
    BY <1>1, <2>2, <2>3
  <2>5. Len(f) + 4 = 9 /\ Len(f) = 5
    BY <2>1
  <2> QED
    BY <2>2, <2>4, <2>5 DEF f, Credits
<1>8. DisconnectAcknowledgement = Packet(8, 4, <<11, UA, 1, 146>>)
  BY DEF DisconnectAcknowledgement
<1> QED
  BY <1>2, <1>3, <1>4, <1>5, <1>6, <1>7, <1>8, AcknowledgementBytes
  DEF AnswerPackets, Good
-----------------------------------------------------------------------------
(* The session, as the two queues show it.                                 *)

\* What a frame of the client asks of the server.
IsData(f) == f[2] = UIHCredits \/ (f[2] = UIH /\ f[1] # Mux)
FrameKind(f) ==
  IF f[2] = SABM THEN IF f[1] = Mux THEN "mux" ELSE "open"
  ELSE IF f[2] = DISC THEN "close"
  ELSE IF IsData(f) THEN "data"
  ELSE IF f[2] # UIH THEN "other"
  ELSE IF f[4] = PNCommand THEN "pn"
  ELSE IF f[4] = MSCCommand THEN "msc" ELSE "other"

\* Where in a queue of frames, or of packets, those of a kind stand.
Asking(q, kind) == {k \in DOMAIN q : FrameKind(q[k]) = kind}
Saying(r, kind) == {k \in DOMAIN r : AnswerKind(r[k].frame) = kind}
Spoken(r) == Saying(r, "credits") \cup Saying(r, "status")
Single(S) == \A i, j \in S : i = j

\* A request is on its way, or its answer, or neither; and only while it is waited for.
Exchange(asked, answered, waiting) ==
  /\ Single(asked) /\ Single(answered) /\ (asked = {} \/ answered = {})
  /\ ~waiting => asked = {} /\ answered = {}
Exchanges(q, r, c) ==
  /\ Exchange(Asking(q, "mux"), Saying(r, "mux"), c.mux = "opening")
  /\ Exchange(Asking(q, "pn"), Saying(r, "pn"), c.dlc = "negotiating")
  /\ Exchange(Asking(q, "msc"), Saying(r, "msc"), c.msc = "sent")
  /\ Exchange(Asking(q, "open") \cup Asking(q, "close"), Saying(r, "dlc"),
              c.dlc \in {"opening", "closing"})
  /\ Asking(q, "open") # {} => c.dlc = "opening"
  /\ Asking(q, "close") # {} => c.dlc = "closing"

\* What the server says of its own accord belongs to the channel that is open: it comes
\* behind the acknowledgement that opened it, unless n submissions have failed, and
\* before the one that closes it, behind which nothing of the old session comes.
Shut(c) == c.dlc \in {"closed", "negotiating", "negotiated"}
Session(q, r, c, n) ==
  /\ Shut(c) \/ c.dlc = "opening" => c.msc = "none" /\ c.credits = 0
  /\ Shut(c) \/ Asking(q, "open") # {} => Spoken(r) = {}
  /\ Single(Saying(r, "credits"))
  /\ Saying(r, "credits") # {} => c.credits = 0
  /\ c.dlc = "closing" =>
       /\ \A u \in Saying(r, "dlc"), k \in Spoken(r) \cup Saying(r, "msc") : k < u
       /\ \A d \in Asking(q, "close"), k \in Asking(q, "msc") : k < d
       /\ Saying(r, "dlc") # {} => Asking(q, "msc") = {}
  /\ c.dlc = "opening" /\ n = 0 => \A k \in Spoken(r) : \E u \in Saying(r, "dlc") : u < k

\* Every frame of the client is long enough for its kind, and opens one of two channels.
Frames == {f \in Seq(Bytes) : Len(f) >= 4 /\ (f[2] = SABM => f[1] \in {Mux, Dlc})}

\* What a packet of the server says is what its kind tells.
LEMMA AnswerWords ==
  ASSUME NEW p \in AnswerPackets
  PROVE  LET f == p.frame
             kind == AnswerKind(f)
         IN /\ kind \in {"mux", "dlc", "pn", "msc", "status", "credits"}
            /\ kind = "mux" <=> f[2] = UA /\ f[1] = Mux
            /\ kind = "dlc" <=> f[2] = UA /\ f[1] = Dlc
            /\ kind = "pn" <=> f[2] = UIH /\ f[4] = PNResponse
            /\ kind = "msc" <=> f[2] = UIH /\ f[4] = MSCResponse
            /\ kind = "status" <=> f[2] = UIH /\ f[4] = MSCCommand
            /\ kind = "credits" <=> f[2] = UIHCredits
            /\ kind = "credits" => f[4] = 10
<1>1. Worded(p.frame)
  BY AnswersReadable
<1> DEFINE f == p.frame
<1> HIDE DEF f
<1>2. CASE f[2] = UA
  BY <1>1, <1>2 DEF f, Worded, AnswerKind, UA, UIH, UIHCredits, Mux, Dlc
<1>3. CASE f[2] = UIHCredits
  BY <1>1, <1>3 DEF f, Worded, AnswerKind, UA, UIH, UIHCredits
<1>4. CASE f[2] = UIH
  BY <1>1, <1>4
  DEF f, Worded, AnswerKind, UA, UIH, UIHCredits, PNResponse, MSCResponse, MSCCommand
<1> QED
  BY <1>1, <1>2, <1>3, <1>4 DEF f, Worded

\* The places of the frames of a kind when one joins the queue, and when one leaves it.
LEMMA AskingAppend ==
  ASSUME NEW S, NEW q \in Seq(S), NEW f \in S, NEW kind
  PROVE  /\ Asking(q, kind) \subseteq 1..Len(q) /\ Len(q) \in Nat
         /\ Asking(Append(q, f), kind)
              = Asking(q, kind) \cup (IF FrameKind(f) = kind THEN {Len(q) + 1} ELSE {})
<1>1. /\ DOMAIN Append(q, f) = 1..(Len(q) + 1) /\ DOMAIN q = 1..Len(q) /\ Len(q) \in Nat
      /\ \A i \in DOMAIN q : Append(q, f)[i] = q[i]
      /\ Append(q, f)[Len(q) + 1] = f
  BY QueueAppend
<1>2. ASSUME NEW k
      PROVE  k \in Asking(Append(q, f), kind)
               <=> k \in Asking(q, kind) \/ (k = Len(q) + 1 /\ FrameKind(f) = kind)
  <2>1. CASE k = Len(q) + 1
    BY <1>1, <2>1 DEF Asking
  <2>2. CASE k # Len(q) + 1
    BY <1>1, <2>2 DEF Asking
  <2> QED
    BY <2>1, <2>2
<1> QED
  BY <1>1, <1>2 DEF Asking

LEMMA AskingTail ==
  ASSUME NEW S, NEW q \in Seq(S), q # << >>, NEW kind
  PROVE  /\ Asking(q, kind) \subseteq 1..Len(q) /\ Len(q) \in Nat
         /\ 1 \in Asking(q, kind) <=> FrameKind(Head(q)) = kind
         /\ \A k \in Asking(Tail(q), kind) : k \in Nat \ {0} /\ k + 1 \in Asking(q, kind)
         /\ \A k \in Nat \ {0} : k + 1 \in Asking(q, kind) => k \in Asking(Tail(q), kind)
<1>1. /\ Tail(q) \in Seq(S) /\ 1 \in DOMAIN q /\ Head(q) = q[1]
      /\ Len(Tail(q)) = Len(q) - 1 /\ Len(q) \in Nat
      /\ \A i \in DOMAIN Tail(q) : i + 1 \in DOMAIN q /\ Tail(q)[i] = q[i + 1]
  BY QueueTail
<1>2. DOMAIN q = 1..Len(q) /\ DOMAIN Tail(q) = 1..(Len(q) - 1)
  BY <1>1, LenProperties
<1>3. ASSUME NEW k \in Nat \ {0}, k + 1 \in Asking(q, kind)
      PROVE  k \in Asking(Tail(q), kind)
  <2>1. k \in DOMAIN Tail(q) /\ FrameKind(q[k + 1]) = kind
    BY <1>1, <1>2, <1>3 DEF Asking
  <2>2. Tail(q)[k] = q[k + 1]
    BY <1>1, <2>1
  <2> QED
    BY <2>1, <2>2 DEF Asking
<1>4. ASSUME NEW k \in Asking(Tail(q), kind)
      PROVE  k \in Nat \ {0} /\ k + 1 \in Asking(q, kind)
  BY <1>1, <1>2 DEF Asking
<1>5. /\ Asking(q, kind) \subseteq 1..Len(q)
      /\ 1 \in Asking(q, kind) <=> FrameKind(Head(q)) = kind
  BY <1>1, <1>2 DEF Asking
<1> QED
  BY <1>1, <1>3, <1>4, <1>5

\* And those of the packets.
LEMMA SayingAppend ==
  ASSUME NEW S, NEW r \in Seq(S), NEW p \in S, NEW kind
  PROVE  /\ Saying(r, kind) \subseteq 1..Len(r) /\ Len(r) \in Nat
         /\ Saying(Append(r, p), kind)
              = Saying(r, kind) \cup (IF AnswerKind(p.frame) = kind THEN {Len(r) + 1} ELSE {})
<1>1. /\ DOMAIN Append(r, p) = 1..(Len(r) + 1) /\ DOMAIN r = 1..Len(r) /\ Len(r) \in Nat
      /\ \A i \in DOMAIN r : Append(r, p)[i] = r[i]
      /\ Append(r, p)[Len(r) + 1] = p
  BY QueueAppend
<1>2. ASSUME NEW k
      PROVE  k \in Saying(Append(r, p), kind)
               <=> k \in Saying(r, kind) \/ (k = Len(r) + 1 /\ AnswerKind(p.frame) = kind)
  <2>1. CASE k = Len(r) + 1
    BY <1>1, <2>1 DEF Saying
  <2>2. CASE k # Len(r) + 1
    BY <1>1, <2>2 DEF Saying
  <2> QED
    BY <2>1, <2>2
<1> QED
  BY <1>1, <1>2 DEF Saying

LEMMA SayingTail ==
  ASSUME NEW S, NEW r \in Seq(S), r # << >>, NEW kind
  PROVE  /\ Saying(r, kind) \subseteq 1..Len(r) /\ Len(r) \in Nat
         /\ 1 \in Saying(r, kind) <=> AnswerKind(Head(r).frame) = kind
         /\ \A k \in Saying(Tail(r), kind) : k \in Nat \ {0} /\ k + 1 \in Saying(r, kind)
         /\ \A k \in Nat \ {0} : k + 1 \in Saying(r, kind) => k \in Saying(Tail(r), kind)
<1>1. /\ Tail(r) \in Seq(S) /\ 1 \in DOMAIN r /\ Head(r) = r[1]
      /\ Len(Tail(r)) = Len(r) - 1 /\ Len(r) \in Nat
      /\ \A i \in DOMAIN Tail(r) : i + 1 \in DOMAIN r /\ Tail(r)[i] = r[i + 1]
  BY QueueTail
<1>2. DOMAIN r = 1..Len(r) /\ DOMAIN Tail(r) = 1..(Len(r) - 1)
  BY <1>1, LenProperties
<1>3. ASSUME NEW k \in Nat \ {0}, k + 1 \in Saying(r, kind)
      PROVE  k \in Saying(Tail(r), kind)
  <2>1. k \in DOMAIN Tail(r) /\ AnswerKind(r[k + 1].frame) = kind
    BY <1>1, <1>2, <1>3 DEF Saying
  <2>2. Tail(r)[k] = r[k + 1]
    BY <1>1, <2>1
  <2> QED
    BY <2>1, <2>2 DEF Saying
<1>4. ASSUME NEW k \in Saying(Tail(r), kind)
      PROVE  k \in Nat \ {0} /\ k + 1 \in Saying(r, kind)
  BY <1>1, <1>2 DEF Saying
<1>5. /\ Saying(r, kind) \subseteq 1..Len(r)
      /\ 1 \in Saying(r, kind) <=> AnswerKind(Head(r).frame) = kind
  BY <1>1, <1>2 DEF Saying
<1> QED
  BY <1>1, <1>3, <1>4, <1>5

-----------------------------------------------------------------------------
(* What a step does to the session.                                        *)

ClientType ==
  [mux : {"down", "opening", "up", "asking"},
   dlc : {"closed", "negotiating", "negotiated", "opening", "open", "closing"},
   msc : {"none", "sent", "answered"}, theirs : {"none", "seen", "answered"},
   credits : 0..10]
InSession(q, r, c, n) ==
  /\ q \in Seq(Seq(Bytes)) /\ r \in Seq(PacketType) /\ c \in ClientType
  /\ Exchanges(q, r, c) /\ Session(q, r, c, n)

\* What the client sends when, and what it is from then on.
MayAsk(c, d, kind) ==
  \/ kind = "mux" /\ c.mux = "down" /\ d = [c EXCEPT !.mux = "opening"]
  \/ kind = "pn" /\ c.dlc = "closed" /\ d = [c EXCEPT !.dlc = "negotiating"]
  \/ kind = "open" /\ c.dlc = "negotiated" /\ d = [c EXCEPT !.dlc = "opening"]
  \/ kind = "msc" /\ c.dlc = "open" /\ c.msc = "none" /\ d = [c EXCEPT !.msc = "sent"]
  \/ kind = "close" /\ c.dlc = "open" /\ d = [c EXCEPT !.dlc = "closing"]
  \/ kind = "other" /\ d = [c EXCEPT !.theirs = "answered"]
  \/ kind = "other" /\ c.mux = "up" /\ d = [c EXCEPT !.mux = "asking"]
  \/ kind = "data" /\ c.dlc = "open" /\ c.credits > 0 /\ d = [c EXCEPT !.credits = @ - 1]

\* A request of the client keeps the order of the session.
LEMMA AsksInSession ==
  ASSUME NEW q, NEW r, NEW c, NEW n, NEW d, NEW f \in Seq(Bytes), InSession(q, r, c, n),
         MayAsk(c, d, FrameKind(f))
  PROVE  InSession(Append(q, f), r, d, n)
<1> DEFINE kind == FrameKind(f)
           new == Len(q) + 1
           o == Append(q, f)
<1>1. /\ q \in Seq(Seq(Bytes)) /\ r \in Seq(PacketType) /\ c \in ClientType
      /\ Exchanges(q, r, c) /\ Session(q, r, c, n) /\ MayAsk(c, d, kind)
  BY DEF InSession
<1>2. /\ o \in Seq(Seq(Bytes)) /\ Len(q) \in Nat
  BY <1>1, QueueAppend
<1>3. ASSUME NEW ask
      PROVE  /\ Asking(q, ask) \subseteq 1..Len(q)
             /\ Asking(o, ask) = Asking(q, ask) \cup (IF kind = ask THEN {new} ELSE {})
  BY <1>1, AskingAppend
<1>4. d \in ClientType
  BY <1>1 DEF MayAsk, ClientType
<1> HIDE DEF kind, o
<1>5. /\ Asking(o, "mux") = Asking(q, "mux") \cup (IF kind = "mux" THEN {new} ELSE {})
      /\ Asking(o, "pn") = Asking(q, "pn") \cup (IF kind = "pn" THEN {new} ELSE {})
      /\ Asking(o, "msc") = Asking(q, "msc") \cup (IF kind = "msc" THEN {new} ELSE {})
      /\ Asking(o, "open") = Asking(q, "open") \cup (IF kind = "open" THEN {new} ELSE {})
      /\ Asking(o, "close") = Asking(q, "close") \cup (IF kind = "close" THEN {new} ELSE {})
  BY <1>3
<1>6. \A k \in Asking(q, "msc") : k < new
  <2>1. Asking(q, "msc") \subseteq 1..Len(q)
    BY <1>3
  <2> QED
    BY <1>2, <2>1
<1> HIDE DEF new
<1>7. Exchanges(o, r, d) /\ Session(o, r, d, n)
  <2>1. CASE kind = "mux" /\ c.mux = "down" /\ d = [c EXCEPT !.mux = "opening"]
    BY <1>1, <1>5, <2>1 DEF Exchanges, Exchange, Single, Session, Shut, ClientType
  <2>2. CASE kind = "pn" /\ c.dlc = "closed" /\ d = [c EXCEPT !.dlc = "negotiating"]
    BY <1>1, <1>5, <2>2 DEF Exchanges, Exchange, Single, Session, Shut, ClientType
  <2>3. CASE kind = "open" /\ c.dlc = "negotiated" /\ d = [c EXCEPT !.dlc = "opening"]
    BY <1>1, <1>5, <2>3 DEF Exchanges, Exchange, Single, Session, Shut, ClientType
  <2>4. CASE kind = "msc" /\ c.dlc = "open" /\ c.msc = "none" /\ d = [c EXCEPT !.msc = "sent"]
    BY <1>1, <1>5, <2>4 DEF Exchanges, Exchange, Single, Session, Shut, ClientType
  <2>5. CASE kind = "close" /\ c.dlc = "open" /\ d = [c EXCEPT !.dlc = "closing"]
    BY <1>1, <1>5, <1>6, <2>5 DEF Exchanges, Exchange, Single, Session, Shut, ClientType
  <2>6. CASE kind = "other" /\ d = [c EXCEPT !.theirs = "answered"]
    BY <1>1, <1>5, <2>6 DEF Exchanges, Exchange, Single, Session, Shut, ClientType
  <2>7. CASE kind = "other" /\ c.mux = "up" /\ d = [c EXCEPT !.mux = "asking"]
    BY <1>1, <1>5, <2>7 DEF Exchanges, Exchange, Single, Session, Shut, ClientType
  <2>8. CASE kind = "data" /\ c.dlc = "open" /\ c.credits > 0 /\ d = [c EXCEPT !.credits = @ - 1]
    BY <1>1, <1>5, <2>8 DEF Exchanges, Exchange, Single, Session, Shut, ClientType
  <2> QED
    BY <1>1, <2>1, <2>2, <2>3, <2>4, <2>5, <2>6, <2>7, <2>8 DEF MayAsk
<1> QED
  BY <1>1, <1>2, <1>4, <1>7 DEF InSession, o

\* What a packet does to the client, by its kind.
Understood(c, kind) ==
  CASE kind = "mux" -> IF c.mux = "opening" THEN [c EXCEPT !.mux = "up"] ELSE c
    [] kind = "dlc" -> IF c.dlc = "opening" THEN [c EXCEPT !.dlc = "open"]
                       ELSE IF c.dlc = "closing" THEN NoChannel(c.mux) ELSE c
    [] kind = "pn" -> IF c.dlc = "negotiating" THEN [c EXCEPT !.dlc = "negotiated"] ELSE c
    [] kind = "msc" -> IF c.msc = "sent" THEN [c EXCEPT !.msc = "answered"] ELSE c
    [] kind = "status" ->
         IF c.dlc \in {"open", "closing"} THEN [c EXCEPT !.theirs = "seen"] ELSE c
    [] kind = "credits" ->
         IF c.dlc \in {"open", "closing"} THEN [c EXCEPT !.credits = @ + 10] ELSE c
LEMMA ReceivedIsUnderstood ==
  ASSUME NEW p \in AnswerPackets
  PROVE  Received(p.frame) = Understood(client, AnswerKind(p.frame))
<1> DEFINE f == p.frame
           kind == AnswerKind(f)
<1>1. /\ kind \in {"mux", "dlc", "pn", "msc", "status", "credits"}
      /\ kind = "mux" <=> f[2] = UA /\ f[1] = Mux
      /\ kind = "dlc" <=> f[2] = UA /\ f[1] = Dlc
      /\ kind = "pn" <=> f[2] = UIH /\ f[4] = PNResponse
      /\ kind = "msc" <=> f[2] = UIH /\ f[4] = MSCResponse
      /\ kind = "status" <=> f[2] = UIH /\ f[4] = MSCCommand
      /\ kind = "credits" <=> f[2] = UIHCredits
      /\ kind = "credits" => f[4] = 10
  BY AnswerWords
<1> HIDE DEF f, kind
<1>2. /\ UA # UIH /\ UA # UIHCredits /\ UIH # UIHCredits /\ Mux # Dlc
      /\ PNResponse # MSCResponse /\ PNResponse # MSCCommand /\ MSCResponse # MSCCommand
  BY DEF UA, UIH, UIHCredits, Mux, Dlc, PNResponse, MSCResponse, MSCCommand
<1>3. Received(f) = Understood(client, kind)
  <2>1. CASE kind = "mux"
    BY <1>1, <1>2, <2>1 DEF Received, Understood
  <2>2. CASE kind = "dlc"
    BY <1>1, <1>2, <2>2 DEF Received, Understood
  <2>3. CASE kind = "pn"
    BY <1>1, <1>2, <2>3 DEF Received, Understood
  <2>4. CASE kind = "msc"
    BY <1>1, <1>2, <2>4 DEF Received, Understood
  <2>5. CASE kind = "status"
    BY <1>1, <1>2, <2>5 DEF Received, Understood
  <2>6. CASE kind = "credits"
    BY <1>1, <1>2, <2>6 DEF Received, Understood
  <2> QED
    BY <1>1, <2>1, <2>2, <2>3, <2>4, <2>5, <2>6
<1> QED
  BY <1>3 DEF f, kind

\* A packet that is received keeps the order of the session.
LEMMA HearsInSession ==
  ASSUME NEW q, NEW r, NEW c, NEW n, InSession(q, r, c, n), r # << >>,
         AnswerKind(Head(r).frame) \in {"mux", "dlc", "pn", "msc", "status", "credits"}
  PROVE  InSession(q, Tail(r), Understood(c, AnswerKind(Head(r).frame)), n)
<1> DEFINE kind == AnswerKind(Head(r).frame)
           o == Tail(r)
           d == Understood(c, kind)
<1>1. /\ q \in Seq(Seq(Bytes)) /\ r \in Seq(PacketType) /\ c \in ClientType
      /\ Exchanges(q, r, c) /\ Session(q, r, c, n)
  BY DEF InSession
<1>2. o \in Seq(PacketType)
  BY <1>1, QueueTail
<1>3. ASSUME NEW said
      PROVE  /\ Saying(r, said) \subseteq 1..Len(r) /\ Len(r) \in Nat
             /\ 1 \in Saying(r, said) <=> kind = said
             /\ \A k \in Saying(o, said) : k \in Nat \ {0} /\ k + 1 \in Saying(r, said)
             /\ \A k \in Nat \ {0} : k + 1 \in Saying(r, said) => k \in Saying(o, said)
  BY <1>1, SayingTail
<1>4. kind \in {"mux", "dlc", "pn", "msc", "status", "credits"}
  OBVIOUS
<1> HIDE DEF kind, o
\* What is single and heads the queue is gone; what is not there does not come.
<1>5. ASSUME NEW said, Single(Saying(r, said))
      PROVE  Single(Saying(o, said)) /\ (kind = said => Saying(o, said) = {})
  <2>1. Single(Saying(o, said))
    <3> SUFFICES ASSUME NEW i \in Saying(o, said), NEW j \in Saying(o, said) PROVE i = j
      BY DEF Single
    <3>1. i \in Nat /\ j \in Nat /\ i + 1 \in Saying(r, said) /\ j + 1 \in Saying(r, said)
      BY <1>3
    <3>2. i + 1 = j + 1
      BY <1>5, <3>1 DEF Single
    <3> QED
      BY <3>1, <3>2
  <2>2. ASSUME kind = said, NEW k \in Saying(o, said) PROVE FALSE
    <3>1. k \in Nat \ {0} /\ k + 1 \in Saying(r, said) /\ 1 \in Saying(r, said)
      BY <1>3, <2>2
    <3>2. k + 1 = 1
      BY <1>5, <3>1 DEF Single
    <3> QED
      BY <3>1, <3>2
  <2> QED
    BY <2>1, <2>2
<1>6. ASSUME NEW said, Saying(r, said) = {}
      PROVE  Saying(o, said) = {} /\ kind # said
  BY <1>3, <1>6
<1>7. d \in ClientType
  <2>1. kind = "credits" => c.credits = 0
    BY <1>1, <1>3 DEF Session
  <2> QED
    BY <1>1, <1>4, <2>1 DEF Understood, ClientType, NoChannel
\* The packets keep their order.
<1>8. ASSUME NEW a, NEW b, \A u \in Saying(r, a), k \in Saying(r, b) : k < u
      PROVE  \A u \in Saying(o, a), k \in Saying(o, b) : k < u
  <2> SUFFICES ASSUME NEW u \in Saying(o, a), NEW k \in Saying(o, b) PROVE k < u
    OBVIOUS
  <2>1. u \in Nat /\ k \in Nat /\ u + 1 \in Saying(r, a) /\ k + 1 \in Saying(r, b)
    BY <1>3
  <2>2. k + 1 < u + 1
    BY <1>8, <2>1
  <2> QED
    BY <2>1, <2>2
<1>9. Exchanges(q, o, d) /\ Session(q, o, d, n)
  <2>1. /\ Exchange(Asking(q, "mux"), Saying(r, "mux"), c.mux = "opening")
        /\ Exchange(Asking(q, "pn"), Saying(r, "pn"), c.dlc = "negotiating")
        /\ Exchange(Asking(q, "msc"), Saying(r, "msc"), c.msc = "sent")
        /\ Exchange(Asking(q, "open") \cup Asking(q, "close"), Saying(r, "dlc"),
                    c.dlc \in {"opening", "closing"})
        /\ Asking(q, "open") # {} => c.dlc = "opening"
        /\ Asking(q, "close") # {} => c.dlc = "closing"
    BY <1>1 DEF Exchanges
  <2>2. /\ Single(Saying(o, "mux")) /\ (kind = "mux" => Saying(o, "mux") = {})
        /\ Single(Saying(o, "pn")) /\ (kind = "pn" => Saying(o, "pn") = {})
        /\ Single(Saying(o, "msc")) /\ (kind = "msc" => Saying(o, "msc") = {})
        /\ Single(Saying(o, "dlc")) /\ (kind = "dlc" => Saying(o, "dlc") = {})
        /\ Single(Saying(o, "credits")) /\ (kind = "credits" => Saying(o, "credits") = {})
    BY <1>1, <1>5, <2>1 DEF Exchange, Session
  <2>3. \A said \in {"mux", "pn", "msc", "dlc", "credits", "status"} :
          Saying(r, said) = {} => Saying(o, said) = {} /\ kind # said
    BY <1>6
  <2>4. kind = "mux" => Asking(q, "mux") = {} /\ c.mux = "opening"
    BY <2>1, <2>3 DEF Exchange
  <2>5. kind = "pn" => Asking(q, "pn") = {} /\ c.dlc = "negotiating"
    BY <2>1, <2>3 DEF Exchange
  <2>6. kind = "msc" => Asking(q, "msc") = {} /\ c.msc = "sent"
    BY <2>1, <2>3 DEF Exchange
  <2>7. kind = "dlc" => /\ Asking(q, "open") = {} /\ Asking(q, "close") = {}
                        /\ c.dlc \in {"opening", "closing"}
    BY <2>1, <2>3 DEF Exchange
  \* Behind the acknowledgement that closes the channel nothing comes.
  <2>8. ASSUME kind = "dlc", c.dlc = "closing"
        PROVE  /\ Saying(r, "msc") = {} /\ Saying(r, "credits") = {} /\ Saying(r, "status") = {}
               /\ Asking(q, "msc") = {}
    <3>1. 1 \in Saying(r, "dlc")
      BY <1>3, <2>8
    <3>2. /\ \A k \in Spoken(r) \cup Saying(r, "msc") : k < 1
          /\ Asking(q, "msc") = {}
      BY <1>1, <2>8, <3>1 DEF Session
    <3>3. ASSUME NEW said, NEW k \in Saying(r, said) PROVE k \in 1..Len(r) /\ Len(r) \in Nat
      BY <1>3, <3>3
    <3>4. ASSUME NEW said, NEW k \in Saying(r, said) PROVE ~(k < 1)
      BY <3>3, <3>4
    <3> QED
      BY <3>2, <3>4 DEF Spoken
  <2>9. Exchanges(q, o, d)
    <3>1. CASE kind = "mux"
      BY <1>1, <2>1, <2>2, <2>3, <2>4, <3>1 DEF Exchanges, Exchange, Understood, ClientType
    <3>2. CASE kind = "pn"
      BY <1>1, <2>1, <2>2, <2>3, <2>5, <3>2 DEF Exchanges, Exchange, Understood, ClientType
    <3>3. CASE kind = "msc"
      BY <1>1, <2>1, <2>2, <2>3, <2>6, <3>3 DEF Exchanges, Exchange, Understood, ClientType
    <3>4. CASE kind = "dlc"
      BY <1>1, <2>1, <2>2, <2>3, <2>7, <2>8, <3>4
      DEF Exchanges, Exchange, Understood, ClientType, NoChannel
    <3>5. CASE kind \in {"status", "credits"}
      BY <1>1, <2>1, <2>2, <2>3, <3>5 DEF Exchanges, Exchange, Understood, ClientType
    <3> QED
      BY <1>4, <3>1, <3>2, <3>3, <3>4, <3>5
  <2>10. Spoken(r) = {} => Spoken(o) = {} /\ kind \notin {"credits", "status"}
    BY <2>3 DEF Spoken
  <2>11. c.dlc = "closing" =>
           /\ \A u \in Saying(o, "dlc"), k \in Spoken(o) \cup Saying(o, "msc") : k < u
           /\ Saying(o, "dlc") # {} => Asking(q, "msc") = {}
    <3> SUFFICES ASSUME c.dlc = "closing"
                 PROVE  /\ \A u \in Saying(o, "dlc"), k \in Spoken(o) \cup Saying(o, "msc") : k < u
                        /\ Saying(o, "dlc") # {} => Asking(q, "msc") = {}
      OBVIOUS
    <3>1. /\ \A u \in Saying(r, "dlc"), k \in Spoken(r) \cup Saying(r, "msc") : k < u
          /\ Saying(r, "dlc") # {} => Asking(q, "msc") = {}
      BY <1>1 DEF Session
    <3>2. /\ \A u \in Saying(o, "dlc"), k \in Saying(o, "msc") : k < u
          /\ \A u \in Saying(o, "dlc"), k \in Saying(o, "credits") : k < u
          /\ \A u \in Saying(o, "dlc"), k \in Saying(o, "status") : k < u
      BY <1>8, <3>1 DEF Spoken
    <3> QED
      BY <2>3, <3>1, <3>2 DEF Spoken
  <2>12. ASSUME c.dlc = "opening", n = 0, kind # "dlc", NEW k \in Spoken(o)
         PROVE  \E u \in Saying(o, "dlc") : u < k
    <3>1. k \in Nat \ {0} /\ k + 1 \in Spoken(r)
      BY <1>3, <2>12 DEF Spoken
    <3>2. PICK u \in Saying(r, "dlc") : u < k + 1
      BY <1>1, <2>12, <3>1 DEF Session
    <3>3. u \in 1..Len(r) /\ Len(r) \in Nat /\ u # 1
      BY <1>3, <2>12
    <3>4. u - 1 \in Nat \ {0} /\ (u - 1) + 1 = u
      BY <3>3
    <3>5. u - 1 \in Saying(o, "dlc")
      BY <1>3, <3>4
    <3>6. u - 1 < k
      BY <3>1, <3>2, <3>3
    <3> QED
      BY <3>5, <3>6
  <2>13. /\ Shut(c) \/ c.dlc = "opening" => c.msc = "none" /\ c.credits = 0
         /\ Shut(c) \/ Asking(q, "open") # {} => Spoken(r) = {}
         /\ Saying(r, "credits") # {} => c.credits = 0
         /\ c.dlc = "closing" => \A e \in Asking(q, "close"), k \in Asking(q, "msc") : k < e
    BY <1>1 DEF Session
  <2>14. Session(q, o, d, n)
    <3>1. CASE kind = "mux"
      BY <1>1, <2>2, <2>3, <2>10, <2>11, <2>12, <2>13, <3>1
      DEF Session, Shut, Understood, ClientType
    <3>2. CASE kind = "pn"
      BY <1>1, <2>2, <2>3, <2>5, <2>10, <2>11, <2>12, <2>13, <3>2
      DEF Session, Shut, Understood, ClientType
    <3>3. CASE kind = "msc"
      BY <1>1, <2>2, <2>3, <2>6, <2>10, <2>11, <2>12, <2>13, <3>3
      DEF Session, Shut, Understood, ClientType
    <3>4. CASE kind = "dlc" /\ c.dlc = "opening"
      BY <1>1, <2>2, <2>3, <2>7, <2>10, <2>13, <3>4
      DEF Session, Shut, Understood, ClientType
    <3>5. CASE kind = "dlc" /\ c.dlc = "closing"
      BY <1>1, <2>2, <2>3, <2>7, <2>8, <2>10, <2>13, <3>5
      DEF Session, Shut, Spoken, Understood, ClientType, NoChannel
    <3>6. CASE kind = "status"
      BY <1>1, <2>2, <2>3, <2>10, <2>11, <2>12, <2>13, <3>6
      DEF Session, Shut, Understood, ClientType
    <3>7. CASE kind = "credits"
      BY <1>1, <2>2, <2>3, <2>10, <2>11, <2>12, <2>13, <3>7
      DEF Session, Shut, Understood, ClientType
    <3> QED
      BY <1>4, <2>7, <3>1, <3>2, <3>3, <3>4, <3>5, <3>6, <3>7
  <2> QED
    BY <2>9, <2>14
<1> QED
  BY <1>1, <1>2, <1>7, <1>9 DEF InSession, o, d, kind

\* What the server does with a request of a kind: it hands on what it has to say, or a
\* part of it; the acknowledgement that opens the channel goes first and is lost only
\* when a submission has failed.
Grown(r, o, p) == o = r \/ o = Append(r, p)
Replies(kind, r, o, n) ==
  \/ o = r /\ kind # "open"
  \/ kind = "mux" /\ o = Append(r, Acknowledgement(Mux))
  \/ kind = "pn" /\ o = Append(r, ParameterResponse)
  \/ kind = "msc" /\ o = Append(r, ModemStatusResponse)
  \/ kind = "close" /\ o = Append(r, DisconnectAcknowledgement)
  \/ /\ kind = "open"
     /\ \E s, t : /\ Grown(r, s, Acknowledgement(Dlc)) /\ Grown(s, t, ModemStatusCommand)
                  /\ Grown(t, o, Credits)
                  /\ n = 0 => s # r

\* A queue that has grown by one packet at most.
LEMMA SayingGrown ==
  ASSUME NEW r \in Seq(PacketType), NEW o, NEW p \in AnswerPackets, NEW kind,
         AnswerKind(p.frame) = kind, Grown(r, o, p)
  PROVE  /\ o \in Seq(PacketType) /\ Len(r) \in Nat /\ Len(o) \in Nat /\ Len(o) >= Len(r)
         /\ \A said : /\ Saying(r, said) \subseteq 1..Len(r)
                      /\ said # kind => Saying(o, said) = Saying(r, said)
         /\ Saying(o, kind) \subseteq Saying(r, kind) \cup {Len(r) + 1}
         /\ o # r => Saying(o, kind) = Saying(r, kind) \cup {Len(r) + 1} /\ Len(o) = Len(r) + 1
<1>1. p \in PacketType
  BY AnswersReadable
<1>2. Append(r, p) \in Seq(PacketType) /\ Len(Append(r, p)) = Len(r) + 1 /\ Len(r) \in Nat
  BY <1>1, QueueAppend
<1>3. ASSUME NEW said
      PROVE  /\ Saying(r, said) \subseteq 1..Len(r)
             /\ Saying(Append(r, p), said)
                  = Saying(r, said) \cup (IF kind = said THEN {Len(r) + 1} ELSE {})
  BY <1>1, SayingAppend
<1>4. CASE o = r
  BY <1>2, <1>3, <1>4
<1>5. CASE o = Append(r, p)
  <2>1. /\ o \in Seq(PacketType) /\ Len(o) = Len(r) + 1 /\ Len(r) \in Nat
        /\ \A said : /\ Saying(r, said) \subseteq 1..Len(r)
                     /\ Saying(o, said)
                          = Saying(r, said) \cup (IF kind = said THEN {Len(r) + 1} ELSE {})
    BY <1>2, <1>3, <1>5
  <2>2. \A said : said # kind => Saying(o, said) = Saying(r, said)
    BY <2>1
  <2>3. Saying(o, kind) = Saying(r, kind) \cup {Len(r) + 1}
    BY <2>1
  <2> QED
    BY <2>1, <2>2, <2>3
<1> QED
  BY <1>4, <1>5 DEF Grown

\* A request that is handled keeps the order of the session.
LEMMA RepliesInSession ==
  ASSUME NEW q, NEW r, NEW c, NEW n, NEW o, NEW m, InSession(q, r, c, n), q # << >>,
         FrameKind(Head(q)) \in {"mux", "pn", "msc", "open", "close", "data", "other"},
         Replies(FrameKind(Head(q)), r, o, m), m = 0 => n = 0
  PROVE  InSession(Tail(q), o, c, m)
<1> DEFINE kind == FrameKind(Head(q))
           u == Tail(q)
<1>1. /\ q \in Seq(Seq(Bytes)) /\ r \in Seq(PacketType) /\ c \in ClientType
      /\ Exchanges(q, r, c) /\ Session(q, r, c, n)
  BY DEF InSession
<1>2. u \in Seq(Seq(Bytes))
  BY <1>1, QueueTail
<1>3. ASSUME NEW ask
      PROVE  /\ Asking(q, ask) \subseteq 1..Len(q) /\ Len(q) \in Nat
             /\ 1 \in Asking(q, ask) <=> kind = ask
             /\ \A k \in Asking(u, ask) : k \in Nat \ {0} /\ k + 1 \in Asking(q, ask)
             /\ \A k \in Nat \ {0} : k + 1 \in Asking(q, ask) => k \in Asking(u, ask)
  BY <1>1, AskingTail
<1>4. kind \in {"mux", "pn", "msc", "open", "close", "data", "other"} /\ Replies(kind, r, o, m)
  OBVIOUS
<1> HIDE DEF kind, u
\* What is single and heads the queue is gone; what is not there does not come.
<1>5. ASSUME NEW ask, Single(Asking(q, ask))
      PROVE  Single(Asking(u, ask)) /\ (kind = ask => Asking(u, ask) = {})
  <2>1. Single(Asking(u, ask))
    <3> SUFFICES ASSUME NEW i \in Asking(u, ask), NEW j \in Asking(u, ask) PROVE i = j
      BY DEF Single
    <3>1. i \in Nat /\ j \in Nat /\ i + 1 \in Asking(q, ask) /\ j + 1 \in Asking(q, ask)
      BY <1>3
    <3>2. i + 1 = j + 1
      BY <1>5, <3>1 DEF Single
    <3> QED
      BY <3>1, <3>2
  <2>2. ASSUME kind = ask, NEW k \in Asking(u, ask) PROVE FALSE
    <3>1. k \in Nat \ {0} /\ k + 1 \in Asking(q, ask) /\ 1 \in Asking(q, ask)
      BY <1>3, <2>2
    <3>2. k + 1 = 1
      BY <1>5, <3>1 DEF Single
    <3> QED
      BY <3>1, <3>2
  <2> QED
    BY <2>1, <2>2
<1>6. ASSUME NEW ask, Asking(q, ask) = {}
      PROVE  Asking(u, ask) = {} /\ kind # ask
  BY <1>3, <1>6
<1>7. /\ Exchange(Asking(q, "mux"), Saying(r, "mux"), c.mux = "opening")
      /\ Exchange(Asking(q, "pn"), Saying(r, "pn"), c.dlc = "negotiating")
      /\ Exchange(Asking(q, "msc"), Saying(r, "msc"), c.msc = "sent")
      /\ Exchange(Asking(q, "open") \cup Asking(q, "close"), Saying(r, "dlc"),
                  c.dlc \in {"opening", "closing"})
      /\ Asking(q, "open") # {} => c.dlc = "opening"
      /\ Asking(q, "close") # {} => c.dlc = "closing"
  BY <1>1 DEF Exchanges
<1>8. /\ Single(Asking(u, "mux")) /\ (kind = "mux" => Asking(u, "mux") = {})
      /\ Single(Asking(u, "pn")) /\ (kind = "pn" => Asking(u, "pn") = {})
      /\ Single(Asking(u, "msc")) /\ (kind = "msc" => Asking(u, "msc") = {})
      /\ Single(Asking(u, "open")) /\ (kind = "open" => Asking(u, "open") = {})
      /\ Single(Asking(u, "close")) /\ (kind = "close" => Asking(u, "close") = {})
  <2>1. /\ Single(Asking(q, "mux")) /\ Single(Asking(q, "pn")) /\ Single(Asking(q, "msc"))
        /\ Single(Asking(q, "open")) /\ Single(Asking(q, "close"))
    BY <1>7 DEF Exchange, Single
  <2> QED
    BY <1>5, <2>1
<1>9. \A ask \in {"mux", "pn", "msc", "open", "close"} :
        /\ Asking(q, ask) = {} => Asking(u, ask) = {} /\ kind # ask
        /\ kind = ask => Asking(q, ask) # {}
  BY <1>3, <1>6
\* The channel is asked to open or to close, never both.
<1>10. Asking(u, "open") = {} \/ Asking(u, "close") = {}
  BY <1>7, <1>9
<1>11. /\ kind = "mux" => Saying(r, "mux") = {} /\ c.mux = "opening"
       /\ kind = "pn" => Saying(r, "pn") = {} /\ c.dlc = "negotiating"
       /\ kind = "msc" => Saying(r, "msc") = {} /\ c.msc = "sent"
       /\ kind = "open" => /\ Saying(r, "dlc") = {} /\ c.dlc = "opening"
                           /\ Asking(u, "open") \cup Asking(u, "close") = {}
       /\ kind = "close" => /\ Saying(r, "dlc") = {} /\ c.dlc = "closing"
                            /\ Asking(u, "open") \cup Asking(u, "close") = {}
  BY <1>7, <1>8, <1>9 DEF Exchange
<1>12. Single(Asking(u, "open") \cup Asking(u, "close"))
  BY <1>8, <1>10 DEF Single
\* The requests keep their order.
<1>13. c.dlc = "closing" => \A e \in Asking(u, "close"), k \in Asking(u, "msc") : k < e
  <2> SUFFICES ASSUME c.dlc = "closing", NEW e \in Asking(u, "close"), NEW k \in Asking(u, "msc")
               PROVE  k < e
    OBVIOUS
  <2>1. e \in Nat /\ k \in Nat /\ e + 1 \in Asking(q, "close") /\ k + 1 \in Asking(q, "msc")
    BY <1>3
  <2>2. k + 1 < e + 1
    BY <1>1, <2>1 DEF Session
  <2> QED
    BY <2>1, <2>2
\* Behind the request to close the channel comes no request of the session.
<1>14. kind = "close" => Asking(u, "msc") = {}
  <2> SUFFICES ASSUME kind = "close", NEW k \in Asking(u, "msc") PROVE FALSE
    OBVIOUS
  <2>1. 1 \in Asking(q, "close") /\ k \in Nat \ {0} /\ k + 1 \in Asking(q, "msc")
    BY <1>3
  <2>2. k + 1 < 1
    BY <1>1, <1>11, <2>1 DEF Session
  <2> QED
    BY <2>1, <2>2
<1>15. /\ Shut(c) \/ c.dlc = "opening" => c.msc = "none" /\ c.credits = 0
       /\ Shut(c) \/ Asking(q, "open") # {} => Spoken(r) = {}
       /\ Single(Saying(r, "credits"))
       /\ Saying(r, "credits") # {} => c.credits = 0
       /\ c.dlc = "closing" =>
            /\ \A e \in Saying(r, "dlc"), k \in Spoken(r) \cup Saying(r, "msc") : k < e
            /\ Saying(r, "dlc") # {} => Asking(q, "msc") = {}
       /\ c.dlc = "opening" /\ n = 0 => \A k \in Spoken(r) : \E e \in Saying(r, "dlc") : e < k
  BY <1>1 DEF Session
<1>16. CASE o = r /\ kind # "open"
  <2>1. Exchanges(u, r, c)
    BY <1>7, <1>8, <1>9, <1>12 DEF Exchanges, Exchange
  <2>2. Session(u, r, c, m)
    BY <1>9, <1>13, <1>15 DEF Session
  <2> QED
    BY <1>1, <1>2, <1>16, <2>1, <2>2 DEF InSession, u
\* One packet more at the end of the queue.
<1>17. ASSUME NEW p \in AnswerPackets, NEW said, AnswerKind(p.frame) = said, o = Append(r, p)
       PROVE  /\ o \in Seq(PacketType)
              /\ \A other : other # said => Saying(o, other) = Saying(r, other)
              /\ Saying(o, said) = Saying(r, said) \cup {Len(r) + 1}
              /\ \A other : \A k \in Saying(r, other) : k < Len(r) + 1
  <2>1. Grown(r, o, p)
    BY <1>17 DEF Grown
  <2>2. /\ o \in Seq(PacketType) /\ Len(r) \in Nat
        /\ \A other : /\ Saying(r, other) \subseteq 1..Len(r)
                      /\ other # said => Saying(o, other) = Saying(r, other)
    <3>1. AnswerKind(p.frame) = said /\ r \in Seq(PacketType)
      BY <1>1, <1>17
    <3> QED
      BY <2>1, <3>1, SayingGrown
  <2>3. p \in PacketType
    BY AnswersReadable
  <2>4. Saying(o, said) = Saying(r, said) \cup {Len(r) + 1}
    BY <1>1, <1>17, <2>3, SayingAppend
  <2>5. ASSUME NEW other, NEW k \in Saying(r, other) PROVE k < Len(r) + 1
    <3>1. k \in 1..Len(r)
      BY <2>2
    <3> QED
      BY <2>2, <3>1
  <2> QED
    BY <2>2, <2>4, <2>5
<1> DEFINE new == Len(r) + 1
<1>18. CASE kind = "mux" /\ o = Append(r, Acknowledgement(Mux))
  <2>1. /\ o \in Seq(PacketType) /\ Saying(o, "mux") = {new}
        /\ Saying(o, "pn") = Saying(r, "pn") /\ Saying(o, "msc") = Saying(r, "msc")
        /\ Saying(o, "dlc") = Saying(r, "dlc") /\ Saying(o, "credits") = Saying(r, "credits")
        /\ Saying(o, "status") = Saying(r, "status")
    <3>1. Acknowledgement(Mux) \in AnswerPackets
      BY DEF AnswerPackets
    <3> QED
      BY <1>11, <1>17, <1>18, <3>1, AnswersReadable
  <2> HIDE DEF new
  <2>2. Exchanges(u, o, c)
    BY <1>7, <1>8, <1>9, <1>11, <1>12, <1>18, <2>1 DEF Exchanges, Exchange, Single
  <2>3. Session(u, o, c, m)
    BY <1>9, <1>13, <1>15, <2>1 DEF Session, Spoken
  <2> QED
    BY <1>1, <1>2, <2>1, <2>2, <2>3 DEF InSession, u
<1>19. CASE kind = "pn" /\ o = Append(r, ParameterResponse)
  <2>1. /\ o \in Seq(PacketType) /\ Saying(o, "pn") = {new}
        /\ Saying(o, "mux") = Saying(r, "mux") /\ Saying(o, "msc") = Saying(r, "msc")
        /\ Saying(o, "dlc") = Saying(r, "dlc") /\ Saying(o, "credits") = Saying(r, "credits")
        /\ Saying(o, "status") = Saying(r, "status")
    <3>1. ParameterResponse \in AnswerPackets
      BY DEF AnswerPackets
    <3> QED
      BY <1>11, <1>17, <1>19, <3>1, AnswersReadable
  <2> HIDE DEF new
  <2>2. Exchanges(u, o, c)
    BY <1>7, <1>8, <1>9, <1>11, <1>12, <1>19, <2>1 DEF Exchanges, Exchange, Single
  <2>3. Session(u, o, c, m)
    BY <1>9, <1>13, <1>15, <2>1 DEF Session, Spoken
  <2> QED
    BY <1>1, <1>2, <2>1, <2>2, <2>3 DEF InSession, u
<1>20. CASE kind = "msc" /\ o = Append(r, ModemStatusResponse)
  <2>1. /\ o \in Seq(PacketType) /\ Saying(o, "msc") = {new}
        /\ Saying(o, "mux") = Saying(r, "mux") /\ Saying(o, "pn") = Saying(r, "pn")
        /\ Saying(o, "dlc") = Saying(r, "dlc") /\ Saying(o, "credits") = Saying(r, "credits")
        /\ Saying(o, "status") = Saying(r, "status")
    <3>1. ModemStatusResponse \in AnswerPackets
      BY DEF AnswerPackets
    <3> QED
      BY <1>11, <1>17, <1>20, <3>1, AnswersReadable
  <2> HIDE DEF new
  <2>2. Exchanges(u, o, c)
    BY <1>7, <1>8, <1>9, <1>11, <1>12, <1>20, <2>1 DEF Exchanges, Exchange, Single
  \* The channel is not closed yet: behind its closing comes no request.
  <2>3. c.dlc = "closing" => Saying(r, "dlc") = {}
    BY <1>9, <1>15, <1>20
  <2>4. Session(u, o, c, m)
    BY <1>9, <1>13, <1>15, <2>1, <2>3 DEF Session, Spoken
  <2> QED
    BY <1>1, <1>2, <2>1, <2>2, <2>4 DEF InSession, u
<1>21. CASE kind = "close" /\ o = Append(r, DisconnectAcknowledgement)
  <2>1. /\ o \in Seq(PacketType) /\ Saying(o, "dlc") = {new}
        /\ Saying(o, "mux") = Saying(r, "mux") /\ Saying(o, "pn") = Saying(r, "pn")
        /\ Saying(o, "msc") = Saying(r, "msc") /\ Saying(o, "credits") = Saying(r, "credits")
        /\ Saying(o, "status") = Saying(r, "status")
        /\ \A k \in Spoken(r) \cup Saying(r, "msc") : k < new
    <3>1. DisconnectAcknowledgement \in AnswerPackets
      BY DEF AnswerPackets
    <3> QED
      BY <1>11, <1>17, <1>21, <3>1, AnswersReadable DEF Spoken
  <2> HIDE DEF new
  <2>2. Exchanges(u, o, c)
    BY <1>7, <1>8, <1>9, <1>11, <1>12, <1>21, <2>1 DEF Exchanges, Exchange, Single
  <2>3. Session(u, o, c, m)
    BY <1>9, <1>11, <1>13, <1>14, <1>15, <1>21, <2>1 DEF Session, Spoken, Shut
  <2> QED
    BY <1>1, <1>2, <2>1, <2>2, <2>3 DEF InSession, u
<1>22. ASSUME kind = "open", NEW s, NEW t, Grown(r, s, Acknowledgement(Dlc)),
              Grown(s, t, ModemStatusCommand), Grown(t, o, Credits), m = 0 => s # r
       PROVE  InSession(u, o, c, m)
  <2> DEFINE second == Len(s) + 1
             third == Len(t) + 1
  <2>1. /\ s \in Seq(PacketType) /\ Len(r) \in Nat /\ Len(s) \in Nat
        /\ Saying(s, "mux") = Saying(r, "mux") /\ Saying(s, "pn") = Saying(r, "pn")
        /\ Saying(s, "msc") = Saying(r, "msc") /\ Saying(s, "credits") = Saying(r, "credits")
        /\ Saying(s, "status") = Saying(r, "status")
        /\ Saying(s, "dlc") \subseteq Saying(r, "dlc") \cup {new}
        /\ s # r => Saying(s, "dlc") = Saying(r, "dlc") \cup {new} /\ Len(s) = Len(r) + 1
    <3>1. Acknowledgement(Dlc) \in AnswerPackets /\ AnswerKind(Acknowledgement(Dlc).frame) = "dlc"
      BY AnswersReadable DEF AnswerPackets
    <3>2. /\ s \in Seq(PacketType) /\ Len(r) \in Nat /\ Len(s) \in Nat
          /\ \A said : said # "dlc" => Saying(s, said) = Saying(r, said)
          /\ Saying(s, "dlc") \subseteq Saying(r, "dlc") \cup {Len(r) + 1}
          /\ s # r => /\ Saying(s, "dlc") = Saying(r, "dlc") \cup {Len(r) + 1}
                      /\ Len(s) = Len(r) + 1
      <4> DEFINE a == Acknowledgement(Dlc)
      <4>1. r \in Seq(PacketType) /\ Grown(r, s, a) /\ a \in AnswerPackets
        BY <1>1, <1>22, <3>1
      <4>2. AnswerKind(a.frame) = "dlc"
        BY <3>1
      <4> HIDE DEF a
      <4>3. /\ s \in Seq(PacketType) /\ Len(r) \in Nat /\ Len(s) \in Nat
            /\ Saying(s, "dlc") \subseteq Saying(r, "dlc") \cup {Len(r) + 1}
            /\ s # r => /\ Saying(s, "dlc") = Saying(r, "dlc") \cup {Len(r) + 1}
                        /\ Len(s) = Len(r) + 1
        BY <4>1, <4>2, SayingGrown
      <4>4. \A said : said # "dlc" => Saying(s, said) = Saying(r, said)
        BY <4>1, <4>2, SayingGrown
      <4> QED
        BY <4>3, <4>4
    <3> QED
      BY <3>2
  <2>2. /\ t \in Seq(PacketType) /\ Len(t) \in Nat /\ Len(t) >= Len(s)
        /\ Saying(t, "mux") = Saying(s, "mux") /\ Saying(t, "pn") = Saying(s, "pn")
        /\ Saying(t, "msc") = Saying(s, "msc") /\ Saying(t, "credits") = Saying(s, "credits")
        /\ Saying(t, "dlc") = Saying(s, "dlc")
        /\ Saying(t, "status") \subseteq Saying(s, "status") \cup {second}
    <3>1. ModemStatusCommand \in AnswerPackets /\ AnswerKind(ModemStatusCommand.frame) = "status"
      BY AnswersReadable DEF AnswerPackets
    <3> QED
      BY <1>22, <2>1, <3>1, SayingGrown
  <2>3. /\ o \in Seq(PacketType)
        /\ Saying(o, "mux") = Saying(t, "mux") /\ Saying(o, "pn") = Saying(t, "pn")
        /\ Saying(o, "msc") = Saying(t, "msc") /\ Saying(o, "status") = Saying(t, "status")
        /\ Saying(o, "dlc") = Saying(t, "dlc")
        /\ Saying(o, "credits") \subseteq Saying(t, "credits") \cup {third}
    <3>1. Credits \in AnswerPackets /\ AnswerKind(Credits.frame) = "credits"
      BY AnswersReadable DEF AnswerPackets
    <3> QED
      BY <1>22, <2>2, <3>1, SayingGrown
  <2>4. s # r => new < second /\ new < third
    BY <2>1, <2>2
  <2>5. Spoken(r) = {} /\ c.dlc = "opening" /\ Saying(r, "dlc") = {}
    BY <1>9, <1>11, <1>15, <1>22
  <2> HIDE DEF new, second, third
  <2>6. /\ Spoken(o) \subseteq {second, third} /\ Saying(o, "credits") \subseteq {third}
        /\ Saying(o, "dlc") \subseteq {new} /\ (s # r => Saying(o, "dlc") = {new})
    BY <2>1, <2>2, <2>3, <2>5 DEF Spoken
  <2>7. Exchanges(u, o, c)
    BY <1>7, <1>8, <1>9, <1>11, <1>22, <2>1, <2>2, <2>3, <2>6 DEF Exchanges, Exchange, Single
  <2>8. Session(u, o, c, m)
    BY <1>11, <1>15, <1>22, <2>4, <2>5, <2>6 DEF Session, Single, Shut
  <2> QED
    BY <1>1, <1>2, <2>3, <2>7, <2>8 DEF InSession
<1> QED
  BY <1>4, <1>16, <1>18, <1>19, <1>20, <1>21, <1>22 DEF Replies, u

-----------------------------------------------------------------------------
(* The invariant and the steps of the client.                              *)

SessionInv ==
  /\ aclIn \in Seq(Frames) /\ toClient \in Seq(AnswerPackets)
  /\ InSession(aclIn, toClient, client, failures)
  /\ failures \in 0..MaxFailures

\* The frames of the client and what they ask.
LEMMA RequestKinds ==
  ASSUME NEW address \in {Mux, Dlc}, NEW control \in {SABM, DISC, UIH, UIHCredits},
         NEW credits \in Seq(Bytes), NEW information \in Seq(Bytes),
         Len(information) <= 127
  PROVE  LET f == FrameOf(address, control, credits, information)
         IN /\ f \in Frames /\ f \in Seq(Bytes)
            /\ control = SABM /\ address = Mux => FrameKind(f) = "mux"
            /\ control = SABM /\ address = Dlc => FrameKind(f) = "open"
            /\ control = DISC => FrameKind(f) = "close"
            /\ control \in {UIH, UIHCredits} /\ address = Dlc => FrameKind(f) = "data"
            /\ control = UIH /\ address = Mux /\ credits = << >> /\ Len(information) >= 1 =>
                 FrameKind(f) = IF information[1] = PNCommand THEN "pn"
                                ELSE IF information[1] = MSCCommand THEN "msc" ELSE "other"
<1> DEFINE f == FrameOf(address, control, credits, information)
<1>1. /\ f \in Seq(Bytes) /\ Len(f) = 4 + Len(credits) + Len(information)
      /\ f[1] = address /\ f[2] = control
      /\ \A k \in 1..Len(information) : f[3 + Len(credits) + k] = information[k]
  <2>1. address \in Bytes /\ control \in Bytes
    BY DEF Bytes, Mux, Dlc, SABM, DISC, UIH, UIHCredits
  <2> QED
    BY <2>1, FrameIs
<1>2. Len(credits) \in Nat /\ Len(information) \in Nat
  BY LenProperties
<1> HIDE DEF f
<1>3. f \in Frames
  <2>1. Len(f) >= 4
    BY <1>1, <1>2
  <2> QED
    BY <1>1, <2>1 DEF Frames
<1>4. ASSUME credits = << >>, Len(information) >= 1 PROVE f[4] = information[1]
  <2>1. Len(credits) = 0 /\ 1 \in 1..Len(information)
    BY <1>2, <1>4, EmptySeq
  <2>2. f[3 + 0 + 1] = information[1]
    BY <1>1, <2>1
  <2> QED
    BY <2>2
<1>5. Mux # Dlc /\ SABM # DISC /\ SABM # UIH /\ SABM # UIHCredits
      /\ DISC # UIH /\ DISC # UIHCredits /\ UIH # UIHCredits
  BY DEF Mux, Dlc, SABM, DISC, UIH, UIHCredits
<1>6. control = SABM /\ address = Mux => FrameKind(f) = "mux"
  BY <1>1 DEF FrameKind
<1>7. control = SABM /\ address = Dlc => FrameKind(f) = "open"
  BY <1>1, <1>5 DEF FrameKind
<1>8. control = DISC => FrameKind(f) = "close"
  BY <1>1, <1>5 DEF FrameKind
<1>9. control \in {UIH, UIHCredits} /\ address = Dlc => FrameKind(f) = "data"
  BY <1>1, <1>5 DEF FrameKind, IsData
<1>10. control = UIH /\ address = Mux /\ credits = << >> /\ Len(information) >= 1 =>
         FrameKind(f) = IF information[1] = PNCommand THEN "pn"
                        ELSE IF information[1] = MSCCommand THEN "msc" ELSE "other"
  BY <1>1, <1>4, <1>5 DEF FrameKind, IsData
<1> QED
  BY <1>1, <1>3, <1>6, <1>7, <1>8, <1>9, <1>10 DEF f

\* A frame that is neither of these is of no use to anyone.
LEMMA OtherKinds ==
  ASSUME NEW control \in OtherControls
  PROVE  LET f == FrameOf(Mux, control, << >>, << >>)
         IN f \in Frames /\ f \in Seq(Bytes) /\ FrameKind(f) = "other"
<1> DEFINE f == FrameOf(Mux, control, << >>, << >>)
<1>1. control \in Bytes /\ control \notin {SABM, DISC, UIH, UIHCredits}
  BY RfcommAssumption
<1>2. Mux \in Bytes /\ << >> \in Seq(Bytes) /\ Len(<< >>) = 0 /\ Len(<< >>) <= 127
  BY EmptySeq DEF Mux, Bytes
<1>3. f \in Seq(Bytes) /\ Len(f) = 4 + Len(<< >>) + Len(<< >>) /\ f[1] = Mux /\ f[2] = control
  <2> DEFINE nothing == << >>
  <2>1. nothing \in Seq(Bytes) /\ Len(nothing) <= 127
    BY <1>2
  <2> HIDE DEF nothing
  <2> DEFINE g == FrameOf(Mux, control, nothing, nothing)
  <2>2. /\ g \in Seq(Bytes) /\ Len(g) = 4 + Len(nothing) + Len(nothing)
        /\ g[1] = Mux /\ g[2] = control
    BY <1>1, <1>2, <2>1, FrameIs
  <2> QED
    BY <2>2 DEF nothing
<1> HIDE DEF f
<1>4. Len(f) >= 4
  BY <1>2, <1>3
<1>5. f \in Frames
  BY <1>1, <1>3, <1>4 DEF Frames
<1>6. FrameKind(f) = "other"
  BY <1>1, <1>3 DEF FrameKind, IsData
<1> QED
  BY <1>3, <1>5, <1>6 DEF f

\* A frame of a kind is sent in its turn.
Requests(kind) ==
  /\ \E f \in Frames : f \in Seq(Bytes) /\ FrameKind(f) = kind /\ Sends(f)
  /\ MayAsk(client, client', kind)

LEMMA RequestsKeep ==
  ASSUME SessionInv, NEW kind, Requests(kind)
  PROVE  SessionInv'
<1>1. PICK f \in Frames : f \in Seq(Bytes) /\ FrameKind(f) = kind /\ Sends(f)
  BY DEF Requests
<1>2. /\ aclIn' = Append(aclIn, f) /\ toClient' = toClient /\ failures' = failures
  BY <1>1 DEF Sends, server
<1>3. InSession(Append(aclIn, f), toClient, client', failures)
  BY <1>1, AsksInSession DEF SessionInv, Requests
<1>4. Append(aclIn, f) \in Seq(Frames)
  BY QueueAppend DEF SessionInv
<1> QED
  BY <1>2, <1>3, <1>4 DEF SessionInv

\* What each action of the client asks.
LEMMA OpenMultiplexerAsks == OpenMultiplexer => Requests("mux")
<1> SUFFICES ASSUME OpenMultiplexer PROVE Requests("mux")
  OBVIOUS
<1> DEFINE f == FrameOf(Mux, SABM, << >>, << >>)
<1>1. f \in Frames /\ f \in Seq(Bytes) /\ FrameKind(f) = "mux"
  <2>1. << >> \in Seq(Bytes) /\ Len(<< >>) <= 127
    BY EmptySeq
  <2> QED
    BY <2>1, RequestKinds
<1>2. Sends(f) /\ MayAsk(client, client', "mux")
  BY DEF OpenMultiplexer, MayAsk
<1> HIDE DEF f
<1> QED
  BY <1>1, <1>2 DEF Requests

LEMMA NegotiateAsks == Negotiate => Requests("pn")
<1> SUFFICES ASSUME Negotiate PROVE Requests("pn")
  OBVIOUS
<1> DEFINE information == <<PNCommand, 17, 2, 240, 7, 0, 222, 3, 0, 7>>
           f == FrameOf(Mux, UIH, << >>, information)
<1>1. f \in Frames /\ f \in Seq(Bytes) /\ FrameKind(f) = "pn"
  <2>1. << >> \in Seq(Bytes)
    BY EmptySeq
  <2>2. /\ information \in Seq(Bytes) /\ information[1] = PNCommand
        /\ Len(information) <= 127 /\ Len(information) >= 1
    BY DEF Bytes, PNCommand
  <2> HIDE DEF information
  <2> QED
    BY <2>1, <2>2, RequestKinds
<1>2. Sends(f) /\ MayAsk(client, client', "pn")
  BY DEF Negotiate, MayAsk
<1> HIDE DEF f
<1> QED
  BY <1>1, <1>2 DEF Requests

LEMMA OpenChannelAsks == OpenChannel => Requests("open")
<1> SUFFICES ASSUME OpenChannel PROVE Requests("open")
  OBVIOUS
<1> DEFINE f == FrameOf(Dlc, SABM, << >>, << >>)
<1>1. f \in Frames /\ f \in Seq(Bytes) /\ FrameKind(f) = "open"
  <2>1. << >> \in Seq(Bytes) /\ Len(<< >>) <= 127
    BY EmptySeq
  <2> QED
    BY <2>1, RequestKinds
<1>2. Sends(f) /\ MayAsk(client, client', "open")
  BY DEF OpenChannel, MayAsk
<1> HIDE DEF f
<1> QED
  BY <1>1, <1>2 DEF Requests

LEMMA SendModemStatusAsks == SendModemStatus => Requests("msc")
<1> SUFFICES ASSUME SendModemStatus PROVE Requests("msc")
  OBVIOUS
<1> DEFINE information == <<MSCCommand, 5, 11, 141>>
           f == FrameOf(Mux, UIH, << >>, information)
<1>1. f \in Frames /\ f \in Seq(Bytes) /\ FrameKind(f) = "msc"
  <2>1. << >> \in Seq(Bytes)
    BY EmptySeq
  <2>2. /\ information \in Seq(Bytes) /\ information[1] = MSCCommand
        /\ Len(information) <= 127 /\ Len(information) >= 1
    BY DEF Bytes, MSCCommand
  <2>3. MSCCommand # PNCommand
    BY DEF MSCCommand, PNCommand
  <2> HIDE DEF information
  <2> QED
    BY <2>1, <2>2, <2>3, RequestKinds
<1>2. Sends(f) /\ MayAsk(client, client', "msc")
  BY DEF SendModemStatus, MayAsk
<1> HIDE DEF f
<1> QED
  BY <1>1, <1>2 DEF Requests

LEMMA AnswerModemStatusAsks == AnswerModemStatus => Requests("other")
<1> SUFFICES ASSUME AnswerModemStatus PROVE Requests("other")
  OBVIOUS
<1> DEFINE information == <<MSCResponse, 5, 11, 141>>
           f == FrameOf(Mux, UIH, << >>, information)
<1>1. f \in Frames /\ f \in Seq(Bytes) /\ FrameKind(f) = "other"
  <2>1. << >> \in Seq(Bytes)
    BY EmptySeq
  <2>2. /\ information \in Seq(Bytes) /\ information[1] = MSCResponse
        /\ Len(information) <= 127 /\ Len(information) >= 1
    BY DEF Bytes, MSCResponse
  <2>3. MSCResponse # PNCommand /\ MSCResponse # MSCCommand
    BY DEF MSCResponse, MSCCommand, PNCommand
  <2> HIDE DEF information
  <2> QED
    BY <2>1, <2>2, <2>3, RequestKinds
<1>2. Sends(f) /\ MayAsk(client, client', "other")
  BY DEF AnswerModemStatus, MayAsk
<1> HIDE DEF f
<1> QED
  BY <1>1, <1>2 DEF Requests

\* The two data frames of a payload.
LEMMA DataKinds ==
  ASSUME NEW payload \in Payloads
  PROVE  LET f == FrameOf(Dlc, UIHCredits, <<3>>, payload)
             g == FrameOf(Dlc, UIH, << >>, payload)
         IN /\ f \in Frames /\ f \in Seq(Bytes) /\ FrameKind(f) = "data"
            /\ g \in Frames /\ g \in Seq(Bytes) /\ FrameKind(g) = "data"
<1>1. payload \in Seq(Bytes) /\ Len(payload) <= 127
  BY RfcommAssumption
<1>2. << >> \in Seq(Bytes) /\ <<3>> \in Seq(Bytes)
  BY EmptySeq DEF Bytes
<1> QED
  BY <1>1, <1>2, RequestKinds

LEMMA SendDataAsks == SendData => Requests("data")
<1> SUFFICES ASSUME SendData PROVE Requests("data")
  OBVIOUS
<1>1. PICK payload \in Payloads : \/ Sends(FrameOf(Dlc, UIHCredits, <<3>>, payload))
                                  \/ Sends(FrameOf(Dlc, UIH, << >>, payload))
  BY DEF SendData
<1>2. PICK f : f \in Frames /\ f \in Seq(Bytes) /\ FrameKind(f) = "data" /\ Sends(f)
  BY <1>1, DataKinds
<1>3. MayAsk(client, client', "data")
  BY DEF SendData, Connected, MayAsk
<1> QED
  BY <1>2, <1>3 DEF Requests

LEMMA CloseChannelAsks == CloseChannel => Requests("close")
<1> SUFFICES ASSUME CloseChannel PROVE Requests("close")
  OBVIOUS
<1> DEFINE f == FrameOf(Dlc, DISC, << >>, << >>)
<1>1. f \in Frames /\ f \in Seq(Bytes) /\ FrameKind(f) = "close"
  <2>1. << >> \in Seq(Bytes) /\ Len(<< >>) <= 127
    BY EmptySeq
  <2> QED
    BY <2>1, RequestKinds
<1>2. Sends(f) /\ MayAsk(client, client', "close")
  BY DEF CloseChannel, MayAsk
<1> HIDE DEF f
<1> QED
  BY <1>1, <1>2 DEF Requests

LEMMA SendOtherAsks == SendOther => Requests("other")
<1> SUFFICES ASSUME SendOther PROVE Requests("other")
  OBVIOUS
<1> DEFINE Asked(f) == f \in Frames /\ f \in Seq(Bytes) /\ FrameKind(f) = "other"
<1>1. << >> \in Seq(Bytes) /\ Len(<< >>) <= 127
  BY EmptySeq
<1>2. ASSUME NEW command \in OtherCommands
      PROVE  Asked(FrameOf(Mux, UIH, << >>, <<command, 1>>))
  <2> DEFINE information == <<command, 1>>
  <2>2. command \in Bytes /\ command # PNCommand /\ command # MSCCommand /\ 1 \in Bytes
    <3>1. command \in Bytes /\ command # PNCommand /\ command # MSCCommand
      BY RfcommAssumption
    <3> QED
      BY <3>1 DEF Bytes
  <2>3. /\ information \in Seq(Bytes) /\ information[1] = command
        /\ Len(information) <= 127 /\ Len(information) >= 1
    BY <2>2
  <2> HIDE DEF information
  <2>4. Asked(FrameOf(Mux, UIH, << >>, information))
    BY <1>1, <2>2, <2>3, RequestKinds
  <2> QED
    BY <2>4 DEF information
<1>3. ASSUME NEW control \in OtherControls
      PROVE  Asked(FrameOf(Mux, control, << >>, << >>))
  BY OtherKinds
<1>4. \E f : Asked(f) /\ Sends(f)
  BY <1>2, <1>3 DEF SendOther
<1>5. MayAsk(client, client', "other")
  BY DEF SendOther, MayAsk
<1> QED
  BY <1>4, <1>5 DEF Requests

\* A packet that reaches the client: it can be read, so its kind says what it does.
LEMMA ClientReceivesKeeps == SessionInv /\ ClientReceives => SessionInv'
<1> SUFFICES ASSUME SessionInv, ClientReceives PROVE SessionInv'
  OBVIOUS
<1> DEFINE p == Head(toClient)
<1>1. p \in AnswerPackets /\ Tail(toClient) \in Seq(AnswerPackets)
  BY QueueTail DEF SessionInv, ClientReceives
<1> HIDE DEF p
<1>2. client' = Understood(client, AnswerKind(p.frame))
  <2>1. Readable(p)
    BY <1>1, AnswersReadable
  <2>2. client' = Received(p.frame)
    BY <2>1 DEF ClientReceives, p
  <2> QED
    BY <1>1, <2>2, ReceivedIsUnderstood
<1>3. AnswerKind(p.frame) \in {"mux", "dlc", "pn", "msc", "status", "credits"}
  BY <1>1, AnswerWords
<1>4. InSession(aclIn, Tail(toClient), client', failures)
  BY <1>2, <1>3, HearsInSession DEF SessionInv, ClientReceives, p
<1>5. toClient' = Tail(toClient) /\ aclIn' = aclIn /\ failures' = failures
  BY DEF ClientReceives, server
<1> QED
  BY <1>1, <1>4, <1>5 DEF SessionInv

-----------------------------------------------------------------------------
(* The steps of the server.                                                *)

\* A submission hands one packet on or none.
LEMMA SubmissionGrows ==
  ASSUME NEW r \in Seq(AnswerPackets), NEW p \in AnswerPackets,
         NEW a \in usb_send_acl_packet(p)
  PROVE  /\ r \o a \in Seq(AnswerPackets) /\ a \in Seq(AnswerPackets)
         /\ Grown(r, r \o a, p) /\ Len(a) \in {0, 1}
         /\ Len(a) = 1 => r \o a # r
<1>1. CASE a = <<p>>
  <2>1. <<p>> \in Seq(AnswerPackets) /\ Len(<<p>>) = 1
    OBVIOUS
  <2>2. r \o <<p>> = Append(r, p)
    BY AppendIsConcat
  <2>3. Append(r, p) \in Seq(AnswerPackets) /\ Len(Append(r, p)) = Len(r) + 1 /\ Len(r) \in Nat
    BY QueueAppend
  <2>4. Append(r, p) # r
    BY <2>3
  <2> QED
    BY <1>1, <2>1, <2>2, <2>3, <2>4 DEF Grown
<1>2. CASE a = << >>
  <2>1. r \o << >> = r /\ << >> \in Seq(AnswerPackets) /\ Len(<< >>) = 0
    BY ConcatEmptySeq, EmptySeq
  <2> QED
    BY <1>2, <2>1 DEF Grown
<1> QED
  BY <1>1, <1>2 DEF usb_send_acl_packet

\* What a handler does to the queue and to the count of failures.
Handled(kind) ==
  /\ toClient' \in Seq(AnswerPackets) /\ Replies(kind, toClient, toClient', failures')
  /\ failures' \in 0..MaxFailures /\ (failures' = 0 => failures = 0)

LEMMA AnswerHandled ==
  ASSUME SessionInv, NEW p \in AnswerPackets, Answer(p), NEW kind, kind # "open",
         \A n : Replies(kind, toClient, Append(toClient, p), n)
  PROVE  Handled(kind)
<1>1. PICK a \in usb_send_acl_packet(p) : Submitted(1, a)
  BY DEF Answer
<1>2. toClient \in Seq(AnswerPackets) /\ failures \in 0..MaxFailures
  BY DEF SessionInv
<1>3. /\ toClient \o a \in Seq(AnswerPackets) /\ Grown(toClient, toClient \o a, p)
      /\ Len(a) \in {0, 1}
  BY <1>2, SubmissionGrows
<1>4. /\ toClient' = toClient \o a /\ failures' = failures + 1 - Len(a)
      /\ failures' <= MaxFailures
  BY <1>1 DEF Submitted
<1>5. failures' \in 0..MaxFailures /\ (failures' = 0 => failures = 0)
  BY <1>2, <1>3, <1>4, RfcommAssumption
<1>6. Replies(kind, toClient, toClient', failures')
  BY <1>3, <1>4 DEF Grown, Replies
<1> QED
  BY <1>3, <1>4, <1>5, <1>6 DEF Handled

LEMMA SetModeHandled ==
  ASSUME SessionInv, NEW f \in Frames, f[2] = SABM, SetMode(f)
  PROVE  Handled(FrameKind(f))
<1>1. PICK a \in usb_send_acl_packet(Acknowledgement(f[1])) :
        IF f[1] # Dlc THEN Submitted(1, a)
        ELSE \E m \in usb_send_acl_packet(ModemStatusCommand),
                c \in usb_send_acl_packet(Credits) : Submitted(3, a \o m \o c)
  BY DEF SetMode
<1>2. toClient \in Seq(AnswerPackets) /\ failures \in 0..MaxFailures /\ MaxFailures \in Nat
  BY RfcommAssumption DEF SessionInv
<1>3. f[1] \in {Mux, Dlc} /\ Mux # Dlc
  BY DEF Frames, Mux, Dlc
<1>4. CASE f[1] = Mux
  <2> DEFINE p == Acknowledgement(Mux)
  <2>1. p \in AnswerPackets /\ a \in usb_send_acl_packet(p) /\ Submitted(1, a)
    BY <1>1, <1>3, <1>4 DEF AnswerPackets
  <2>2. FrameKind(f) = "mux"
    BY <1>4 DEF FrameKind
  <2> HIDE DEF p
  <2>3. /\ toClient \o a \in Seq(AnswerPackets) /\ Grown(toClient, toClient \o a, p)
        /\ Len(a) \in {0, 1}
    BY <1>2, <2>1, SubmissionGrows
  <2>4. /\ toClient' = toClient \o a /\ failures' = failures + 1 - Len(a)
        /\ failures' <= MaxFailures
    BY <2>1 DEF Submitted
  <2>5. failures' \in 0..MaxFailures /\ (failures' = 0 => failures = 0)
    BY <1>2, <2>3, <2>4
  <2>6. Replies("mux", toClient, toClient', failures')
    BY <2>3, <2>4 DEF Grown, Replies, p
  <2> QED
    BY <2>2, <2>3, <2>4, <2>5, <2>6 DEF Handled
<1>5. CASE f[1] = Dlc
  <2> DEFINE p == Acknowledgement(Dlc)
  <2>1. p \in AnswerPackets /\ a \in usb_send_acl_packet(p)
    BY <1>5 DEF AnswerPackets
  <2>2. PICK m \in usb_send_acl_packet(ModemStatusCommand), c \in usb_send_acl_packet(Credits) :
          Submitted(3, a \o m \o c)
    BY <1>1, <1>5
  <2>3. ModemStatusCommand \in AnswerPackets /\ Credits \in AnswerPackets
    BY DEF AnswerPackets
  <2>4. FrameKind(f) = "open"
    BY <1>3, <1>5 DEF FrameKind
  <2> HIDE DEF p
  <2> DEFINE s == toClient \o a
             t == s \o m
             o == t \o c
  <2>5. /\ s \in Seq(AnswerPackets) /\ a \in Seq(AnswerPackets) /\ Grown(toClient, s, p)
        /\ Len(a) \in {0, 1} /\ (Len(a) = 1 => s # toClient)
    BY <1>2, <2>1, SubmissionGrows
  <2> HIDE DEF s
  <2>6. /\ t \in Seq(AnswerPackets) /\ m \in Seq(AnswerPackets)
        /\ Grown(s, t, ModemStatusCommand) /\ Len(m) \in {0, 1}
    BY <2>3, <2>5, SubmissionGrows
  <2> HIDE DEF t
  <2>7. /\ o \in Seq(AnswerPackets) /\ c \in Seq(AnswerPackets)
        /\ Grown(t, o, Credits) /\ Len(c) \in {0, 1}
    BY <2>3, <2>6, SubmissionGrows
  <2>8. toClient \o (a \o m \o c) = o
    <3>1. /\ toClient \in Seq(AnswerPackets) /\ a \in Seq(AnswerPackets)
          /\ m \in Seq(AnswerPackets) /\ c \in Seq(AnswerPackets)
      BY <1>2, <2>5, <2>6, <2>7
    <3>2. (toClient \o a) \o m = toClient \o (a \o m)
      BY <3>1, ConcatAssociative
    <3> DEFINE w == a \o m
    <3>3. w \in Seq(AnswerPackets)
      BY <3>1
    <3> HIDE DEF w
    <3>4. (toClient \o w) \o c = toClient \o (w \o c)
      BY <3>1, <3>3, ConcatAssociative
    <3> QED
      BY <3>2, <3>4 DEF o, t, s, w
  <2> HIDE DEF o
  <2>9. Len(a \o m \o c) = Len(a) + Len(m) + Len(c)
    <3>1. a \o m \in Seq(AnswerPackets) /\ Len(a \o m) = Len(a) + Len(m)
      BY <2>5, <2>6, ConcatProperties
    <3>2. Len((a \o m) \o c) = Len(a \o m) + Len(c)
      BY <2>7, <3>1, ConcatProperties
    <3> QED
      BY <3>1, <3>2
  <2>10. /\ toClient' = o /\ failures' = failures + 3 - (Len(a) + Len(m) + Len(c))
         /\ failures' <= MaxFailures
    BY <2>2, <2>8, <2>9 DEF Submitted
  <2>11. /\ failures' \in 0..MaxFailures /\ (failures' = 0 => failures = 0)
         /\ failures' = 0 => Len(a) = 1
    <3> DEFINE l == Len(a)
               k == Len(m)
               n == Len(c)
    <3>1. /\ l \in {0, 1} /\ k \in {0, 1} /\ n \in {0, 1}
          /\ failures' = failures + 3 - (l + k + n) /\ failures' <= MaxFailures
      BY <2>5, <2>6, <2>7, <2>10
    <3> HIDE DEF l, k, n
    <3>2. /\ failures' \in 0..MaxFailures /\ (failures' = 0 => failures = 0)
          /\ failures' = 0 => l = 1
      BY <1>2, <3>1
    <3> QED
      BY <3>2 DEF l
  <2>12. Replies("open", toClient, o, failures')
    BY <2>5, <2>6, <2>7, <2>11 DEF Replies, p
  <2> QED
    BY <2>4, <2>7, <2>10, <2>11, <2>12 DEF Handled
<1> QED
  BY <1>3, <1>4, <1>5

\* Every frame is handled as its kind asks.
LEMMA process_rfcommHandles ==
  ASSUME SessionInv, NEW f \in Frames, process_rfcomm(f)
  PROVE  /\ Handled(FrameKind(f))
         /\ FrameKind(f) \in {"mux", "pn", "msc", "open", "close", "data", "other"}
<1>1. /\ SABM # DISC /\ SABM # UIH /\ SABM # UIHCredits /\ DISC # UIH /\ DISC # UIHCredits
      /\ UIH # UIHCredits /\ PNCommand # MSCCommand /\ PNCommand # MSCResponse
      /\ MSCCommand # MSCResponse
  BY DEF SABM, DISC, UIH, UIHCredits, PNCommand, MSCCommand, MSCResponse
<1>2. FrameKind(f) \in {"mux", "pn", "msc", "open", "close", "data", "other"}
  BY DEF FrameKind
<1>3. ASSUME SendNothing, NEW kind, kind # "open" PROVE Handled(kind)
  BY <1>3 DEF SendNothing, Handled, Replies, SessionInv
<1>4. CASE f[2] = UIHCredits /\ CreditedData(f)
  <2>1. FrameKind(f) = "data" /\ SendNothing
    BY <1>1, <1>4 DEF FrameKind, IsData, CreditedData, PrintPayload
  <2> QED
    BY <1>2, <1>3, <2>1
<1>5. CASE f[2] = DISC /\ Disconnect
  <2>1. FrameKind(f) = "close" /\ DisconnectAcknowledgement \in AnswerPackets
    BY <1>1, <1>5 DEF FrameKind, AnswerPackets
  <2>2. Answer(DisconnectAcknowledgement)
    BY <1>5 DEF Disconnect
  <2>3. \A n : Replies("close", toClient, Append(toClient, DisconnectAcknowledgement), n)
    BY DEF Replies
  <2>4. Handled("close")
    BY <2>1, <2>2, <2>3, AnswerHandled
  <2> QED
    BY <1>2, <2>1, <2>4
<1>6. CASE f[2] = UIH /\ f[1] = Mux /\ MultiplexerCommand(f[4])
  <2> DEFINE command == f[4]
  <2>1. FrameKind(f) = IF command = PNCommand THEN "pn"
                       ELSE IF command = MSCCommand THEN "msc" ELSE "other"
    BY <1>1, <1>6 DEF FrameKind, IsData
  <2>2. MultiplexerCommand(command)
    BY <1>6
  <2> HIDE DEF command
  <2>3. CASE command = PNCommand /\ Answer(ParameterResponse)
    <3>1. FrameKind(f) = "pn" /\ ParameterResponse \in AnswerPackets
      BY <2>1, <2>3 DEF AnswerPackets
    <3>2. \A n : Replies("pn", toClient, Append(toClient, ParameterResponse), n)
      BY DEF Replies
    <3>3. Handled("pn")
      BY <2>3, <3>1, <3>2, AnswerHandled
    <3> QED
      BY <1>2, <3>1, <3>3
  <2>4. CASE command = MSCCommand /\ Answer(ModemStatusResponse)
    <3>1. FrameKind(f) = "msc" /\ ModemStatusResponse \in AnswerPackets
      BY <1>1, <2>1, <2>4 DEF AnswerPackets
    <3>2. \A n : Replies("msc", toClient, Append(toClient, ModemStatusResponse), n)
      BY DEF Replies
    <3>3. Handled("msc")
      BY <2>4, <3>1, <3>2, AnswerHandled
    <3> QED
      BY <1>2, <3>1, <3>3
  <2>5. CASE command \notin {PNCommand, MSCCommand} /\ SendNothing
    BY <1>2, <1>3, <2>1, <2>5
  <2> QED
    BY <1>1, <2>2, <2>3, <2>4, <2>5 DEF MultiplexerCommand, Throw
<1>7. CASE f[2] = UIH /\ f[1] # Mux /\ PrintPayload(f, 4)
  <2>1. FrameKind(f) = "data" /\ SendNothing
    BY <1>1, <1>7 DEF FrameKind, IsData, PrintPayload
  <2> QED
    BY <1>2, <1>3, <2>1
<1>8. CASE f[2] = SABM /\ SetMode(f)
  BY <1>2, <1>8, SetModeHandled
<1>9. CASE f[2] \notin {UIHCredits, DISC, UIH, SABM} /\ Throw
  <2>1. FrameKind(f) = "other" /\ SendNothing
    BY <1>9 DEF FrameKind, IsData, Throw
  <2> QED
    BY <1>2, <1>3, <2>1
<1> QED
  BY <1>4, <1>5, <1>6, <1>7, <1>8, <1>9 DEF process_rfcomm

LEMMA AclInCompletedKeeps == SessionInv /\ AclInCompleted => SessionInv'
<1> SUFFICES ASSUME SessionInv, AclInCompleted PROVE SessionInv'
  OBVIOUS
<1> DEFINE f == Head(aclIn)
<1>1. f \in Frames /\ Tail(aclIn) \in Seq(Frames)
  BY QueueTail DEF SessionInv, AclInCompleted
<1>2. /\ Handled(FrameKind(f))
      /\ FrameKind(f) \in {"mux", "pn", "msc", "open", "close", "data", "other"}
  BY <1>1, process_rfcommHandles DEF AclInCompleted
<1>3. InSession(Tail(aclIn), toClient', client, failures')
  <2>1. /\ InSession(aclIn, toClient, client, failures) /\ aclIn # << >>
        /\ Replies(FrameKind(f), toClient, toClient', failures')
        /\ (failures' = 0 => failures = 0)
    BY <1>2 DEF SessionInv, AclInCompleted, Handled
  <2> QED
    BY <1>2, <2>1, RepliesInSession
<1>4. aclIn' = Tail(aclIn) /\ client' = client
  BY DEF AclInCompleted
<1> QED
  BY <1>1, <1>2, <1>3, <1>4 DEF SessionInv, Handled

LEMMA SessionInit == Init => SessionInv
<1> SUFFICES ASSUME Init PROVE SessionInv
  OBVIOUS
<1>1. /\ aclIn = << >> /\ toClient = << >> /\ client = NoChannel("down") /\ failures = 0
  BY DEF Init
<1>2. /\ << >> \in Seq(Frames) /\ << >> \in Seq(AnswerPackets)
      /\ << >> \in Seq(Seq(Bytes)) /\ << >> \in Seq(PacketType)
  BY EmptySeq
<1>3. \A kind : Asking(<< >>, kind) = {} /\ Saying(<< >>, kind) = {}
  BY DEF Asking, Saying
<1>4. NoChannel("down") \in ClientType
  BY DEF NoChannel, ClientType
<1>5. Exchanges(<< >>, << >>, NoChannel("down"))
  BY <1>3 DEF Exchanges, Exchange, Single
<1>6. Session(<< >>, << >>, NoChannel("down"), 0)
  BY <1>3 DEF Session, Spoken, Single, Shut, NoChannel
<1> QED
  BY <1>1, <1>2, <1>4, <1>5, <1>6, RfcommAssumption DEF SessionInv, InSession

LEMMA SessionStep == SessionInv /\ [Next]_vars => SessionInv'
<1> SUFFICES ASSUME SessionInv, [Next]_vars PROVE SessionInv'
  OBVIOUS
<1>1. CASE UNCHANGED vars
  BY <1>1 DEF vars, SessionInv
<1>2. CASE OpenMultiplexer \/ Opening \/ SendData \/ CloseChannel \/ SendOther
  <2>1. PICK kind : Requests(kind)
    BY <1>2, OpenMultiplexerAsks, NegotiateAsks, OpenChannelAsks, SendModemStatusAsks,
       AnswerModemStatusAsks, SendDataAsks, CloseChannelAsks, SendOtherAsks DEF Opening
  <2> QED
    BY <2>1, RequestsKeep
<1> QED
  BY <1>1, <1>2, ClientReceivesKeeps, AclInCompletedKeeps DEF Next, Client

LEMMA SessionKept == Spec => []SessionInv
<1>1. Init => SessionInv
  BY SessionInit
<1>2. SessionInv /\ [Next]_vars => SessionInv'
  BY SessionStep
<1> QED
  BY <1>1, <1>2, PTL DEF Spec

-----------------------------------------------------------------------------
(* What is printed.                                                        *)

DataFrames(payload) ==
  {FrameOf(Dlc, UIHCredits, <<3>>, payload), FrameOf(Dlc, UIH, << >>, payload)}

\* The data frames of the queue carry what has been sent and not been printed, in order:
\* m payloads are printed, and place tells where the others are.
InTransit(q, s, m, place) ==
  /\ m <= Len(s)
  /\ place \in [1..Len(s) - m -> DOMAIN q]
  /\ \A i, j \in 1..Len(s) - m : i < j => place[i] < place[j]
  /\ \A k \in Asking(q, "data") : \E i \in 1..Len(s) - m : place[i] = k
  /\ \A i \in 1..Len(s) - m : q[place[i]] \in DataFrames(s[m + i])

\* The line printed for a payload: of its bytes and, behind them, of others.
PrintedFrom(line, payload) ==
  /\ Len(line) = IF Len(payload) >= 3 THEN 2 * Len(payload) - 5 ELSE 0
  /\ \A i \in 1..Len(line) : i <= Len(payload) => line[i] = payload[i]
DataInv ==
  /\ sent \in Seq(Payloads) /\ printed \in Seq(Seq(Bytes))
  /\ \E place : InTransit(aclIn, sent, Len(printed), place)
  /\ \A k \in DOMAIN printed : PrintedFrom(printed[k], sent[k])

\* The bytes of a data frame: behind the header, and the credits if it has them, stands
\* the payload.
LEMMA DataFrameBytes ==
  ASSUME NEW payload \in Payloads, NEW f \in DataFrames(payload)
  PROVE  /\ f \in Frames /\ FrameKind(f) = "data" /\ f[1] = Dlc /\ f[2] \in {UIHCredits, UIH}
         /\ f[3] = 2 * Len(payload) + 1 /\ payload \in Seq(Bytes) /\ Len(payload) <= 127
         /\ LET first == IF f[2] = UIHCredits THEN 5 ELSE 4
            IN Len(f) = first + Len(payload)
               /\ \A k \in 1..Len(payload) : f[first - 1 + k] = payload[k]
<1>1. payload \in Seq(Bytes) /\ Len(payload) <= 127
  BY RfcommAssumption
<1>2. << >> \in Seq(Bytes) /\ <<3>> \in Seq(Bytes) /\ Len(<< >>) = 0 /\ Len(<<3>>) = 1
  BY EmptySeq DEF Bytes
<1>3. Dlc \in Bytes /\ UIH \in Bytes /\ UIHCredits \in Bytes /\ UIH # UIHCredits
  BY DEF Bytes, Dlc, UIH, UIHCredits
<1>4. Len(payload) \in Nat
  BY <1>1, LenProperties
<1>5. f \in Frames /\ FrameKind(f) = "data"
  BY DataKinds DEF DataFrames
<1>6. CASE f = FrameOf(Dlc, UIHCredits, <<3>>, payload)
  <2> DEFINE c == <<3>>
  <2>1. c \in Seq(Bytes) /\ Len(c) = 1
    BY <1>2
  <2> HIDE DEF c
  <2>2. /\ Len(f) = 4 + Len(c) + Len(payload)
        /\ f[1] = Dlc /\ f[2] = UIHCredits /\ f[3] = 2 * Len(payload) + 1
        /\ \A k \in 1..Len(payload) : f[3 + Len(c) + k] = payload[k]
    <3> DEFINE g == FrameOf(Dlc, UIHCredits, c, payload)
    <3>1. /\ Len(g) = 4 + Len(c) + Len(payload)
          /\ g[1] = Dlc /\ g[2] = UIHCredits /\ g[3] = 2 * Len(payload) + 1
          /\ \A k \in 1..Len(payload) : g[3 + Len(c) + k] = payload[k]
      <4>1. c \in Seq(Bytes)
        BY <2>1
      <4> QED
        BY <1>1, <1>3, <4>1, FrameIs
    <3>2. f = g
      BY <1>6 DEF c
    <3> HIDE DEF g
    <3> QED
      BY <3>1, <3>2
  <2>3. Len(f) = 5 + Len(payload) /\ \A k \in 1..Len(payload) : f[4 + k] = payload[k]
    BY <1>4, <2>1, <2>2
  <2> QED
    BY <1>1, <1>5, <2>2, <2>3
<1>7. CASE f = FrameOf(Dlc, UIH, << >>, payload)
  <2> DEFINE c == << >>
  <2>1. c \in Seq(Bytes) /\ Len(c) = 0
    BY <1>2
  <2> HIDE DEF c
  <2>2. /\ Len(f) = 4 + Len(c) + Len(payload)
        /\ f[1] = Dlc /\ f[2] = UIH /\ f[3] = 2 * Len(payload) + 1
        /\ \A k \in 1..Len(payload) : f[3 + Len(c) + k] = payload[k]
    <3> DEFINE g == FrameOf(Dlc, UIH, c, payload)
    <3>1. /\ Len(g) = 4 + Len(c) + Len(payload)
          /\ g[1] = Dlc /\ g[2] = UIH /\ g[3] = 2 * Len(payload) + 1
          /\ \A k \in 1..Len(payload) : g[3 + Len(c) + k] = payload[k]
      <4>1. c \in Seq(Bytes)
        BY <2>1
      <4> QED
        BY <1>1, <1>3, <4>1, FrameIs
    <3>2. f = g
      BY <1>7 DEF c
    <3> HIDE DEF g
    <3> QED
      BY <3>1, <3>2
  <2>3. Len(f) = 4 + Len(payload) /\ \A k \in 1..Len(payload) : f[3 + k] = payload[k]
    BY <1>4, <2>1, <2>2
  <2> QED
    BY <1>1, <1>3, <1>5, <2>2, <2>3
<1> QED
  BY <1>6, <1>7 DEF DataFrames

\* What PrintPayload prints.
LEMMA LineOf ==
  ASSUME NEW f \in Seq(Bytes), NEW first \in {4, 5}, f[3] \in Int
  PROVE  LET line == [k \in 1..(f[3] - 6) |->
                        IF first + k - 1 <= Len(f) THEN f[first + k - 1] ELSE 0]
         IN /\ line \in Seq(Bytes) /\ Len(line) = IF f[3] >= 6 THEN f[3] - 6 ELSE 0
            /\ \A k \in 1..Len(line) :
                 line[k] = IF first + k - 1 <= Len(f) THEN f[first + k - 1] ELSE 0
<1> DEFINE line == [k \in 1..(f[3] - 6) |->
                      IF first + k - 1 <= Len(f) THEN f[first + k - 1] ELSE 0]
           n == IF f[3] >= 6 THEN f[3] - 6 ELSE 0
           e(k) == IF first + k - 1 <= Len(f) THEN f[first + k - 1] ELSE 0
<1>1. n \in Nat /\ 1..(f[3] - 6) = 1..n /\ 0 \in Bytes
  BY DEF Bytes
<1>2. ASSUME NEW k \in 1..n PROVE e(k) \in Bytes
  <2>1. CASE first + k - 1 <= Len(f)
    <3>1. first + k - 1 \in 1..Len(f)
      BY <1>1, <2>1
    <3>2. f[first + k - 1] \in Bytes
      BY <3>1, ElementOfSeq
    <3> QED
      BY <2>1, <3>2
  <2>2. CASE ~(first + k - 1 <= Len(f))
    BY <1>1, <2>2
  <2> QED
    BY <2>1, <2>2
<1>3. line = [k \in 1..n |-> e(k)]
  BY <1>1
<1> HIDE DEF n, e, line
<1>4. DOMAIN line = 1..n /\ \A k \in 1..n : line[k] = e(k)
  BY <1>3
<1>5. \A k \in 1..n : line[k] \in Bytes
  BY <1>2, <1>4
<1>6. line = [k \in 1..n |-> line[k]]
  BY <1>3, <1>4
<1>7. line \in Seq(Bytes) /\ Len(line) = n
  BY <1>1, <1>5, <1>6, AsSequence
<1> QED
  BY <1>4, <1>7 DEF n, e, line

\* The line of a data frame.
LEMMA DataLine ==
  ASSUME NEW payload \in Payloads, NEW f \in DataFrames(payload), process_rfcomm(f)
  PROVE  \E line \in Seq(Bytes) :
           printed' = Append(printed, line) /\ PrintedFrom(line, payload)
<1> DEFINE first == IF f[2] = UIHCredits THEN 5 ELSE 4
           l == Len(payload)
           line == [k \in 1..(f[3] - 6) |-> IF first + k - 1 <= Len(f) THEN f[first + k - 1] ELSE 0]
<1>1. /\ f \in Frames /\ f[1] = Dlc /\ f[2] \in {UIHCredits, UIH}
      /\ f[3] = 2 * l + 1 /\ payload \in Seq(Bytes)
      /\ Len(f) = first + l
      /\ \A k \in 1..l : f[first - 1 + k] = payload[k]
  BY DataFrameBytes
<1>2. l \in Nat /\ first \in {4, 5}
  BY <1>1, LenProperties
<1>3. printed' = Append(printed, line)
  <2>1. /\ SABM # UIH /\ SABM # UIHCredits /\ DISC # UIH /\ DISC # UIHCredits
        /\ UIH # UIHCredits /\ Dlc # Mux
    BY DEF SABM, DISC, UIH, UIHCredits, Mux, Dlc
  <2>2. CASE f[2] = UIHCredits
    <3>1. CreditedData(f)
      BY <2>1, <2>2 DEF process_rfcomm
    <3> QED
      BY <2>2, <3>1 DEF CreditedData, PrintPayload
  <2>3. CASE f[2] = UIH
    <3>1. PrintPayload(f, 4)
      BY <1>1, <2>1, <2>3 DEF process_rfcomm
    <3> QED
      BY <2>1, <2>3, <3>1 DEF PrintPayload
  <2> QED
    BY <1>1, <2>2, <2>3
<1>4. f \in Seq(Bytes) /\ f[3] \in Int
  BY <1>1, <1>2 DEF Frames
<1> HIDE DEF first, l
<1>5. /\ line \in Seq(Bytes) /\ Len(line) = IF f[3] >= 6 THEN f[3] - 6 ELSE 0
      /\ \A k \in 1..Len(line) :
           line[k] = IF first + k - 1 <= Len(f) THEN f[first + k - 1] ELSE 0
  BY <1>2, <1>4, LineOf
<1> HIDE DEF line
<1>6. Len(line) = IF l >= 3 THEN 2 * l - 5 ELSE 0
  BY <1>1, <1>2, <1>5
<1>7. ASSUME NEW k \in 1..Len(line), k <= l PROVE line[k] = payload[k]
  <2>1. k \in 1..l /\ Len(f) \in Int /\ first + k - 1 <= Len(f) /\ first - 1 + k = first + k - 1
    BY <1>1, <1>2, <1>6, <1>7
  <2>2. line[k] = f[first + k - 1] /\ f[first - 1 + k] = payload[k]
    BY <1>1, <1>5, <2>1
  <2> QED
    BY <2>1, <2>2
<1> QED
  BY <1>3, <1>5, <1>6, <1>7 DEF PrintedFrom, l

\* A frame that joins the queue, with data and without.
LEMMA OtherJoins ==
  ASSUME NEW q \in Seq(Frames), NEW s \in Seq(Payloads), NEW m \in Nat, NEW place,
         NEW f \in Frames, FrameKind(f) # "data", InTransit(q, s, m, place)
  PROVE  InTransit(Append(q, f), s, m, place)
<1> DEFINE o == Append(q, f)
           n == Len(s) - m
<1>1. /\ DOMAIN o = 1..(Len(q) + 1) /\ DOMAIN q = 1..Len(q) /\ Len(q) \in Nat
      /\ \A i \in DOMAIN q : o[i] = q[i]
  BY QueueAppend
<1>2. Asking(o, "data") = Asking(q, "data")
  <2>1. Asking(o, "data")
          = Asking(q, "data") \cup (IF FrameKind(f) = "data" THEN {Len(q) + 1} ELSE {})
    BY AskingAppend
  <2> QED
    BY <2>1
<1> HIDE DEF o
<1>3. /\ m <= Len(s) /\ place \in [1..n -> DOMAIN q]
      /\ \A i, j \in 1..n : i < j => place[i] < place[j]
      /\ \A k \in Asking(q, "data") : \E i \in 1..n : place[i] = k
      /\ \A i \in 1..n : q[place[i]] \in DataFrames(s[m + i])
  BY DEF InTransit
<1> HIDE DEF n
<1>4. DOMAIN q \subseteq DOMAIN o
  BY <1>1
<1>5. place \in [1..n -> DOMAIN o]
  BY <1>3, <1>4
<1>6. \A i \in 1..n : o[place[i]] \in DataFrames(s[m + i])
  BY <1>1, <1>3
<1> QED
  BY <1>2, <1>3, <1>5, <1>6 DEF InTransit, o, n

LEMMA DataJoins ==
  ASSUME NEW q \in Seq(Frames), NEW s \in Seq(Payloads), NEW m \in Nat, NEW place,
         NEW payload \in Payloads, NEW f \in DataFrames(payload), InTransit(q, s, m, place)
  PROVE  \E other : InTransit(Append(q, f), Append(s, payload), m, other)
<1> DEFINE o == Append(q, f)
           t == Append(s, payload)
           n == Len(s) - m
           new == Len(q) + 1
           other == [i \in 1..(n + 1) |-> IF i <= n THEN place[i] ELSE new]
<1>1. f \in Frames /\ FrameKind(f) = "data"
  BY DataFrameBytes
<1>2. /\ DOMAIN o = 1..new /\ DOMAIN q = 1..Len(q) /\ Len(q) \in Nat
      /\ \A i \in DOMAIN q : o[i] = q[i]
      /\ o[new] = f
  BY <1>1, QueueAppend
<1>3. /\ Len(t) = Len(s) + 1 /\ Len(s) \in Nat /\ t[Len(s) + 1] = payload
      /\ \A i \in 1..Len(s) : t[i] = s[i]
  BY QueueAppend
<1>4. Asking(o, "data") = Asking(q, "data") \cup {new}
  BY <1>1, AskingAppend
<1> HIDE DEF o, t
<1>5. /\ m <= Len(s) /\ place \in [1..n -> DOMAIN q]
      /\ \A i, j \in 1..n : i < j => place[i] < place[j]
      /\ \A k \in Asking(q, "data") : \E i \in 1..n : place[i] = k
      /\ \A i \in 1..n : q[place[i]] \in DataFrames(s[m + i])
  BY DEF InTransit
<1>6. n \in Nat /\ Len(t) - m = n + 1 /\ m <= Len(t)
  BY <1>3, <1>5
<1>7. \A i \in 1..n : m + i \in 1..Len(s) /\ t[m + i] = s[m + i]
  BY <1>3, <1>5
<1>8. t[m + (n + 1)] = payload
  BY <1>3, <1>5
<1> HIDE DEF n
<1>9. /\ \A i \in 1..n : i \in 1..(n + 1) /\ other[i] = place[i] /\ place[i] \in 1..Len(q)
      /\ n + 1 \in 1..(n + 1) /\ other[n + 1] = new
      /\ \A i \in 1..(n + 1) : i \in 1..n \/ i = n + 1
  <2>1. /\ n + 1 \in 1..(n + 1)
        /\ \A i \in 1..(n + 1) : i \in 1..n \/ i = n + 1
        /\ \A i \in 1..n : i \in 1..(n + 1) /\ i <= n
    BY <1>6
  <2>2. ~(n + 1 <= n)
    BY <1>6
  <2>3. other[n + 1] = new
    BY <2>1, <2>2
  <2>4. ASSUME NEW i \in 1..n PROVE other[i] = place[i] /\ place[i] \in 1..Len(q)
    <3>1. other[i] = place[i]
      BY <2>1
    <3>2. place[i] \in 1..Len(q)
      BY <1>2, <1>5
    <3> QED
      BY <3>1, <3>2
  <2> QED
    BY <2>1, <2>3, <2>4
<1>10. new \in Nat /\ \A i \in 1..n : place[i] < new /\ place[i] \in DOMAIN o
  <2>1. new \in Nat /\ \A k \in 1..Len(q) : k < new /\ k \in DOMAIN o
    BY <1>2
  <2>2. \A i \in 1..n : place[i] \in 1..Len(q)
    BY <1>9
  <2> HIDE DEF new
  <2> QED
    BY <2>1, <2>2
<1>11. other \in [1..(n + 1) -> DOMAIN o]
  <2>1. \A i \in 1..(n + 1) : other[i] \in DOMAIN o
    BY <1>2, <1>9, <1>10
  <2> QED
    BY <2>1
<1> HIDE DEF other, new
<1>12. ASSUME NEW i \in 1..(n + 1), NEW j \in 1..(n + 1), i < j PROVE other[i] < other[j]
  <2>1. i \in 1..n
    BY <1>6, <1>12
  <2>2. CASE j \in 1..n
    BY <1>5, <1>9, <1>12, <2>1, <2>2
  <2>3. CASE j = n + 1
    BY <1>9, <1>10, <2>1, <2>3
  <2> QED
    BY <1>9, <2>2, <2>3
<1>13. ASSUME NEW k \in Asking(o, "data") PROVE \E i \in 1..(n + 1) : other[i] = k
  BY <1>4, <1>5, <1>9
<1>14. ASSUME NEW i \in 1..(n + 1) PROVE o[other[i]] \in DataFrames(t[m + i])
  <2>1. CASE i \in 1..n
    BY <1>2, <1>5, <1>7, <1>9, <2>1
  <2>2. CASE i = n + 1
    BY <1>2, <1>8, <1>9, <2>2
  <2> QED
    BY <1>9, <2>1, <2>2
<1>15. InTransit(o, t, m, other)
  BY <1>6, <1>11, <1>12, <1>13, <1>14 DEF InTransit
<1> QED
  BY <1>15 DEF o, t

\* The frame at the head leaves the queue, with data and without.
LEMMA OtherLeaves ==
  ASSUME NEW q \in Seq(Frames), q # << >>, NEW s \in Seq(Payloads), NEW m \in Nat, NEW place,
         FrameKind(Head(q)) # "data", InTransit(q, s, m, place)
  PROVE  \E other : InTransit(Tail(q), s, m, other)
<1> DEFINE o == Tail(q)
           n == Len(s) - m
           other == [i \in 1..n |-> place[i] - 1]
<1>1. /\ DOMAIN q = 1..Len(q) /\ DOMAIN o = 1..(Len(q) - 1) /\ Len(q) \in Nat
      /\ \A i \in DOMAIN o : o[i] = q[i + 1]
  BY QueueTail, LenProperties
<1>2. /\ ~(1 \in Asking(q, "data"))
      /\ \A k \in Asking(o, "data") : k \in Nat \ {0} /\ k + 1 \in Asking(q, "data")
  BY AskingTail
<1>3. Head(q) = q[1]
  BY QueueTail
<1> HIDE DEF o
<1>4. /\ m <= Len(s) /\ place \in [1..n -> DOMAIN q]
      /\ \A i, j \in 1..n : i < j => place[i] < place[j]
      /\ \A k \in Asking(q, "data") : \E i \in 1..n : place[i] = k
      /\ \A i \in 1..n : q[place[i]] \in DataFrames(s[m + i])
  BY DEF InTransit
<1>5. \A i \in 1..n : m + i \in 1..Len(s) /\ s[m + i] \in Payloads
  <2>1. Len(s) \in Nat
    OBVIOUS
  <2>2. ASSUME NEW i \in 1..n PROVE m + i \in 1..Len(s)
    BY <1>4, <2>1
  <2> QED
    BY <2>2, ElementOfSeq
<1> HIDE DEF n
<1>6. ASSUME NEW i \in 1..n PROVE place[i] \in 2..Len(q)
  <2>1. place[i] \in 1..Len(q) /\ q[place[i]] \in DataFrames(s[m + i])
    BY <1>1, <1>4
  <2>2. FrameKind(q[place[i]]) = "data"
    BY <1>5, <2>1, DataFrameBytes
  <2>3. place[i] # 1
    BY <1>3, <2>2
  <2> QED
    BY <1>1, <2>1, <2>3
<1>7. \A i \in 1..n : other[i] = place[i] - 1 /\ other[i] \in DOMAIN o
  BY <1>1, <1>6
<1>8. other \in [1..n -> DOMAIN o]
  BY <1>7
<1> HIDE DEF other
<1>9. ASSUME NEW i \in 1..n, NEW j \in 1..n, i < j PROVE other[i] < other[j]
  <2>1. place[i] < place[j] /\ place[i] \in Int /\ place[j] \in Int
    BY <1>4, <1>6, <1>9
  <2> QED
    BY <1>7, <2>1
<1>10. ASSUME NEW k \in Asking(o, "data") PROVE \E i \in 1..n : other[i] = k
  <2>1. k \in Nat /\ k + 1 \in Asking(q, "data")
    BY <1>2
  <2>2. PICK i \in 1..n : place[i] = k + 1
    BY <1>4, <2>1
  <2>3. other[i] = k
    BY <1>7, <2>1, <2>2
  <2> QED
    BY <2>3
<1>11. ASSUME NEW i \in 1..n PROVE o[other[i]] \in DataFrames(s[m + i])
  <2>1. other[i] \in DOMAIN o /\ other[i] + 1 = place[i]
    BY <1>6, <1>7
  <2>2. o[other[i]] = q[place[i]]
    BY <1>1, <2>1
  <2> QED
    BY <1>4, <2>2
<1>12. InTransit(o, s, m, other)
  BY <1>4, <1>8, <1>9, <1>10, <1>11 DEF InTransit, n
<1> QED
  BY <1>12 DEF o

LEMMA DataLeaves ==
  ASSUME NEW q \in Seq(Frames), q # << >>, NEW s \in Seq(Payloads), NEW m \in Nat, NEW place,
         FrameKind(Head(q)) = "data", InTransit(q, s, m, place)
  PROVE  /\ m + 1 \in 1..Len(s) /\ Head(q) \in DataFrames(s[m + 1])
         /\ \E other : InTransit(Tail(q), s, m + 1, other)
<1> DEFINE o == Tail(q)
           n == Len(s) - m
           other == [i \in 1..(n - 1) |-> place[i + 1] - 1]
<1>1. /\ DOMAIN q = 1..Len(q) /\ DOMAIN o = 1..(Len(q) - 1) /\ Len(q) \in Nat
      /\ \A i \in DOMAIN o : o[i] = q[i + 1]
  BY QueueTail, LenProperties
<1>2. /\ 1 \in Asking(q, "data")
      /\ \A k \in Asking(o, "data") : k \in Nat \ {0} /\ k + 1 \in Asking(q, "data")
  BY AskingTail
<1>3. Head(q) = q[1]
  BY QueueTail
<1> HIDE DEF o
<1>4. /\ m <= Len(s) /\ place \in [1..n -> DOMAIN q]
      /\ \A i, j \in 1..n : i < j => place[i] < place[j]
      /\ \A k \in Asking(q, "data") : \E i \in 1..n : place[i] = k
      /\ \A i \in 1..n : q[place[i]] \in DataFrames(s[m + i])
  BY DEF InTransit
<1>5. Len(s) \in Nat /\ n \in Nat
  <2>1. Len(s) \in Nat
    OBVIOUS
  <2> QED
    BY <1>4, <2>1
<1>6. \A i \in 1..n : place[i] \in 1..Len(q)
  BY <1>1, <1>4
\* The head of the queue is the first of the data frames.
<1>7. 1 \in 1..n /\ place[1] = 1
  <2>1. PICK i \in 1..n : place[i] = 1
    BY <1>2, <1>4
  <2>2. 1 \in 1..n
    BY <1>5, <2>1
  <2>3. ~(1 < i)
    <3>1. 1 < i => place[1] < place[i]
      BY <1>4, <2>1, <2>2
    <3>2. place[1] \in 1..Len(q)
      BY <1>6, <2>2
    <3> QED
      BY <2>1, <3>1, <3>2
  <2> QED
    BY <2>1, <2>2, <2>3
<1>8. m + 1 \in 1..Len(s) /\ m + 1 <= Len(s) /\ Len(s) - (m + 1) = n - 1
  BY <1>5, <1>7
<1>9. Head(q) \in DataFrames(s[m + 1])
  BY <1>3, <1>4, <1>7
<1> HIDE DEF n
<1>10. ASSUME NEW i \in 1..(n - 1)
       PROVE  i + 1 \in 1..n /\ 1 < i + 1 /\ place[i + 1] \in 2..Len(q)
  <2>1. i + 1 \in 1..n /\ 1 < i + 1
    BY <1>5
  <2>2. place[1] < place[i + 1]
    BY <1>4, <1>7, <2>1
  <2>3. place[i + 1] \in 1..Len(q)
    BY <1>6, <2>1
  <2> QED
    BY <1>1, <1>7, <2>1, <2>2, <2>3
<1>11. \A i \in 1..(n - 1) : other[i] = place[i + 1] - 1 /\ other[i] \in DOMAIN o
  BY <1>1, <1>10
<1>12. other \in [1..(n - 1) -> DOMAIN o]
  BY <1>11
<1> HIDE DEF other
<1>13. ASSUME NEW i \in 1..(n - 1), NEW j \in 1..(n - 1), i < j PROVE other[i] < other[j]
  <2>1. /\ i + 1 \in 1..n /\ j + 1 \in 1..n /\ i + 1 < j + 1
        /\ place[i + 1] \in Int /\ place[j + 1] \in Int
    BY <1>10, <1>13
  <2>2. place[i + 1] < place[j + 1]
    BY <1>4, <2>1
  <2> QED
    BY <1>11, <2>1, <2>2
<1>14. ASSUME NEW k \in Asking(o, "data") PROVE \E i \in 1..(n - 1) : other[i] = k
  <2>1. k \in Nat \ {0} /\ k + 1 \in Asking(q, "data")
    BY <1>2
  <2>2. PICK i \in 1..n : place[i] = k + 1
    BY <1>4, <2>1
  <2>3. i # 1
    BY <1>7, <2>1, <2>2
  <2>4. i - 1 \in 1..(n - 1) /\ (i - 1) + 1 = i
    BY <1>5, <2>3
  <2>5. other[i - 1] = place[(i - 1) + 1] - 1
    BY <1>11, <2>4
  <2>6. other[i - 1] = k
    BY <2>1, <2>2, <2>4, <2>5
  <2> QED
    BY <2>4, <2>6
<1>15. ASSUME NEW i \in 1..(n - 1) PROVE o[other[i]] \in DataFrames(s[(m + 1) + i])
  <2>1. other[i] \in DOMAIN o /\ other[i] + 1 = place[i + 1] /\ i + 1 \in 1..n
    <3>1. i + 1 \in 1..n /\ place[i + 1] \in 2..Len(q)
      BY <1>10
    <3>2. other[i] \in DOMAIN o /\ other[i] = place[i + 1] - 1
      BY <1>11
    <3> QED
      BY <3>1, <3>2
  <2>2. o[other[i]] = q[place[i + 1]]
    BY <1>1, <2>1
  <2>3. q[place[i + 1]] \in DataFrames(s[m + (i + 1)]) /\ m + (i + 1) = (m + 1) + i
    BY <1>4, <2>1
  <2> QED
    BY <2>2, <2>3
<1>16. InTransit(o, s, m + 1, other)
  BY <1>8, <1>12, <1>13, <1>14, <1>15 DEF InTransit
<1> QED
  BY <1>8, <1>9, <1>16 DEF o

\* What the steps do to the data on its way: a request without data,
LEMMA RequestKeepsData ==
  ASSUME SessionInv, DataInv, NEW kind, kind # "data", Requests(kind), sent' = sent
  PROVE  DataInv'
<1>1. PICK f \in Frames : FrameKind(f) = kind /\ Sends(f)
  BY DEF Requests
<1>2. aclIn' = Append(aclIn, f) /\ printed' = printed
  BY <1>1 DEF Sends, server
<1>3. /\ aclIn \in Seq(Frames) /\ sent \in Seq(Payloads) /\ printed \in Seq(Seq(Bytes))
  BY DEF SessionInv, DataInv
<1>4. PICK place : InTransit(aclIn, sent, Len(printed), place)
  BY DEF DataInv
<1>5. Len(printed) \in Nat
  BY <1>3, LenProperties
<1>6. InTransit(Append(aclIn, f), sent, Len(printed), place)
  BY <1>1, <1>3, <1>4, <1>5, OtherJoins
<1> QED
  BY <1>2, <1>6 DEF DataInv

\* a data frame of the client,
LEMMA SendDataKeepsData ==
  ASSUME SessionInv, DataInv, SendData
  PROVE  DataInv'
<1>1. PICK payload \in Payloads :
        /\ \/ Sends(FrameOf(Dlc, UIHCredits, <<3>>, payload))
           \/ Sends(FrameOf(Dlc, UIH, << >>, payload))
        /\ sent' = Append(sent, payload)
  BY DEF SendData
<1>2. PICK f \in DataFrames(payload) : Sends(f)
  BY <1>1 DEF DataFrames
<1>3. aclIn' = Append(aclIn, f) /\ printed' = printed
  BY <1>2 DEF Sends, server
<1>4. /\ aclIn \in Seq(Frames) /\ sent \in Seq(Payloads) /\ printed \in Seq(Seq(Bytes))
  BY DEF SessionInv, DataInv
<1>5. PICK place : InTransit(aclIn, sent, Len(printed), place)
  BY DEF DataInv
<1>6. Len(printed) \in Nat /\ DOMAIN printed = 1..Len(printed)
  BY <1>4, LenProperties
<1>7. \E other : InTransit(Append(aclIn, f), Append(sent, payload), Len(printed), other)
  BY <1>4, <1>5, <1>6, DataJoins
<1>8. /\ Append(sent, payload) \in Seq(Payloads) /\ DOMAIN sent = 1..Len(sent)
      /\ \A k \in DOMAIN sent : Append(sent, payload)[k] = sent[k]
  BY <1>4, QueueAppend
<1>9. \A k \in DOMAIN printed : PrintedFrom(printed[k], Append(sent, payload)[k])
  <2>1. Len(printed) <= Len(sent) /\ Len(sent) \in Nat
    BY <1>4, <1>5, LenProperties DEF InTransit
  <2>2. DOMAIN printed \subseteq DOMAIN sent
    BY <1>6, <1>8, <2>1
  <2> QED
    BY <1>8, <2>2 DEF DataInv
<1> QED
  BY <1>1, <1>3, <1>4, <1>7, <1>8, <1>9 DEF DataInv

\* and the transfer that the server reads.
LEMMA AclInCompletedKeepsData ==
  ASSUME SessionInv, DataInv, AclInCompleted
  PROVE  DataInv'
<1> DEFINE f == Head(aclIn)
<1>1. /\ aclIn \in Seq(Frames) /\ sent \in Seq(Payloads) /\ printed \in Seq(Seq(Bytes))
      /\ aclIn # << >>
  BY DEF SessionInv, DataInv, AclInCompleted
<1>2. f \in Frames
  BY <1>1, QueueTail
<1>3. PICK place : InTransit(aclIn, sent, Len(printed), place)
  BY DEF DataInv
<1>4. Len(printed) \in Nat /\ DOMAIN printed = 1..Len(printed)
  BY <1>1, LenProperties
<1>5. process_rfcomm(f) /\ aclIn' = Tail(aclIn) /\ sent' = sent
  BY DEF AclInCompleted
<1>6. CASE FrameKind(f) = "data"
  <2>1. /\ Len(printed) + 1 \in 1..Len(sent) /\ f \in DataFrames(sent[Len(printed) + 1])
        /\ \E other : InTransit(Tail(aclIn), sent, Len(printed) + 1, other)
    BY <1>1, <1>3, <1>4, <1>6, DataLeaves
  <2>2. sent[Len(printed) + 1] \in Payloads
    BY <1>1, <2>1, ElementOfSeq
  <2>3. PICK line \in Seq(Bytes) :
          /\ printed' = Append(printed, line)
          /\ PrintedFrom(line, sent[Len(printed) + 1])
    BY <1>5, <2>1, <2>2, DataLine
  <2> HIDE DEF f
  <2>4. /\ Append(printed, line) \in Seq(Seq(Bytes))
        /\ DOMAIN Append(printed, line) = 1..(Len(printed) + 1)
        /\ Len(Append(printed, line)) = Len(printed) + 1
        /\ \A k \in DOMAIN printed : Append(printed, line)[k] = printed[k]
        /\ Append(printed, line)[Len(printed) + 1] = line
    BY <1>1, QueueAppend
  <2>5. ASSUME NEW k \in DOMAIN Append(printed, line)
        PROVE  PrintedFrom(Append(printed, line)[k], sent[k])
    <3>1. CASE k = Len(printed) + 1
      BY <2>3, <2>4, <3>1
    <3>2. CASE k # Len(printed) + 1
      <4>1. k \in DOMAIN printed
        BY <1>4, <2>4, <3>2
      <4> QED
        BY <2>4, <4>1 DEF DataInv
    <3> QED
      BY <3>1, <3>2
  <2>6. \E other : InTransit(Tail(aclIn), sent, Len(Append(printed, line)), other)
    BY <2>1, <2>4
  <2> QED
    BY <1>1, <1>5, <2>3, <2>4, <2>5, <2>6 DEF DataInv
<1>7. CASE FrameKind(f) # "data"
  <2>1. printed' = printed
    <3>1. /\ SABM # DISC /\ SABM # UIH /\ SABM # UIHCredits /\ DISC # UIH
          /\ DISC # UIHCredits /\ UIH # UIHCredits
      BY DEF SABM, DISC, UIH, UIHCredits
    <3>2. ~(f[2] = UIHCredits \/ (f[2] = UIH /\ f[1] # Mux))
      BY <1>7, <3>1 DEF FrameKind, IsData
    <3> HIDE DEF f
    <3> QED
      BY <1>5, <3>2
      DEF process_rfcomm, Disconnect, Answer, SetMode, MultiplexerCommand, Throw
  <2>2. \E other : InTransit(Tail(aclIn), sent, Len(printed), other)
    BY <1>1, <1>3, <1>4, <1>7, OtherLeaves
  <2> QED
    BY <1>5, <2>1, <2>2 DEF DataInv
<1> QED
  BY <1>6, <1>7

LEMMA DataInit == Init => DataInv
<1> SUFFICES ASSUME Init PROVE DataInv
  OBVIOUS
<1>1. aclIn = << >> /\ sent = << >> /\ printed = << >>
  BY DEF Init
<1>2. /\ << >> \in Seq(Payloads) /\ << >> \in Seq(Seq(Bytes)) /\ Len(<< >>) = 0
      /\ DOMAIN << >> = {}
  BY EmptySeq
<1>3. Asking(<< >>, "data") = {}
  BY DEF Asking
<1>4. \E place : InTransit(<< >>, << >>, 0, place)
  <2> DEFINE place == [i \in 1..0 |-> 0]
  <2>1. place \in [1..0 -> {}]
    OBVIOUS
  <2>2. 1..(Len(<< >>) - 0) = 1..0 /\ \A i \in 1..0 : FALSE
    BY <1>2
  <2> HIDE DEF place
  <2>3. InTransit(<< >>, << >>, 0, place)
    BY <1>2, <1>3, <2>1, <2>2 DEF InTransit
  <2> QED
    BY <2>3
<1> QED
  BY <1>1, <1>2, <1>4 DEF DataInv

\* The process and the transfers that are left.
Left == up \in BOOLEAN /\ aclInLeft \in 0..ACL_IN_BUFFER_COUNT

LEMMA LeftStep == Left /\ [Next]_vars => Left'
<1> SUFFICES ASSUME Left, [Next]_vars PROVE Left'
  OBVIOUS
<1>1. CASE AclInCompleted
  <2>1. aclInLeft' \in 0..ACL_IN_BUFFER_COUNT
    BY <1>1, RfcommAssumption DEF AclInCompleted, Left
  <2>2. up' = up \/ up' = FALSE
    BY <1>1
    DEF AclInCompleted, process_rfcomm, CreditedData, PrintPayload, Disconnect, Answer,
        SetMode, MultiplexerCommand, Throw
  <2> QED
    BY <2>1, <2>2 DEF Left
<1>2. CASE Client
  <2>1. up' = up /\ aclInLeft' = aclInLeft
    BY <1>2
    DEF Client, Opening, OpenMultiplexer, Negotiate, OpenChannel, SendModemStatus,
        AnswerModemStatus, SendData, CloseChannel, SendOther, ClientReceives, Sends, server
  <2> QED
    BY <2>1 DEF Left
<1>3. CASE UNCHANGED vars
  BY <1>3 DEF vars, Left
<1> QED
  BY <1>1, <1>2, <1>3 DEF Next

RfcommInv == SessionInv /\ DataInv /\ Left

LEMMA RfcommStep == RfcommInv /\ [Next]_vars => RfcommInv'
<1> SUFFICES ASSUME RfcommInv, [Next]_vars PROVE RfcommInv'
  OBVIOUS
<1>1. SessionInv /\ DataInv /\ Left
  BY DEF RfcommInv
<1>2. SessionInv' /\ Left'
  BY <1>1, SessionStep, LeftStep
<1> SUFFICES DataInv'
  BY <1>2 DEF RfcommInv
<1>3. CASE AclInCompleted
  BY <1>1, <1>3, AclInCompletedKeepsData
<1>4. CASE SendData
  BY <1>1, <1>4, SendDataKeepsData
<1>5. CASE OpenMultiplexer \/ Opening \/ CloseChannel \/ SendOther
  <2>1. PICK kind : kind # "data" /\ Requests(kind)
    BY <1>5, OpenMultiplexerAsks, NegotiateAsks, OpenChannelAsks, SendModemStatusAsks,
       AnswerModemStatusAsks, CloseChannelAsks, SendOtherAsks DEF Opening
  <2>2. sent' = sent
    BY <1>5
    DEF OpenMultiplexer, Opening, Negotiate, OpenChannel, SendModemStatus,
        AnswerModemStatus, CloseChannel, SendOther
  <2> QED
    BY <1>1, <2>1, <2>2, RequestKeepsData
<1>6. CASE ClientReceives \/ UNCHANGED vars
  <2>1. aclIn' = aclIn /\ sent' = sent /\ printed' = printed
    BY <1>6 DEF ClientReceives, vars, server
  <2> QED
    BY <1>1, <2>1 DEF DataInv
<1> QED
  BY <1>3, <1>4, <1>5, <1>6 DEF Next, Client

LEMMA RfcommKept == Spec => []RfcommInv
<1>1. Init => RfcommInv
  <2>1. Init => Left
    BY RfcommAssumption DEF Init, Left
  <2> QED
    BY <2>1, SessionInit, DataInit DEF RfcommInv
<1>2. RfcommInv /\ [Next]_vars => RfcommInv'
  BY RfcommStep
<1> QED
  BY <1>1, <1>2, PTL DEF Spec

-----------------------------------------------------------------------------
(* The theorems.                                                           *)

\* Types: what the client counts never exceeds the ten credits of one session, because
\* SetMode grants them once in the life of a data channel.
THEOREM RfcommTyped == Spec => []TypeOK
<1>1. RfcommInv => TypeOK
  BY DEF RfcommInv, SessionInv, InSession, DataInv, Left, ClientType, PacketType, TypeOK
<1> QED
  BY <1>1, RfcommKept, PTL

\* Every packet process_rfcomm sends can be read: the lengths and check sequences, most
\* of them written by hand into the code, are right for the bytes they go with.
THEOREM AnswersCanBeRead == Spec => []EveryFrameReadable
<1>1. RfcommInv => EveryFrameReadable
  <2> SUFFICES ASSUME RfcommInv, NEW k \in DOMAIN toClient PROVE Readable(toClient[k])
    BY DEF EveryFrameReadable
  <2>1. toClient[k] \in AnswerPackets
    BY ElementOfSeq DEF RfcommInv, SessionInv
  <2> QED
    BY <2>1, AnswersReadable
<1> QED
  BY <1>1, RfcommKept, PTL

\* A set that one request explains has at most one member.
LEMMA AtMostOne ==
  ASSUME NEW S, NEW waiting, Single(S), ~waiting => S = {}
  PROVE  Cardinality(S) <= OneIf(waiting)
<1>1. CASE S = {}
  BY <1>1, FS_EmptySet DEF OneIf
<1>2. CASE S # {}
  <2>1. PICK x : S = {x}
    BY <1>2 DEF Single
  <2>2. Cardinality(S) = 1
    BY <2>1, FS_Singleton
  <2> QED
    BY <1>2, <2>2 DEF OneIf
<1> QED
  BY <1>1, <1>2

\* An answer on its way belongs to the one request of the client that waits for it,
\* although process_rfcomm keeps no session.
THEOREM AnswersBelongToRequests == Spec => []AnswersBelong
<1>1. RfcommInv => AnswersBelong
  <2> SUFFICES ASSUME RfcommInv PROVE AnswersBelong
    OBVIOUS
  <2>1. /\ toClient \in Seq(AnswerPackets) /\ Exchanges(aclIn, toClient, client)
    BY DEF RfcommInv, SessionInv, InSession
  <2>2. \A k \in DOMAIN toClient : toClient[k] \in AnswerPackets
    BY <2>1, ElementOfSeq
  <2>3. /\ Acknowledgements(Mux) = Saying(toClient, "mux")
        /\ Acknowledgements(Dlc) = Saying(toClient, "dlc")
        /\ MultiplexerFrames(PNResponse) = Saying(toClient, "pn")
        /\ MultiplexerFrames(MSCResponse) = Saying(toClient, "msc")
    BY <2>2, AnswerWords DEF Acknowledgements, MultiplexerFrames, Saying
  <2>4. Cardinality(Saying(toClient, "mux")) <= OneIf(client.mux = "opening")
    BY <2>1, AtMostOne DEF Exchanges, Exchange
  <2>5. Cardinality(Saying(toClient, "dlc")) <= OneIf(client.dlc \in {"opening", "closing"})
    BY <2>1, AtMostOne DEF Exchanges, Exchange
  <2>6. Cardinality(Saying(toClient, "pn")) <= OneIf(client.dlc = "negotiating")
    BY <2>1, AtMostOne DEF Exchanges, Exchange
  <2>7. Cardinality(Saying(toClient, "msc")) <= OneIf(client.msc = "sent")
    BY <2>1, AtMostOne DEF Exchanges, Exchange
  <2> QED
    BY <2>3, <2>4, <2>5, <2>6, <2>7 DEF AnswersBelong
<1> QED
  BY <1>1, RfcommKept, PTL

\* The modem status command and the credits that SetMode sends of its own accord meet a
\* client that has the channel open or an acknowledgement before them.
THEOREM ServerSpeaksOnOpenChannel == Spec => []SpeaksOnOpenChannel
<1>1. RfcommInv => SpeaksOnOpenChannel
  <2> SUFFICES ASSUME RfcommInv, failures = 0, NEW k \in DOMAIN toClient,
                      LET f == toClient[k].frame
                      IN f[2] = UIHCredits \/ (f[2] = UIH /\ f[4] = MSCCommand)
               PROVE  \/ client.dlc \in {"open", "closing"}
                      \/ /\ client.dlc = "opening"
                         /\ \E j \in 1..(k - 1) : toClient[j].frame[2] = UA
    BY DEF SpeaksOnOpenChannel
  <2>1. /\ toClient \in Seq(AnswerPackets) /\ client \in ClientType
        /\ Session(aclIn, toClient, client, failures)
    BY DEF RfcommInv, SessionInv, InSession
  <2>2. \A j \in DOMAIN toClient : toClient[j] \in AnswerPackets
    BY <2>1, ElementOfSeq
  <2>3. k \in Spoken(toClient)
    BY <2>2, AnswerWords DEF Spoken, Saying
  <2>4. CASE client.dlc = "opening"
    <3>1. PICK u \in Saying(toClient, "dlc") : u < k
      BY <2>1, <2>3, <2>4 DEF Session
    <3>2. DOMAIN toClient = 1..Len(toClient) /\ Len(toClient) \in Nat
      BY <2>1, LenProperties
    <3>3. u \in DOMAIN toClient /\ toClient[u].frame[2] = UA
      BY <2>2, <3>1, AnswerWords DEF Saying
    <3>4. u \in 1..(k - 1)
      BY <3>1, <3>2, <3>3
    <3> QED
      BY <2>4, <3>3, <3>4
  <2>5. CASE client.dlc # "opening"
    <3>1. ~Shut(client)
      BY <2>1, <2>3 DEF Session
    <3> QED
      BY <2>1, <2>5, <3>1 DEF Shut, ClientType
  <2> QED
    BY <2>4, <2>5
<1> QED
  BY <1>1, RfcommKept, PTL

\* A sequence of the first elements of another is its prefix.
LEMMA PrefixIf ==
  ASSUME NEW S, NEW s \in Seq(S), NEW t \in Seq(S), Len(s) <= Len(t),
         \A i \in 1..Len(s) : s[i] = t[i]
  PROVE  IsPrefix(s, t)
<1>1. Len(s) \in Nat /\ Len(t) \in Nat
  BY LenProperties
<1>2. \A i \in 1..Len(s) : s[i] \in S /\ t[i] \in S
  BY <1>1, ElementOfSeq
<1> DEFINE u == SubSeq(s, 1, Len(s))
           v == SubSeq(t, 1, Len(s))
<1>3. /\ u \in Seq(S) /\ Len(u) = Len(s) /\ \A i \in 1..Len(s) : u[i] = s[i]
      /\ v \in Seq(S) /\ Len(v) = Len(s) /\ \A i \in 1..Len(s) : v[i] = t[i]
  OBVIOUS
<1> HIDE DEF u, v
<1>4. u = v
  BY <1>3, SeqEqual
<1> QED
  BY <1>4 DEF IsPrefix, u, v

\* What CreditedData and PrintPayload print for a data frame is what the client sent in
\* it, in the order of sending: a part of it, all of it when it has five bytes, or all of
\* it and what stands behind it.
THEOREM DataIsPrinted == Spec => []DataPrinted
<1>1. RfcommInv => DataPrinted
  <2> SUFFICES ASSUME RfcommInv PROVE DataPrinted
    OBVIOUS
  <2>1. /\ sent \in Seq(Payloads) /\ printed \in Seq(Seq(Bytes))
        /\ Len(printed) <= Len(sent)
        /\ \A k \in DOMAIN printed : PrintedFrom(printed[k], sent[k])
    BY DEF RfcommInv, DataInv, InTransit
  <2>2. ASSUME NEW k \in DOMAIN printed
        PROVE  /\ IsPrefix(printed[k], sent[k]) \/ IsPrefix(sent[k], printed[k])
               /\ Len(sent[k]) = 5 => printed[k] = sent[k]
    <3> DEFINE line == printed[k]
               payload == sent[k]
    <3>1. k \in DOMAIN sent
      BY <2>1, LenProperties
    <3>2. payload \in Payloads /\ line \in Seq(Bytes)
      BY <2>1, <3>1, ElementOfSeq
    <3>3. payload \in Seq(Bytes)
      BY <3>2, RfcommAssumption
    <3>4. PrintedFrom(line, payload)
      BY <2>1
    <3> HIDE DEF line, payload
    <3>5. Len(payload) \in Nat /\ Len(line) \in Nat
      BY <3>2, <3>3, LenProperties
    <3>6. \A i \in 1..Len(line) : i <= Len(payload) => line[i] = payload[i]
      BY <3>4 DEF PrintedFrom
    <3>7. CASE Len(line) <= Len(payload)
      <4>1. \A i \in 1..Len(line) : line[i] = payload[i]
        BY <3>5, <3>6, <3>7
      <4>2. IsPrefix(line, payload)
        BY <3>2, <3>3, <3>7, <4>1, PrefixIf
      <4>3. Len(payload) = 5 => line = payload
        <5>1. SUFFICES ASSUME Len(payload) = 5 PROVE line = payload
          OBVIOUS
        <5>2. Len(line) = Len(payload)
          BY <3>4, <5>1 DEF PrintedFrom
        <5> QED
          BY <3>2, <3>3, <4>1, <5>2, SeqEqual
      <4> QED
        BY <4>2, <4>3 DEF line, payload
    <3>8. CASE ~(Len(line) <= Len(payload))
      <4>1. Len(payload) <= Len(line) /\ \A i \in 1..Len(payload) : payload[i] = line[i]
        BY <3>5, <3>6, <3>8
      <4>2. IsPrefix(payload, line)
        BY <3>2, <3>3, <4>1, PrefixIf
      <4>3. Len(payload) # 5
        BY <3>4, <3>5, <3>8 DEF PrintedFrom
      <4> QED
        BY <4>2, <4>3 DEF line, payload
    <3> QED
      BY <3>7, <3>8
  <2> QED
    BY <2>1, <2>2 DEF DataPrinted
<1> QED
  BY <1>1, RfcommKept, PTL
=============================================================================
