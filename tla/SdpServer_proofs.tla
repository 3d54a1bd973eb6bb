------------------------- MODULE SdpServer_proofs -------------------------
(***************************************************************************)
(* The packet log is read back.  Record by record first: for every file,   *)
(* every type and every packet, the reader finds at the old end of the     *)
(* file what the writer put there, goes on to the new end, and finds in    *)
(* front of it what was there before.  Of a packet of 256 bytes or more it *)
(* finds the part the 8 bits of its length let through.  Then over a whole *)
(* run: whatever requests come, whatever the reader of data elements makes *)
(* of them and whenever the program is killed, the log has every packet.   *)
(*                                                                         *)
(* Requests are read whole.  For every request that follows the standard,  *)
(* the invariant says which nodes the reader has built when it is behind   *)
(* the k-th element and what it counted, which decides every test that it  *)
(* makes: where a sequence ends, where the request does, and whether a     *)
(* parent is followed.                                                     *)
(*                                                                         *)
(* Answers are well formed.  For all packets, the invariant says which     *)
(* nodes wait when k of them are written, so the record is written in its  *)
(* own order, every node where a table says, and its length is known.      *)
(***************************************************************************)
EXTENDS SdpServer, SequenceFacts, SequenceTheorems, WellFoundedInduction

\* Three sequences in a row, the last one cut short.
Row(disk, h, data, n) == disk \o h \o SubSeq(data, 1, n)

\* Where each of their elements is.
LEMMA RowElements ==
  ASSUME NEW S, NEW disk \in Seq(S), NEW h \in Seq(S), NEW data \in Seq(S),
         NEW n \in Nat, n <= Len(data)
  PROVE  /\ Row(disk, h, data, n) \in Seq(S)
         /\ Len(Row(disk, h, data, n)) = Len(disk) + Len(h) + n
         /\ \A i \in 1..Len(disk) : Row(disk, h, data, n)[i] = disk[i]
         /\ \A i \in 1..Len(h) : Row(disk, h, data, n)[Len(disk) + i] = h[i]
         /\ \A i \in 1..n : Row(disk, h, data, n)[Len(disk) + Len(h) + i] = data[i]
<1> DEFINE d == SubSeq(data, 1, n)
           s == disk \o h
           w == s \o d
           f == Len(disk)
           m == Len(h)
<1>1. f \in Nat /\ m \in Nat /\ Len(data) \in Nat
  OBVIOUS
<1>2. d \in Seq(S) /\ Len(d) = n /\ \A i \in 1..n : d[i] = data[i]
  <2>1. \A i \in 1..n : data[i] \in S
    OBVIOUS
  <2>2. /\ d \in Seq(S) /\ Len(d) = IF 1 <= n THEN n - 1 + 1 ELSE 0
        /\ \A i \in 1..(n - 1 + 1) : d[i] = data[1 + i - 1]
    BY <2>1, SubSeqProperties
  <2> HIDE DEF d
  <2> QED
    BY <2>2
<1>3. /\ s \in Seq(S) /\ Len(s) = f + m
      /\ \A i \in 1..(f + m) : s[i] = IF i <= f THEN disk[i] ELSE h[i - f]
  BY ConcatProperties
<1> HIDE DEF d, s, f, m
<1>4. /\ w \in Seq(S) /\ Len(w) = f + m + n
      /\ \A i \in 1..(f + m + n) : w[i] = IF i <= f + m THEN s[i] ELSE d[i - (f + m)]
  <2>1. /\ s \o d \in Seq(S) /\ Len(s \o d) = Len(s) + Len(d)
        /\ \A i \in 1..(Len(s) + Len(d)) :
             (s \o d)[i] = IF i <= Len(s) THEN s[i] ELSE d[i - Len(s)]
    BY <1>2, <1>3, ConcatProperties
  <2> QED
    BY <1>2, <1>3, <2>1
<1> HIDE DEF w
<1>5. \A i \in 1..f : w[i] = disk[i]
  BY <1>1, <1>3, <1>4
<1>6. ASSUME NEW i \in 1..m
      PROVE  w[f + i] = h[i]
  <2>1. f + i \in 1..(f + m) /\ ~(f + i <= f) /\ (f + i) - f = i
    BY <1>1
  <2>2. f + i \in 1..(f + m + n) /\ f + i <= f + m
    BY <1>1
  <2>3. w[f + i] = s[f + i]
    BY <1>4, <2>2
  <2> QED
    BY <1>3, <2>1, <2>3
<1>7. ASSUME NEW i \in 1..n
      PROVE  w[f + m + i] = data[i]
  <2>1. f + m + i \in 1..(f + m + n) /\ ~(f + m + i <= f + m) /\ (f + m + i) - (f + m) = i
    BY <1>1
  <2>2. w[f + m + i] = d[i]
    BY <1>4, <2>1
  <2> QED
    BY <1>2, <2>2
<1> QED
  BY <1>4, <1>5, <1>6, <1>7 DEF w, s, d, f, m, Row

\* Two bytes hold the length of a record.
LEMMA TwoBytes ==
  ASSUME NEW x \in 0..264
  PROVE  \E high, low \in Bytes256 :
           x \div 256 = high /\ x % 256 = low /\ 256 * high + low = x
<1>1. CASE x < 256
  <2>1. x \div 256 = 0 /\ x % 256 = x
    BY <1>1
  <2>2. 0 \in Bytes256 /\ x \in Bytes256 /\ 256 * 0 + x = x
    BY <1>1 DEF Bytes256
  <2> QED
    BY <2>1, <2>2
<1>2. CASE x >= 256
  <2> DEFINE y == x - 256
  <2>1. x \div 256 = 1 /\ x % 256 = y
    BY <1>2
  <2>2. 1 \in Bytes256 /\ y \in Bytes256 /\ 256 * 1 + y = x
    BY <1>2 DEF Bytes256
  <2> HIDE DEF y
  <2> QED
    BY <2>1, <2>2
<1> QED
  BY <1>1, <1>2

\* The header: 13 bytes, a length that is big-endian, a type the reader accepts.
LEMMA Header ==
  ASSUME NEW type \in DOMAIN HciPacketType, NEW n \in Bytes256
  PROVE  LET h == packetlogger_header(type, n)
         IN /\ h \in Seq(Bytes256) /\ Len(h) = 13
            /\ h[1] = 0 /\ h[2] = 0 /\ 256 * h[3] + h[4] = 9 + n
            /\ h[13] = HciPacketType[type] /\ h[13] \in 0..3
<1> DEFINE code == HciPacketType[type]
<1>1. code \in 0..3
  BY DEF HciPacketType
<1>2. code \in Bytes256 /\ 0 \in Bytes256
  BY <1>1 DEF Bytes256
<1>3. 9 + n \in 0..264
  BY DEF Bytes256
<1>4. PICK high \in Bytes256, low \in Bytes256 :
        (9 + n) \div 256 = high /\ (9 + n) % 256 = low /\ 256 * high + low = 9 + n
  BY <1>3, TwoBytes
<1> HIDE DEF code
<1>5. packetlogger_header(type, n) = <<0, 0, high, low, 0, 0, 0, 0, 0, 0, 0, 0, code>>
  BY <1>4 DEF packetlogger_header, code
<1> QED
  BY <1>1, <1>2, <1>4, <1>5 DEF code

\* The length of what is written fits the byte it is passed in.
LEMMA DataLength ==
  ASSUME NEW data \in Seq(Bytes256)
  PROVE  Len(data) % 256 \in Bytes256 /\ Len(data) % 256 \in Nat /\ Len(data) % 256 <= Len(data)
<1>1. Len(data) \in Nat
  OBVIOUS
<1>2. \A k \in Nat : k % 256 \in 0..255 /\ k % 256 <= k
  OBVIOUS
<1>3. Len(data) % 256 \in 0..255 /\ Len(data) % 256 <= Len(data)
  BY <1>1, <1>2
<1>4. \A m \in 0..255 : m \in Bytes256 /\ m \in Nat
  BY DEF Bytes256
<1> QED
  BY <1>3, <1>4

\* What is read behind a position, byte by byte.
LEMMA ReadsBehind ==
  ASSUME NEW S, NEW w \in Seq(S), NEW p \in Nat, NEW count \in Nat, p + count <= Len(w)
  PROVE  /\ Behind(w, p, count) \in Seq(S) /\ Len(Behind(w, p, count)) = count
         /\ \A k \in 1..count : Behind(w, p, count)[k] = w[p + k]
<1> DEFINE b == SubSeq(w, p + 1, p + count)
<1>1. Behind(w, p, count) = b
  BY DEF Behind
<1>2. \A i \in (p + 1)..(p + count) : w[i] \in S
  OBVIOUS
<1>3. /\ b \in Seq(S)
      /\ Len(b) = IF p + 1 <= p + count THEN (p + count) - (p + 1) + 1 ELSE 0
      /\ \A i \in 1..((p + count) - (p + 1) + 1) : b[i] = w[(p + 1) + i - 1]
  BY <1>2, SubSeqProperties
<1> HIDE DEF b
<1>4. (p + count) - (p + 1) + 1 = count /\ (p + 1 <= p + count <=> count # 0)
  OBVIOUS
<1>5. Len(b) = count
  BY <1>3, <1>4
<1>6. ASSUME NEW k \in 1..count PROVE b[k] = w[p + k]
  <2>1. (p + 1) + k - 1 = p + k
    OBVIOUS
  <2> QED
    BY <1>3, <1>4, <2>1
<1> QED
  BY <1>1, <1>3, <1>5, <1>6

\* The record that write_packet adds, as the reader finds it.
LEMMA RecordWritten ==
  ASSUME NEW disk \in Seq(Bytes256), NEW type \in DOMAIN HciPacketType, NEW data \in Seq(Bytes256)
  PROVE  LET w == write_packet(disk, type, data)
             r == packetlogger_read_packet(w, Len(disk))
         IN /\ r.ok /\ r.type = HciPacketType[type] /\ r.next = Len(w)
            /\ r.data = SubSeq(data, 1, Len(data) % 256)
            /\ w \in Seq(Bytes256) /\ Len(w) = Len(disk) + 13 + (Len(data) % 256)
            /\ packetlogger_read_header(w, Len(disk)).len = 9 + (Len(data) % 256)
<1> DEFINE n == Len(data) % 256
           h == packetlogger_header(type, n)
           f == Len(disk)
           w == write_packet(disk, type, data)
           d == SubSeq(data, 1, n)
           v == Row(disk, h, data, n)
<1>1. n \in Bytes256 /\ n \in Nat /\ n <= Len(data) /\ f \in Nat
  <2>1. n \in Bytes256 /\ n \in Nat /\ n <= Len(data)
    BY DataLength
  <2>2. f \in Nat
    OBVIOUS
  <2> QED
    BY <2>1, <2>2
<1> HIDE DEF n
<1>2. /\ h \in Seq(Bytes256) /\ Len(h) = 13 /\ h[1] = 0 /\ h[2] = 0
      /\ 256 * h[3] + h[4] = 9 + n /\ h[13] = HciPacketType[type] /\ h[13] \in 0..3
  BY <1>1, Header
<1>3. /\ d \in Seq(Bytes256) /\ Len(d) = n /\ \A i \in 1..n : d[i] = data[i]
  <2>1. \A i \in 1..n : data[i] \in Bytes256
    BY <1>1
  <2>2. /\ d \in Seq(Bytes256) /\ Len(d) = IF 1 <= n THEN n - 1 + 1 ELSE 0
        /\ \A i \in 1..(n - 1 + 1) : d[i] = data[1 + i - 1]
    BY <1>1, <2>1, SubSeqProperties
  <2> HIDE DEF d
  <2> QED
    BY <1>1, <2>2
<1> HIDE DEF h, d
<1>4. /\ v \in Seq(Bytes256) /\ Len(v) = f + Len(h) + n
      /\ \A i \in 1..Len(h) : v[f + i] = h[i]
      /\ \A i \in 1..n : v[f + Len(h) + i] = data[i]
  <2>1. h \in Seq(Bytes256) /\ n \in Nat /\ n <= Len(data)
    BY <1>1, <1>2
  <2>2. v \in Seq(Bytes256)
    BY <2>1, RowElements
  <2>3. Len(v) = f + Len(h) + n
    BY <2>1, RowElements
  <2>4. \A i \in 1..Len(h) : v[f + i] = h[i]
    BY <2>1, RowElements
  <2>5. \A i \in 1..n : v[f + Len(h) + i] = data[i]
    BY <2>1, RowElements
  <2> QED
    BY <2>2, <2>3, <2>4, <2>5
<1>5. w = v
  BY DEF write_packet, Row, h, n
<1> HIDE DEF v, w, f
<1>6. /\ w \in Seq(Bytes256) /\ Len(w) = f + 13 + n
      /\ \A i \in 1..13 : w[f + i] = h[i]
      /\ \A i \in 1..n : w[f + 13 + i] = data[i]
  BY <1>2, <1>4, <1>5
<1> DEFINE b == Behind(w, f, 13)
           hd == packetlogger_read_header(w, f)
<1>7. \A k \in 1..13 : b[k] = h[k]
  <2>1. f + 13 <= Len(w)
    BY <1>1, <1>6
  <2>2. w \in Seq(Bytes256) /\ f \in Nat /\ 13 \in Nat
    BY <1>1, <1>6
  <2>3. \A k \in 1..13 : b[k] = w[f + k]
    BY <2>1, <2>2, ReadsBehind
  <2> QED
    BY <1>6, <2>3
<1>8. hd.ok /\ hd.len = 9 + n /\ hd.type = HciPacketType[type]
  <2> HIDE DEF b
  <2>1. b[1] = 0 /\ b[2] = 0 /\ b[3] = h[3] /\ b[4] = h[4] /\ b[13] = h[13]
    BY <1>2, <1>7
  <2>2. 256 * b[3] + b[4] = 9 + n /\ 9 + n >= 8
    BY <1>1, <1>2, <2>1
  <2> QED
    BY <1>2, <2>1, <2>2 DEF packetlogger_read_header, b
<1> HIDE DEF b, hd
<1>9. Behind(w, f + 13, n) = d
  <2> DEFINE c == Behind(w, f + 13, n)
  <2>1. /\ c \in Seq(Bytes256) /\ Len(c) = n
        /\ \A k \in 1..n : c[k] = w[f + 13 + k]
    <3>1. f + 13 \in Nat /\ (f + 13) + n <= Len(w) /\ w \in Seq(Bytes256) /\ n \in Nat
      BY <1>1, <1>6
    <3> QED
      BY <3>1, ReadsBehind
  <2> HIDE DEF c
  <2>2. \A k \in 1..n : c[k] = d[k]
    BY <1>3, <1>6, <2>1
  <2>3. c = d
    BY <1>3, <2>1, <2>2, SeqEqual
  <2> QED
    BY <2>3 DEF c
<1> DEFINE r == packetlogger_read_packet(w, f)
<1>10. r.ok /\ r.type = hd.type /\ r.next = f + 4 + hd.len /\ r.data = Behind(w, f + 13, hd.len - 9)
  BY <1>8 DEF packetlogger_read_packet, hd
<1> HIDE DEF r
<1>11. r.next = Len(w) /\ r.data = d
  <2>1. hd.len - 9 = n /\ f + 4 + hd.len = f + 13 + n
    <3> HIDE DEF hd
    <3> QED
      BY <1>1, <1>8
  <2> QED
    BY <1>6, <1>9, <1>10, <2>1
<1>12. r.ok /\ r.type = HciPacketType[type] /\ r.next = Len(w) /\ r.data = d
  BY <1>8, <1>10, <1>11
<1>13. w \in Seq(Bytes256) /\ Len(w) = f + 13 + n /\ hd.len = 9 + n
  BY <1>6, <1>8
<1> QED
  BY <1>12, <1>13 DEF r, w, d, f, n, hd

\* packetlogger_read_packet at the old end of the file finds the record that
\* write_packet has put there, and stands at the new end of it afterwards.
THEOREM RecordReadBack ==
  ASSUME NEW disk \in Seq(Bytes256), NEW type \in DOMAIN HciPacketType, NEW data \in Seq(Bytes256)
  PROVE  LET w == write_packet(disk, type, data)
             r == packetlogger_read_packet(w, Len(disk))
         IN /\ r.ok /\ r.type = HciPacketType[type] /\ r.next = Len(w)
            /\ r.data = SubSeq(data, 1, Len(data) % 256)
  BY RecordWritten

\* What is read inside the file is read from it when it has grown, too.
LEMMA ReadsOn ==
  ASSUME NEW disk \in Seq(Bytes256), NEW w \in Seq(Bytes256), Len(disk) <= Len(w),
         \A i \in 1..Len(disk) : w[i] = disk[i],
         NEW p \in Nat, NEW count \in Nat, p + count <= Len(disk)
  PROVE  Behind(w, p, count) = Behind(disk, p, count)
<1> DEFINE a == Behind(disk, p, count)
           b == Behind(w, p, count)
<1>1. p + count <= Len(w) /\ Len(disk) \in Nat /\ Len(w) \in Nat
  <2>1. \A x, y, z \in Nat : x <= y /\ y <= z => x <= z
    OBVIOUS
  <2>2. Len(disk) \in Nat /\ Len(w) \in Nat /\ p + count \in Nat
    OBVIOUS
  <2> QED
    BY <2>1, <2>2
<1>2. a \in Seq(Bytes256) /\ Len(a) = count /\ \A k \in 1..count : a[k] = disk[p + k]
  BY ReadsBehind
<1>3. b \in Seq(Bytes256) /\ Len(b) = count /\ \A k \in 1..count : b[k] = w[p + k]
  <2>1. b \in Seq(Bytes256)
    BY <1>1, ReadsBehind
  <2>2. Len(b) = count
    BY <1>1, ReadsBehind
  <2>3. \A k \in 1..count : b[k] = w[p + k]
    BY <1>1, ReadsBehind
  <2> QED
    BY <2>1, <2>2, <2>3
<1> HIDE DEF a, b
<1>4. \A k \in 1..count : a[k] = b[k]
  <2>1. \A k \in 1..count : p + k \in 1..Len(disk)
    BY <1>1
  <2> QED
    BY <1>2, <1>3, <2>1
<1>5. a = b
  BY <1>2, <1>3, <1>4, SeqEqual
<1> QED
  BY <1>5 DEF a, b

\* The reader's header of a record is made of the 13 bytes behind its position.
LEMMA SameHeader ==
  ASSUME NEW disk, NEW w, NEW p, Behind(w, p, 13) = Behind(disk, p, 13)
  PROVE  packetlogger_read_header(w, p) = packetlogger_read_header(disk, p)
<1> DEFINE Read(h) == [ok |-> /\ h[1] = 0 /\ h[2] = 0 /\ 256 * h[3] + h[4] >= 8
                              /\ h[13] \in 0..3 \cup {251, 252, 254, 255},
                       len |-> 256 * h[3] + h[4], type |-> h[13]]
<1>1. packetlogger_read_header(w, p) = Read(Behind(w, p, 13))
  BY DEF packetlogger_read_header
<1>2. packetlogger_read_header(disk, p) = Read(Behind(disk, p, 13))
  BY DEF packetlogger_read_header
<1> HIDE DEF Read
<1> QED
  BY <1>1, <1>2

\* And the record of its header and of what the header announces.
LEMMA SameRecord ==
  ASSUME NEW disk, NEW w, NEW p,
         packetlogger_read_header(w, p) = packetlogger_read_header(disk, p),
         LET c == packetlogger_read_header(disk, p).len - 9
         IN Behind(w, p + 13, c) = Behind(disk, p + 13, c)
  PROVE  packetlogger_read_packet(w, p) = packetlogger_read_packet(disk, p)
  BY Zenon DEF packetlogger_read_packet

\* write_packet only appends: the reader finds the same header and record in front of
\* the new one.
LEMMA EarlierKept ==
  ASSUME NEW disk \in Seq(Bytes256), NEW type \in DOMAIN HciPacketType, NEW data \in Seq(Bytes256),
         NEW p \in Nat, p + 13 <= Len(disk),
         LET c == packetlogger_read_header(disk, p).len - 9
         IN c \in Nat /\ (p + 13) + c <= Len(disk)
  PROVE  /\ packetlogger_read_header(write_packet(disk, type, data), p)
              = packetlogger_read_header(disk, p)
         /\ packetlogger_read_packet(write_packet(disk, type, data), p)
              = packetlogger_read_packet(disk, p)
<1> DEFINE n == Len(data) % 256
           h == packetlogger_header(type, n)
           w == write_packet(disk, type, data)
           v == Row(disk, h, data, n)
<1>1. n \in Bytes256 /\ n \in Nat /\ n <= Len(data)
  BY DataLength
<1> HIDE DEF n
<1>2. h \in Seq(Bytes256) /\ Len(h) = 13
  BY <1>1, Header
<1> HIDE DEF h
<1>3. v \in Seq(Bytes256) /\ Len(v) = Len(disk) + 13 + n /\ \A i \in 1..Len(disk) : v[i] = disk[i]
  <2>0. h \in Seq(Bytes256) /\ n \in Nat /\ n <= Len(data)
    BY <1>1, <1>2
  <2>1. v \in Seq(Bytes256)
    BY <2>0, RowElements
  <2>2. Len(v) = Len(disk) + Len(h) + n
    BY <2>0, RowElements
  <2>3. \A i \in 1..Len(disk) : v[i] = disk[i]
    BY <2>0, RowElements
  <2> QED
    BY <1>2, <2>1, <2>2, <2>3
<1>4. w = v
  BY DEF write_packet, Row, h, n
<1> HIDE DEF v, w
<1>5. w \in Seq(Bytes256) /\ Len(disk) <= Len(w) /\ \A i \in 1..Len(disk) : w[i] = disk[i]
  <2>1. Len(disk) \in Nat
    OBVIOUS
  <2> QED
    BY <1>1, <1>3, <1>4, <2>1
<1>6. Behind(w, p, 13) = Behind(disk, p, 13)
  <2>1. 13 \in Nat
    OBVIOUS
  <2> QED
    BY <1>5, <2>1, ReadsOn, Zenon
<1>7. packetlogger_read_header(w, p) = packetlogger_read_header(disk, p)
  BY <1>6, SameHeader
<1> DEFINE c == packetlogger_read_header(disk, p).len - 9
<1>8. c \in Nat /\ (p + 13) + c <= Len(disk)
  OBVIOUS
<1> HIDE DEF c
<1>9. Behind(w, p + 13, c) = Behind(disk, p + 13, c)
  <2>1. p + 13 \in Nat
    OBVIOUS
  <2>2. /\ w \in Seq(Bytes256) /\ Len(disk) <= Len(w)
        /\ \A i \in 1..Len(disk) : w[i] = disk[i]
    BY <1>5
  <2> QED
    BY <1>8, <2>1, <2>2, ReadsOn, Zenon
<1>10. packetlogger_read_packet(w, p) = packetlogger_read_packet(disk, p)
  BY <1>7, <1>9, SameRecord DEF c
<1> QED
  BY <1>7, <1>10 DEF w

\* write_packet only appends: packetlogger_read_packet reads every complete record
\* in front of the new one (its length counts at least the rest of its header) as
\* it did before.
THEOREM EarlierRecordsKept ==
  ASSUME NEW disk \in Seq(Bytes256), NEW type \in DOMAIN HciPacketType, NEW data \in Seq(Bytes256),
         NEW p \in Nat, p + 13 <= Len(disk),
         LET c == packetlogger_read_header(disk, p).len - 9
         IN c \in Nat /\ (p + 13) + c <= Len(disk)
  PROVE  packetlogger_read_packet(write_packet(disk, type, data), p)
           = packetlogger_read_packet(disk, p)
  BY EarlierKept

-----------------------------------------------------------------------------
(* A log of several records.                                               *)

\* What the log says of a packet.
Expected(t) ==
  [type |-> HciPacketType[t.type], data |-> SubSeq(t.bytes, 1, Len(t.bytes) % 256)]

\* The file is made of the records of these packets; at says where each begins and where
\* the last one ends.
RecordAt(f, t, from, to) ==
  LET r == packetlogger_read_packet(f, from)
  IN /\ from + 13 <= to /\ to <= Len(f)
     /\ packetlogger_read_header(f, from).len = to - from - 4
     /\ r.ok /\ r.next = to /\ r.type = Expected(t).type /\ r.data = Expected(t).data
LogOf(f, packets, at) ==
  /\ at \in [1..(Len(packets) + 1) -> Nat]
  /\ at[1] = 0 /\ at[Len(packets) + 1] = Len(f)
  /\ \A i \in 1..Len(packets) : RecordAt(f, packets[i], at[i], at[i + 1])

Entries == [type : DOMAIN HciPacketType, bytes : Seq(Bytes256), search : BOOLEAN,
            uuids : {p.uuids : p \in Packets} \cup {<< >>}]

\* An earlier record stays where it is, and what it is, when the file grows.
LEMMA RecordStays ==
  ASSUME NEW f \in Seq(Bytes256), NEW type \in DOMAIN HciPacketType, NEW data \in Seq(Bytes256),
         NEW t, NEW from \in Nat, NEW to \in Nat, RecordAt(f, t, from, to)
  PROVE  RecordAt(write_packet(f, type, data), t, from, to)
<1> DEFINE w == write_packet(f, type, data)
           len == packetlogger_read_header(f, from).len
<1>1. /\ from + 13 <= to /\ to <= Len(f) /\ len = to - from - 4
      /\ packetlogger_read_packet(f, from).next = to
  BY DEF RecordAt
<1>2. Len(f) \in Nat
  BY LenProperties
<1>3. from + 13 <= Len(f) /\ len - 9 \in Nat /\ (from + 13) + (len - 9) <= Len(f)
  <2> HIDE DEF len
  <2> QED
    BY <1>1, <1>2
<1>4. /\ packetlogger_read_header(w, from) = packetlogger_read_header(f, from)
      /\ packetlogger_read_packet(w, from) = packetlogger_read_packet(f, from)
  BY <1>3, EarlierKept
<1>5. to <= Len(w)
  <2>1. Len(w) = Len(f) + 13 + (Len(data) % 256)
    BY RecordWritten
  <2>2. Len(data) % 256 \in Nat
    BY DataLength
  <2> QED
    BY <1>1, <1>2, <2>1, <2>2
<1> QED
  BY <1>1, <1>4, <1>5 DEF RecordAt

\* A packet more.
LEMMA LogGrows ==
  ASSUME NEW f \in Seq(Bytes256), NEW s \in Seq(Entries), NEW at, LogOf(f, s, at), NEW t \in Entries
  PROVE  LET w == write_packet(f, t.type, t.bytes)
             other == [i \in 1..(Len(s) + 2) |-> IF i <= Len(s) + 1 THEN at[i] ELSE Len(w)]
         IN w \in Seq(Bytes256) /\ LogOf(w, Append(s, t), other)
<1> DEFINE type == t.type
           data == t.bytes
           m == Len(data) % 256
           w == write_packet(f, type, data)
           n == Len(s)
           l == Len(w)
           other == [i \in 1..(n + 2) |-> IF i <= n + 1 THEN at[i] ELSE l]
           o == Append(s, t)
<1>1. /\ at \in [1..(n + 1) -> Nat] /\ at[1] = 0 /\ at[n + 1] = Len(f)
      /\ \A i \in 1..n : RecordAt(f, s[i], at[i], at[i + 1])
  BY DEF LogOf
<1>2. type \in DOMAIN HciPacketType /\ data \in Seq(Bytes256)
  BY DEF Entries
<1> HIDE DEF type, data
<1>3. n \in Nat /\ Len(f) \in Nat /\ m \in Nat
  <2>1. n \in Nat /\ Len(f) \in Nat
    BY LenProperties
  <2>2. m \in Nat
    BY <1>2, DataLength
  <2> QED
    BY <2>1, <2>2
<1>4. /\ w \in Seq(Bytes256) /\ l = Len(f) + 13 + m
      /\ packetlogger_read_header(w, Len(f)).len = 9 + m
      /\ packetlogger_read_packet(w, Len(f)).ok
      /\ packetlogger_read_packet(w, Len(f)).type = HciPacketType[type]
      /\ packetlogger_read_packet(w, Len(f)).next = l
      /\ packetlogger_read_packet(w, Len(f)).data = SubSeq(data, 1, m)
  BY <1>2, RecordWritten
<1> HIDE DEF w, l, m
<1>5. l \in Nat /\ Len(f) + 13 <= l /\ 9 + m = l - Len(f) - 4
  BY <1>3, <1>4
<1>6. RecordAt(w, t, Len(f), l)
  <2>1. Expected(t).type = HciPacketType[type] /\ Expected(t).data = SubSeq(data, 1, m)
    BY DEF Expected, type, data, m
  <2>2. l <= Len(w)
    BY <1>5 DEF l
  <2> QED
    BY <1>4, <1>5, <2>1, <2>2 DEF RecordAt
<1>7. \A i \in 1..n : RecordAt(w, s[i], at[i], at[i + 1])
  <2> SUFFICES ASSUME NEW i \in 1..n PROVE RecordAt(w, s[i], at[i], at[i + 1])
    OBVIOUS
  <2>1. i \in 1..(n + 1) /\ i + 1 \in 1..(n + 1)
    BY <1>3
  <2>2. at[i] \in Nat /\ at[i + 1] \in Nat
    BY <1>1, <2>1
  <2> QED
    BY <1>1, <1>2, <2>2, RecordStays DEF w
<1>8. /\ Len(o) = n + 1 /\ o[n + 1] = t /\ \A i \in 1..n : o[i] = s[i]
  BY QueueAppend
<1> HIDE DEF o, n
<1>9. /\ \A i \in 1..(n + 1) : i \in 1..(n + 2) /\ other[i] = at[i]
      /\ n + 2 \in 1..(n + 2) /\ other[n + 2] = l
  <2>1. n + 2 \in 1..(n + 2) /\ ~(n + 2 <= n + 1)
    BY <1>3
  <2>2. \A i \in 1..(n + 1) : i \in 1..(n + 2) /\ i <= n + 1
    BY <1>3
  <2> QED
    BY <2>1, <2>2
<1>10. other \in [1..(n + 2) -> Nat]
  <2>1. \A i \in 1..(n + 2) : i \in 1..(n + 1) \/ i = n + 2
    BY <1>3
  <2>2. \A i \in 1..(n + 2) : other[i] \in Nat
    BY <1>1, <1>5, <1>9, <2>1
  <2> QED
    BY <2>2
<1> HIDE DEF other
<1>11. other[1] = 0
  BY <1>1, <1>3, <1>9
<1>12. \A i \in 1..(n + 1) : RecordAt(w, o[i], other[i], other[i + 1])
  <2> SUFFICES ASSUME NEW i \in 1..(n + 1) PROVE RecordAt(w, o[i], other[i], other[i + 1])
    OBVIOUS
  <2>1. CASE i \in 1..n
    <3>1. i + 1 \in 1..(n + 1)
      BY <1>3, <2>1
    <3>2. o[i] = s[i] /\ other[i] = at[i] /\ other[i + 1] = at[i + 1]
      BY <1>8, <1>9, <2>1, <3>1
    <3> QED
      BY <1>7, <2>1, <3>2
  <2>2. CASE i = n + 1
    <3>1. i + 1 = n + 2
      BY <1>3, <2>2
    <3>2. o[i] = t /\ other[i] = Len(f) /\ other[i + 1] = l
      BY <1>1, <1>8, <1>9, <2>2, <3>1
    <3> QED
      BY <1>6, <3>2
  <2>3. i \in 1..n \/ i = n + 1
    BY <1>3
  <2> QED
    BY <2>1, <2>2, <2>3
<1>13. LogOf(w, o, other)
  <2>1. Len(o) = n + 1 /\ (n + 1) + 1 = n + 2
    BY <1>3, <1>8
  <2> QED
    BY <1>9, <1>10, <1>11, <1>12, <2>1 DEF LogOf, l
<1> QED
  BY <1>4, <1>13 DEF w, o, n, l, other, type, data

\* At the end of the file the reader is refused.
LEMMA NothingBehind ==
  ASSUME NEW f \in Seq(Bytes256)
  PROVE  ~packetlogger_read_packet(f, Len(f)).ok
<1> DEFINE h == Behind(f, Len(f), 13)
<1>1. Len(f) \in Nat
  BY LenProperties
<1>2. h = [k \in 1..13 |-> 0]
  <2>1. Len(f) + 13 > Len(f)
    BY <1>1
  <2> QED
    BY <2>1 DEF Behind
<1>3. h[3] = 0 /\ h[4] = 0
  BY <1>2
<1> HIDE DEF h
<1>4. ~(256 * h[3] + h[4] >= 8)
  BY <1>3
<1> QED
  BY <1>4 DEF packetlogger_read_packet, packetlogger_read_header, h

-----------------------------------------------------------------------------
(* Whatever the loops of the reader do, they end in one of four ways.      *)

\* A turn of the reader ends in one of four states, none of them the end of the program.
LEMMA TurnEnds ==
  ASSUME NEW r, "state" \in DOMAIN r
  PROVE  LET t == TurnEnded(BodyRead(HeaderRead(r)))
         IN "state" \in DOMAIN t /\ t.state \in {"threw", "crashed", "reading", "done"}
<1> DEFINE h == HeaderRead(r)
           b == BodyRead(h)
           t == TurnEnded(b)
<1>1. ASSUME NEW x, "state" \in DOMAIN x PROVE "state" \in DOMAIN ToParent(x)
  BY <1>1 DEF ToParent
<1>2. "state" \in DOMAIN WithChild(r)
  BY DEF WithChild
<1>3. "state" \in DOMAIN h
  BY <1>2 DEF HeaderRead
<1> HIDE DEF h
<1>4. "state" \in DOMAIN b
  BY <1>1, <1>3 DEF BodyRead
<1> HIDE DEF b
<1>5. "state" \in DOMAIN t /\ t.state \in {"threw", "crashed", "reading", "done"}
  BY <1>1, <1>4 DEF TurnEnded
<1> QED
  BY <1>5 DEF t, b, h

-----------------------------------------------------------------------------
(* The children of a node.                                                 *)

\* A set of numbers has a least one, so what would fail somewhere fails somewhere first.
LEMMA LeastNumber ==
  ASSUME NEW T, T \subseteq Nat, T # {}
  PROVE  \E x \in T : \A y \in T : ~(y < x)
<1> DEFINE R == {ss \in Nat \X Nat : ss[1] < ss[2]}
<1>1. IsWellFoundedOn(R, Nat)
  BY NatLessThanWellFounded DEF OpToRel
<1> HIDE DEF R
<1>2. PICK x \in T : \A y \in T : ~(<<y, x>> \in R)
  BY <1>1, WFMin
<1>3. ASSUME NEW y \in T PROVE ~(y < x)
  <2>1. x \in Nat /\ y \in Nat /\ ~(<<y, x>> \in R)
    BY <1>2
  <2> QED
    BY <2>1 DEF R
<1> QED
  BY <1>3

\* One more node looked at.
Among(nodes, n, g, k) ==
  CASE k = 0 -> << >>
    [] k > 0 /\ nodes[k].parent = n -> Append(g[k - 1], k)
    [] OTHER -> g[k - 1]

\* The function that Children is made of exists,
LEMMA AmongExists ==
  ASSUME NEW nodes, NEW n, NEW m \in Nat
  PROVE  \E g : g = [k \in 0..m |-> Among(nodes, n, g, k)]
<1> DEFINE Has(j) == \E g : g = [k \in 0..j |-> Among(nodes, n, g, k)]
           T == {j \in 0..m : ~Has(j)}
<1>1. Has(0)
  <2> DEFINE g == [k \in 0..0 |-> << >>]
  <2>1. \A k \in 0..0 : Among(nodes, n, g, k) = << >>
    BY DEF Among
  <2>2. g = [k \in 0..0 |-> Among(nodes, n, g, k)]
    BY <2>1
  <2> QED
    BY <2>2
<1>2. ASSUME NEW j \in Nat, j > 0, Has(j - 1) PROVE Has(j)
  <2>1. PICK g : g = [k \in 0..(j - 1) |-> Among(nodes, n, g, k)]
    BY <1>2
  <2> DEFINE h == [k \in 0..j |-> IF k < j THEN g[k] ELSE Among(nodes, n, g, k)]
  <2>2. ASSUME NEW k \in 0..j PROVE Among(nodes, n, h, k) = Among(nodes, n, g, k)
    <3>1. CASE k = 0
      BY <3>1 DEF Among
    <3>2. CASE k # 0
      <4>1. k - 1 \in 0..j /\ k - 1 < j
        BY <1>2, <3>2
      <4>2. h[k - 1] = g[k - 1]
        BY <4>1
      <4> HIDE DEF h
      <4> QED
        BY <4>2 DEF Among
    <3> QED
      BY <3>1, <3>2
  <2>3. \A k \in 0..j : (IF k < j THEN g[k] ELSE Among(nodes, n, g, k)) = Among(nodes, n, g, k)
    <3>1. \A k \in 0..j : k < j => k \in 0..(j - 1)
      BY <1>2
    <3> QED
      BY <2>1, <3>1
  <2>4. h = [k \in 0..j |-> Among(nodes, n, h, k)]
    BY <2>2, <2>3
  <2> QED
    BY <2>4
<1> HIDE DEF Has
<1>3. T = {}
  <2> SUFFICES ASSUME T # {} PROVE FALSE
    OBVIOUS
  <2>0. T \subseteq Nat /\ T # {}
    OBVIOUS
  <2>1. PICK x \in T : \A y \in T : ~(y < x)
    <3> HIDE DEF T
    <3> QED
      BY <2>0, LeastNumber
  <2>2. x \in Nat /\ x # 0
    BY <1>1
  <2>3. x - 1 \in 0..m /\ x - 1 < x
    BY <2>2
  <2>4. Has(x - 1)
    BY <2>1, <2>3
  <2>5. Has(x)
    BY <1>2, <2>2, <2>4
  <2> QED
    BY <2>5
<1>4. Has(m)
  BY <1>3
<1> QED
  BY <1>4 DEF Has

\* and what it lists are nodes.
LEMMA ChildrenAreNodes ==
  ASSUME NEW S, NEW nodes \in Seq(S), NEW n
  PROVE  Children(nodes, n) \in Seq(DOMAIN nodes)
<1> DEFINE l == Len(nodes)
           D == DOMAIN nodes
           f == CHOOSE g : g = [k \in 0..l |-> Among(nodes, n, g, k)]
           T == {k \in 0..l : f[k] \notin Seq(D)}
<1>1. l \in Nat /\ D = 1..l
  BY LenProperties
<1>2. Children(nodes, n) = f[l]
  BY DEF Children, Among
<1>3. f = [k \in 0..l |-> Among(nodes, n, f, k)]
  BY <1>1, AmongExists
<1> HIDE DEF f, l, D
<1>4. \A k \in 0..l : f[k] = Among(nodes, n, f, k)
  BY <1>3
<1>5. T = {}
  <2> SUFFICES ASSUME T # {} PROVE FALSE
    OBVIOUS
  <2>0. T \subseteq Nat /\ T # {}
    OBVIOUS
  <2>1. PICK x \in T : \A y \in T : ~(y < x)
    <3> HIDE DEF T
    <3> QED
      BY <2>0, LeastNumber
  <2>2. x \in 0..l /\ f[x] = Among(nodes, n, f, x) /\ f[x] \notin Seq(D)
    BY <1>4
  <2>3. CASE x = 0
    <3>1. f[x] = << >>
      BY <2>2, <2>3 DEF Among
    <3> QED
      BY <2>2, <3>1
  <2>4. CASE x # 0
    <3>1. x - 1 \in 0..l /\ x - 1 < x /\ x \in D
      BY <1>1, <2>2, <2>4
    <3>2. f[x - 1] \in Seq(D)
      BY <2>1, <3>1
    <3>3. Append(f[x - 1], x) \in Seq(D)
      BY <3>1, <3>2
    <3> QED
      BY <2>2, <2>4, <3>2, <3>3 DEF Among
  <2> QED
    BY <2>3, <2>4
<1>6. l \in 0..l
  BY <1>1
<1>7. f[l] \in Seq(D)
  BY <1>5, <1>6
<1> QED
  BY <1>2, <1>7 DEF D

-----------------------------------------------------------------------------
(* What is written for a search.                                           *)

\* The parts of the service record and the nodes made of them.
RecordTypes == {"uint", "uuid", "text_string", "sequence", "dummy_uint"}
Parts == RecordTypes \X Nat \X Seq(Bytes256) \X Nat
RecordNodes == [type : RecordTypes, size : Nat, parent : Nat,
                start_index : Bytes256, value : Seq(Bytes256)]

\* The parts of the record are types, sizes, bytes and parents.
LEMMA PartsTyped == ServiceParts \in Seq(Parts) /\ ProfileParts \in Seq(Parts)
<1>1. /\ << >> \in Seq(Bytes256) /\ <<0, 0>> \in Seq(Bytes256)
      /\ <<0, 1, 0, 1>> \in Seq(Bytes256) /\ <<0, 1>> \in Seq(Bytes256)
      /\ <<17, 1>> \in Seq(Bytes256) /\ <<0, 4>> \in Seq(Bytes256)
      /\ <<1, 0>> \in Seq(Bytes256) /\ <<0, 3>> \in Seq(Bytes256)
      /\ <<8, 1>> \in Seq(Bytes256) /\ <<0, 5>> \in Seq(Bytes256)
      /\ <<16, 2>> \in Seq(Bytes256) /\ <<0, 6>> \in Seq(Bytes256)
      /\ <<101, 110>> \in Seq(Bytes256) /\ <<0, 106>> \in Seq(Bytes256)
      /\ <<0, 9>> \in Seq(Bytes256) /\ <<17, 2>> \in Seq(Bytes256)
      /\ <<83, 80, 80, 32, 67, 111, 117, 110, 116, 101, 114>> \in Seq(Bytes256)
  BY DEF Bytes256
<1>2. /\ "uint" \in RecordTypes /\ "uuid" \in RecordTypes /\ "text_string" \in RecordTypes
      /\ "sequence" \in RecordTypes /\ "dummy_uint" \in RecordTypes
  BY DEF RecordTypes
<1>3. ServiceParts \in Seq(Parts)
  <2>1. /\ <<"sequence", 95, << >>, 0>> \in Parts
        /\ <<"sequence", 92, << >>, 1>> \in Parts
        /\ <<"uint", 2, <<0, 0>>, 2>> \in Parts
        /\ <<"uint", 4, <<0, 1, 0, 1>>, 2>> \in Parts
        /\ <<"uint", 2, <<0, 1>>, 2>> \in Parts
        /\ <<"sequence", 3, << >>, 2>> \in Parts
        /\ <<"uuid", 2, <<17, 1>>, 6>> \in Parts
        /\ <<"uint", 2, <<0, 4>>, 2>> \in Parts
        /\ <<"sequence", 14, << >>, 2>> \in Parts
        /\ <<"sequence", 3, << >>, 9>> \in Parts
        /\ <<"uuid", 2, <<1, 0>>, 10>> \in Parts
        /\ <<"sequence", 5, << >>, 9>> \in Parts
        /\ <<"uuid", 2, <<0, 3>>, 12>> \in Parts
        /\ <<"dummy_uint", 2, <<8, 1>>, 12>> \in Parts
    BY <1>1, <1>2 DEF Parts
  <2> QED
    BY <2>1 DEF ServiceParts
<1>4. ProfileParts \in Seq(Parts)
  <2>1. /\ <<"uint", 2, <<0, 5>>, 2>> \in Parts
        /\ <<"sequence", 3, << >>, 2>> \in Parts
        /\ <<"uuid", 2, <<16, 2>>, 16>> \in Parts
        /\ <<"uint", 2, <<0, 6>>, 2>> \in Parts
        /\ <<"sequence", 9, << >>, 2>> \in Parts
        /\ <<"uint", 2, <<101, 110>>, 19>> \in Parts
        /\ <<"uint", 2, <<0, 106>>, 19>> \in Parts
        /\ <<"uint", 2, <<1, 0>>, 19>> \in Parts
        /\ <<"uint", 2, <<0, 9>>, 2>> \in Parts
        /\ <<"sequence", 9, << >>, 2>> \in Parts
        /\ <<"sequence", 6, << >>, 24>> \in Parts
        /\ <<"uuid", 2, <<17, 1>>, 25>> \in Parts
        /\ <<"uint", 2, <<17, 2>>, 25>> \in Parts
        /\ <<"uint", 2, <<1, 0>>, 2>> \in Parts
        /\ <<"text_string", 11, <<83, 80, 80, 32, 67, 111, 117, 110, 116, 101, 114>>, 2>> \in Parts
    BY <1>1, <1>2 DEF Parts
  <2> QED
    BY <2>1 DEF ProfileParts
<1> QED
  BY <1>3, <1>4

\* So the record is a sequence of nodes, with a root.
LEMMA ServiceRecordTyped == ServiceRecord \in Seq(RecordNodes) /\ 1 \in DOMAIN ServiceRecord
<1> DEFINE parts == ServiceParts \o ProfileParts
<1>1. /\ parts \in Seq(Parts) /\ Len(parts) = Len(ServiceParts) + Len(ProfileParts)
  BY PartsTyped, ConcatProperties
<1>2. Len(ServiceParts) = 14 /\ Len(ProfileParts) = 15
  BY DEF ServiceParts, ProfileParts
<1> HIDE DEF parts
<1> DEFINE part(p) == [Node(p[1], p[2], p[4]) EXCEPT !.value = p[3]]
<1>3. ASSUME NEW p \in Parts PROVE part(p) \in RecordNodes
  <2>1. /\ p[1] \in RecordTypes /\ p[2] \in Nat
        /\ p[3] \in Seq(Bytes256) /\ p[4] \in Nat
    BY DEF Parts
  <2>2. part(p) = [type |-> p[1], size |-> p[2], parent |-> p[4], start_index |-> 0,
                   value |-> p[3]]
    BY DEF Node
  <2>3. 0 \in Bytes256
    BY DEF Bytes256
  <2> QED
    BY <2>1, <2>2, <2>3 DEF RecordNodes
<1> HIDE DEF part
<1>4. ServiceRecord = [n \in DOMAIN parts |-> part(parts[n])]
  BY DEF ServiceRecord, part, parts
<1>5. Len(parts) \in Nat /\ Len(parts) > 0
  BY <1>1, <1>2
<1> DEFINE s == ServiceRecord
           n == Len(parts)
<1>6. /\ n \in Nat /\ DOMAIN parts = 1..n /\ 1 \in 1..n
      /\ \A k \in 1..n : parts[k] \in Parts
  BY <1>1, <1>5, LenProperties
<1>7. s = [k \in 1..n |-> s[k]] /\ (\A k \in 1..n : s[k] \in RecordNodes)
  <2>1. s = [k \in 1..n |-> part(parts[k])]
    BY <1>4, <1>6
  <2>2. \A k \in 1..n : part(parts[k]) \in RecordNodes
    BY <1>3, <1>6
  <2> HIDE DEF s, n
  <2> QED
    BY <2>1, <2>2
<1>8. s \in Seq(RecordNodes) /\ Len(s) = n
  <2> HIDE DEF s, n
  <2> QED
    BY <1>6, <1>7, AsSequence
<1> QED
  BY <1>6, <1>8

\* Cut or filled up, bytes stay bytes.
LEMMA LastBytesTyped ==
  ASSUME NEW count \in Nat, NEW bytes \in Seq(Bytes256)
  PROVE  LastBytes(count, bytes) \in Seq(Bytes256)
<1> DEFINE l == Len(bytes)
<1>1. l \in Nat /\ \A i \in 1..l : bytes[i] \in Bytes256
  BY LenProperties
<1> HIDE DEF l
<1>2. \A k \in 1..count : (IF l + k > count THEN bytes[l + k - count] ELSE 0) \in Bytes256
  <2>1. 0 \in Bytes256
    BY DEF Bytes256
  <2>2. \A k \in 1..count : l + k > count => l + k - count \in 1..l
    BY <1>1
  <2> QED
    BY <1>1, <2>1, <2>2
<1>3. LastBytes(count, bytes) \in [1..count -> Bytes256]
  BY <1>2 DEF LastBytes, l
<1> QED
  BY <1>3

\* An octet is a byte.
LEMMA OctetTyped ==
  ASSUME NEW n \in Int
  PROVE  Octet(n) \in Bytes256
  BY DEF Octet, Bytes256

\* What is written for a node of the record is bytes.
LEMMA NodeWritten ==
  ASSUME NEW node \in RecordNodes, Convertible(node)
  PROVE  serializeSimpleDataElement(node) \in Seq(Bytes256)
<1> DEFINE size == node.size
           value == node.value
<1>1. size \in Nat /\ value \in Seq(Bytes256) /\ node.type \in RecordTypes
  BY DEF RecordNodes
<1>2. LastBytes(size, value) \in Seq(Bytes256)
  BY <1>1, LastBytesTyped
<1>3. CASE node.type = "sequence"
  <2>1. size \div 256 \in Int
    BY <1>1
  <2>2. Bytes(size) \in Seq(Bytes256)
    BY <1>1, <2>1, OctetTyped DEF Bytes
  <2>3. <<8 * Code[node.type] + 6>> \in Seq(Bytes256)
    BY <1>3 DEF Code, Bytes256
  <2>4. SequenceHeader(node) \in Seq(Bytes256)
    BY <2>2, <2>3, Joined DEF SequenceHeader
  <2> QED
    BY <1>3, <2>4 DEF serializeSimpleDataElement
<1>4. CASE node.type = "text_string"
  <2>1. Len(value) \in Nat
    BY <1>1, LenProperties
  <2>2. <<8 * Code[node.type] + 5, Octet(Len(value))>> \in Seq(Bytes256)
    <3>1. Octet(Len(value)) \in Bytes256
      BY <2>1, OctetTyped
    <3>2. 8 * Code[node.type] + 5 \in Bytes256
      BY <1>4 DEF Code, Bytes256
    <3> QED
      BY <3>1, <3>2
  <2>3. <<8 * Code[node.type] + 5, Octet(Len(value))>> \o value \in Seq(Bytes256)
    BY <1>1, <2>2, Joined
  <2> QED
    BY <1>4, <2>3 DEF serializeSimpleDataElement
<1>5. CASE node.type = "dummy_uint"
  BY <1>2, <1>5 DEF serializeSimpleDataElement
<1>6. CASE node.type \in {"uint", "uuid"}
  <2>1. size \in {1, 2, 4}
    BY <1>6 DEF Convertible
  <2>2. 8 * Code[node.type] + (size \div 2) \in Bytes256
    BY <1>6, <2>1 DEF Code, Bytes256
  <2>3. <<8 * Code[node.type] + (size \div 2)>> \in Seq(Bytes256)
    BY <2>2
  <2>4. <<8 * Code[node.type] + (size \div 2)>> \o LastBytes(size, value) \in Seq(Bytes256)
    BY <1>2, <2>3, Joined
  <2> QED
    BY <1>6, <2>4 DEF serializeSimpleDataElement
<1> QED
  BY <1>1, <1>3, <1>4, <1>5, <1>6 DEF RecordTypes

\* A request that is long enough for what the response takes from it.
Requests == {s \in Seq(Bytes256) : Len(s) >= PatternIndex}

\* The response is bytes.
LEMMA ResponseTyped ==
  ASSUME NEW request \in Requests, NEW data \in Seq(Bytes256), Len(data) <= 256
  PROVE  Response(request, data) \in Seq(Bytes256)
<1> DEFINE count == Len(data)
           B == Seq(Bytes256)
<1>1. count \in Nat /\ count <= 256
  BY LenProperties
<1> HIDE DEF count
<1>2. <<11, 32, Octet(count + 12), 0>> \in B /\ <<Octet(count + 8), (count + 8) \div 256>> \in B
  <2>1. /\ Octet(count + 12) \in Bytes256 /\ Octet(count + 8) \in Bytes256
    BY <1>1, OctetTyped
  <2>2. (count + 8) \div 256 \in Bytes256
    BY <1>1 DEF Bytes256
  <2>3. 11 \in Bytes256 /\ 32 \in Bytes256 /\ 0 \in Bytes256
    BY DEF Bytes256
  <2> QED
    BY <2>1, <2>2, <2>3
<1>3. SourceCid \in B
  <2>1. SourceCid \in Bytes256 \X Bytes256
    BY SdpAssumption
  <2>2. /\ SourceCid = <<SourceCid[1], SourceCid[2]>>
        /\ SourceCid[1] \in Bytes256 /\ SourceCid[2] \in Bytes256
    BY <2>1
  <2>3. <<SourceCid[1], SourceCid[2]>> \in B
    BY <2>2
  <2> QED
    BY <2>2, <2>3
<1>4. <<7>> \in B /\ <<0>> \in B
  BY DEF Bytes256
<1>5. SubSeq(request, 10, 11) \in B
  <2>1. request \in B /\ Len(request) >= 13 /\ Len(request) \in Nat
    BY DEF Requests, PatternIndex
  <2>2. \A i \in 10..11 : request[i] \in Bytes256
    BY <2>1
  <2> QED
    BY <2>2, SubSeqProperties
<1>6. Bytes(count + 3) \in B /\ Bytes(count) \in B
  <2>1. ASSUME NEW n \in Nat PROVE Bytes(n) \in B
    <3>1. n \div 256 \in Int
      OBVIOUS
    <3> QED
      BY <3>1, OctetTyped DEF Bytes
  <2> QED
    BY <1>1, <2>1
<1>7. data \in B
  OBVIOUS
<1> DEFINE a == <<11, 32, Octet(count + 12), 0>>
           b == <<Octet(count + 8), (count + 8) \div 256>>
           d == SubSeq(request, 10, 11)
           e == Bytes(count + 3)
           f == Bytes(count)
           seven == <<7>>
           zero == <<0>>
<1>8. a \in B /\ b \in B /\ d \in B /\ e \in B /\ f \in B /\ seven \in B /\ zero \in B
  BY <1>2, <1>4, <1>5, <1>6
<1>9. Response(request, data) = a \o b \o SourceCid \o seven \o d \o e \o f \o data \o zero
  BY DEF Response, count
<1> HIDE DEF a, b, d, e, f, seven, zero, B
<1>10. ASSUME NEW s \in B, NEW t \in B PROVE s \o t \in B
  BY Joined DEF B
<1>11. a \o b \o SourceCid \o seven \o d \in B
  BY <1>3, <1>8, <1>10
<1>12. a \o b \o SourceCid \o seven \o d \o e \o f \o data \o zero \in B
  BY <1>7, <1>8, <1>10, <1>11
<1> QED
  BY <1>9, <1>12 DEF B

\* The writer while it writes the record.
Written == {t \in Seq(Bytes256) : Len(t) <= 256}
Writers == [nodes : {ServiceRecord}, deque : Seq(DOMAIN ServiceRecord), target : Written,
            begins : [DOMAIN ServiceRecord -> Nat], state : {"writing"}]

\* The writer starts from the root of the record.
LEMMA WritingStarts == Writing(ServiceRecord) \in Writers
<1> DEFINE N == ServiceRecord
<1>1. 1 \in DOMAIN N
  BY ServiceRecordTyped
<1>2. << >> \in Written
  <2>1. << >> \in Seq(Bytes256) /\ Len(<< >>) = 0
    OBVIOUS
  <2> QED
    BY <2>1 DEF Written
<1> HIDE DEF N
<1>3. Writing(N) \in [nodes : {N}, deque : Seq(DOMAIN N), target : Written,
                      begins : [DOMAIN N -> Nat], state : {"writing"}]
  BY <1>1, <1>2 DEF Writing
<1> QED
  BY <1>3 DEF Writers, N

\* A turn of the writer ends it, throws, or leaves it writing.
LEMMA WriterTurn ==
  ASSUME NEW w \in Writers
  PROVE  LET v == serializeSequenceDataElement(w)
         IN \/ v.state = "done" /\ v.target \in Written
            \/ v.state = "threw" /\ v.target \in Written
            \/ v.state = "writing" /\ v \in Writers
<1> DEFINE N == ServiceRecord
           v == serializeSequenceDataElement(w)
           n == Head(w.deque)
           bytes == serializeSimpleDataElement(w.nodes[n])
           deque == WithChildren(w, n)
           D == DOMAIN N
<1>1. N \in Seq(RecordNodes)
  BY ServiceRecordTyped
<1> HIDE DEF N, D
<1>2. w \in [nodes : {N}, deque : Seq(D), target : Written, begins : [D -> Nat],
             state : {"writing"}]
  BY DEF Writers, N, D
<1>3. /\ w.nodes = N /\ w.deque \in Seq(D) /\ w.target \in Written
      /\ w.begins \in [D -> Nat] /\ w.state = "writing"
  BY <1>2
<1>4. CASE w.deque = << >>
  <2>1. v = [w EXCEPT !.state = "done"]
    BY <1>4 DEF serializeSequenceDataElement
  <2>2. v.state = "done" /\ v.target = w.target
    BY <1>2, <2>1
  <2> QED
    BY <1>3, <2>2
<1>5. CASE w.deque # << >>
  <2>1. n \in D /\ Tail(w.deque) \in Seq(D)
    BY <1>3, <1>5, QueueTail
  <2> HIDE DEF n
  <2>2. CASE ~Convertible(w.nodes[n]) \/ Len(w.target) + Len(bytes) > 256
    <3>1. v = [w EXCEPT !.state = "threw"]
      BY <1>5, <2>2 DEF serializeSequenceDataElement, n
    <3>2. v.state = "threw" /\ v.target = w.target
      BY <1>2, <3>1
    <3> QED
      BY <1>3, <3>2
  <2>3. CASE Convertible(w.nodes[n]) /\ ~(Len(w.target) + Len(bytes) > 256)
    <3> DEFINE node == w.nodes[n]
               target == w.target \o bytes
               begins == [w.begins EXCEPT ![n] = Len(w.target)]
    <3>1. node \in RecordNodes /\ Convertible(node)
      BY <1>1, <1>3, <2>1, <2>3 DEF D
    <3>2. bytes \in Seq(Bytes256)
      <4> HIDE DEF node
      <4>1. serializeSimpleDataElement(node) \in Seq(Bytes256)
        BY <3>1, NodeWritten
      <4> QED
        BY <4>1 DEF node
    <3> HIDE DEF bytes
    <3>3. w.target \in Seq(Bytes256) /\ Len(w.target) \in Nat /\ Len(bytes) \in Nat
      BY <1>3, <3>2, LenProperties DEF Written
    <3>4. target \in Seq(Bytes256) /\ Len(target) = Len(w.target) + Len(bytes)
      BY <3>2, <3>3, Joined
    <3>5. target \in Written
      <4>1. Len(target) <= 256
        BY <2>3, <3>3, <3>4
      <4> QED
        BY <3>4, <4>1 DEF Written
    <3>6. Children(N, n) \in Seq(D)
      BY <1>1, ChildrenAreNodes DEF D
    <3>7. deque \in Seq(D)
      <4>1. Children(N, n) \o Tail(w.deque) \in Seq(D)
        BY <2>1, <3>6, Joined
      <4> QED
        BY <1>3, <4>1 DEF WithChildren
    <3>8. begins \in [D -> Nat]
      BY <1>3, <3>3
    <3>9. v = [w EXCEPT !.target = target, !.deque = deque, !.begins = begins]
      <4>1. v = [w EXCEPT !.target = target, !.deque = deque, !.begins[n] = Len(w.target)]
        BY <1>5, <2>3 DEF serializeSequenceDataElement, n, bytes
      <4>2. [w EXCEPT !.target = target, !.deque = deque, !.begins[n] = Len(w.target)]
              = [w EXCEPT !.target = target, !.deque = deque, !.begins = begins]
        <5> HIDE DEF target, deque
        <5> QED
          BY <1>2
      <4> QED
        BY <4>1, <4>2
    <3> HIDE DEF target, deque, begins, v
    <3>10. /\ v \in [nodes : {N}, deque : Seq(D), target : Written, begins : [D -> Nat],
                     state : {"writing"}]
           /\ v.state = "writing"
      BY <1>2, <3>5, <3>7, <3>8, <3>9
    <3> QED
      BY <3>10 DEF Writers, N, D, v
  <2> QED
    BY <2>2, <2>3
<1> QED
  BY <1>4, <1>5

-----------------------------------------------------------------------------
(* The log and its reader.                                                 *)

NothingRead == [position |-> 0, records |-> << >>, stopped |-> FALSE]

\* The reader has read the first n records of a file of these packets, and stops only
\* when that is all of them.
ReadSoFar(l, packets, at, n) ==
  /\ l = [position |-> at[n + 1], records |-> [i \in 1..n |-> Expected(packets[i])],
          stopped |-> l.stopped]
  /\ l.stopped \in BOOLEAN
  /\ l.stopped => n = Len(packets)
LogState(f, packets, l) ==
  \E at \in [1..(Len(packets) + 1) -> Nat] :
    /\ LogOf(f, packets, at)
    /\ \E n \in 0..Len(packets) : ReadSoFar(l, packets, at, n)

\* Nothing is read of a log, however long it is.
LEMMA NothingReadYet ==
  ASSUME NEW f, NEW s \in Seq(Entries), NEW at, LogOf(f, s, at)
  PROVE  LogState(f, s, NothingRead)
<1>1. Len(s) \in Nat /\ at \in [1..(Len(s) + 1) -> Nat] /\ at[1] = 0
  BY LenProperties DEF LogOf
<1>2. [i \in 1..0 |-> Expected(s[i])] = << >>
  OBVIOUS
<1>3. ReadSoFar(NothingRead, s, at, 0)
  <2> DEFINE records == [i \in 1..0 |-> Expected(s[i])]
             from == at[0 + 1]
  <2>1. from = 0 /\ records = << >>
    BY <1>1, <1>2
  <2>2. NothingRead.stopped = FALSE
    BY DEF NothingRead
  <2> HIDE DEF records, from
  <2>3. NothingRead = [position |-> from, records |-> records, stopped |-> NothingRead.stopped]
    BY <2>1, <2>2 DEF NothingRead
  <2> QED
    BY <2>2, <2>3 DEF ReadSoFar, records, from
<1>4. 0 \in 0..Len(s)
  BY <1>1
<1> QED
  BY <1>1, <1>3, <1>4 DEF LogState

\* Before the first packet the log is empty.
LEMMA EmptyLog == LogState(<< >>, << >>, NothingRead)
<1> DEFINE s == << >>
           at == [i \in 1..1 |-> 0]
<1>1. s \in Seq(Entries) /\ s \in Seq(Bytes256) /\ Len(s) = 0
  OBVIOUS
<1>2. at \in [1..(0 + 1) -> Nat] /\ at[1] = 0 /\ at[0 + 1] = 0
  OBVIOUS
<1> HIDE DEF s, at
<1>3. LogOf(s, s, at)
  <2>1. \A i \in 1..Len(s) : FALSE
    BY <1>1
  <2> QED
    BY <1>1, <1>2, <2>1 DEF LogOf
<1>4. LogState(s, s, NothingRead)
  BY <1>1, <1>3, NothingReadYet
<1> QED
  BY <1>4 DEF s

\* A packet more while nothing is read.
LEMMA LogStateGrows ==
  ASSUME NEW f \in Seq(Bytes256), NEW s \in Seq(Entries), LogState(f, s, NothingRead),
         NEW t \in Entries
  PROVE  /\ write_packet(f, t.type, t.bytes) \in Seq(Bytes256)
         /\ Append(s, t) \in Seq(Entries)
         /\ LogState(write_packet(f, t.type, t.bytes), Append(s, t), NothingRead)
<1> DEFINE w == write_packet(f, t.type, t.bytes)
           o == Append(s, t)
<1>1. PICK at \in [1..(Len(s) + 1) -> Nat] : LogOf(f, s, at)
  BY DEF LogState
<1> DEFINE other == [i \in 1..(Len(s) + 2) |-> IF i <= Len(s) + 1 THEN at[i] ELSE Len(w)]
<1>2. w \in Seq(Bytes256) /\ LogOf(w, o, other)
  BY <1>1, LogGrows
<1>3. o \in Seq(Entries)
  OBVIOUS
<1> HIDE DEF w, o, other
<1>4. LogState(w, o, NothingRead)
  BY <1>2, <1>3, NothingReadYet
<1> QED
  BY <1>2, <1>3, <1>4 DEF w, o

\* One record more.
LEMMA OneMoreRead ==
  ASSUME NEW s \in Seq(Entries), NEW n \in Nat, n < Len(s)
  PROVE  Append([i \in 1..n |-> Expected(s[i])], Expected(s[n + 1]))
           = [i \in 1..(n + 1) |-> Expected(s[i])]
<1> DEFINE S == {Expected(x) : x \in Entries}
           m == n + 1
           p == [i \in 1..n |-> Expected(s[i])]
           q == [i \in 1..m |-> Expected(s[i])]
           e == Expected(s[m])
<1>1. /\ Len(s) \in Nat /\ m \in Nat /\ m = n + 1 /\ m <= Len(s)
      /\ \A i \in 1..Len(s) : s[i] \in Entries
  BY LenProperties
<1>2. \A i \in 1..Len(s) : Expected(s[i]) \in S
  BY <1>1
<1>3. /\ p = [i \in 1..n |-> p[i]] /\ q = [i \in 1..m |-> q[i]]
      /\ \A i \in 1..n : p[i] = Expected(s[i])
      /\ \A i \in 1..m : q[i] = Expected(s[i])
  OBVIOUS
<1> HIDE DEF m, p, q, S
<1>4. e \in S /\ (\A i \in 1..n : p[i] \in S) /\ (\A i \in 1..m : q[i] \in S)
  BY <1>1, <1>2, <1>3
<1>5. p \in Seq(S) /\ Len(p) = n
  BY <1>3, <1>4, AsSequence
<1>6. q \in Seq(S) /\ Len(q) = m
  BY <1>1, <1>3, <1>4, AsSequence
<1> HIDE DEF e
<1> DEFINE a == Append(p, e)
<1>7. /\ a \in Seq(S) /\ Len(a) = Len(p) + 1 /\ a[Len(p) + 1] = e
      /\ DOMAIN p = 1..Len(p) /\ \A i \in DOMAIN p : a[i] = p[i]
  BY <1>4, <1>5, QueueAppend
<1> HIDE DEF a
<1>8. Len(a) = Len(q) /\ \A i \in 1..Len(a) : a[i] = q[i]
  <2>1. Len(a) = m /\ a[m] = e /\ \A i \in 1..n : a[i] = p[i]
    BY <1>1, <1>5, <1>7
  <2>2. q[m] = e
    BY <1>1, <1>3 DEF e
  <2>3. \A i \in 1..m : i \in 1..n \/ i = m
    BY <1>1
  <2> QED
    BY <1>3, <1>6, <2>1, <2>2, <2>3
<1>9. a = q
  BY <1>6, <1>7, <1>8, SeqEqual
<1> QED
  BY <1>9 DEF a, q, p, e, m

\* What the reader does next.
LogReader(f, l) ==
  LET r == packetlogger_read_packet(f, l.position)
  IN IF r.ok THEN [l EXCEPT !.position = r.next,
                            !.records = Append(@, [type |-> r.type, data |-> r.data])]
             ELSE [l EXCEPT !.stopped = TRUE]

\* The reader takes one record more, or stops where there is none.
LEMMA ReaderGoesOn ==
  ASSUME NEW f \in Seq(Bytes256), NEW s \in Seq(Entries), NEW l, LogState(f, s, l), ~l.stopped
  PROVE  LogState(f, s, LogReader(f, l))
<1> DEFINE c == Len(s)
<1>1. c \in Nat
  BY LenProperties
<1>2. PICK at \in [1..(c + 1) -> Nat] : LogOf(f, s, at) /\ \E n \in 0..c : ReadSoFar(l, s, at, n)
  BY DEF LogState
<1>3. PICK n \in 0..c : ReadSoFar(l, s, at, n)
  BY <1>2
<1>4. n \in Nat /\ n <= c
  BY <1>1
<1> DEFINE records == [i \in 1..n |-> Expected(s[i])]
           from == at[n + 1]
           r == packetlogger_read_packet(f, from)
           k == LogReader(f, l)
<1>5. /\ l = [position |-> from, records |-> records, stopped |-> l.stopped]
      /\ l.stopped \in BOOLEAN
  BY <1>3 DEF ReadSoFar
<1>6. CASE n < c
  <2> DEFINE m == n + 1
             t == s[m]
             to == at[m + 1]
             more == [i \in 1..m |-> Expected(s[i])]
  <2>1. m \in 1..c /\ m \in 0..c
    BY <1>1, <1>4, <1>6
  <2>2. RecordAt(f, t, from, to)
    <3>1. \A i \in 1..c : RecordAt(f, s[i], at[i], at[i + 1])
      BY <1>2 DEF LogOf
    <3> QED
      BY <2>1, <3>1
  <2>3. r.ok /\ r.next = to /\ [type |-> r.type, data |-> r.data] = Expected(t)
    <3> HIDE DEF t, from, to
    <3>1. r.ok /\ r.next = to /\ r.type = Expected(t).type /\ r.data = Expected(t).data
      BY <2>2 DEF RecordAt
    <3> HIDE DEF r
    <3> QED
      BY <3>1 DEF Expected
  <2>4. Append(records, Expected(t)) = more
    BY <1>4, <1>6, OneMoreRead
  <2> HIDE DEF records, from, to, t, more
  <2>5. k = [l EXCEPT !.position = r.next,
                      !.records = Append(@, [type |-> r.type, data |-> r.data])]
    <3>1. l.position = from
      BY <1>5
    <3> QED
      BY <2>3, <3>1 DEF LogReader
  <2> HIDE DEF r, k
  <2>6. k = [position |-> to, records |-> more, stopped |-> FALSE]
    <3>1. l.records = records /\ l.stopped = FALSE
      BY <1>5
    <3>2. k = [l EXCEPT !.position = to, !.records = more]
      BY <2>3, <2>4, <2>5, <3>1
    <3> QED
      BY <1>5, <3>1, <3>2
  <2>7. ReadSoFar(k, s, at, m)
    BY <2>6 DEF ReadSoFar, to, more
  <2> HIDE DEF m
  <2> QED
    BY <1>2, <2>1, <2>7 DEF LogState, k
<1>7. CASE n = c
  <2>1. from = Len(f)
    BY <1>2, <1>7 DEF LogOf
  <2>2. ~r.ok
    BY <2>1, NothingBehind
  <2>3. k = [l EXCEPT !.stopped = TRUE]
    <3>1. l.position = from
      BY <1>5
    <3> QED
      BY <2>2, <3>1 DEF LogReader
  <2> HIDE DEF r, k, records, from
  <2>4. k = [position |-> from, records |-> records, stopped |-> TRUE]
    <3>1. l = [position |-> from, records |-> records, stopped |-> FALSE]
      BY <1>5
    <3> QED
      BY <2>3, <3>1
  <2>5. ReadSoFar(k, s, at, n)
    BY <1>7, <2>4 DEF ReadSoFar, from, records
  <2> QED
    BY <1>2, <2>5 DEF LogState, k
<1> QED
  BY <1>1, <1>4, <1>6, <1>7

-----------------------------------------------------------------------------
(* The invariant.  The log is whole whatever the callback is doing; what   *)
(* it does is needed only so far as it writes to the log, and so that an   *)
(* answer, which is written long after its request, is made of bytes.      *)

LogInv ==
  /\ file \in Seq(Bytes256) /\ traffic \in Seq(Entries)
  /\ LogState(file, traffic, log)
  /\ stage # "closed" => log = NothingRead
CallbackInv ==
  /\ stage \in {"pattern", "attributes", "response"} => packet \in Requests
  /\ stage \in {"pattern", "attributes"} => "state" \in DOMAIN reader
  /\ stage = "response" => writer \in Writers
SentInv == flying \in Seq(Seq(Bytes256)) /\ received \in 0..MaxPackets
SdpInv == LogInv /\ CallbackInv /\ SentInv

\* The program starts with an empty log.
LEMMA InvInit == Init => SdpInv
<1> SUFFICES ASSUME Init PROVE SdpInv
  OBVIOUS
<1>1. LogInv
  <2>1. file = << >> /\ traffic = << >> /\ log = NothingRead
    BY DEF Init, NothingRead
  <2>2. << >> \in Seq(Bytes256) /\ << >> \in Seq(Entries)
    OBVIOUS
  <2> QED
    BY <2>1, <2>2, EmptyLog DEF LogInv
<1>2. CallbackInv
  BY DEF Init, CallbackInv
<1>3. SentInv
  BY SdpAssumption DEF Init, SentInv
<1> QED
  BY <1>1, <1>2, <1>3 DEF SdpInv

\* A packet is logged; a search starts the callback with enough bytes.
LEMMA InvAclInCompleted ==
  ASSUME SdpInv, NEW p \in Packets, AclInCompleted(p)
  PROVE  SdpInv'
<1> DEFINE t == [type |-> "hci_synchronous_data", bytes |-> p.bytes,
                 search |-> IsSearch(p), uuids |-> p.uuids]
<1>1. /\ p.bytes \in Seq(Bytes256) /\ p.sdp \in BOOLEAN
      /\ IsSearch(p) => Len(p.bytes) >= PatternIndex
  BY SdpAssumption
<1>2. t \in Entries
  <2>1. IsSearch(p) \in BOOLEAN
    BY DEF IsSearch
  <2>2. "hci_synchronous_data" \in DOMAIN HciPacketType
    BY DEF HciPacketType
  <2>3. p.uuids \in {q.uuids : q \in Packets} \cup {<< >>}
    OBVIOUS
  <2> QED
    BY <1>1, <2>1, <2>2, <2>3 DEF Entries
<1>3. file' = write_packet(file, t.type, t.bytes) /\ traffic' = Append(traffic, t)
  BY DEF AclInCompleted
<1>4. stage = "idle" /\ stage' # "closed" /\ log' = log /\ log = NothingRead
  BY DEF AclInCompleted, SdpInv, LogInv
<1> HIDE DEF t
<1>5. LogInv'
  <2>1. file \in Seq(Bytes256) /\ traffic \in Seq(Entries) /\ LogState(file, traffic, NothingRead)
    BY <1>4 DEF SdpInv, LogInv
  <2>2. /\ write_packet(file, t.type, t.bytes) \in Seq(Bytes256)
        /\ Append(traffic, t) \in Seq(Entries)
        /\ LogState(write_packet(file, t.type, t.bytes), Append(traffic, t), NothingRead)
    BY <1>2, <2>1, LogStateGrows
  <2> QED
    BY <1>3, <1>4, <2>2 DEF LogInv
<1>6. CallbackInv'
  <2>1. CASE IsSearch(p)
    <3>1. stage' = "pattern" /\ packet' = p.bytes
      BY <2>1 DEF AclInCompleted
    <3>2. p.bytes \in Requests
      BY <1>1, <2>1 DEF Requests
    <3>3. "state" \in DOMAIN reader'
      BY <2>1 DEF AclInCompleted, Reading
    <3> QED
      BY <3>1, <3>2, <3>3 DEF CallbackInv
  <2>2. CASE ~IsSearch(p)
    <3>1. stage' = "idle"
      BY <1>4, <2>2 DEF AclInCompleted
    <3> QED
      BY <3>1 DEF CallbackInv
  <2> QED
    BY <2>1, <2>2
<1>7. SentInv'
  BY SdpAssumption DEF AclInCompleted, SdpInv, SentInv
<1> QED
  BY <1>5, <1>6, <1>7 DEF SdpInv

\* What a completed answer is read back as is made of bytes.
LEMMA ReadBackTyped ==
  ASSUME NEW answer \in Seq(Bytes256), NEW bytes \in ReadBack(answer)
  PROVE  bytes \in Seq(Bytes256)
<1> DEFINE n == Len(answer)
           filled == [k \in 1..n |-> IF k <= 8 THEN answer[k] ELSE 204]
<1>1. n \in Nat /\ DOMAIN answer = 1..n
  OBVIOUS
<1>2. \A k \in 1..n : (IF k <= 8 THEN answer[k] ELSE 204) \in Bytes256
  <2>1. 204 \in Bytes256
    BY DEF Bytes256
  <2>2. \A k \in 1..n : answer[k] \in Bytes256
    OBVIOUS
  <2> QED
    BY <2>1, <2>2
<1> HIDE DEF n
<1>3. filled \in Seq(Bytes256)
  <2>1. filled = [k \in 1..n |-> filled[k]] /\ \A k \in 1..n : filled[k] \in Bytes256
    BY <1>2
  <2> HIDE DEF filled
  <2> QED
    BY <1>1, <2>1, AsSequence
<1>4. << >> \in Seq(Bytes256)
  OBVIOUS
<1> QED
  BY <1>1, <1>3, <1>4 DEF ReadBack

\* It is logged as one packet more.
LEMMA ReadBackLogged ==
  ASSUME SdpInv, AclOutCompleted
  PROVE  \E t \in Entries : /\ file' = write_packet(file, t.type, t.bytes)
                            /\ traffic' = Append(traffic, t)
                            /\ t.type = "hci_synchronous_data"
<1>1. flying \in Seq(Seq(Bytes256)) /\ flying # << >>
  BY DEF AclOutCompleted, SdpInv, SentInv
<1>2. Head(flying) \in Seq(Bytes256)
  BY <1>1, QueueTail
<1>3. PICK bytes \in ReadBack(Head(flying)) :
        /\ file' = write_packet(file, "hci_synchronous_data", bytes)
        /\ traffic' = Append(traffic, [type |-> "hci_synchronous_data", bytes |-> bytes,
                                       search |-> FALSE, uuids |-> << >>])
  BY DEF AclOutCompleted
<1>4. bytes \in Seq(Bytes256)
  BY <1>2, ReadBackTyped
<1> DEFINE t == [type |-> "hci_synchronous_data", bytes |-> bytes, search |-> FALSE,
                 uuids |-> << >>]
<1>5. t \in Entries
  <2>1. "hci_synchronous_data" \in DOMAIN HciPacketType
    BY DEF HciPacketType
  <2>2. << >> \in {q.uuids : q \in Packets} \cup {<< >>}
    OBVIOUS
  <2> QED
    BY <1>4, <2>1, <2>2 DEF Entries
<1>6. t.type = "hci_synchronous_data" /\ t.bytes = bytes
  OBVIOUS
<1> WITNESS t \in Entries
<1> QED
  BY <1>3, <1>6

\* An answer that completes is logged; the callback does nothing else.
LEMMA InvAclOutCompleted ==
  ASSUME SdpInv, AclOutCompleted
  PROVE  SdpInv'
<1>1. PICK t \in Entries : /\ file' = write_packet(file, t.type, t.bytes)
                           /\ traffic' = Append(traffic, t)
  BY ReadBackLogged
<1>2. /\ stage = "idle" /\ stage' = "idle" /\ log' = log /\ log = NothingRead
      /\ received' = received /\ flying' = Tail(flying) /\ flying # << >>
  BY DEF AclOutCompleted, SdpInv, LogInv
<1>3. LogInv'
  <2>1. file \in Seq(Bytes256) /\ traffic \in Seq(Entries) /\ LogState(file, traffic, NothingRead)
    BY <1>2 DEF SdpInv, LogInv
  <2>2. /\ write_packet(file, t.type, t.bytes) \in Seq(Bytes256)
        /\ Append(traffic, t) \in Seq(Entries)
        /\ LogState(write_packet(file, t.type, t.bytes), Append(traffic, t), NothingRead)
    BY <2>1, LogStateGrows
  <2> QED
    BY <1>1, <1>2, <2>2 DEF LogInv
<1>4. CallbackInv'
  BY <1>2 DEF CallbackInv
<1>5. SentInv'
  BY <1>2, QueueTail DEF SdpInv, SentInv
<1> QED
  BY <1>3, <1>4, <1>5 DEF SdpInv

\* A step that does not touch the log, of a program that is not killed.
LEMMA LogLeftAlone ==
  ASSUME SdpInv, stage # "closed", stage' # "closed", UNCHANGED <<file, log, traffic>>
  PROVE  LogInv'
  BY DEF SdpInv, LogInv

\* However the pattern is read, nothing is logged and the request stays.
LEMMA InvReadPattern ==
  ASSUME SdpInv, ReadPattern
  PROVE  SdpInv'
<1> DEFINE r == TurnEnded(BodyRead(HeaderRead(reader)))
<1>1. stage = "pattern" /\ packet \in Requests /\ "state" \in DOMAIN reader
  BY DEF ReadPattern, SdpInv, CallbackInv
<1>2. "state" \in DOMAIN r /\ r.state \in {"threw", "crashed", "reading", "done"}
  BY <1>1, TurnEnds
<1>3. /\ IF r.state # "done"
         THEN /\ reader' = r
              /\ stage' = IF r.state = "reading" THEN stage ELSE r.state
         ELSE /\ stage' = IF FirstUuid(r.nodes) THEN "attributes" ELSE "threw"
              /\ \E root \in {Null, Unset} : reader' = Reading(packet, idx', root)
      /\ packet' = packet /\ UNCHANGED <<file, log, traffic>>
  BY DEF ReadPattern
<1> HIDE DEF r
<1>4. stage' \in {"pattern", "attributes", "threw", "crashed"} /\ "state" \in DOMAIN reader'
  BY <1>1, <1>2, <1>3 DEF Reading
<1>5. LogInv'
  BY <1>1, <1>3, <1>4, LogLeftAlone
<1>6. CallbackInv'
  BY <1>1, <1>3, <1>4 DEF CallbackInv
<1>7. SentInv'
  BY DEF ReadPattern, SdpInv, SentInv
<1> QED
  BY <1>5, <1>6, <1>7 DEF SdpInv

\* Once the attributes are read, the writer starts from the record.
LEMMA InvReadAttributes ==
  ASSUME SdpInv, ReadAttributes
  PROVE  SdpInv'
<1> DEFINE r == TurnEnded(BodyRead(HeaderRead(reader)))
<1>1. stage = "attributes" /\ packet \in Requests /\ "state" \in DOMAIN reader
  BY DEF ReadAttributes, SdpInv, CallbackInv
<1>2. "state" \in DOMAIN r /\ r.state \in {"threw", "crashed", "reading", "done"}
  BY <1>1, TurnEnds
<1>3. /\ reader' = r
      /\ stage' = CASE r.state = "reading" -> stage
                    [] r.state = "done" -> "response"
                    [] OTHER -> r.state
      /\ writer' = IF r.state = "done" THEN Writing(ServiceRecord) ELSE writer
      /\ packet' = packet /\ UNCHANGED <<file, log, traffic>>
  BY DEF ReadAttributes
<1> HIDE DEF r
<1>4. /\ stage' \in {"attributes", "response", "threw", "crashed"}
      /\ stage' = "response" => writer' = Writing(ServiceRecord)
      /\ "state" \in DOMAIN reader'
  BY <1>1, <1>2, <1>3
<1>5. LogInv'
  BY <1>1, <1>3, <1>4, LogLeftAlone
<1>6. CallbackInv'
  BY <1>1, <1>3, <1>4, WritingStarts DEF CallbackInv
<1>7. SentInv'
  BY DEF ReadAttributes, SdpInv, SentInv
<1> QED
  BY <1>5, <1>6, <1>7 DEF SdpInv

\* The answer is bytes when it is logged; before that the log stays as it is.
LEMMA InvWriteResponse ==
  ASSUME SdpInv, WriteResponse
  PROVE  SdpInv'
<1> DEFINE w == serializeSequenceDataElement(writer)
           answer == Response(packet, w.target)
           t == [type |-> "hci_asynchronous_data", bytes |-> answer, search |-> FALSE,
                 uuids |-> << >>]
<1>1. stage = "response" /\ packet \in Requests /\ writer \in Writers
  BY DEF WriteResponse, SdpInv, CallbackInv
<1>2. \/ w.state = "done" /\ w.target \in Written
      \/ w.state = "threw"
      \/ w.state = "writing" /\ w \in Writers
  BY <1>1, WriterTurn
<1>3. /\ writer' = w /\ log' = log /\ received' = received
      /\ w.state = "done" => /\ stage' = "idle" /\ flying' \in {flying, Append(flying, answer)}
                             /\ file' = write_packet(file, t.type, t.bytes)
                             /\ traffic' = Append(traffic, t)
      /\ w.state # "done" => /\ stage' = IF w.state = "threw" THEN "threw" ELSE stage
                             /\ UNCHANGED <<packet, reader, file, flying, traffic>>
  BY DEF WriteResponse
<1>4. CASE w.state = "done"
  <2>1. w.target \in Seq(Bytes256) /\ Len(w.target) <= 256
    <3> HIDE DEF w
    <3> QED
      BY <1>2, <1>4 DEF Written
  <2>2. answer \in Seq(Bytes256)
    <3> HIDE DEF w
    <3> QED
      BY <1>1, <2>1, ResponseTyped
  <2> HIDE DEF answer, w
  <2>3. t \in Entries
    <3>1. "hci_asynchronous_data" \in DOMAIN HciPacketType
      BY DEF HciPacketType
    <3>2. << >> \in {q.uuids : q \in Packets} \cup {<< >>}
      OBVIOUS
    <3> QED
      BY <2>2, <3>1, <3>2 DEF Entries
  <2> HIDE DEF t
  <2>4. LogInv'
    <3>1. /\ file \in Seq(Bytes256) /\ traffic \in Seq(Entries)
          /\ LogState(file, traffic, NothingRead) /\ log = NothingRead
      BY <1>1 DEF SdpInv, LogInv
    <3>2. /\ write_packet(file, t.type, t.bytes) \in Seq(Bytes256)
          /\ Append(traffic, t) \in Seq(Entries)
          /\ LogState(write_packet(file, t.type, t.bytes), Append(traffic, t), NothingRead)
      BY <2>3, <3>1, LogStateGrows
    <3> QED
      BY <1>3, <1>4, <3>1, <3>2 DEF LogInv
  <2>5. CallbackInv'
    BY <1>3, <1>4 DEF CallbackInv
  <2>6. SentInv'
    <3>1. flying \in Seq(Seq(Bytes256)) /\ received' = received
      BY <1>3 DEF SdpInv, SentInv
    <3>2. Append(flying, answer) \in Seq(Seq(Bytes256))
      BY <2>2, <3>1, QueueAppend
    <3> QED
      BY <1>3, <1>4, <3>1, <3>2 DEF SdpInv, SentInv
  <2> QED
    BY <2>4, <2>5, <2>6 DEF SdpInv
<1>5. CASE w.state # "done"
  <2> HIDE DEF w, t
  <2>1. stage' \in {"threw", "response"}
    BY <1>1, <1>3, <1>5
  <2>2. LogInv'
    BY <1>1, <1>3, <1>5, <2>1, LogLeftAlone
  <2>3. stage' = "response" => writer' \in Writers
    BY <1>2, <1>3, <1>5
  <2>4. CallbackInv'
    BY <1>1, <1>3, <1>5, <2>1, <2>3 DEF CallbackInv
  <2>5. SentInv'
    BY <1>3, <1>5 DEF SdpInv, SentInv
  <2> QED
    BY <2>2, <2>4, <2>5 DEF SdpInv
<1> QED
  BY <1>4, <1>5

\* The end of the program leaves the log as it is.
LEMMA InvKilled ==
  ASSUME SdpInv, Killed
  PROVE  SdpInv'
  BY DEF SdpInv, LogInv, CallbackInv, SentInv, Killed

\* A step of the log's reader.
LEMMA InvReadLog ==
  ASSUME SdpInv, ReadLog
  PROVE  SdpInv'
<1>1. stage = "closed" /\ stage' = "closed" /\ ~log.stopped /\ file' = file /\ traffic' = traffic
  BY DEF ReadLog
<1>2. log' = LogReader(file, log)
  BY DEF ReadLog, LogReader
<1>3. file \in Seq(Bytes256) /\ traffic \in Seq(Entries) /\ LogState(file, traffic, log)
  BY DEF SdpInv, LogInv
<1>4. LogState(file, traffic, LogReader(file, log))
  BY <1>1, <1>3, ReaderGoesOn
<1>5. LogInv'
  BY <1>1, <1>2, <1>3, <1>4 DEF LogInv
<1>6. CallbackInv'
  BY <1>1 DEF CallbackInv
<1>7. SentInv'
  BY DEF ReadLog, SdpInv, SentInv
<1> QED
  BY <1>5, <1>6, <1>7 DEF SdpInv

\* The invariant holds in every run.
LEMMA SdpKept == Spec => []SdpInv
<1>1. SdpInv /\ [Next]_vars => SdpInv'
  <2> SUFFICES ASSUME SdpInv, [Next]_vars PROVE SdpInv'
    OBVIOUS
  <2>1. ASSUME NEW p \in Packets, AclInCompleted(p) PROVE SdpInv'
    BY <2>1, InvAclInCompleted
  <2>2. CASE Program
    BY <2>2, InvReadPattern, InvReadAttributes, InvWriteResponse DEF Program
  <2>3. CASE Killed
    BY <2>3, InvKilled
  <2>4. CASE ReadLog
    BY <2>4, InvReadLog
  <2>5. CASE UNCHANGED vars
    BY <2>5 DEF vars, server, SdpInv, LogInv, CallbackInv, SentInv
  <2>6. CASE AclOutCompleted
    BY <2>6, InvAclOutCompleted
  <2> QED
    BY <2>1, <2>2, <2>3, <2>4, <2>5, <2>6 DEF Next
<1> QED
  BY <1>1, InvInit, PTL DEF Spec

\* Whatever packets come, whatever becomes of the requests among them and whenever the
\* program is killed: a reader that stops has every packet that was logged, in order and
\* with its type (write_packet, packetlogger_read_packet).
THEOREM LogIsReadBack == Spec => []LogReadsBack
<1>1. SdpInv => LogReadsBack
  <2> SUFFICES ASSUME SdpInv, log.stopped
               PROVE  log.records = [i \in DOMAIN traffic |-> Expected(traffic[i])]
    BY DEF LogReadsBack, Expected
  <2>1. PICK at \in [1..(Len(traffic) + 1) -> Nat] :
          \E n \in 0..Len(traffic) : ReadSoFar(log, traffic, at, n)
    BY DEF SdpInv, LogInv, LogState
  <2>2. PICK n \in 0..Len(traffic) : ReadSoFar(log, traffic, at, n)
    BY <2>1
  <2>3. DOMAIN traffic = 1..Len(traffic) /\ n = Len(traffic)
    BY <2>2, LenProperties DEF SdpInv, LogInv, ReadSoFar
  <2>4. log.records = [i \in 1..n |-> Expected(traffic[i])]
    BY <2>2 DEF ReadSoFar
  <2> QED
    BY <2>3, <2>4
<1> QED
  BY <1>1, SdpKept, PTL

-----------------------------------------------------------------------------
(* Reading, turn by turn.  The nodes as the reader makes them, and its     *)
(* state by its parts.                                                     *)

ReadTypes == {"unknown", "sequence", "uuid", "uint"}
ReadNodes == [type : ReadTypes, size : Bytes256, parent : Int, start_index : Bytes256,
              value : Seq(Bytes256)]
State(data, start, consumed, size, nodes, current, state) ==
  [data |-> data, start |-> start, consumed |-> consumed, size |-> size, nodes |-> nodes,
   current |-> current, state |-> state]

\* One part changes and the others stay.
LEMMA StateParts ==
  ASSUME NEW data, NEW start, NEW consumed, NEW size, NEW nodes, NEW current, NEW state,
         NEW x
  PROVE  LET r == State(data, start, consumed, size, nodes, current, state)
         IN /\ [r EXCEPT !.consumed = x] = State(data, start, x, size, nodes, current, state)
            /\ [r EXCEPT !.size = x] = State(data, start, consumed, x, nodes, current, state)
            /\ [r EXCEPT !.nodes = x] = State(data, start, consumed, size, x, current, state)
            /\ [r EXCEPT !.current = x] = State(data, start, consumed, size, nodes, x, state)
            /\ [r EXCEPT !.state = x] = State(data, start, consumed, size, nodes, current, x)
            /\ r.data = data /\ r.start = start /\ r.consumed = consumed /\ r.size = size
            /\ r.nodes = nodes /\ r.current = current /\ r.state = state
  BY DEF State

LEMMA FiveParts ==
  ASSUME NEW S, NEW T, NEW U, NEW V, NEW W,
         NEW n \in [type : S, size : T, parent : U, start_index : V, value : W]
  PROVE  \A x : [n EXCEPT !.type = x] = [type |-> x, size |-> n.size, parent |-> n.parent,
                                       start_index |-> n.start_index, value |-> n.value]
  OBVIOUS

\* A header is entered into the current node.
Entered(ns, c, t, s, p) == [ns EXCEPT ![c].type = t, ![c].size = s, ![c].start_index = p]
LEMMA HeaderEntered ==
  ASSUME NEW ns \in Seq(ReadNodes), NEW c \in DOMAIN ns, NEW t, NEW s, NEW p
  PROVE  Entered(ns, c, t, s, p)
           = [ns EXCEPT ![c] = [type |-> t, size |-> s, parent |-> ns[c].parent,
                                start_index |-> p, value |-> ns[c].value]]
<1> DEFINE n == ns[c]
<1>1. n \in ReadNodes
  OBVIOUS
<1>2. [n EXCEPT !.type = t, !.size = s, !.start_index = p]
        = [type |-> t, size |-> s, parent |-> n.parent, start_index |-> p, value |-> n.value]
  <2> DEFINE a == [n EXCEPT !.type = t]
             b == [a EXCEPT !.size = s]
  <2>1. a = [type |-> t, size |-> n.size, parent |-> n.parent,
             start_index |-> n.start_index, value |-> n.value]
    <3>1. n \in [type : ReadTypes, size : Bytes256, parent : Int, start_index : Bytes256,
                value : Seq(Bytes256)]
      BY <1>1 DEF ReadNodes
    <3> DEFINE B == Seq(Bytes256)
    <3> HIDE DEF n, B
    <3> QED
      BY <3>1, FiveParts
  <2>2. [n EXCEPT !.type = t, !.size = s, !.start_index = p] = [b EXCEPT !.start_index = p]
    OBVIOUS
  <2> HIDE DEF a
  <2>3. b = [type |-> t, size |-> s, parent |-> n.parent,
             start_index |-> n.start_index, value |-> n.value]
    BY <2>1
  <2> HIDE DEF b
  <2> QED
    BY <2>2, <2>3
<1>3. Entered(ns, c, t, s, p)
        = [ns EXCEPT ![c] = [n EXCEPT !.type = t, !.size = s, !.start_index = p]]
  <2> DEFINE S == ReadNodes
  <2>1. ns \in Seq(S) /\ c \in DOMAIN ns
    OBVIOUS
  <2> HIDE DEF S
  <2> QED
    BY <2>1 DEF Entered
<1> QED
  BY <1>2, <1>3

\* A turn is about to read a header into node c.
AtHeader(r, data, start, consumed, size, ns, c, state) ==
  /\ ns \in Seq(ReadNodes) /\ c \in DOMAIN ns
  /\ WithChild(r) = State(data, start, consumed, size, ns, c, state)
  /\ r.data = data /\ r.start = start /\ r.consumed = consumed

\* And what the state is when it has.
AfterHeader(data, start, consumed, size, ns, c, state) ==
  LET at == Octet(start + consumed)
      h == readDataElementHeader(data, at)
  IN State(data, start, Octet(consumed + h.used),
           IF size = -1 THEN DataSize(h.type, h.size) ELSE size,
           [ns EXCEPT ![c] = [type |-> h.type, size |-> h.size, parent |-> ns[c].parent,
                              start_index |-> at, value |-> ns[c].value]],
           c, state)

LEMMA HeaderTurn ==
  ASSUME NEW r, NEW data, NEW start, NEW consumed, NEW size, NEW ns, NEW c, NEW state,
         AtHeader(r, data, start, consumed, size, ns, c, state),
         readDataElementHeader(data, Octet(start + consumed)).type # "unknown"
  PROVE  HeaderRead(r) = AfterHeader(data, start, consumed, size, ns, c, state)
<1> DEFINE at == Octet(start + consumed)
           h == readDataElementHeader(data, at)
<1> DEFINE w == WithChild(r)
           o == Octet(consumed + h.used)
           z == IF size = -1 THEN DataSize(h.type, h.size) ELSE size
           t == h.type
           s == h.size
           m1 == [ns EXCEPT ![c].type = t]
           m2 == [m1 EXCEPT ![c].size = s]
           m3 == [m2 EXCEPT ![c].start_index = at]
           x1 == [w EXCEPT !.nodes[c].type = t]
           x2 == [x1 EXCEPT !.nodes[c].size = s]
           x3 == [x2 EXCEPT !.nodes[c].start_index = at]
           x4 == [x3 EXCEPT !.consumed = o]
           x5 == [x4 EXCEPT !.size = z]
<1>0. ns \in Seq(ReadNodes) /\ c \in DOMAIN ns
  BY DEF AtHeader
<1>1. /\ w = State(data, start, consumed, size, ns, c, state)
      /\ w.nodes = ns /\ w.current = c /\ w.consumed = consumed /\ w.size = size
  <2>1. w = State(data, start, consumed, size, ns, c, state)
    BY DEF AtHeader
  <2> HIDE DEF w
  <2> QED
    BY <2>1, StateParts
<1>2. HeaderRead(r) = [w EXCEPT !.nodes[w.current].type = IF t = "unknown" THEN @ ELSE t,
                                !.nodes[w.current].size = s,
                                !.nodes[w.current].start_index = at,
                                !.consumed = Octet(@ + h.used),
                                !.size = IF @ = -1 THEN DataSize(t, s) ELSE @]
  BY DEF HeaderRead, AtHeader
<1> HIDE DEF w
<1>3. HeaderRead(r) = x5
  <2>1. HeaderRead(r) = [w EXCEPT !.nodes[c].type = t, !.nodes[c].size = s,
                                  !.nodes[c].start_index = at, !.consumed = o, !.size = z]
    BY <1>1, <1>2
  <2> QED
    BY <2>1
<1> HIDE DEF t, s, o, z
<1>4. x1 = State(data, start, consumed, size, m1, c, state) /\ x1.nodes = m1
  <2>1. x1 = [w EXCEPT !.nodes = m1]
    BY <1>1
  <2> HIDE DEF x1, m1
  <2> QED
    BY <1>1, <2>1, StateParts
<1>5. x2 = State(data, start, consumed, size, m2, c, state) /\ x2.nodes = m2
  <2> HIDE DEF x1, m1
  <2>1. x2 = [x1 EXCEPT !.nodes = m2]
    BY <1>4
  <2> HIDE DEF x2, m2
  <2> QED
    BY <1>4, <2>1, StateParts
<1>6. x3 = State(data, start, consumed, size, m3, c, state)
  <2> HIDE DEF x2, m2
  <2>1. x3 = [x2 EXCEPT !.nodes = m3]
    BY <1>5
  <2> HIDE DEF x3, m3
  <2> QED
    BY <1>5, <2>1, StateParts
<1> HIDE DEF x3
<1>7. x4 = State(data, start, o, size, m3, c, state)
  <2> HIDE DEF m3
  <2> QED
    BY <1>6, StateParts
<1> HIDE DEF x4
<1>8. x5 = State(data, start, o, z, m3, c, state)
  <2> HIDE DEF m3
  <2> QED
    BY <1>7, StateParts
<1> HIDE DEF x5
<1>9. m3 = [ns EXCEPT ![c] = [type |-> t, size |-> s, parent |-> ns[c].parent,
                              start_index |-> at, value |-> ns[c].value]]
  <2>1. m3 = Entered(ns, c, t, s, at)
    BY DEF Entered
  <2>2. ns \in Seq(ReadNodes) /\ c \in DOMAIN ns
    BY <1>0
  <2> HIDE DEF m3
  <2>3. Entered(ns, c, t, s, at)
          = [ns EXCEPT ![c] = [type |-> t, size |-> s, parent |-> ns[c].parent,
                               start_index |-> at, value |-> ns[c].value]]
    BY <2>2, HeaderEntered
  <2> QED
    BY <2>1, <2>3
<1> HIDE DEF m3
<1>10. AfterHeader(data, start, consumed, size, ns, c, state) =
         State(data, start, o, z,
               [ns EXCEPT ![c] = [type |-> t, size |-> s, parent |-> ns[c].parent,
                                  start_index |-> at, value |-> ns[c].value]], c, state)
  BY DEF AfterHeader, o, z, t, s
<1> QED
  BY <1>3, <1>8, <1>9, <1>10

\* A whole turn, as ReadPattern and ReadAttributes take it.
Turn(r) == TurnEnded(BodyRead(HeaderRead(r)))

\* A byte stays as it is.
LEMMA OctetOfByte ==
  ASSUME NEW n \in Nat, n < 256
  PROVE  Octet(n) = n /\ n \in Bytes256
  BY DEF Octet, Bytes256

\* The end of a turn in which no sequence is taken to be finished.
LEMMA TurnStays ==
  ASSUME NEW r, NEW data, NEW start, NEW consumed \in Nat, NEW size \in Nat, NEW ns,
         r = State(data, start, consumed, size, ns, 1, "reading"),
         ns[1].type = "sequence" => ~(consumed >= ns[1].start_index + ns[1].size)
  PROVE  TurnEnded(r) = State(data, start, consumed, size, ns, 1,
                              IF consumed < size THEN "reading" ELSE "done")
<1> DEFINE more == consumed < size
<1>1. /\ r.nodes = ns /\ r.current = 1 /\ r.consumed = consumed /\ r.size = size
      /\ r.state = "reading"
  BY StateParts
<1>2. ~Finished(r)
  BY <1>1 DEF Finished
<1>3. r.current # Unset
  BY <1>1 DEF Unset
<1>4. TurnEnded(r) = [r EXCEPT !.state = IF more THEN "reading" ELSE "done"]
  BY <1>1, <1>2, <1>3 DEF TurnEnded
<1> HIDE DEF more
<1>5. [r EXCEPT !.state = IF more THEN "reading" ELSE "done"]
        = State(data, start, consumed, size, ns, 1, IF more THEN "reading" ELSE "done")
  BY StateParts
<1> QED
  BY <1>4, <1>5 DEF more

\* The root: the header of a sequence.
RootNode(root, size, from) ==
  [type |-> "sequence", size |-> size, parent |-> root, start_index |-> from, value |-> << >>]

LEMMA FirstTurn ==
  ASSUME NEW data, NEW from \in Nat, 4 < from, from < 256, NEW root \in {Null, Unset},
         NEW size \in Nat, NEW used \in Nat, used <= 4,
         NEW h, h = readDataElementHeader(data, from),
         h.type = "sequence", h.size = size, h.used = used
  PROVE  Turn(Reading(data, from, root)) =
           State(data, from, used, size + 2, <<RootNode(root, size, from)>>, 1,
                 IF used < size + 2 THEN "reading" ELSE "done")
<1> DEFINE r == Reading(data, from, root)
           ns == <<Node("unknown", 0, root)>>
           ms == <<RootNode(root, size, from)>>
           hr == HeaderRead(r)
<1>1. r = State(data, from, 0, -1, ns, 1, "reading")
  BY DEF Reading, State
<1>2. r.data = data /\ r.start = from /\ r.consumed = 0 /\ r.nodes = ns /\ r.current = 1
  BY DEF Reading
<1>3. ns[1].type # "sequence"
  BY DEF Node
<1>4. WithChild(r) = State(data, from, 0, -1, ns, 1, "reading")
  <2> HIDE DEF ns
  <2> QED
    BY <1>1, <1>2, <1>3 DEF WithChild
<1>5. ns \in Seq(ReadNodes) /\ 1 \in DOMAIN ns
  <2>1. Node("unknown", 0, root) \in ReadNodes
    <3>1. "unknown" \in ReadTypes /\ 0 \in Bytes256 /\ << >> \in Seq(Bytes256)
          /\ root \in Int
      BY DEF ReadTypes, Bytes256, Null, Unset
    <3> QED
      BY <3>1 DEF Node, ReadNodes
  <2> QED
    BY <2>1
<1>6. Octet(from + 0) = from /\ Octet(0 + used) = used
  BY OctetOfByte
<1>7. [ns EXCEPT ![1] = [type |-> "sequence", size |-> size, parent |-> ns[1].parent,
                         start_index |-> from, value |-> ns[1].value]] = ms
  BY DEF Node, RootNode
<1>8. DataSize(h.type, h.size) = size + 2
  BY DEF DataSize
<1> HIDE DEF r, ns, ms, hr
<1>9. hr = State(data, from, used, size + 2, ms, 1, "reading")
  <2> DEFINE at0 == Octet(from + 0)
             h0 == readDataElementHeader(data, at0)
  <2>1. at0 = from /\ h0.type = "sequence" /\ h0.size = size /\ h0.used = used
    BY <1>6
  <2>2. hr = State(data, from, Octet(0 + h0.used),
                   IF -1 = -1 THEN DataSize(h0.type, h0.size) ELSE -1,
                   [ns EXCEPT ![1] = [type |-> h0.type, size |-> h0.size,
                                      parent |-> ns[1].parent,
                                      start_index |-> at0, value |-> ns[1].value]],
                   1, "reading")
    <3>1. h0.type # "unknown"
      BY <2>1
    <3>2. AtHeader(r, data, from, 0, -1, ns, 1, "reading")
      BY <1>2, <1>4, <1>5 DEF AtHeader
    <3>3. hr = AfterHeader(data, from, 0, -1, ns, 1, "reading")
      BY <3>1, <3>2, HeaderTurn DEF hr
    <3> QED
      BY <3>3 DEF AfterHeader
  <2>3. DataSize(h0.type, h0.size) = size + 2
    BY <1>8, <2>1
  <2> QED
    BY <1>6, <1>7, <2>1, <2>2, <2>3
<1>10. ms[1].type = "sequence" /\ ms[1].start_index = from /\ ms[1].size = size
  BY DEF ms, RootNode
<1>11. BodyRead(hr) = hr
  <2>1. hr.nodes = ms /\ hr.current = 1
    BY <1>9, StateParts
  <2> QED
    BY <1>10, <2>1 DEF BodyRead
<1>12. TurnEnded(hr) = State(data, from, used, size + 2, ms, 1,
                             IF used < size + 2 THEN "reading" ELSE "done")
  <2>1. used \in Nat /\ size + 2 \in Nat
    OBVIOUS
  <2>2. ms[1].type = "sequence" => ~(used >= ms[1].start_index + ms[1].size)
    BY <1>10
  <2> QED
    BY <1>9, <2>1, <2>2, TurnStays
<1> QED
  BY <1>11, <1>12 DEF Turn, hr, r, ms

\* An element behind the header of the root, read into a node of its own.
Value(data, type, first, width) ==
  LastBytes(IF type = "uint" THEN 4 ELSE 2, [k \in 1..width |-> At(data, first + k - 1)])
Leaf(data, type, from, width) ==
  [type |-> type, size |-> width, parent |-> 1, start_index |-> from,
   value |-> Value(data, type, from + 1, width)]

\* The last node of a list is replaced.
LEMMA LastReplaced ==
  ASSUME NEW S, NEW s \in Seq(S), NEW a \in S, NEW b \in S
  PROVE  [Append(s, a) EXCEPT ![Len(s) + 1] = b] = Append(s, b)
<1> DEFINE t == Append(s, a)
           u == [t EXCEPT ![Len(s) + 1] = b]
           v == Append(s, b)
<1>1. t \in Seq(S) /\ Len(t) = Len(s) + 1 /\ \A i \in 1..Len(s) : t[i] = s[i]
  BY QueueAppend
<1>2. v \in Seq(S) /\ Len(v) = Len(s) + 1 /\ (\A i \in 1..Len(s) : v[i] = s[i])
      /\ v[Len(s) + 1] = b
  BY QueueAppend
<1> HIDE DEF t, v
<1>3. u \in Seq(S) /\ Len(u) = Len(s) + 1 /\ \A i \in 1..(Len(s) + 1) : u[i] = v[i]
  BY <1>1, <1>2
<1> HIDE DEF u
<1>4. u = v
  BY <1>2, <1>3, SeqEqual
<1> QED
  BY <1>4 DEF u, v, t

LEMMA ValueEntered ==
  ASSUME NEW t, NEW s, NEW p, NEW i, NEW x, NEW y
  PROVE  [[type |-> t, size |-> s, parent |-> p, start_index |-> i, value |-> x] EXCEPT !.value = y]
           = [type |-> t, size |-> s, parent |-> p, start_index |-> i, value |-> y]
  OBVIOUS

\* What a header says.
HeaderIs(data, at, type, size, used) ==
  LET h == readDataElementHeader(data, at)
  IN h.type = type /\ h.size = size /\ h.used = used

\* A turn is about to read an element that ends before the sequence is taken to.
AtElement(data, start, consumed, size, ns, type, width) ==
  /\ start \in Nat /\ consumed \in Nat /\ size \in Nat /\ width \in Nat
  /\ ns \in Seq(ReadNodes) /\ 1 \in DOMAIN ns /\ ns[1].type = "sequence"
  /\ type \in {"uint", "uuid"} /\ HeaderIs(data, start + consumed, type, width, 1)
  /\ start + (consumed + 1 + width) < 256
  /\ consumed + 1 + width < ns[1].start_index + ns[1].size

LEMMA NextTurn ==
  ASSUME NEW data, NEW start, NEW consumed, NEW size, NEW ns, NEW type, NEW width,
         AtElement(data, start, consumed, size, ns, type, width)
  PROVE  LET end == consumed + 1 + width
         IN Turn(State(data, start, consumed, size, ns, 1, "reading")) =
              State(data, start, end, size, Append(ns, Leaf(data, type, start + consumed, width)),
                    1, IF end < size THEN "reading" ELSE "done")
<1> DEFINE at == start + consumed
           end == consumed + 1 + width
           r == State(data, start, consumed, size, ns, 1, "reading")
           c == Len(ns) + 1
           new == Node("unknown", 0, 1)
           wide == Append(ns, new)
           hr == HeaderRead(r)
           node == [type |-> type, size |-> width, parent |-> 1, start_index |-> at,
                    value |-> << >>]
           ms == [wide EXCEPT ![c] = node]
           value == Value(data, type, at + 1, width)
           leaf == Leaf(data, type, at, width)
           ls == Append(ns, leaf)
<1>a. /\ start \in Nat /\ consumed \in Nat /\ size \in Nat /\ width \in Nat
      /\ at \in Nat /\ end \in Nat /\ start + end < 256
  BY DEF AtElement
<1>b. ns \in Seq(ReadNodes) /\ 1 \in DOMAIN ns /\ ns[1].type = "sequence"
  BY DEF AtElement
<1>c. type \in {"uint", "uuid"} /\ HeaderIs(data, at, type, width, 1)
  BY DEF AtElement
<1>d. end < ns[1].start_index + ns[1].size
  BY DEF AtElement
<1>1. /\ r.data = data /\ r.start = start /\ r.consumed = consumed /\ r.nodes = ns
      /\ r.current = 1 /\ r.size = size
  BY StateParts
<1>2. new \in ReadNodes
  <2>1. "unknown" \in ReadTypes /\ 0 \in Bytes256 /\ << >> \in Seq(Bytes256)
        /\ 1 \in Int
    BY DEF ReadTypes, Bytes256
  <2> QED
    BY <2>1 DEF Node, ReadNodes
<1>3. new.parent = 1 /\ new.value = << >>
  BY DEF Node
<1> HIDE DEF new
<1>4. /\ wide \in Seq(ReadNodes) /\ c \in DOMAIN wide /\ wide[c] = new /\ DOMAIN wide = 1..c
      /\ Len(wide) = c /\ c \in Nat /\ c > 1 /\ \A i \in DOMAIN ns : wide[i] = ns[i]
      /\ DOMAIN ns = 1..(c - 1) /\ Len(ns) = c - 1 /\ Len(ns) \in Nat
  <2>1. /\ wide \in Seq(ReadNodes) /\ Len(wide) = Len(ns) + 1
        /\ DOMAIN wide = 1..(Len(ns) + 1) /\ DOMAIN ns = 1..Len(ns)
        /\ \A i \in DOMAIN ns : wide[i] = ns[i]
        /\ wide[Len(ns) + 1] = new
    BY <1>2, <1>b, QueueAppend
  <2>2. Len(ns) \in Nat
    BY <1>b, LenProperties
  <2>3. Len(ns) > 0
    BY <1>b, <2>1, <2>2
  <2> HIDE DEF wide
  <2> QED
    BY <2>1, <2>2, <2>3
<1>5. WithChild(r) = State(data, start, consumed, size, wide, c, "reading")
  <2>1. WithChild(r) = [r EXCEPT !.nodes = Append(@, Node("unknown", 0, 1)),
                                 !.current = Len(ns) + 1]
    BY <1>1, <1>b DEF WithChild
  <2> DEFINE q == [r EXCEPT !.nodes = wide]
  <2>2. WithChild(r) = [q EXCEPT !.current = c]
    BY <1>1, <2>1 DEF new
  <2> HIDE DEF wide, c
  <2>3. q = State(data, start, consumed, size, wide, 1, "reading")
    BY StateParts
  <2> HIDE DEF q
  <2>4. [q EXCEPT !.current = c] = State(data, start, consumed, size, wide, c, "reading")
    BY <2>3, StateParts
  <2> QED
    BY <2>2, <2>4
<1>6. Octet(at) = at /\ Octet(consumed + 1) = consumed + 1
      /\ Octet((consumed + 1) + width) = end
      /\ Octet(start + (consumed + 1)) = at + 1
      /\ at \in Bytes256
  BY <1>a, OctetOfByte
<1> HIDE DEF wide, c
<1>7. hr = State(data, start, consumed + 1, size, ms, c, "reading")
  <2> HIDE DEF r, ms, hr
  <2> DEFINE at0 == Octet(start + consumed)
             h0 == readDataElementHeader(data, at0)
  <2>1. at = at0 /\ h0.type = type /\ h0.size = width /\ h0.used = 1
    BY <1>6, <1>c DEF HeaderIs
  <2>2. hr = State(data, start, Octet(consumed + h0.used),
                   IF size = -1 THEN DataSize(h0.type, h0.size) ELSE size,
                   [wide EXCEPT ![c] = [type |-> h0.type, size |-> h0.size,
                                        parent |-> wide[c].parent,
                                        start_index |-> at0, value |-> wide[c].value]],
                   c, "reading")
    <3>1. wide \in Seq(ReadNodes) /\ c \in DOMAIN wide
      BY <1>4
    <3>2. h0.type # "unknown"
      BY <1>c, <2>1
    <3>3. r.data = data /\ r.start = start /\ r.consumed = consumed
      BY <1>1
    <3>4. AtHeader(r, data, start, consumed, size, wide, c, "reading")
      BY <1>5, <3>1, <3>3 DEF AtHeader
    <3>5. hr = AfterHeader(data, start, consumed, size, wide, c, "reading")
      BY <3>2, <3>4, HeaderTurn DEF hr
    <3> QED
      BY <3>5 DEF AfterHeader
  <2>3. size # -1
    BY <1>a
  <2> QED
    BY <1>3, <1>4, <1>6, <2>1, <2>2, <2>3 DEF ms
<1> HIDE DEF r, hr
<1>8. /\ ms[c] = node /\ hr.nodes = ms /\ hr.current = c /\ hr.start = start
      /\ hr.consumed = consumed + 1 /\ hr.data = data
  <2>1. ms[c] = node
    BY <1>4
  <2> HIDE DEF ms, node
  <2> QED
    BY <1>7, <2>1, StateParts
<1>9. readDataElementBody(data, at + 1, node) = value
  <2>1. node.type = type /\ node.size = width
    OBVIOUS
  <2> HIDE DEF node
  <2>3. CASE type = "uint"
    BY <2>1, <2>3 DEF readDataElementBody, Value
  <2>4. CASE type = "uuid"
    BY <2>1, <2>4 DEF readDataElementBody, Value
  <2> QED
    BY <1>c, <2>3, <2>4
<1>10. ls = [ms EXCEPT ![c].value = value]
  <2>1. [node EXCEPT !.value = value] = leaf
    <3>1. leaf = [type |-> type, size |-> width, parent |-> 1, start_index |-> at, value |-> value]
      BY DEF Leaf
    <3> HIDE DEF value, leaf
    <3> QED
      BY <3>1, ValueEntered
  <2>2. [ms EXCEPT ![c].value = value] = [wide EXCEPT ![c] = leaf]
    BY <1>4, <2>1
  <2> DEFINE S == ReadNodes \cup {leaf}
  <2> HIDE DEF node, leaf
  <2>3. ns \in Seq(S) /\ new \in S /\ leaf \in S
    <3>1. \A i \in 1..Len(ns) : ns[i] \in S
      BY <1>b
    <3> HIDE DEF S
    <3>2. ns \in Seq(S)
      BY <1>b, <3>1, <1>4
    <3> QED
      BY <1>2, <3>2 DEF S
  <2> HIDE DEF S
  <2>4. [Append(ns, new) EXCEPT ![Len(ns) + 1] = leaf] = Append(ns, leaf)
    BY <2>3, LastReplaced
  <2> QED
    BY <2>2, <2>4 DEF wide, c
<1> HIDE DEF value, ls
<1> DEFINE b == BodyRead(hr)
<1>11. b = State(data, start, end, size, ls, 1, "reading")
  <2> DEFINE x == [hr EXCEPT !.nodes = ls]
             y == [x EXCEPT !.consumed = end]
             full == [hr EXCEPT !.nodes[c].value = value, !.consumed = Octet(@ + width)]
  <2>1. node.type = type /\ node.size = width
    OBVIOUS
  <2>2. b = ToParent(full)
    <3>1. readDataElementBody(hr.data, Octet(hr.start + hr.consumed), hr.nodes[hr.current]) = value
      BY <1>6, <1>8, <1>9
    <3>2. hr.nodes[hr.current] = node
      BY <1>8
    <3> HIDE DEF node, ms, full
    <3>3. type # "unknown" /\ type # "sequence"
      BY <1>c
    <3>4. b = ToParent([hr EXCEPT !.nodes[hr.current].value = value,
                                  !.consumed = Octet(@ + node.size)])
      BY <2>1, <3>1, <3>2, <3>3 DEF BodyRead
    <3> QED
      BY <1>8, <2>1, <3>4 DEF full
  <2>3. full = y
    <3> DEFINE f == [hr EXCEPT !.nodes[c].value = value]
    <3>0. f = [hr EXCEPT !.nodes = [ms EXCEPT ![c].value = value]]
      BY <1>8
    <3>1. f = x
      BY <1>10, <3>0
    <3>2. full = [f EXCEPT !.consumed = Octet(hr.consumed + width)]
      OBVIOUS
    <3> HIDE DEF f, full, x
    <3> QED
      BY <1>6, <1>8, <3>1, <3>2
  <2> HIDE DEF full, ms, node
  <2>4. x = State(data, start, consumed + 1, size, ls, c, "reading")
    BY <1>7, StateParts
  <2> HIDE DEF x
  <2>5. y = State(data, start, end, size, ls, c, "reading")
    <3> DEFINE m == consumed + 1
               e == end
    <3>1. x = State(data, start, m, size, ls, c, "reading")
      BY <2>4
    <3> HIDE DEF m, e
    <3>2. [State(data, start, m, size, ls, c, "reading") EXCEPT !.consumed = e]
            = State(data, start, e, size, ls, c, "reading")
      BY StateParts
    <3> QED
      BY <3>1, <3>2 DEF e
  <2> HIDE DEF y
  <2>6. y.nodes[y.current].parent = 1
    <3>1. ls[c].parent = 1
      <4>1. ls[c] = leaf
        <5>1. Leaf(data, type, at, width) = leaf
          OBVIOUS
        <5> HIDE DEF leaf
        <5> QED
          BY <1>4 DEF ls
      <4> QED
        BY <4>1 DEF Leaf
    <3> QED
      BY <2>5, <3>1, StateParts
  <2>7. ToParent(y) = [y EXCEPT !.current = 1]
    BY <2>6 DEF ToParent, Null
  <2>8. [y EXCEPT !.current = 1] = State(data, start, end, size, ls, 1, "reading")
    BY <2>5, StateParts
  <2> HIDE DEF b
  <2> QED
    BY <2>2, <2>3, <2>7, <2>8
<1>12. ls[1].type = "sequence" /\ ls[1] = ns[1]
  <2> HIDE DEF leaf
  <2>1. ls[1] = ns[1]
    BY <1>4, <1>b DEF ls
  <2> QED
    BY <1>b, <2>1
<1> HIDE DEF b
<1>13. TurnEnded(b) = State(data, start, end, size, ls, 1,
                            IF end < size THEN "reading" ELSE "done")
  <2>1. ns[1].start_index \in Int /\ ns[1].size \in Int
    <3>1. ns[1] \in ReadNodes
      BY <1>b
    <3>2. ns[1].start_index \in Bytes256 /\ ns[1].size \in Bytes256
      BY <3>1 DEF ReadNodes
    <3>3. \A m \in Bytes256 : m \in Int
      BY DEF Bytes256
    <3> QED
      BY <3>2, <3>3
  <2>2. ~(end >= ls[1].start_index + ls[1].size)
    BY <1>12, <1>a, <1>d, <2>1
  <2>3. end \in Nat /\ size \in Nat
    BY <1>a
  <2> HIDE DEF ls, end
  <2> QED
    BY <1>11, <2>2, <2>3, TurnStays
<1> QED
  BY <1>13 DEF Turn, b, hr, r, ls

-----------------------------------------------------------------------------
(* What a request that follows the standard looks like to the reader.      *)

\* The type a byte stands for.
LEMMA TypeOfCode ==
  ASSUME NEW type \in DOMAIN Code, NEW b \in Nat, b \div 8 = Code[type]
  PROVE  /\ {t \in DOMAIN Code : Code[t] = b \div 8} # {}
         /\ (CHOOSE t \in {t \in DOMAIN Code : Code[t] = b \div 8} : TRUE) = type
<1>1. {t \in DOMAIN Code : Code[t] = b \div 8} = {type}
  BY DEF Code
<1>2. (CHOOSE t \in {type} : TRUE) = type
  OBVIOUS
<1> QED
  BY <1>1, <1>2

\* The header of a sequence.
LEMMA SequenceHeaderRead ==
  ASSUME NEW bytes \in Seq(Bytes256), NEW from \in Nat, NEW first \in Nat, NEW size,
         HeaderAt(bytes, from, first, size)
  PROVE  LET h == readDataElementHeader(bytes, from)
         IN /\ h.type = "sequence" /\ h.size = size /\ h.used = first - from
            /\ first - from \in {2, 3, 4}
<1> DEFINE b == At(bytes, from)
           code == b % 8
           n == first - from - 1
           length == [k \in 1..n |-> At(bytes, from + k)]
           body == SubSeq(bytes, from + 2, first)
           types == {t \in DOMAIN Code : Code[t] = b \div 8}
<1>1. b \in {53, 54, 55} /\ first = from + 1 + (b - 52) /\ first <= Len(bytes)
      /\ Word(LastBytes(2, body)) = size
  BY DEF HeaderAt
<1>2. b \in Nat /\ b \div 8 = 6 /\ code = n + 4 /\ n \in {1, 2, 3} /\ Len(bytes) \in Nat
  <2>1. Len(bytes) \in Nat
    BY LenProperties
  <2>2. CASE b = 53
    BY <1>1, <2>1, <2>2
  <2>3. CASE b = 54
    BY <1>1, <2>1, <2>3
  <2>4. CASE b = 55
    BY <1>1, <2>1, <2>4
  <2> QED
    BY <1>1, <2>2, <2>3, <2>4
<1>3. types # {} /\ (CHOOSE t \in types : TRUE) = "sequence"
  <2>1. "sequence" \in DOMAIN Code /\ Code["sequence"] = 6
    BY DEF Code
  <2> HIDE DEF b
  <2> QED
    BY <1>2, <2>1, TypeOfCode
<1> HIDE DEF b, types
<1>4. \A k \in 1..n : At(bytes, from + k) \in Bytes256
  <2>1. \A k \in 1..n : from + k + 1 \in 1..Len(bytes)
    BY <1>1, <1>2
  <2>2. \A i \in 1..Len(bytes) : bytes[i] \in Bytes256
    OBVIOUS
  <2>3. \A k \in 1..n : bytes[from + k + 1] \in Bytes256
    <3> HIDE DEF n
    <3> QED
      BY <2>1, <2>2
  <2> QED
    BY <2>3 DEF At
<1>5. length \in Seq(Bytes256) /\ Len(length) = n /\ \A k \in 1..n : length[k] = bytes[from + k + 1]
  <2>1. length = [k \in 1..n |-> length[k]] /\ \A k \in 1..n : length[k] \in Bytes256
    BY <1>4
  <2>2. n \in Nat /\ \A k \in 1..n : length[k] = bytes[from + k + 1]
    BY <1>2 DEF At
  <2> HIDE DEF length, n
  <2>3. length \in Seq(Bytes256) /\ Len(length) = n
    BY <2>1, <2>2, AsSequence
  <2> QED
    BY <2>2, <2>3
<1>6. body \in Seq(Bytes256) /\ Len(body) = n /\ \A k \in 1..n : body[k] = bytes[from + k + 1]
  <2>1. \A i \in (from + 2)..first : bytes[i] \in Bytes256
    BY <1>1, <1>2
  <2>2. /\ body \in Seq(Bytes256)
        /\ Len(body) = IF from + 2 <= first THEN first - (from + 2) + 1 ELSE 0
        /\ \A i \in 1..(first - (from + 2) + 1) : body[i] = bytes[(from + 2) + i - 1]
    BY <2>1, SubSeqProperties
  <2>3. from + 2 <= first /\ first - (from + 2) + 1 = n
    BY <1>2
  <2>4. \A i \in 1..n : (from + 2) + i - 1 = from + i + 1
    OBVIOUS
  <2> HIDE DEF body, n
  <2> QED
    BY <2>2, <2>3, <2>4
<1> HIDE DEF length, body
<1>7. length = body
  BY <1>5, <1>6, SeqEqual
<1>8. readDataElementHeader(bytes, from) =
        [type |-> "sequence", size |-> size, used |-> 1 + n]
  <2>1. ~(code < 5) /\ code - 4 = n
    BY <1>2
  <2>2. length = [k \in 1..(IF code < 5 THEN 0 ELSE code - 4) |-> At(bytes, from + k)]
    BY <2>1 DEF length
  <2>3. readDataElementHeader(bytes, from) =
          [type |-> IF types = {} THEN "unknown" ELSE CHOOSE t \in types : TRUE,
           size |-> IF code < 5 THEN 2^code ELSE Word(LastBytes(2, length)),
           used |-> 1 + Len(length)]
    <3> HIDE DEF n
    <3> QED
      BY <2>2 DEF readDataElementHeader, b, types
  <2> HIDE DEF n
  <2> QED
    BY <1>1, <1>3, <1>5, <1>7, <2>1, <2>3
<1> QED
  BY <1>2, <1>8

\* The header of an element in it: one byte, and the body takes two, four or sixteen.
LEMMA ElementHeaderRead ==
  ASSUME NEW bytes, NEW from \in Nat, NEW to \in Nat, NEW type \in {"uint", "uuid"},
         ElementAt(bytes, type, from, to)
  PROVE  LET h == readDataElementHeader(bytes, from)
         IN /\ h.type = type /\ h.size = to - from - 1 /\ h.used = 1
            /\ to - from \in {3, 5, 17}
<1> DEFINE b == At(bytes, from)
           types == {t \in DOMAIN Code : Code[t] = b \div 8}
           length == [k \in 1..0 |-> At(bytes, from + k)]
<1>1. PICK code \in {1, 2, 4} : b = 8 * Code[type] + code /\ to = from + 1 + 2^code
  BY DEF ElementAt
<1>2. type \in DOMAIN Code /\ Code[type] \in {1, 3}
  BY DEF Code
<1>3. b \in Nat /\ b \div 8 = Code[type] /\ b % 8 = code /\ code < 5
  BY <1>1, <1>2
<1>4. types # {} /\ (CHOOSE t \in types : TRUE) = type
  <2> HIDE DEF b
  <2> QED
    BY <1>2, <1>3, TypeOfCode
<1>5. 2^code = to - from - 1 /\ to - from \in {3, 5, 17}
  <2>1. 2^1 = 2 /\ 2^2 = 4 /\ 2^4 = 16
    OBVIOUS
  <2>2. CASE code = 1
    BY <1>1, <2>1, <2>2
  <2>3. CASE code = 2
    BY <1>1, <2>1, <2>3
  <2>4. CASE code = 4
    BY <1>1, <2>1, <2>4
  <2> QED
    BY <2>2, <2>3, <2>4
<1> HIDE DEF b, types
<1>6. Len(length) = 0
  <2>1. length = [k \in 1..0 |-> length[k]] /\ \A k \in 1..0 : length[k] \in Nat
    OBVIOUS
  <2> HIDE DEF length
  <2> QED
    BY <2>1, AsSequence
<1>7. readDataElementHeader(bytes, from) =
        [type |-> IF types = {} THEN "unknown" ELSE CHOOSE t \in types : TRUE,
         size |-> 2^code, used |-> 1 + Len(length)]
  <2>1. length = [k \in 1..(IF code < 5 THEN 0 ELSE code - 4) |-> At(bytes, from + k)]
    BY <1>3
  <2>2. readDataElementHeader(bytes, from) =
          [type |-> IF types = {} THEN "unknown" ELSE CHOOSE t \in types : TRUE,
           size |-> IF code < 5 THEN 2^code ELSE Word(LastBytes(2, length)),
           used |-> 1 + Len(length)]
    <3> HIDE DEF length
    <3> QED
      BY <1>3, <2>1 DEF readDataElementHeader, b, types
  <2> QED
    BY <1>3, <2>2
<1> QED
  BY <1>4, <1>5, <1>6, <1>7

\* A sequence of a request that fits the 8 bits of the reader's positions.
Readable(bytes, from, at, type) ==
  /\ bytes \in Seq(Bytes256) /\ Len(bytes) < 256
  /\ from \in Nat /\ 4 < from
  /\ type \in {"uint", "uuid"} /\ SequenceAt(bytes, from, at, type)

\* Its places: one behind the other, three bytes apart at least.
Ascending(at, n) ==
  /\ n \in Nat
  /\ at \in Seq(Nat) /\ Len(at) = n + 1 /\ DOMAIN at = 1..(n + 1)
  /\ Head(at) = at[1] /\ Last(at) = at[n + 1]
  /\ \A k \in 1..(n + 1) : at[k] \in Nat /\ at[1] <= at[k] /\ at[k] <= at[n + 1]
  /\ \A k \in 1..n : at[k + 1] - at[k] \in {3, 5, 17}

LEMMA PlacesRise ==
  ASSUME NEW bytes, NEW from, NEW at, NEW type, Readable(bytes, from, at, type)
  PROVE  Ascending(at, Len(at) - 1)
<1> DEFINE n == Len(at) - 1
<1>1. /\ at # << >> /\ at \in Seq(Nat) /\ type \in {"uint", "uuid"}
      /\ \A k \in 1..(Len(at) - 1) : ElementAt(bytes, type, at[k], at[k + 1])
  BY DEF Readable, SequenceAt
<1>2. /\ n \in Nat /\ Len(at) = n + 1 /\ DOMAIN at = 1..(n + 1)
      /\ Head(at) = at[1] /\ \A k \in 1..(n + 1) : at[k] \in Nat
  <2>1. Len(at) \in Nat /\ Len(at) # 0 /\ DOMAIN at = 1..Len(at) /\ Head(at) = at[1]
    BY <1>1, EmptySeq, LenProperties
  <2> QED
    BY <1>1, <2>1
<1>3. Last(at) = at[n + 1]
  BY <1>2 DEF Last
<1>4. \A k \in 1..n : ElementAt(bytes, type, at[k], at[k + 1])
  BY <1>1
<1> HIDE DEF n
<1>5. ASSUME NEW k \in 1..n PROVE at[k + 1] - at[k] \in {3, 5, 17}
  <2>1. at[k] \in Nat /\ at[k + 1] \in Nat
    BY <1>2
  <2> QED
    BY <1>1, <1>4, <2>1, ElementHeaderRead
<1>6. \A k \in 1..n : at[k] \in Nat /\ at[k + 1] \in Nat /\ at[k] < at[k + 1]
  BY <1>2, <1>5
<1>7. \A k \in 1..(n + 1) : at[1] <= at[k]
  <2> DEFINE T == {k \in 1..(n + 1) : ~(at[1] <= at[k])}
  <2> SUFFICES ASSUME T # {} PROVE FALSE
    BY <1>2
  <2>1. T \subseteq Nat /\ T # {}
    BY <1>2
  <2>2. PICK x \in T : \A y \in T : ~(y < x)
    <3> HIDE DEF T
    <3> QED
      BY <2>1, LeastNumber
  <2>3. x \in 1..(n + 1) /\ ~(at[1] <= at[x]) /\ x # 1
    BY <1>2
  <2>4. x - 1 \in 1..n /\ x - 1 < x /\ (x - 1) + 1 = x
    BY <1>2, <2>3
  <2>5. at[1] <= at[x - 1]
    BY <1>2, <2>2, <2>4
  <2>6. at[x - 1] < at[x] /\ at[x - 1] \in Nat /\ at[x] \in Nat
    BY <1>6, <2>4
  <2>7. at[1] \in Nat
    BY <1>2
  <2> QED
    BY <2>3, <2>5, <2>6, <2>7
<1>8. \A k \in 1..(n + 1) : at[k] <= at[n + 1]
  <2> DEFINE T == {m \in 0..n : ~(at[n + 1 - m] <= at[n + 1])}
  <2>0. ASSUME T = {}, NEW k \in 1..(n + 1) PROVE at[k] <= at[n + 1]
    <3>1. n + 1 - k \in 0..n /\ n + 1 - (n + 1 - k) = k
      BY <1>2
    <3> QED
      BY <2>0, <3>1
  <2> SUFFICES ASSUME T # {} PROVE FALSE
    BY <2>0
  <2>1. T \subseteq Nat /\ T # {}
    BY <1>2
  <2>2. PICK x \in T : \A y \in T : ~(y < x)
    <3> HIDE DEF T
    <3> QED
      BY <2>1, LeastNumber
  <2>3. x \in 0..n /\ ~(at[n + 1 - x] <= at[n + 1]) /\ x # 0
    BY <1>2
  <2> DEFINE j == n + 1 - x
  <2>4. x - 1 \in 0..n /\ x - 1 < x /\ n + 1 - (x - 1) = j + 1 /\ j \in 1..n
    BY <1>2, <2>3
  <2>5. at[j + 1] <= at[n + 1]
    <3>1. at[n + 1 - (x - 1)] <= at[n + 1]
      BY <2>2, <2>4
    <3> QED
      BY <2>4, <3>1
  <2>6. at[j] < at[j + 1] /\ at[j] \in Nat /\ at[j + 1] \in Nat
    BY <1>6, <2>4
  <2>7. at[n + 1] \in Nat
    BY <1>2
  <2> QED
    BY <2>3, <2>5, <2>6, <2>7
<1> QED
  BY <1>1, <1>2, <1>3, <1>5, <1>7, <1>8 DEF Ascending, n

\* The nodes of the root and of k elements, and the reader behind the k-th.
NodesRead(bytes, at, type, root, from, k) ==
  [i \in 1..(k + 1) |->
     IF i = 1 THEN RootNode(root, Last(at) - Head(at), from)
     ELSE Leaf(bytes, type, at[i - 1], at[i] - at[i - 1] - 1)]
ReaderAfter(bytes, at, type, root, from, k) ==
  State(bytes, from, at[k + 1] - from, Last(at) - Head(at) + 2,
        NodesRead(bytes, at, type, root, from, k), 1,
        IF k < Len(at) - 1 THEN "reading" ELSE "done")

\* What Readable says, in numbers.
LEMMA Numbers ==
  ASSUME NEW bytes, NEW from, NEW at, NEW type, Readable(bytes, from, at, type)
  PROVE  LET n == Len(at) - 1
             h == readDataElementHeader(bytes, from)
         IN /\ Ascending(at, n)
            /\ bytes \in Seq(Bytes256) /\ Len(bytes) \in Nat /\ Len(bytes) < 256
            /\ from \in Nat /\ 4 < from /\ type \in {"uint", "uuid"}
            /\ at[1] - from \in {2, 3, 4} /\ at[n + 1] <= Len(bytes)
            /\ h.type = "sequence" /\ h.size = at[n + 1] - at[1] /\ h.used = at[1] - from
            /\ n = 0 => at[n + 1] = at[1]
            /\ n > 0 => at[n + 1] >= at[1] + 3
            /\ \A k \in 1..n :
                 LET e == readDataElementHeader(bytes, at[k])
                 IN e.type = type /\ e.size = at[k + 1] - at[k] - 1 /\ e.used = 1
<1> DEFINE n == Len(at) - 1
<1>1. Ascending(at, n)
  BY PlacesRise
<1>2. /\ bytes \in Seq(Bytes256) /\ Len(bytes) \in Nat /\ Len(bytes) < 256
      /\ from \in Nat /\ 4 < from /\ type \in {"uint", "uuid"}
      /\ HeaderAt(bytes, from, Head(at), Last(at) - Head(at)) /\ Last(at) <= Len(bytes)
      /\ \A k \in 1..(Len(at) - 1) : ElementAt(bytes, type, at[k], at[k + 1])
  BY LenProperties DEF Readable, SequenceAt
<1>3. \A k \in 1..n : ElementAt(bytes, type, at[k], at[k + 1])
  BY <1>2
<1> HIDE DEF n
<1>4. Head(at) = at[1] /\ Last(at) = at[n + 1] /\ at[1] \in Nat /\ n \in Nat
  BY <1>1 DEF Ascending
<1>5. LET h == readDataElementHeader(bytes, from)
      IN /\ h.type = "sequence" /\ h.size = at[n + 1] - at[1] /\ h.used = at[1] - from
         /\ at[1] - from \in {2, 3, 4}
  <2>1. HeaderAt(bytes, from, at[1], at[n + 1] - at[1])
    BY <1>2, <1>4
  <2> QED
    BY <1>2, <1>4, <2>1, SequenceHeaderRead
<1>6. ASSUME NEW k \in 1..n
      PROVE  LET e == readDataElementHeader(bytes, at[k])
             IN e.type = type /\ e.size = at[k + 1] - at[k] - 1 /\ e.used = 1
  <2>1. at[k] \in Nat /\ at[k + 1] \in Nat
    BY <1>1, <1>4 DEF Ascending
  <2> QED
    BY <1>2, <1>3, <2>1, ElementHeaderRead
<1>7. n > 0 => at[n + 1] >= at[1] + 3
  <2> SUFFICES ASSUME n > 0 PROVE at[n + 1] >= at[1] + 3
    OBVIOUS
  <2>1. n \in 1..n /\ n \in 1..(n + 1) /\ n + 1 \in 1..(n + 1)
    BY <1>4
  <2>2. at[n + 1] - at[n] \in {3, 5, 17} /\ at[1] <= at[n] /\ at[n] \in Nat /\ at[n + 1] \in Nat
    BY <1>1, <2>1 DEF Ascending
  <2> QED
    BY <1>4, <2>2
<1>8. n = 0 => at[n + 1] = at[1]
  OBVIOUS
<1> QED
  BY <1>1, <1>2, <1>4, <1>5, <1>6, <1>7, <1>8 DEF n

\* An element that lies in the request is a node like the others.
LEMMA LeafTyped ==
  ASSUME NEW bytes \in Seq(Bytes256), NEW type \in {"uint", "uuid"}, NEW from \in Nat,
         NEW width \in Bytes256, from < 256, from + 1 + width <= Len(bytes)
  PROVE  Leaf(bytes, type, from, width) \in ReadNodes
<1>0. width \in Nat
  BY DEF Bytes256
<1> DEFINE body == [k \in 1..width |-> At(bytes, (from + 1) + k - 1)]
           value == Value(bytes, type, from + 1, width)
<1>1. body \in Seq(Bytes256)
  <2>1. \A k \in 1..width : body[k] \in Bytes256
    <3>1. \A i \in 1..Len(bytes) : bytes[i] \in Bytes256
      OBVIOUS
    <3>2. \A k \in 1..width : ((from + 1) + k - 1) + 1 \in 1..Len(bytes)
      <4>1. Len(bytes) \in Nat
        BY LenProperties
      <4> QED
        BY <1>0, <4>1
    <3> QED
      BY <3>1, <3>2 DEF At
  <2>2. body = [k \in 1..width |-> body[k]]
    OBVIOUS
  <2> HIDE DEF body
  <2> QED
    BY <1>0, <2>1, <2>2, AsSequence
<1> HIDE DEF body
<1>2. value \in Seq(Bytes256)
  <2>1. LastBytes(4, body) \in Seq(Bytes256) /\ LastBytes(2, body) \in Seq(Bytes256)
    BY <1>1, LastBytesTyped
  <2> QED
    BY <2>1 DEF Value, body
<1>3. type \in ReadTypes /\ 1 \in Int /\ from \in Bytes256
  BY OctetOfByte DEF ReadTypes
<1> HIDE DEF value
<1>4. Leaf(bytes, type, from, width) = [type |-> type, size |-> width, parent |-> 1,
                                        start_index |-> from, value |-> value]
  BY DEF Leaf, value
<1> QED
  BY <1>2, <1>3, <1>4 DEF ReadNodes

\* So is the root.
LEMMA RootTyped ==
  ASSUME NEW root \in {Null, Unset}, NEW size \in Bytes256, NEW from \in Bytes256
  PROVE  RootNode(root, size, from) \in ReadNodes
<1>1. "sequence" \in ReadTypes /\ root \in Int /\ << >> \in Seq(Bytes256)
  BY DEF ReadTypes, Null, Unset
<1> QED
  BY <1>1 DEF ReadNodes, RootNode

\* The nodes of a request that has been read up to an element.
LEMMA NodesTyped ==
  ASSUME NEW bytes, NEW from, NEW at, NEW type, Readable(bytes, from, at, type),
         NEW root \in {Null, Unset}, NEW k \in 0..(Len(at) - 1)
  PROVE  LET s == NodesRead(bytes, at, type, root, from, k)
         IN s \in Seq(ReadNodes) /\ Len(s) = k + 1
<1> DEFINE n == Len(at) - 1
           s == NodesRead(bytes, at, type, root, from, k)
<1>1. /\ Ascending(at, n) /\ bytes \in Seq(Bytes256) /\ Len(bytes) \in Nat
      /\ from \in Nat /\ type \in {"uint", "uuid"} /\ at[n + 1] <= Len(bytes) /\ Len(bytes) < 256
      /\ at[1] - from \in {2, 3, 4}
  BY Numbers
<1>2. k \in 0..n
  OBVIOUS
<1> HIDE DEF n
<1>3. /\ n \in Nat /\ k \in Nat /\ k <= n /\ k + 1 \in Nat
      /\ Head(at) = at[1] /\ Last(at) = at[n + 1]
  BY <1>1, <1>2 DEF Ascending
<1>4. RootNode(root, Last(at) - Head(at), from) \in ReadNodes
  <2>1. at[1] \in Nat /\ at[n + 1] \in Nat /\ at[1] <= at[n + 1]
    <3>1. 1 \in 1..(n + 1) /\ n + 1 \in 1..(n + 1)
      BY <1>3
    <3> QED
      BY <1>1, <3>1 DEF Ascending
  <2> DEFINE low == at[1]
             high == at[n + 1]
             all == Len(bytes)
  <2>4. low \in Nat /\ high \in Nat /\ low <= high /\ Last(at) - Head(at) = high - low
    BY <1>3, <2>1
  <2>5. all \in Nat /\ from \in Nat /\ high <= all /\ all < 256 /\ low - from \in {2, 3, 4}
    BY <1>1
  <2> HIDE DEF low, high, all
  <2>6. high - low \in Nat /\ from < 256 /\ high - low < 256
    BY <2>4, <2>5
  <2>2. Last(at) - Head(at) \in Nat /\ from < 256 /\ Last(at) - Head(at) < 256
    BY <2>4, <2>6
  <2>3. from \in Bytes256 /\ Last(at) - Head(at) \in Bytes256
    BY <1>1, <2>2, OctetOfByte
  <2> QED
    BY <2>3, RootTyped
<1>5. ASSUME NEW i \in 1..(k + 1), i # 1
      PROVE  Leaf(bytes, type, at[i - 1], at[i] - at[i - 1] - 1) \in ReadNodes
  <2>1. i - 1 \in 1..n /\ i - 1 \in 1..(n + 1) /\ i \in 1..(n + 1) /\ (i - 1) + 1 = i
    BY <1>3, <1>5
  <2>2. /\ at[i] - at[i - 1] \in {3, 5, 17} /\ at[i] \in Nat /\ at[i - 1] \in Nat
        /\ at[i] <= at[n + 1] /\ at[n + 1] \in Nat
    <3>1. at[(i - 1) + 1] - at[i - 1] \in {3, 5, 17}
      BY <1>1, <2>1 DEF Ascending
    <3>2. n + 1 \in 1..(n + 1)
      BY <1>3
    <3> QED
      BY <1>1, <2>1, <3>1, <3>2 DEF Ascending
  <2> DEFINE a == at[i - 1]
             w == at[i] - at[i - 1] - 1
  <2>3. a \in Nat /\ w \in Bytes256 /\ a < 256 /\ a + 1 + w <= Len(bytes)
    <3> DEFINE b == at[i]
    <3>1. w \in {2, 4, 16} /\ a + 1 + w = at[i] /\ a \in Nat
      <4>1. b - a \in {3, 5, 17} /\ a \in Nat /\ b \in Nat /\ w = b - a - 1
        BY <2>2
      <4> HIDE DEF a, b, w
      <4>2. w \in {2, 4, 16} /\ a + 1 + w = b
        BY <4>1
      <4> QED
        BY <4>1, <4>2 DEF b
    <3>2. at[i] \in Nat /\ at[i] <= Len(bytes) /\ Len(bytes) \in Nat /\ Len(bytes) < 256
      BY <1>1, <2>2
    <3> HIDE DEF a, w, b
    <3>3. w \in Bytes256
      BY <3>1 DEF Bytes256
    <3> QED
      BY <3>1, <3>2, <3>3
  <2> HIDE DEF a, w
  <2>4. Leaf(bytes, type, a, w) \in ReadNodes
    BY <1>1, <2>3, LeafTyped
  <2> QED
    BY <2>4 DEF a, w
<1>6. s = [i \in 1..(k + 1) |-> s[i]] /\ \A i \in 1..(k + 1) : s[i] \in ReadNodes
  <2>1. \A i \in 1..(k + 1) : s[i] \in ReadNodes
    BY <1>4, <1>5 DEF NodesRead
  <2>2. s = [i \in 1..(k + 1) |-> s[i]]
    BY DEF NodesRead
  <2> QED
    BY <2>1, <2>2
<1> HIDE DEF s
<1>7. s \in Seq(ReadNodes) /\ Len(s) = k + 1
  BY <1>3, <1>6, AsSequence
<1> QED
  BY <1>7 DEF s

\* The first turn reads the header of the sequence.
LEMMA FirstRead ==
  ASSUME NEW bytes, NEW from, NEW at, NEW type, Readable(bytes, from, at, type),
         NEW root \in {Null, Unset}
  PROVE  Turn(Reading(bytes, from, root)) = ReaderAfter(bytes, at, type, root, from, 0)
<1> DEFINE n == Len(at) - 1
           h == readDataElementHeader(bytes, from)
           size == at[n + 1] - at[1]
           used == at[1] - from
<1>1. /\ Ascending(at, n) /\ Len(bytes) \in Nat /\ Len(bytes) < 256
      /\ from \in Nat /\ 4 < from /\ at[1] - from \in {2, 3, 4} /\ at[n + 1] <= Len(bytes)
      /\ h.type = "sequence" /\ h.size = at[n + 1] - at[1] /\ h.used = at[1] - from
      /\ n = 0 => at[n + 1] = at[1]
      /\ n > 0 => at[n + 1] >= at[1] + 3
  BY Numbers
<1> HIDE DEF h, n
<1>2. n \in Nat /\ Head(at) = at[1] /\ Last(at) = at[n + 1]
      /\ at[1] \in Nat /\ at[n + 1] \in Nat /\ at[1] <= at[n + 1]
  <2>1. n \in Nat
    BY <1>1 DEF Ascending
  <2>2. 1 \in 1..(n + 1) /\ n + 1 \in 1..(n + 1)
    BY <2>1
  <2> QED
    BY <1>1, <2>1, <2>2 DEF Ascending
<1>3. /\ size \in Nat /\ used \in Nat /\ used <= 4 /\ from < 256
      /\ (used < size + 2) <=> (0 < n)
  <2>1. used \in {2, 3, 4} /\ size \in Nat /\ (n = 0 => size = 0) /\ (n > 0 => size >= 3)
    BY <1>1, <1>2
  <2>2. from < 256
    BY <1>1, <1>2
  <2> HIDE DEF used, size
  <2>3. CASE n = 0
    BY <2>1, <2>2, <2>3
  <2>4. CASE n > 0
    BY <2>1, <2>2, <2>4
  <2> QED
    BY <1>2, <2>3, <2>4
<1>4. NodesRead(bytes, at, type, root, from, 0) = <<RootNode(root, size, from)>>
  <2>1. 0 + 1 = 1 /\ \A i \in 1..1 : i = 1
    OBVIOUS
  <2>2. Last(at) - Head(at) = size
    BY <1>2
  <2> HIDE DEF size
  <2> QED
    BY <2>1, <2>2 DEF NodesRead
<1>5. h.size = size /\ h.used = used
  BY <1>1
<1> HIDE DEF size, used
<1>6. Turn(Reading(bytes, from, root)) =
        State(bytes, from, used, size + 2, <<RootNode(root, size, from)>>, 1,
              IF used < size + 2 THEN "reading" ELSE "done")
  <2>1. h = readDataElementHeader(bytes, from)
    BY DEF h
  <2> QED
    BY <1>1, <1>3, <1>5, <2>1, FirstTurn
<1>7. at[0 + 1] - from = used /\ Last(at) - Head(at) + 2 = size + 2
  BY <1>2 DEF used, size
<1> QED
  BY <1>3, <1>4, <1>6, <1>7 DEF ReaderAfter, n

\* Every further turn reads one element.
LEMMA NextRead ==
  ASSUME NEW bytes, NEW from, NEW at, NEW type, Readable(bytes, from, at, type),
         NEW root \in {Null, Unset}, NEW k \in 0..(Len(at) - 2)
  PROVE  Turn(ReaderAfter(bytes, at, type, root, from, k))
           = ReaderAfter(bytes, at, type, root, from, k + 1)
<1> DEFINE n == Len(at) - 1
           ns == NodesRead(bytes, at, type, root, from, k)
           consumed == at[k + 1] - from
           width == at[k + 2] - at[k + 1] - 1
           size == Last(at) - Head(at) + 2
           leaf == Leaf(bytes, type, at[k + 1], width)
           h == readDataElementHeader(bytes, at[k + 1])
<1>1. /\ Ascending(at, n) /\ Len(bytes) \in Nat /\ Len(bytes) < 256
      /\ from \in Nat /\ 4 < from /\ at[1] - from \in {2, 3, 4} /\ at[n + 1] <= Len(bytes)
      /\ type \in {"uint", "uuid"}
      /\ \A j \in 1..n :
           LET e == readDataElementHeader(bytes, at[j])
           IN e.type = type /\ e.size = at[j + 1] - at[j] - 1 /\ e.used = 1
  BY Numbers
<1>2. k \in 0..n /\ k + 1 \in 0..n /\ k + 1 \in 1..n /\ k \in Nat /\ n \in Nat
  <2>1. n \in Nat
    BY <1>1 DEF Ascending
  <2> QED
    BY <2>1
<1>3. ns \in Seq(ReadNodes) /\ Len(ns) = k + 1
  <2>1. k \in 0..(Len(at) - 1)
    BY <1>2
  <2> QED
    BY <2>1, NodesTyped
<1>4. /\ ns[1] = RootNode(root, Last(at) - Head(at), from) /\ 1 \in DOMAIN ns
  <2>1. 1 \in 1..(k + 1) /\ DOMAIN ns = 1..(k + 1)
    BY <1>2 DEF NodesRead
  <2> QED
    BY <2>1 DEF NodesRead
<1>5. NodesRead(bytes, at, type, root, from, k + 1) = Append(ns, leaf)
  <2> DEFINE ms == NodesRead(bytes, at, type, root, from, k + 1)
  <2>1. ms \in Seq(ReadNodes) /\ Len(ms) = (k + 1) + 1
    <3>1. k + 1 \in 0..(Len(at) - 1)
      BY <1>2
    <3> QED
      BY <3>1, NodesTyped
  <2>2. ms[k + 2] = leaf /\ \A i \in 1..(k + 1) : ms[i] = ns[i]
    <3>1. k + 2 \in 1..((k + 1) + 1) /\ k + 2 # 1 /\ (k + 2) - 1 = k + 1
      BY <1>2
    <3>2. \A i \in 1..(k + 1) : i \in 1..((k + 1) + 1)
      BY <1>2
    <3> QED
      BY <3>1, <3>2 DEF NodesRead
  <2>3. k + 2 = (k + 1) + 1 /\ k + 2 \in 1..Len(ms)
    BY <1>2, <2>1
  <2> HIDE DEF ms, ns, leaf
  <2>4. leaf \in ReadNodes
    BY <2>1, <2>2, <2>3
  <2>5. /\ Append(ns, leaf) \in Seq(ReadNodes) /\ Len(Append(ns, leaf)) = Len(ns) + 1
        /\ \A i \in 1..Len(ns) : Append(ns, leaf)[i] = ns[i]
        /\ Append(ns, leaf)[Len(ns) + 1] = leaf
    BY <1>3, <2>4, QueueAppend
  <2>6. \A i \in 1..Len(ms) : ms[i] = Append(ns, leaf)[i]
    <3>1. \A i \in 1..Len(ms) : i \in 1..(k + 1) \/ i = k + 2
      BY <1>2, <2>1
    <3> QED
      BY <1>2, <1>3, <2>1, <2>2, <2>3, <2>5, <3>1
  <2>7. Len(ms) = Len(Append(ns, leaf))
    BY <1>3, <2>1, <2>5
  <2>8. ms = Append(ns, leaf)
    BY <2>1, <2>5, <2>6, <2>7, SeqEqual
  <2> QED
    BY <2>8 DEF ms
<1>6. /\ at[k + 1] \in Nat /\ at[k + 2] \in Nat /\ at[k + 2] - at[k + 1] \in {3, 5, 17}
      /\ at[1] <= at[k + 1] /\ at[k + 2] <= at[n + 1] /\ at[1] \in Nat /\ at[n + 1] \in Nat
      /\ Head(at) = at[1] /\ Last(at) = at[n + 1]
      /\ k + 1 < n => at[k + 2] + 3 <= at[n + 1]
      /\ ~(k + 1 < n) => at[k + 2] = at[n + 1]
  <2>1. /\ 1 \in 1..(n + 1) /\ k + 1 \in 1..(n + 1) /\ k + 2 \in 1..(n + 1)
        /\ n + 1 \in 1..(n + 1) /\ k + 1 \in 1..n /\ (k + 1) + 1 = k + 2
    BY <1>2
  <2>2. at[(k + 1) + 1] - at[k + 1] \in {3, 5, 17}
    BY <1>1, <2>1 DEF Ascending
  <2>3. ASSUME k + 1 < n PROVE at[k + 2] + 3 <= at[n + 1]
    <3>1. k + 2 \in 1..n /\ k + 3 \in 1..(n + 1) /\ (k + 2) + 1 = k + 3
      BY <1>2, <2>3
    <3>2. at[(k + 2) + 1] - at[k + 2] \in {3, 5, 17}
      BY <1>1, <3>1 DEF Ascending
    <3>3. at[k + 3] <= at[n + 1] /\ at[k + 3] \in Nat /\ at[n + 1] \in Nat /\ at[k + 2] \in Nat
      BY <1>1, <2>1, <3>1 DEF Ascending
    <3> QED
      BY <3>1, <3>2, <3>3
  <2>4. ~(k + 1 < n) => k + 2 = n + 1
    BY <1>2
  <2> QED
    BY <1>1, <2>1, <2>2, <2>3, <2>4 DEF Ascending
<1>7. h.type = type /\ h.size = width /\ h.used = 1
  <2>1. (k + 1) + 1 = k + 2
    BY <1>2
  <2> QED
    BY <1>1, <1>2, <2>1
<1> HIDE DEF n
<1>8. /\ consumed \in Nat /\ size \in Nat /\ width \in Nat
      /\ from + consumed = at[k + 1] /\ consumed + 1 + width = at[k + 2] - from
      /\ from + consumed + 1 + width < 256
      /\ consumed + 1 + width < from + (Last(at) - Head(at))
      /\ (consumed + 1 + width < size) <=> (k + 1 < n)
  <2> DEFINE a == at[1]
             b == at[k + 1]
             c == at[k + 2]
             z == at[n + 1]
             l == Len(bytes)
  <2>1. /\ from \in Nat /\ 4 < from /\ l \in Nat /\ l < 256 /\ a - from \in {2, 3, 4} /\ z <= l
        /\ a \in Nat /\ b \in Nat /\ c \in Nat /\ z \in Nat
        /\ c - b \in {3, 5, 17} /\ a <= b /\ c <= z
        /\ (k + 1 < n => c + 3 <= z) /\ (~(k + 1 < n) => c = z)
    BY <1>1, <1>6
  <2>2. consumed = b - from /\ width = c - b - 1 /\ size = z - a + 2 /\ Last(at) - Head(at) = z - a
    BY <1>6
  <2> HIDE DEF a, b, c, z, l, consumed, width, size
  <2>3. consumed \in Nat /\ size \in Nat /\ width \in Nat
    BY <2>1, <2>2
  <2>4. from + consumed = b /\ consumed + 1 + width = c - from /\ from + consumed + 1 + width < 256
    BY <2>1, <2>2
  <2>5. consumed + 1 + width < from + (Last(at) - Head(at))
    BY <2>1, <2>2
  <2>6. CASE k + 1 < n
    <3>1. consumed + 1 + width < size
      BY <2>1, <2>2, <2>6
    <3> QED
      BY <2>3, <2>4, <2>5, <2>6, <3>1 DEF b, c
  <2>7. CASE ~(k + 1 < n)
    <3>1. ~(consumed + 1 + width < size)
      BY <2>1, <2>2, <2>7
    <3> QED
      BY <2>3, <2>4, <2>5, <2>7, <3>1 DEF b, c
  <2> QED
    BY <2>6, <2>7
<1>9. ns[1].type = "sequence" /\ ns[1].start_index + ns[1].size = from + (Last(at) - Head(at))
  BY <1>4 DEF RootNode
<1>11. ReaderAfter(bytes, at, type, root, from, k)
         = State(bytes, from, consumed, size, ns, 1, "reading")
  <2>1. k < Len(at) - 1
    BY <1>2 DEF n
  <2> QED
    BY <2>1 DEF ReaderAfter
<1>12. ReaderAfter(bytes, at, type, root, from, k + 1)
         = State(bytes, from, at[k + 2] - from, size, Append(ns, leaf), 1,
                 IF k + 1 < n THEN "reading" ELSE "done")
  <2>1. (k + 1) + 1 = k + 2
    BY <1>2
  <2> HIDE DEF leaf
  <2> QED
    BY <1>5, <2>1 DEF ReaderAfter, n
<1> HIDE DEF ns, consumed, width, size, leaf, h
<1>13. Turn(State(bytes, from, consumed, size, ns, 1, "reading")) =
           State(bytes, from, at[k + 2] - from, size, Append(ns, leaf), 1,
                 IF at[k + 2] - from < size THEN "reading" ELSE "done")
  <2>1. HeaderIs(bytes, from + consumed, type, width, 1)
    BY <1>7, <1>8 DEF HeaderIs, h
  <2>2. consumed + 1 + width < ns[1].start_index + ns[1].size
    BY <1>8, <1>9
  <2>3. from + (consumed + 1 + width) < 256
    BY <1>1, <1>8
  <2>4. AtElement(bytes, from, consumed, size, ns, type, width)
    BY <1>1, <1>3, <1>4, <1>8, <1>9, <2>1, <2>2, <2>3 DEF AtElement
  <2>5. leaf = Leaf(bytes, type, from + consumed, width)
    BY <1>8 DEF leaf
  <2>6. consumed + 1 + width = at[k + 2] - from
    BY <1>8
  <2> DEFINE end == consumed + 1 + width
  <2>7. Turn(State(bytes, from, consumed, size, ns, 1, "reading")) =
           State(bytes, from, end, size,
                 Append(ns, Leaf(bytes, type, from + consumed, width)), 1,
                 IF end < size THEN "reading" ELSE "done")
    BY <2>4, NextTurn
  <2> QED
    BY <2>5, <2>6, <2>7
<1>14. at[k + 2] - from < size <=> k + 1 < n
  BY <1>8
<1> QED
  BY <1>8, <1>11, <1>12, <1>13, <1>14

\* The numbers of the nodes behind the root.
Behind1(m) == [k \in 1..m |-> k + 1]

LEMMA BehindRoot ==
  ASSUME NEW m \in Nat
  PROVE  /\ Behind1(m) \in Seq(Nat) /\ Len(Behind1(m)) = m /\ DOMAIN Behind1(m) = 1..m
         /\ Append(Behind1(m), m + 2) = Behind1(m + 1)
<1> DEFINE s == Behind1(m)
           t == Behind1(m + 1)
<1>1. s = [k \in 1..m |-> s[k]] /\ (\A k \in 1..m : s[k] \in Nat /\ s[k] = k + 1) /\ DOMAIN s = 1..m
  BY DEF Behind1
<1>2. /\ t = [k \in 1..(m + 1) |-> t[k]]
      /\ \A k \in 1..(m + 1) : t[k] \in Nat /\ t[k] = k + 1
  BY DEF Behind1
<1> HIDE DEF s, t
<1>3. s \in Seq(Nat) /\ Len(s) = m
  BY <1>1, AsSequence
<1>4. t \in Seq(Nat) /\ Len(t) = m + 1
  <2>1. m + 1 \in Nat
    OBVIOUS
  <2> QED
    BY <1>2, <2>1, AsSequence
<1> DEFINE u == Append(s, m + 2)
<1>5. u \in Seq(Nat) /\ Len(u) = m + 1 /\ (\A k \in 1..m : u[k] = s[k]) /\ u[m + 1] = m + 2
  <2>1. m + 2 \in Nat
    OBVIOUS
  <2> QED
    BY <1>3, <2>1, QueueAppend
<1> HIDE DEF u
<1>6. \A k \in 1..(m + 1) : u[k] = t[k]
  <2>1. \A k \in 1..(m + 1) : k \in 1..m \/ k = m + 1
    OBVIOUS
  <2>2. (m + 1) + 1 = m + 2 /\ m + 1 \in 1..(m + 1)
    OBVIOUS
  <2> QED
    BY <1>1, <1>2, <1>5, <2>1, <2>2
<1>7. u = t
  BY <1>4, <1>5, <1>6, SeqEqual
<1> QED
  BY <1>1, <1>3, <1>7 DEF u, s, t

\* If every other node's parent is the root, its children are the others, in order.
LEMMA ChildrenOfRoot ==
  ASSUME NEW nodes, NEW n \in Nat, Len(nodes) = n + 1, nodes[1].parent # 1,
         \A i \in 2..(n + 1) : nodes[i].parent = 1
  PROVE  Children(nodes, 1) = Behind1(n)
<1> DEFINE l == n + 1
           f == CHOOSE g : g = [k \in 0..l |-> Among(nodes, 1, g, k)]
           T == {k \in 1..l : f[k] # Behind1(k - 1)}
<1>1. l \in Nat
  OBVIOUS
<1>2. Children(nodes, 1) = f[l]
  BY DEF Children, Among
<1>3. f = [k \in 0..l |-> Among(nodes, 1, f, k)]
  BY <1>1, AmongExists
<1> HIDE DEF f
<1>4. \A k \in 0..l : f[k] = Among(nodes, 1, f, k)
  BY <1>3
<1>5. f[0] = << >>
  BY <1>1, <1>4 DEF Among
<1>6. Behind1(0) = << >>
  <2>1. 0 \in Nat
    OBVIOUS
  <2>2. Behind1(0) \in Seq(Nat) /\ Len(Behind1(0)) = 0
    BY <2>1, BehindRoot
  <2> QED
    BY <2>2, EmptySeq
<1>7. T = {}
  <2> SUFFICES ASSUME T # {} PROVE FALSE
    OBVIOUS
  <2>0. T \subseteq Nat /\ T # {}
    OBVIOUS
  <2>1. PICK x \in T : \A y \in T : ~(y < x)
    <3> HIDE DEF T
    <3> QED
      BY <2>0, LeastNumber
  <2>2. x \in 1..l /\ x \in 0..l /\ f[x] # Behind1(x - 1)
    OBVIOUS
  <2>3. f[x] = Among(nodes, 1, f, x)
    BY <1>4, <2>2
  <2>4. CASE x = 1
    <3>1. f[1] = f[0]
      <4>1. ~(nodes[1].parent = 1) /\ 1 - 1 = 0 /\ 1 # 0
        OBVIOUS
      <4> QED
        BY <2>3, <2>4, <4>1 DEF Among
    <3> QED
      BY <1>5, <1>6, <2>2, <2>4, <3>1
  <2>5. CASE x # 1
    <3>1. x - 1 \in 1..l /\ x - 1 < x /\ x \in 2..(n + 1) /\ x > 0 /\ x # 0
      BY <2>2, <2>5
    <3>2. f[x - 1] = Behind1((x - 1) - 1)
      BY <2>1, <3>1
    <3>3. f[x] = Append(f[x - 1], x)
      <4>1. nodes[x].parent = 1
        BY <3>1
      <4> QED
        BY <2>3, <3>1, <4>1 DEF Among
    <3> DEFINE m == x - 2
    <3>4. m \in Nat /\ (x - 1) - 1 = m /\ x = m + 2 /\ x - 1 = m + 1
      BY <2>2, <3>1
    <3> HIDE DEF m
    <3>5. Append(Behind1(m), m + 2) = Behind1(m + 1)
      BY <3>4, BehindRoot
    <3> QED
      BY <2>2, <3>2, <3>3, <3>4, <3>5
  <2> QED
    BY <2>4, <2>5
<1>8. l \in 1..l /\ l - 1 = n
  OBVIOUS
<1>9. f[l] = Behind1(n)
  BY <1>7, <1>8
<1> QED
  BY <1>2, <1>9

\* The last two bytes of a UUID of any length.
LEMMA UuidValue ==
  ASSUME NEW bytes \in Seq(Bytes256), NEW from \in Nat, NEW to \in Nat,
         to - from \in {3, 5, 17}, to <= Len(bytes)
  PROVE  Value(bytes, "uuid", from + 1, to - from - 1) = SubSeq(bytes, to - 1, to)
<1> DEFINE w == to - from - 1
           body == [k \in 1..w |-> At(bytes, (from + 1) + k - 1)]
           s == SubSeq(bytes, to - 1, to)
           v == LastBytes(2, body)
<1>1. w \in Nat /\ w >= 2 /\ from + 1 + w = to /\ Len(bytes) \in Nat
  <2>1. Len(bytes) \in Nat
    BY LenProperties
  <2>2. w \in {2, 4, 16} /\ from + 1 + w = to
    OBVIOUS
  <2> QED
    BY <2>1, <2>2
<1> HIDE DEF w
<1>2. /\ body \in Seq(Bytes256) /\ Len(body) = w
      /\ \A k \in 1..w : body[k] = bytes[from + k + 1]
  <2>1. \A i \in 1..Len(bytes) : bytes[i] \in Bytes256
    OBVIOUS
  <2>2. \A k \in 1..w : from + k + 1 \in 1..Len(bytes) /\ ((from + 1) + k - 1) + 1 = from + k + 1
    BY <1>1
  <2>3. \A k \in 1..w : body[k] = bytes[from + k + 1]
    BY <2>2 DEF At
  <2>4. (\A k \in 1..w : body[k] \in Bytes256) /\ body = [k \in 1..w |-> body[k]]
    BY <2>1, <2>2, <2>3
  <2> HIDE DEF body
  <2>5. body \in Seq(Bytes256) /\ Len(body) = w
    BY <1>1, <2>4, AsSequence
  <2> QED
    BY <2>3, <2>5
<1>3. Value(bytes, "uuid", from + 1, w) = v
  BY DEF Value
<1> HIDE DEF body
<1>4. s \in Seq(Bytes256) /\ Len(s) = 2 /\ s[1] = bytes[to - 1] /\ s[2] = bytes[to]
  <2>1. to - 1 \in 1..Len(bytes) /\ to \in 1..Len(bytes)
    BY <1>1
  <2>2. \A i \in (to - 1)..to : bytes[i] \in Bytes256
    BY <2>1
  <2>3. /\ s \in Seq(Bytes256)
        /\ Len(s) = IF to - 1 <= to THEN to - (to - 1) + 1 ELSE 0
        /\ \A i \in 1..(to - (to - 1) + 1) : s[i] = bytes[(to - 1) + i - 1]
    BY <2>2, SubSeqProperties
  <2>4. to - (to - 1) + 1 = 2 /\ to - 1 <= to /\ (to - 1) + 1 - 1 = to - 1 /\ (to - 1) + 2 - 1 = to
    OBVIOUS
  <2>5. 1 \in 1..2 /\ 2 \in 1..2
    OBVIOUS
  <2> HIDE DEF s
  <2> QED
    BY <2>3, <2>4, <2>5
<1>5. v \in Seq(Bytes256) /\ Len(v) = 2 /\ v[1] = bytes[to - 1] /\ v[2] = bytes[to]
  <2>1. v = [k \in 1..2 |-> IF Len(body) + k > 2 THEN body[Len(body) + k - 2] ELSE 0]
    BY DEF LastBytes
  <2>2. v[1] = body[w + 1 - 2] /\ v[2] = body[w + 2 - 2]
    BY <1>1, <1>2, <2>1
  <2>3. /\ w + 1 - 2 \in 1..w /\ from + (w + 1 - 2) + 1 = to - 1
        /\ w + 2 - 2 \in 1..w /\ from + (w + 2 - 2) + 1 = to
    BY <1>1
  <2>4. v[1] = bytes[to - 1] /\ v[2] = bytes[to]
    BY <1>2, <2>2, <2>3
  <2>5. v \in Seq(Bytes256)
    BY <1>2, LastBytesTyped
  <2>6. Len(v) = 2
    <3>1. v = [k \in 1..2 |-> v[k]] /\ \A k \in 1..2 : v[k] \in {v[1], v[2]}
      BY <2>1
    <3> HIDE DEF v
    <3> QED
      BY <3>1, AsSequence
  <2> QED
    BY <2>4, <2>5, <2>6
<1> HIDE DEF s, v
<1>6. \A k \in 1..2 : s[k] = v[k]
  <2>1. \A k \in 1..2 : k = 1 \/ k = 2
    OBVIOUS
  <2> QED
    BY <1>4, <1>5, <2>1
<1>7. s = v
  BY <1>4, <1>5, <1>6, SeqEqual
<1> QED
  BY <1>3, <1>7 DEF s, w

\* The UUIDs of a pattern that has been read are the last two bytes of its elements.
LEMMA UuidsRead ==
  ASSUME NEW bytes, NEW from, NEW at, Readable(bytes, from, at, "uuid"),
         NEW root \in {Null, Unset}
  PROVE  LET n == Len(at) - 1
             nodes == NodesRead(bytes, at, "uuid", root, from, n)
             children == Children(nodes, 1)
         IN /\ [k \in DOMAIN children |-> nodes[children[k]].value]
                 = [k \in 1..n |-> SubSeq(bytes, at[k + 1] - 1, at[k + 1])]
            /\ Len(children) = n
<1> DEFINE n == Len(at) - 1
           nodes == NodesRead(bytes, at, "uuid", root, from, n)
           children == Children(nodes, 1)
<1>1. Ascending(at, n) /\ bytes \in Seq(Bytes256) /\ Len(bytes) \in Nat /\ at[n + 1] <= Len(bytes)
  BY Numbers
<1>2. n \in Nat /\ n \in 0..n /\ n + 1 \in 1..(n + 1)
  <2>1. n \in Nat
    BY <1>1 DEF Ascending
  <2> QED
    BY <2>1
<1>3. Len(nodes) = n + 1
  BY <1>2, NodesTyped
<1> HIDE DEF n
<1>4. /\ nodes[1] = RootNode(root, Last(at) - Head(at), from)
      /\ \A i \in 2..(n + 1) :
           nodes[i] = Leaf(bytes, "uuid", at[i - 1], at[i] - at[i - 1] - 1)
  <2>1. 1 \in 1..(n + 1) /\ \A i \in 2..(n + 1) : i \in 1..(n + 1) /\ i # 1
    BY <1>2
  <2> QED
    BY <2>1 DEF NodesRead
<1>5. nodes[1].parent # 1 /\ \A i \in 2..(n + 1) : nodes[i].parent = 1
  <2>1. RootNode(root, Last(at) - Head(at), from).parent = root
    BY DEF RootNode
  <2>2. \A i \in 2..(n + 1) : Leaf(bytes, "uuid", at[i - 1], at[i] - at[i - 1] - 1).parent = 1
    BY DEF Leaf
  <2>3. root # 1
    BY DEF Null, Unset
  <2> HIDE DEF nodes
  <2> QED
    BY <1>4, <2>1, <2>2, <2>3
<1> HIDE DEF nodes
<1>6. children = Behind1(n)
  BY <1>2, <1>3, <1>5, ChildrenOfRoot
<1> HIDE DEF children
<1>7. DOMAIN children = 1..n /\ Len(children) = n /\ \A k \in 1..n : children[k] = k + 1
  <2>1. \A k \in 1..n : Behind1(n)[k] = k + 1
    BY DEF Behind1
  <2> QED
    BY <1>2, <1>6, <2>1, BehindRoot
<1>8. ASSUME NEW k \in 1..n
      PROVE  nodes[children[k]].value = SubSeq(bytes, at[k + 1] - 1, at[k + 1])
  <2>1. children[k] = k + 1 /\ k + 1 \in 2..(n + 1) /\ (k + 1) - 1 = k /\ k \in 1..(n + 1)
        /\ k + 1 \in 1..(n + 1)
    BY <1>2, <1>7
  <2>2. nodes[k + 1] = Leaf(bytes, "uuid", at[k], at[k + 1] - at[k] - 1)
    BY <1>4, <2>1
  <2>3. nodes[k + 1].value = Value(bytes, "uuid", at[k] + 1, at[k + 1] - at[k] - 1)
    BY <2>2 DEF Leaf
  <2>4. /\ at[k] \in Nat /\ at[k + 1] \in Nat
        /\ at[k + 1] - at[k] \in {3, 5, 17} /\ at[k + 1] <= Len(bytes)
    <3>1. at[k + 1] <= at[n + 1] /\ at[n + 1] \in Nat
      BY <1>1, <1>2, <2>1 DEF Ascending
    <3>2. at[k] \in Nat /\ at[k + 1] \in Nat /\ at[k + 1] - at[k] \in {3, 5, 17}
      BY <1>1, <2>1 DEF Ascending
    <3>3. at[n + 1] <= Len(bytes) /\ Len(bytes) \in Nat
      BY <1>1
    <3>4. at[k + 1] <= Len(bytes)
      BY <3>1, <3>2, <3>3
    <3> QED
      BY <3>2, <3>4
  <2>5. Value(bytes, "uuid", at[k] + 1, at[k + 1] - at[k] - 1)
          = SubSeq(bytes, at[k + 1] - 1, at[k + 1])
    BY <1>1, <2>4, UuidValue
  <2> QED
    BY <2>1, <2>3, <2>5
<1>9. [k \in DOMAIN children |-> nodes[children[k]].value]
        = [k \in 1..n |-> SubSeq(bytes, at[k + 1] - 1, at[k + 1])]
  BY <1>7, <1>8
<1> QED
  BY <1>7, <1>9 DEF n, nodes, children

-----------------------------------------------------------------------------
(* Reading requests that follow the standard.  The invariant says how far  *)
(* the reader is: at the head of a sequence or behind its k-th element,    *)
(* and what it has made of the elements in front of it.                    *)

\* Clients send searches as the standard has them.
Standard == \A p \in Packets : IsSearch(p) => WellFormed(p)

\* The reader before the turn that reads the header, or one of those that read an element.
InSequence(q, bytes, at, type, from) ==
  \E root \in {Null, Unset} :
    \/ q = Reading(bytes, from, root)
    \/ \E k \in 0..(Len(at) - 2) : q = ReaderAfter(bytes, at, type, root, from, k)
Behind2(p) == Last(p.pattern) + 2
PatternRead(nodes, p) ==
  \E root \in {Null, Unset} :
    nodes = NodesRead(p.bytes, p.pattern, "uuid", root, PatternIndex, Len(p.pattern) - 1)
SearchEntry(p) == [type |-> "hci_synchronous_data", bytes |-> p.bytes,
                   search |-> IsSearch(p), uuids |-> p.uuids]

ReadsPattern(p) ==
  stage = "pattern" =>
    idx = PatternIndex /\ InSequence(reader, p.bytes, p.pattern, "uuid", PatternIndex)
ReadsAttributes(p) ==
  stage = "attributes" =>
    /\ idx = Behind2(p) /\ PatternRead(pattern, p)
    /\ InSequence(reader, p.bytes, p.attributes, "uint", Behind2(p))
Answers(p) == stage = "response" => idx = Len(p.bytes) - 1
Working == {"pattern", "attributes", "response"}
InRequest(p) ==
  /\ IsSearch(p) /\ WellFormed(p) /\ packet = p.bytes
  /\ Len(traffic) > 0 /\ traffic[Len(traffic)] = SearchEntry(p)
  /\ ReadsPattern(p) /\ ReadsAttributes(p) /\ Answers(p)
ReadInv ==
  /\ stage \in Working => \E p \in Packets : InRequest(p)
  /\ stage # "crashed"

\* Both sequences of a request can be read.
LEMMA RequestReadable ==
  ASSUME NEW p \in Packets, WellFormed(p)
  PROVE  /\ Readable(p.bytes, PatternIndex, p.pattern, "uuid")
         /\ Readable(p.bytes, Behind2(p), p.attributes, "uint")
         /\ Behind2(p) \in Nat /\ Behind2(p) < 256
         /\ Len(p.bytes) \in Nat /\ Len(p.bytes) < 256
         /\ Last(p.attributes) = Len(p.bytes) - 1
<1>1. p.bytes \in Seq(Bytes256) /\ Len(p.bytes) \in Nat
  <2>1. p.bytes \in Seq(Bytes256)
    BY SdpAssumption
  <2> QED
    BY <2>1, LenProperties
<1>2. /\ SequenceAt(p.bytes, PatternIndex, p.pattern, "uuid")
      /\ SequenceAt(p.bytes, Behind2(p), p.attributes, "uint")
      /\ Len(p.bytes) = Last(p.attributes) + 1 /\ Len(p.bytes) < 256
  BY DEF WellFormed, Behind2
<1>3. Readable(p.bytes, PatternIndex, p.pattern, "uuid")
  BY <1>1, <1>2 DEF Readable, PatternIndex
<1>4. Last(p.pattern) \in Nat /\ Last(p.pattern) >= 13
  <2> DEFINE at == p.pattern
             n == Len(at) - 1
  <2>1. Ascending(at, n) /\ at[1] - PatternIndex \in {2, 3, 4}
    BY <1>3, Numbers
  <2>2. n \in Nat
    BY <2>1 DEF Ascending
  <2> HIDE DEF n
  <2>3. 1 \in 1..(n + 1) /\ n + 1 \in 1..(n + 1)
    BY <2>2
  <2>4. at[1] \in Nat /\ at[n + 1] \in Nat /\ at[1] <= at[n + 1] /\ Last(at) = at[n + 1]
    BY <2>1, <2>3 DEF Ascending
  <2> HIDE DEF at
  <2>5. at[1] >= 13
    BY <2>1, <2>4 DEF PatternIndex
  <2>6. Last(at) \in Nat /\ Last(at) >= 13
    BY <2>4, <2>5
  <2> QED
    BY <2>6 DEF at
<1>5. Behind2(p) \in Nat /\ 4 < Behind2(p)
  BY <1>4 DEF Behind2
<1>6. Readable(p.bytes, Behind2(p), p.attributes, "uint")
  BY <1>1, <1>2, <1>5 DEF Readable
<1>7. Last(p.attributes) = Len(p.bytes) - 1 /\ Last(p.attributes) \in Nat
  <2> DEFINE at == p.attributes
             n == Len(at) - 1
  <2>1. Ascending(at, n)
    BY <1>6, Numbers
  <2>2. n \in Nat
    BY <2>1 DEF Ascending
  <2> HIDE DEF n
  <2>3. n + 1 \in 1..(n + 1)
    BY <2>2
  <2>4. Last(at) \in Nat
    BY <2>1, <2>3 DEF Ascending
  <2> QED
    BY <1>1, <1>2, <2>4
<1>8. Behind2(p) < 256
  <2> DEFINE at == p.attributes
             n == Len(at) - 1
             b == Behind2(p)
  <2>1. Ascending(at, n) /\ at[1] - b \in {2, 3, 4} /\ at[n + 1] <= Len(p.bytes)
    BY <1>6, Numbers
  <2>2. n \in Nat
    BY <2>1 DEF Ascending
  <2> HIDE DEF n
  <2>3. 1 \in 1..(n + 1) /\ n + 1 \in 1..(n + 1)
    BY <2>2
  <2>4. at[1] \in Nat /\ at[n + 1] \in Nat /\ at[1] <= at[n + 1]
    BY <2>1, <2>3 DEF Ascending
  <2> HIDE DEF at, b
  <2>5. b < 256
    <3>1. b \in Nat
      BY <1>5 DEF b
    <3> QED
      BY <1>1, <1>2, <2>1, <2>4, <3>1
  <2> QED
    BY <2>5 DEF b
<1> QED
  BY <1>1, <1>2, <1>3, <1>5, <1>6, <1>7, <1>8

\* A turn in a sequence reads one more element, and the last one is the end.
LEMMA SequenceTurn ==
  ASSUME NEW q, NEW bytes, NEW at, NEW type, NEW from,
         Readable(bytes, from, at, type), InSequence(q, bytes, at, type, from)
  PROVE  \E root \in {Null, Unset} : \E k \in 0..(Len(at) - 1) :
           Turn(q) = ReaderAfter(bytes, at, type, root, from, k)
<1>1. PICK root \in {Null, Unset} :
        \/ q = Reading(bytes, from, root)
        \/ \E k \in 0..(Len(at) - 2) : q = ReaderAfter(bytes, at, type, root, from, k)
  BY DEF InSequence
<1>2. Len(at) - 1 \in Nat
  <2>1. Ascending(at, Len(at) - 1)
    BY PlacesRise
  <2> QED
    BY <2>1 DEF Ascending
<1>3. CASE q = Reading(bytes, from, root)
  <2>1. Turn(q) = ReaderAfter(bytes, at, type, root, from, 0)
    BY <1>3, FirstRead
  <2>2. 0 \in 0..(Len(at) - 1)
    BY <1>2
  <2> QED
    BY <2>1, <2>2
<1>4. CASE \E k \in 0..(Len(at) - 2) : q = ReaderAfter(bytes, at, type, root, from, k)
  <2>1. PICK k \in 0..(Len(at) - 2) : q = ReaderAfter(bytes, at, type, root, from, k)
    BY <1>4
  <2>2. Turn(q) = ReaderAfter(bytes, at, type, root, from, k + 1)
    BY <2>1, NextRead
  <2>3. k + 1 \in 0..(Len(at) - 1)
    BY <1>2
  <2> QED
    BY <2>2, <2>3
<1> QED
  BY <1>1, <1>3, <1>4

\* What there is to know of the reader between two turns.
LEMMA ReaderParts ==
  ASSUME NEW bytes, NEW at, NEW type, NEW root, NEW from, NEW k \in 0..(Len(at) - 1),
         Readable(bytes, from, at, type)
  PROVE  LET r == ReaderAfter(bytes, at, type, root, from, k)
         IN /\ r.state = "reading" => k \in 0..(Len(at) - 2)
            /\ r.state # "reading" => /\ r.state = "done" /\ k = Len(at) - 1
                                      /\ r.consumed = Last(at) - from
            /\ r.nodes = NodesRead(bytes, at, type, root, from, k)
            /\ r.consumed = at[k + 1] - from
            /\ r.current = 1
<1> DEFINE r == ReaderAfter(bytes, at, type, root, from, k)
           s == IF k < Len(at) - 1 THEN "reading" ELSE "done"
<1>1. /\ r.state = s /\ r.nodes = NodesRead(bytes, at, type, root, from, k)
      /\ r.consumed = at[k + 1] - from /\ r.current = 1
  BY StateParts DEF ReaderAfter
<1>2. Len(at) - 1 \in Nat /\ Last(at) = at[(Len(at) - 1) + 1]
  <2>1. Ascending(at, Len(at) - 1)
    BY PlacesRise
  <2> QED
    BY <2>1 DEF Ascending
<1> HIDE DEF r
<1>3. CASE k < Len(at) - 1
  <2>1. k \in 0..(Len(at) - 2)
    BY <1>2, <1>3
  <2> QED
    BY <1>1, <1>3, <2>1 DEF r
<1>4. CASE ~(k < Len(at) - 1)
  <2>1. k = Len(at) - 1
    BY <1>2, <1>4
  <2> QED
    BY <1>1, <1>2, <1>4, <2>1 DEF r
<1> QED
  BY <1>3, <1>4

\* A search starts the reader at its pattern.
LEMMA ReadAclInCompleted ==
  ASSUME Standard, SdpInv, ReadInv, NEW p \in Packets, AclInCompleted(p)
  PROVE  ReadInv'
<1>1. CASE IsSearch(p)
  <2>1. /\ stage' = "pattern" /\ packet' = p.bytes /\ idx' = PatternIndex
        /\ \E root \in {Null, Unset} : reader' = Reading(p.bytes, PatternIndex, root)
        /\ traffic' = Append(traffic, SearchEntry(p))
    BY <1>1 DEF AclInCompleted, SearchEntry
  <2>2. WellFormed(p)
    BY <1>1 DEF Standard
  <2>3. Len(traffic') > 0 /\ traffic'[Len(traffic')] = SearchEntry(p)
    <3> DEFINE S == Entries \cup {SearchEntry(p)}
               e == SearchEntry(p)
    <3>1. traffic \in Seq(S) /\ e \in S
      <4>1. traffic \in Seq(Entries)
        BY DEF SdpInv, LogInv
      <4>2. Len(traffic) \in Nat /\ \A i \in 1..Len(traffic) : traffic[i] \in S
        BY <4>1, LenProperties
      <4> HIDE DEF S
      <4>3. traffic \in Seq(S)
        BY <4>1, <4>2
      <4> QED
        BY <4>3 DEF S
    <3> HIDE DEF S, e
    <3>2. Len(Append(traffic, e)) = Len(traffic) + 1 /\ Append(traffic, e)[Len(traffic) + 1] = e
      BY <3>1, QueueAppend
    <3>3. Len(traffic) \in Nat
      BY <3>1, LenProperties
    <3> QED
      BY <2>1, <3>2, <3>3 DEF e
  <2>4. InSequence(reader', p.bytes, p.pattern, "uuid", PatternIndex)
    BY <2>1 DEF InSequence
  <2>5. InRequest(p)'
    BY <1>1, <2>1, <2>2, <2>3, <2>4 DEF InRequest, ReadsPattern, ReadsAttributes, Answers
  <2> QED
    BY <2>1, <2>5 DEF ReadInv
<1>2. CASE ~IsSearch(p)
  <2>1. stage' = "idle"
    BY <1>2 DEF AclInCompleted
  <2> QED
    BY <2>1 DEF ReadInv, Working
<1> QED
  BY <1>1, <1>2

\* A turn in the pattern; behind its last element the reader starts at the attributes.
LEMMA ReadReadPattern ==
  ASSUME ReadInv, ReadPattern
  PROVE  ReadInv'
<1> DEFINE r == Turn(reader)
<1>1. /\ stage = "pattern"
      /\ IF r.state # "done"
         THEN /\ reader' = r
              /\ stage' = IF r.state = "reading" THEN stage ELSE r.state
              /\ UNCHANGED <<pattern, idx>>
         ELSE /\ pattern' = r.nodes
              /\ idx' = Octet(idx + r.consumed + 2)
              /\ stage' = IF FirstUuid(r.nodes) THEN "attributes" ELSE "threw"
              /\ \E root \in {Null, Unset} : reader' = Reading(packet, idx', root)
      /\ packet' = packet /\ traffic' = traffic
  BY DEF ReadPattern, Turn
<1> HIDE DEF r
<1>2. PICK p \in Packets : InRequest(p)
  BY <1>1 DEF ReadInv, Working
<1> DEFINE at == p.pattern
<1>3. /\ IsSearch(p) /\ WellFormed(p) /\ packet = p.bytes
      /\ Len(traffic) > 0 /\ traffic[Len(traffic)] = SearchEntry(p)
      /\ idx = PatternIndex
      /\ InSequence(reader, p.bytes, at, "uuid", PatternIndex)
  BY <1>1, <1>2 DEF InRequest, ReadsPattern
<1>4. /\ Readable(p.bytes, PatternIndex, at, "uuid")
      /\ Behind2(p) \in Nat /\ Behind2(p) < 256
  BY <1>3, RequestReadable
<1>5. PICK root \in {Null, Unset}, k \in 0..(Len(at) - 1) :
        r = ReaderAfter(p.bytes, at, "uuid", root, PatternIndex, k)
  BY <1>3, <1>4, SequenceTurn DEF r
<1>6. /\ r.state = "reading" => k \in 0..(Len(at) - 2)
      /\ r.state # "reading" => /\ r.state = "done" /\ k = Len(at) - 1
                                /\ r.consumed = Last(at) - PatternIndex
      /\ r.nodes = NodesRead(p.bytes, at, "uuid", root, PatternIndex, k)
  <2> DEFINE q == ReaderAfter(p.bytes, at, "uuid", root, PatternIndex, k)
  <2>1. /\ q.state = "reading" => k \in 0..(Len(at) - 2)
        /\ q.state # "reading" => /\ q.state = "done" /\ k = Len(at) - 1
                                  /\ q.consumed = Last(at) - PatternIndex
        /\ q.nodes = NodesRead(p.bytes, at, "uuid", root, PatternIndex, k)
    BY <1>4, ReaderParts
  <2> HIDE DEF q
  <2> QED
    BY <1>5, <2>1 DEF q
<1>7. CASE r.state = "reading"
  <2>1. stage' = "pattern" /\ idx' = idx /\ reader' = r
    BY <1>1, <1>7
  <2>2. InSequence(reader', p.bytes, at, "uuid", PatternIndex)
    BY <1>5, <1>6, <1>7, <2>1 DEF InSequence
  <2>3. InRequest(p)'
    BY <1>1, <1>3, <2>1, <2>2 DEF InRequest, ReadsPattern, ReadsAttributes, Answers
  <2> QED
    BY <2>1, <2>3 DEF ReadInv
<1>8. CASE r.state # "reading"
  <2>1. /\ pattern' = r.nodes /\ idx' = Octet(idx + r.consumed + 2)
        /\ stage' \in {"attributes", "threw"}
        /\ \E o \in {Null, Unset} : reader' = Reading(packet, idx', o)
    BY <1>1, <1>6, <1>8
  <2>2. idx' = Behind2(p)
    <3>1. Last(at) \in Int /\ Last(at) + 2 = Behind2(p)
      <4> DEFINE n == Len(at) - 1
      <4>1. Ascending(at, n)
        BY <1>4, PlacesRise
      <4>2. n \in Nat
        BY <4>1 DEF Ascending
      <4> HIDE DEF n
      <4>3. n + 1 \in 1..(n + 1)
        BY <4>2
      <4>4. Last(at) \in Nat
        BY <4>1, <4>3 DEF Ascending
      <4> QED
        BY <4>4 DEF Behind2
    <3>2. idx + r.consumed + 2 = Behind2(p)
      BY <1>3, <1>6, <1>8, <3>1 DEF PatternIndex
    <3> QED
      BY <1>4, <2>1, <3>2, OctetOfByte
  <2>3. PatternRead(pattern', p)
    BY <1>6, <1>8, <2>1 DEF PatternRead
  <2>4. InSequence(reader', p.bytes, p.attributes, "uint", Behind2(p))
    BY <1>3, <2>1, <2>2 DEF InSequence
  <2>5. InRequest(p)'
    BY <1>1, <1>3, <2>1, <2>2, <2>3, <2>4 DEF InRequest, ReadsPattern, ReadsAttributes, Answers
  <2> QED
    BY <2>1, <2>5 DEF ReadInv
<1> QED
  BY <1>7, <1>8

\* A turn in the attributes; behind the last one only the continuation state is left.
LEMMA ReadReadAttributes ==
  ASSUME ReadInv, ReadAttributes
  PROVE  ReadInv'
<1> DEFINE r == Turn(reader)
<1>1. /\ stage = "attributes" /\ reader' = r
      /\ stage' = CASE r.state = "reading" -> stage
                    [] r.state = "done" -> "response"
                    [] OTHER -> r.state
      /\ idx' = IF r.state = "done" THEN Octet(idx + r.consumed) ELSE idx
      /\ packet' = packet /\ traffic' = traffic /\ pattern' = pattern
  BY DEF ReadAttributes, Turn
<1> HIDE DEF r
<1>2. PICK p \in Packets : InRequest(p)
  BY <1>1 DEF ReadInv, Working
<1> DEFINE at == p.attributes
<1>3. /\ IsSearch(p) /\ WellFormed(p) /\ packet = p.bytes
      /\ Len(traffic) > 0 /\ traffic[Len(traffic)] = SearchEntry(p)
      /\ idx = Behind2(p) /\ PatternRead(pattern, p)
      /\ InSequence(reader, p.bytes, at, "uint", Behind2(p))
  BY <1>1, <1>2 DEF InRequest, ReadsAttributes
<1>4. /\ Readable(p.bytes, Behind2(p), at, "uint") /\ Behind2(p) \in Nat
      /\ Len(p.bytes) \in Nat /\ Len(p.bytes) < 256 /\ Last(at) = Len(p.bytes) - 1
  BY <1>3, RequestReadable
<1> DEFINE from == Behind2(p)
<1> HIDE DEF from
<1>5. PICK root \in {Null, Unset}, k \in 0..(Len(at) - 1) :
        r = ReaderAfter(p.bytes, at, "uint", root, from, k)
  BY <1>3, <1>4, SequenceTurn DEF r, from
<1>6. /\ r.state = "reading" => k \in 0..(Len(at) - 2)
      /\ r.state # "reading" => r.state = "done" /\ r.consumed = Last(at) - from
  <2> DEFINE q == ReaderAfter(p.bytes, at, "uint", root, from, k)
  <2>1. /\ q.state = "reading" => k \in 0..(Len(at) - 2)
        /\ q.state # "reading" => q.state = "done" /\ q.consumed = Last(at) - from
    BY <1>4, ReaderParts DEF from
  <2> HIDE DEF q
  <2> QED
    BY <1>5, <2>1 DEF q
<1>7. CASE r.state = "reading"
  <2>1. stage' = "attributes" /\ idx' = idx
    BY <1>1, <1>7
  <2>2. InSequence(reader', p.bytes, at, "uint", Behind2(p))
    BY <1>1, <1>5, <1>6, <1>7 DEF InSequence, from
  <2>3. InRequest(p)'
    BY <1>1, <1>3, <2>1, <2>2 DEF InRequest, ReadsPattern, ReadsAttributes, Answers
  <2> QED
    BY <2>1, <2>3 DEF ReadInv
<1>8. CASE r.state # "reading"
  <2>1. stage' = "response" /\ idx' = Octet(idx + r.consumed)
    BY <1>1, <1>6, <1>8
  <2>2. idx' = Len(p.bytes) - 1
    <3>1. idx + r.consumed = Len(p.bytes) - 1
      BY <1>3, <1>4, <1>6, <1>8 DEF from
    <3>2. Len(p.bytes) - 1 \in Nat
      <4>1. p.bytes \in Seq(Bytes256) /\ Len(p.bytes) >= PatternIndex
        BY <1>3, SdpAssumption
      <4> QED
        BY <1>4, <4>1 DEF PatternIndex
    <3> QED
      BY <1>4, <2>1, <3>1, <3>2, OctetOfByte
  <2>3. InRequest(p)'
    BY <1>1, <1>3, <2>1, <2>2 DEF InRequest, ReadsPattern, ReadsAttributes, Answers
  <2> QED
    BY <2>1, <2>3 DEF ReadInv
<1> QED
  BY <1>7, <1>8

\* While the answer is written the request stays as it is.
LEMMA ReadWriteResponse ==
  ASSUME ReadInv, WriteResponse
  PROVE  ReadInv'
<1>1. /\ stage = "response"
      /\ \/ stage' \in {"idle", "threw"}
         \/ stage' = "response" /\ UNCHANGED <<packet, idx, traffic>>
  BY DEF WriteResponse
<1>2. CASE stage' \in {"idle", "threw"}
  BY <1>2 DEF ReadInv, Working
<1>3. CASE stage' = "response" /\ UNCHANGED <<packet, idx, traffic>>
  <2>1. PICK p \in Packets : InRequest(p)
    BY <1>1 DEF ReadInv, Working
  <2>2. InRequest(p)'
    BY <1>1, <1>3, <2>1 DEF InRequest, ReadsPattern, ReadsAttributes, Answers
  <2> QED
    BY <1>3, <2>2 DEF ReadInv
<1> QED
  BY <1>1, <1>2, <1>3

LEMMA ReadKept == Standard => (Spec => []ReadInv)
<1> SUFFICES ASSUME Standard PROVE Spec => []ReadInv
  OBVIOUS
<1>1. Init => ReadInv
  BY DEF Init, ReadInv, Working
<1>2. SdpInv /\ ReadInv /\ [Next]_vars => ReadInv'
  <2> SUFFICES ASSUME SdpInv, ReadInv, [Next]_vars PROVE ReadInv'
    OBVIOUS
  <2>1. ASSUME NEW p \in Packets, AclInCompleted(p) PROVE ReadInv'
    BY <2>1, ReadAclInCompleted
  <2>2. CASE Program
    BY <2>2, ReadReadPattern, ReadReadAttributes, ReadWriteResponse DEF Program
  <2>3. CASE Killed
    BY <2>3 DEF Killed, ReadInv, Working
  <2>4. CASE ReadLog
    <3>1. stage' = "closed"
      BY <2>4 DEF ReadLog
    <3> QED
      BY <3>1 DEF ReadInv, Working
  <2>5. CASE UNCHANGED vars
    <3>1. UNCHANGED <<stage, packet, idx, reader, pattern, traffic>>
      BY <2>5 DEF vars
    <3>2. \A p \in Packets : InRequest(p) => InRequest(p)'
      BY <3>1 DEF InRequest, ReadsPattern, ReadsAttributes, Answers
    <3> QED
      BY <3>1, <3>2 DEF ReadInv
  <2>6. CASE AclOutCompleted
    <3>1. stage' = "idle"
      BY <2>6 DEF AclOutCompleted
    <3> QED
      BY <3>1 DEF ReadInv, Working
  <2> QED
    BY <2>1, <2>2, <2>3, <2>4, <2>5, <2>6 DEF Next
<1> QED
  BY <1>1, <1>2, SdpKept, PTL DEF Spec

\* For every request that follows the standard, whatever the widths of its headers and of
\* its elements and however many it has: the two loops of deserializeDataElement end
\* exactly in front of the continuation state, although two bytes are added for a header
\* that takes two, three or four.
THEOREM WholeRequestIsRead == Standard => (Spec => []WholeRequestRead)
<1>1. ReadInv => WholeRequestRead
  <2> SUFFICES ASSUME ReadInv, stage = "response" PROVE idx = Len(packet) - 1
    BY DEF WholeRequestRead
  <2>1. PICK p \in Packets : InRequest(p)
    BY DEF ReadInv, Working
  <2> QED
    BY <2>1 DEF InRequest, Answers
<1> QED
  BY <1>1, ReadKept, PTL

\* And the UUIDs it searches for are found as children of the root, each with its last 16
\* bits and in its place.
THEOREM PatternKeepsItsPlace == Standard => (Spec => []PatternKeepsPlace)
<1>1. ReadInv => PatternKeepsPlace
  <2> SUFFICES ASSUME ReadInv, stage = "attributes"
               PROVE  LET children == Children(pattern, 1)
                      IN [k \in DOMAIN children |-> pattern[children[k]].value]
                           = Last(traffic).uuids
    BY DEF PatternKeepsPlace
  <2>1. PICK p \in Packets : InRequest(p)
    BY DEF ReadInv, Working
  <2>2. /\ WellFormed(p) /\ PatternRead(pattern, p) /\ Last(traffic).uuids = p.uuids
    <3>1. Last(traffic) = SearchEntry(p)
      BY <2>1 DEF InRequest, Last
    <3> QED
      BY <2>1, <3>1 DEF InRequest, ReadsAttributes, SearchEntry
  <2>3. Readable(p.bytes, PatternIndex, p.pattern, "uuid")
    BY <2>2, RequestReadable
  <2> DEFINE n == Len(p.pattern) - 1
  <2>4. PICK root \in {Null, Unset} :
          pattern = NodesRead(p.bytes, p.pattern, "uuid", root, PatternIndex, n)
    BY <2>2 DEF PatternRead
  <2>5. LET children == Children(pattern, 1)
        IN [k \in DOMAIN children |-> pattern[children[k]].value]
             = [k \in 1..n |-> SubSeq(p.bytes, p.pattern[k + 1] - 1, p.pattern[k + 1])]
    BY <2>3, <2>4, UuidsRead
  <2>6. p.uuids = [k \in 1..n |-> SubSeq(p.bytes, p.pattern[k + 1] - 1, p.pattern[k + 1])]
    BY <2>2 DEF WellFormed
  <2> QED
    BY <2>2, <2>5, <2>6
<1> QED
  BY <1>1, ReadKept, PTL

\* A root whose parent pointer nobody has set is never left: the pointer is only followed
\* when a sequence is taken to be finished, and no request that follows the standard
\* gets there before its last element has been read.
THEOREM NoUnsetParentIsFollowed == Standard => (Spec => []NoUnsetParentFollowed)
<1>1. ReadInv => NoUnsetParentFollowed
  BY DEF ReadInv, NoUnsetParentFollowed
<1> QED
  BY <1>1, ReadKept, PTL

-----------------------------------------------------------------------------
(* Types.  That counts fit 8 bits and the nodes are nodes depends on where *)
(* the reader gets to, so it rests on the invariant above.                 *)

\* The nodes of a request are nodes.
LEMMA NodesAreNodes ==
  ASSUME NEW s \in Seq(ReadNodes)
  PROVE  s \in Seq(Nodes)
<1> DEFINE types == DOMAIN Code \cup {"unknown", "dummy_uint"}
           sizes == 0..MaxSize
<1>1. Bytes256 \subseteq sizes
  <2>1. MaxSize \in Nat /\ 255 <= MaxSize
    BY DEF MaxSize
  <2> HIDE DEF MaxSize
  <2> QED
    BY <2>1 DEF Bytes256
<1>2. ReadTypes \subseteq types
  BY DEF ReadTypes, Code
<1> HIDE DEF types, sizes
<1>3. ReadNodes \subseteq [type : types, size : sizes, parent : Int, start_index : Bytes256,
                           value : Seq(Bytes256)]
  BY <1>1, <1>2 DEF ReadNodes
<1>4. ReadNodes \subseteq Nodes
  BY <1>3 DEF Nodes, types, sizes
<1>5. Len(s) \in Nat /\ \A i \in 1..Len(s) : s[i] \in Nodes
  BY <1>4, LenProperties
<1> QED
  BY <1>5

ReaderTyped(q) ==
  q.consumed \in Bytes256 /\ q.current \in DOMAIN q.nodes /\ q.nodes \in Seq(Nodes)

LEMMA ReadingTyped ==
  ASSUME NEW data, NEW start, NEW root \in {Null, Unset}
  PROVE  ReaderTyped(Reading(data, start, root))
<1> DEFINE s == <<Node("unknown", 0, root)>>
<1>1. s \in Seq(ReadNodes) /\ 1 \in DOMAIN s
  <2>1. "unknown" \in ReadTypes /\ 0 \in Bytes256 /\ << >> \in Seq(Bytes256) /\ root \in Int
    BY DEF ReadTypes, Bytes256, Null, Unset
  <2>2. Node("unknown", 0, root) \in ReadNodes
    BY <2>1 DEF Node, ReadNodes
  <2> QED
    BY <2>2
<1>2. /\ Reading(data, start, root).consumed = 0 /\ Reading(data, start, root).current = 1
      /\ Reading(data, start, root).nodes = s
  BY DEF Reading
<1> HIDE DEF s
<1>3. s \in Seq(Nodes)
  BY <1>1, NodesAreNodes
<1>4. 0 \in Bytes256
  BY DEF Bytes256
<1> QED
  BY <1>1, <1>2, <1>3, <1>4 DEF ReaderTyped

LEMMA ReaderAfterTyped ==
  ASSUME NEW bytes, NEW from, NEW at, NEW type, Readable(bytes, from, at, type),
         NEW root \in {Null, Unset}, NEW k \in 0..(Len(at) - 1)
  PROVE  ReaderTyped(ReaderAfter(bytes, at, type, root, from, k))
<1> DEFINE n == Len(at) - 1
           q == ReaderAfter(bytes, at, type, root, from, k)
           s == NodesRead(bytes, at, type, root, from, k)
<1>1. q.nodes = s /\ q.consumed = at[k + 1] - from /\ q.current = 1
  BY ReaderParts
<1>2. s \in Seq(ReadNodes) /\ Len(s) = k + 1
  BY NodesTyped
<1>3. 1 \in DOMAIN s
  <2>1. 1 \in 1..(k + 1)
    OBVIOUS
  <2> QED
    BY <2>1 DEF NodesRead
<1>4. /\ Ascending(at, n) /\ Len(bytes) \in Nat /\ Len(bytes) < 256
      /\ from \in Nat /\ at[1] - from \in {2, 3, 4} /\ at[n + 1] <= Len(bytes)
  BY Numbers
<1>5. n \in Nat /\ k \in 0..n
  BY <1>4 DEF Ascending
<1> HIDE DEF n, q, s
<1>6. /\ at[1] \in Nat /\ at[k + 1] \in Nat /\ at[n + 1] \in Nat
      /\ at[1] <= at[k + 1] /\ at[k + 1] <= at[n + 1]
  <2>1. 1 \in 1..(n + 1) /\ n + 1 \in 1..(n + 1) /\ k + 1 \in 1..(n + 1)
    BY <1>5
  <2> QED
    BY <1>4, <2>1 DEF Ascending
<1>7. at[k + 1] - from \in Nat /\ at[k + 1] - from < 256
  BY <1>4, <1>6
<1>8. q.consumed \in Bytes256
  <2> DEFINE m == at[k + 1] - from
  <2>1. m \in Nat /\ m < 256
    BY <1>7
  <2> HIDE DEF m
  <2>2. m \in Bytes256
    BY <2>1, OctetOfByte
  <2> QED
    BY <1>1, <2>2 DEF m
<1>9. s \in Seq(Nodes)
  BY <1>2, NodesAreNodes
<1> QED
  BY <1>1, <1>3, <1>8, <1>9 DEF ReaderTyped, q

TypeInv ==
  /\ stage \in Stages /\ idx \in Bytes256 /\ packet \in Seq(Bytes256)
  /\ ReaderTyped(reader) /\ pattern \in Seq(Nodes) /\ writer.target \in Written

LEMMA NothingWritten == ASSUME NEW nodes PROVE Writing(nodes).target \in Written
<1>1. << >> \in Seq(Bytes256) /\ Len(<< >>) = 0
  OBVIOUS
<1> QED
  BY <1>1 DEF Writing, Written

\* The bounds that the loops rest on hold in the first state ...
LEMMA TypeInit == Init => TypeInv
<1> SUFFICES ASSUME Init PROVE TypeInv
  OBVIOUS
<1>1. stage \in Stages /\ idx \in Bytes256 /\ packet \in Seq(Bytes256) /\ pattern \in Seq(Nodes)
  <2>1. 0 \in Bytes256
    BY DEF Bytes256
  <2> QED
    BY <2>1 DEF Init, Stages
<1>2. ReaderTyped(reader)
  BY ReadingTyped DEF Init, NoReader
<1>3. writer.target \in Written
  BY NothingWritten DEF Init
<1> QED
  BY <1>1, <1>2, <1>3 DEF TypeInv

\* ... and the reader keeps them while it reads the pattern,
LEMMA TypeReadPattern ==
  ASSUME TypeInv, ReadInv, ReadPattern
  PROVE  TypeInv'
<1> DEFINE r == Turn(reader)
<1>1. /\ stage = "pattern"
      /\ IF r.state # "done"
         THEN /\ reader' = r
              /\ stage' = IF r.state = "reading" THEN stage ELSE r.state
              /\ UNCHANGED <<pattern, idx>>
         ELSE /\ pattern' = r.nodes
              /\ idx' = Octet(idx + r.consumed + 2)
              /\ stage' = IF FirstUuid(r.nodes) THEN "attributes" ELSE "threw"
              /\ \E root \in {Null, Unset} : reader' = Reading(packet, idx', root)
      /\ packet' = packet /\ writer' = writer
  BY DEF ReadPattern, Turn
<1> HIDE DEF r
<1>2. PICK p \in Packets : InRequest(p)
  BY <1>1 DEF ReadInv, Working
<1>3. WellFormed(p) /\ InSequence(reader, p.bytes, p.pattern, "uuid", PatternIndex)
  BY <1>1, <1>2 DEF InRequest, ReadsPattern
<1>4. Readable(p.bytes, PatternIndex, p.pattern, "uuid")
  BY <1>3, RequestReadable
<1>5. PICK root \in {Null, Unset}, k \in 0..(Len(p.pattern) - 1) :
        r = ReaderAfter(p.bytes, p.pattern, "uuid", root, PatternIndex, k)
  BY <1>3, <1>4, SequenceTurn DEF r
<1>6. ReaderTyped(r)
  BY <1>4, <1>5, ReaderAfterTyped
<1>7. r.state \in {"reading", "done"}
  <2> DEFINE q == ReaderAfter(p.bytes, p.pattern, "uuid", root, PatternIndex, k)
  <2>1. q.state # "reading" => q.state = "done"
    BY <1>4, ReaderParts
  <2> HIDE DEF q
  <2> QED
    BY <1>5, <2>1 DEF q
<1>8. stage' \in Stages
  BY <1>1, <1>7 DEF Stages
<1>9. idx' \in Bytes256
  <2>1. idx \in Bytes256 /\ r.consumed \in Bytes256
    BY <1>6 DEF TypeInv, ReaderTyped
  <2>2. \A m \in Bytes256 : m \in Int
    BY DEF Bytes256
  <2>3. idx + r.consumed + 2 \in Int
    BY <2>1, <2>2
  <2> QED
    BY <1>1, <2>1, <2>3, OctetTyped
<1>10. ReaderTyped(reader')
  BY <1>1, <1>6, ReadingTyped
<1>11. pattern' \in Seq(Nodes)
  BY <1>1, <1>6 DEF TypeInv, ReaderTyped
<1> QED
  BY <1>1, <1>8, <1>9, <1>10, <1>11 DEF TypeInv

\* and the attributes.
LEMMA TypeReadAttributes ==
  ASSUME TypeInv, ReadInv, ReadAttributes
  PROVE  TypeInv'
<1> DEFINE r == Turn(reader)
<1>1. /\ stage = "attributes" /\ reader' = r
      /\ stage' = CASE r.state = "reading" -> stage
                    [] r.state = "done" -> "response"
                    [] OTHER -> r.state
      /\ idx' = IF r.state = "done" THEN Octet(idx + r.consumed) ELSE idx
      /\ writer' = IF r.state = "done" THEN Writing(ServiceRecord) ELSE writer
      /\ packet' = packet /\ pattern' = pattern
  BY DEF ReadAttributes, Turn
<1> HIDE DEF r
<1>2. PICK p \in Packets : InRequest(p)
  BY <1>1 DEF ReadInv, Working
<1>3. WellFormed(p) /\ InSequence(reader, p.bytes, p.attributes, "uint", Behind2(p))
  BY <1>1, <1>2 DEF InRequest, ReadsAttributes
<1>4. Readable(p.bytes, Behind2(p), p.attributes, "uint")
  BY <1>3, RequestReadable
<1>5. PICK root \in {Null, Unset}, k \in 0..(Len(p.attributes) - 1) :
        r = ReaderAfter(p.bytes, p.attributes, "uint", root, Behind2(p), k)
  BY <1>3, <1>4, SequenceTurn DEF r
<1>6. ReaderTyped(r)
  BY <1>4, <1>5, ReaderAfterTyped
<1>7. r.state \in {"reading", "done"}
  <2> DEFINE q == ReaderAfter(p.bytes, p.attributes, "uint", root, Behind2(p), k)
  <2>1. q.state # "reading" => q.state = "done"
    BY <1>4, ReaderParts
  <2> HIDE DEF q
  <2> QED
    BY <1>5, <2>1 DEF q
<1>8. stage' \in Stages
  BY <1>1, <1>7 DEF Stages
<1>9. idx' \in Bytes256
  <2>1. idx \in Bytes256 /\ r.consumed \in Bytes256
    BY <1>6 DEF TypeInv, ReaderTyped
  <2>2. \A m \in Bytes256 : m \in Int
    BY DEF Bytes256
  <2>3. idx + r.consumed \in Int
    BY <2>1, <2>2
  <2> QED
    BY <1>1, <2>1, <2>3, OctetTyped
<1>10. writer'.target \in Written
  BY <1>1, NothingWritten DEF TypeInv
<1> QED
  BY <1>1, <1>6, <1>8, <1>9, <1>10 DEF TypeInv

LEMMA TypeWriteResponse ==
  ASSUME TypeInv, SdpInv, WriteResponse
  PROVE  TypeInv'
<1> DEFINE w == serializeSequenceDataElement(writer)
<1>1. /\ stage = "response" /\ writer' = w
      /\ IF w.state = "done"
         THEN /\ stage' = "idle"
              /\ packet' = << >> /\ reader' = NoReader /\ pattern' = << >> /\ idx' = 0
         ELSE /\ stage' = IF w.state = "threw" THEN "threw" ELSE stage
              /\ UNCHANGED <<packet, reader, pattern, idx>>
  BY DEF WriteResponse
<1>2. writer \in Writers
  BY <1>1 DEF SdpInv, CallbackInv
<1>3. w.target \in Written
  <2>1. \A x \in Writers : x.target \in Written
    BY DEF Writers
  <2> QED
    BY <1>2, <2>1, WriterTurn
<1> HIDE DEF w
<1>4. CASE w.state = "done"
  <2>1. 0 \in Bytes256
    BY DEF Bytes256
  <2>2. ReaderTyped(NoReader)
    BY ReadingTyped DEF NoReader
  <2> QED
    BY <1>1, <1>3, <1>4, <2>1, <2>2 DEF TypeInv, Stages
<1>5. CASE w.state # "done"
  BY <1>1, <1>3, <1>5 DEF TypeInv, Stages
<1> QED
  BY <1>4, <1>5

LEMMA TypeKilled ==
  ASSUME Killed
  PROVE  TypeInv'
<1>1. /\ stage' = "closed" /\ packet' = << >> /\ reader' = NoReader /\ pattern' = << >>
      /\ idx' = 0 /\ writer' = Writing(<< >>)
  BY DEF Killed
<1>2. 0 \in Bytes256
  BY DEF Bytes256
<1>3. ReaderTyped(NoReader)
  BY ReadingTyped DEF NoReader
<1> QED
  BY <1>1, <1>2, <1>3, NothingWritten DEF TypeInv, Stages

\* Counts and positions fit 8 bits, everything that is read, written or logged is made of
\* bytes, and the array of 256 bytes is never exceeded, for every request that follows
\* the standard and fits the array it is read from.
THEOREM SdpTyping == Standard => (Spec => []TypeOK)
<1> SUFFICES ASSUME Standard PROVE Spec => []TypeOK
  OBVIOUS
<1>1. TypeInv /\ SdpInv /\ ReadInv /\ [Next]_vars => TypeInv'
  <2> SUFFICES ASSUME TypeInv, SdpInv, ReadInv, [Next]_vars PROVE TypeInv'
    OBVIOUS
  <2>1. ASSUME NEW p \in Packets, AclInCompleted(p) PROVE TypeInv'
    <3>1. CASE IsSearch(p)
      <4>1. /\ stage' = "pattern" /\ packet' = p.bytes /\ idx' = PatternIndex
            /\ \E root \in {Null, Unset} : reader' = Reading(p.bytes, PatternIndex, root)
            /\ pattern' = pattern /\ writer' = writer
        BY <2>1, <3>1 DEF AclInCompleted
      <4>2. p.bytes \in Seq(Bytes256) /\ PatternIndex \in Bytes256
        BY SdpAssumption DEF PatternIndex, Bytes256
      <4> QED
        BY <4>1, <4>2, ReadingTyped DEF TypeInv, Stages
    <3>2. CASE ~IsSearch(p)
      BY <2>1, <3>2 DEF AclInCompleted, TypeInv, server
    <3> QED
      BY <3>1, <3>2
  <2>2. CASE Program
    BY <2>2, TypeReadPattern, TypeReadAttributes, TypeWriteResponse DEF Program
  <2>3. CASE Killed
    BY <2>3, TypeKilled
  <2>4. CASE ReadLog
    BY <2>4 DEF ReadLog, server, TypeInv
  <2>5. CASE UNCHANGED vars
    BY <2>5 DEF vars, TypeInv
  <2>6. CASE AclOutCompleted
    BY <2>6 DEF AclOutCompleted, server, TypeInv
  <2> QED
    BY <2>1, <2>2, <2>3, <2>4, <2>5, <2>6 DEF Next
<1>2. TypeInv /\ SdpInv => TypeOK
  <2> SUFFICES ASSUME TypeInv, SdpInv PROVE TypeOK
    OBVIOUS
  <2>1. log.position \in Nat /\ log.stopped \in BOOLEAN
    <3>1. PICK at \in [1..(Len(traffic) + 1) -> Nat] :
            \E n \in 0..Len(traffic) : ReadSoFar(log, traffic, at, n)
      BY DEF SdpInv, LogInv, LogState
    <3>2. PICK n \in 0..Len(traffic) : ReadSoFar(log, traffic, at, n)
      BY <3>1
    <3>3. log.position = at[n + 1] /\ log.stopped \in BOOLEAN
      BY <3>2 DEF ReadSoFar
    <3>4. n + 1 \in 1..(Len(traffic) + 1)
      <4>1. Len(traffic) \in Nat
        BY LenProperties DEF SdpInv, LogInv
      <4> QED
        BY <4>1
    <3> QED
      BY <3>3, <3>4
  <2>2. file \in Seq(Bytes256) /\ \A i \in DOMAIN traffic : traffic[i].bytes \in Seq(Bytes256)
    <3>1. traffic \in Seq(Entries) /\ file \in Seq(Bytes256)
      BY DEF SdpInv, LogInv
    <3>2. \A i \in DOMAIN traffic : traffic[i] \in Entries
      BY <3>1
    <3> QED
      BY <3>1, <3>2 DEF Entries
  <2>3. writer.target \in Seq(Bytes256) /\ Len(writer.target) <= 256
    BY DEF TypeInv, Written
  <2>4. flying \in Seq(Seq(Bytes256)) /\ received \in 0..MaxPackets
    BY DEF SdpInv, SentInv
  <2> QED
    BY <2>1, <2>2, <2>3, <2>4 DEF TypeInv, ReaderTyped, TypeOK
<1> QED
  BY <1>1, <1>2, TypeInit, ReadKept, SdpKept, PTL DEF Spec

-----------------------------------------------------------------------------
(* The record is written node by node.                                     *)

Rises(s) == \A i, j \in DOMAIN s : i < j => s[i] < s[j]

\* The nodes up to the k-th whose parent is the n-th, in order.
ListedUpTo(nodes, n, s, k) ==
  /\ s \in Seq(DOMAIN nodes) /\ Rises(s)
  /\ \A j \in DOMAIN nodes :
       (\E i \in DOMAIN s : s[i] = j) <=> (j <= k /\ nodes[j].parent = n)

\* One more.
LEMMA OneMoreListed ==
  ASSUME NEW S, NEW nodes \in Seq(S), NEW n, NEW s, NEW k \in DOMAIN nodes,
         ListedUpTo(nodes, n, s, k - 1), nodes[k].parent = n
  PROVE  ListedUpTo(nodes, n, Append(s, k), k)
<1> DEFINE D == DOMAIN nodes
           a == Append(s, k)
<1>1. /\ D \subseteq Nat /\ k \in D /\ s \in Seq(D) /\ Rises(s)
      /\ \A j \in D : (\E i \in DOMAIN s : s[i] = j) <=> (j <= k - 1 /\ nodes[j].parent = n)
  BY DEF ListedUpTo
<1>2. /\ a \in Seq(D) /\ Len(a) = Len(s) + 1 /\ Len(s) \in Nat
      /\ DOMAIN a = 1..(Len(s) + 1) /\ DOMAIN s = 1..Len(s)
      /\ \A i \in DOMAIN s : a[i] = s[i] /\ s[i] \in D
      /\ a[Len(s) + 1] = k
  <2> HIDE DEF D
  <2>1. s \in Seq(D) /\ k \in D
    BY <1>1
  <2> QED
    BY <2>1, QueueAppend, LenProperties
<1> DEFINE l == Len(s)
<1> HIDE DEF D, a, l
<1>3. /\ \A i \in DOMAIN a : i \in DOMAIN s \/ i = l + 1
      /\ \A i \in DOMAIN s : i \in DOMAIN a /\ i \in Nat /\ i <= l
      /\ l + 1 \in DOMAIN a /\ a[l + 1] = k /\ l \in Nat
  BY <1>2 DEF l
<1>4. \A i \in DOMAIN s : s[i] < k
  <2> SUFFICES ASSUME NEW i \in DOMAIN s PROVE s[i] < k
    OBVIOUS
  <2>1. s[i] \in D /\ s[i] <= k - 1
    BY <1>1, <1>2
  <2>2. s[i] \in Nat /\ k \in Nat
    BY <1>1, <2>1
  <2> QED
    BY <2>1, <2>2
<1>5. Rises(a)
  <2> SUFFICES ASSUME NEW i \in DOMAIN a, NEW j \in DOMAIN a, i < j PROVE a[i] < a[j]
    BY DEF Rises
  <2>1. i \in DOMAIN s
    BY <1>3
  <2>2. CASE j \in DOMAIN s
    BY <1>1, <1>2, <2>1, <2>2 DEF Rises
  <2>3. CASE j = l + 1
    BY <1>2, <1>3, <1>4, <2>1, <2>3
  <2> QED
    BY <1>3, <2>2, <2>3
<1>6. ASSUME NEW j \in D
      PROVE  (\E i \in DOMAIN a : a[i] = j) <=> (j <= k /\ nodes[j].parent = n)
  <2>1. (\E i \in DOMAIN a : a[i] = j) <=> ((\E i \in DOMAIN s : s[i] = j) \/ j = k)
    BY <1>2, <1>3
  <2>2. j <= k <=> (j <= k - 1 \/ j = k)
    BY <1>1
  <2> QED
    BY <1>1, <2>1, <2>2
<1> QED
  BY <1>2, <1>5, <1>6 DEF ListedUpTo, D, a

\* The children of a node are the nodes it is the parent of, in their order.
LEMMA ChildrenListed ==
  ASSUME NEW S, NEW nodes \in Seq(S), NEW n
  PROVE  ListedUpTo(nodes, n, Children(nodes, n), Len(nodes))
<1> DEFINE l == Len(nodes)
           D == DOMAIN nodes
           f == CHOOSE g : g = [k \in 0..l |-> Among(nodes, n, g, k)]
           T == {k \in 0..l : ~ListedUpTo(nodes, n, f[k], k)}
<1>1. l \in Nat /\ D = 1..l
  BY LenProperties
<1>2. Children(nodes, n) = f[l]
  BY DEF Children, Among
<1>3. f = [k \in 0..l |-> Among(nodes, n, f, k)]
  BY <1>1, AmongExists
<1> HIDE DEF f, l, D
<1>4. \A k \in 0..l : f[k] = Among(nodes, n, f, k)
  BY <1>3
<1>5. T = {}
  <2> SUFFICES ASSUME T # {} PROVE FALSE
    OBVIOUS
  <2>0. T \subseteq Nat /\ T # {}
    OBVIOUS
  <2>1. PICK x \in T : \A y \in T : ~(y < x)
    <3> HIDE DEF T
    <3> QED
      BY <2>0, LeastNumber
  <2>2. x \in 0..l /\ f[x] = Among(nodes, n, f, x) /\ ~ListedUpTo(nodes, n, f[x], x)
    BY <1>4
  <2>3. CASE x = 0
    <3>1. f[x] = << >>
      BY <2>2, <2>3 DEF Among
    <3>2. << >> \in Seq(D) /\ DOMAIN << >> = {}
      OBVIOUS
    <3>3. \A j \in D : ~(j <= 0)
      BY <1>1
    <3>4. ListedUpTo(nodes, n, << >>, 0)
      BY <3>2, <3>3 DEF ListedUpTo, Rises, D
    <3> QED
      BY <2>2, <2>3, <3>1, <3>4
  <2>4. CASE x # 0
    <3>1. x - 1 \in 0..l /\ x - 1 < x /\ x \in D /\ \A j \in D : j <= x <=> j <= x - 1 \/ j = x
      BY <1>1, <2>2, <2>4
    <3>2. ListedUpTo(nodes, n, f[x - 1], x - 1)
      BY <2>1, <3>1
    <3>3. CASE nodes[x].parent = n
      <4>1. f[x] = Append(f[x - 1], x)
        BY <2>2, <2>4, <3>3 DEF Among
      <4>2. ListedUpTo(nodes, n, Append(f[x - 1], x), x)
        BY <3>1, <3>2, <3>3, OneMoreListed DEF D
      <4> QED
        BY <2>2, <4>1, <4>2
    <3>4. CASE nodes[x].parent # n
      <4>1. f[x] = f[x - 1]
        BY <2>2, <2>4, <3>4 DEF Among
      <4>2. ListedUpTo(nodes, n, f[x - 1], x)
        BY <3>1, <3>2, <3>4 DEF ListedUpTo, D
      <4> QED
        BY <2>2, <4>1, <4>2
    <3> QED
      BY <3>3, <3>4
  <2> QED
    BY <2>3, <2>4
<1>6. l \in 0..l
  BY <1>1
<1>7. ListedUpTo(nodes, n, f[l], l)
  BY <1>5, <1>6
<1> QED
  BY <1>2, <1>7 DEF l

Listed(s, e) == \E i \in DOMAIN s : s[i] = e

\* Two rising lists in a row.
LEMMA RisingRow ==
  ASSUME NEW D, D \subseteq Nat, NEW s \in Seq(D), NEW t \in Seq(D), Rises(s), Rises(t),
         \A i \in DOMAIN s, j \in DOMAIN t : s[i] < t[j]
  PROVE  /\ s \o t \in Seq(D) /\ Rises(s \o t)
         /\ \A e : Listed(s \o t, e) <=> (Listed(s, e) \/ Listed(t, e))
<1> DEFINE r == s \o t
           m == Len(s)
           n == Len(t)
<1>1. /\ r \in Seq(D) /\ Len(r) = m + n
      /\ \A i \in 1..m : r[i] = s[i]
      /\ \A i \in 1..n : r[m + i] = t[i]
  BY Joined
<1>2. /\ m \in Nat /\ n \in Nat /\ DOMAIN s = 1..m /\ DOMAIN t = 1..n /\ DOMAIN r = 1..(m + n)
  BY <1>1, LenProperties
<1> HIDE DEF r, m, n
<1>3. \A i \in 1..(m + n) : i \in 1..m \/ (i - m \in 1..n /\ r[i] = t[i - m])
  <2> SUFFICES ASSUME NEW i \in 1..(m + n), i \notin 1..m
               PROVE  i - m \in 1..n /\ r[i] = t[i - m]
    OBVIOUS
  <2>1. i - m \in 1..n /\ m + (i - m) = i
    BY <1>2
  <2> QED
    BY <1>1, <2>1
<1>4. Rises(r)
  <2> SUFFICES ASSUME NEW i \in 1..(m + n), NEW j \in 1..(m + n), i < j PROVE r[i] < r[j]
    BY <1>2 DEF Rises
  <2>1. CASE j \in 1..m
    <3>1. i \in 1..m
      BY <1>2, <2>1
    <3> QED
      BY <1>1, <1>2, <2>1, <3>1 DEF Rises
  <2>2. CASE j \notin 1..m /\ i \in 1..m
    BY <1>1, <1>2, <1>3, <2>2
  <2>3. CASE j \notin 1..m /\ i \notin 1..m
    <3>1. /\ i - m \in 1..n /\ j - m \in 1..n /\ i - m < j - m
          /\ r[i] = t[i - m] /\ r[j] = t[j - m]
      BY <1>2, <1>3, <2>3
    <3> QED
      BY <1>2, <3>1 DEF Rises
  <2> QED
    BY <2>1, <2>2, <2>3
<1>5. ASSUME NEW e PROVE Listed(r, e) <=> (Listed(s, e) \/ Listed(t, e))
  <2>1. \A i \in 1..m : i \in 1..(m + n)
    BY <1>2
  <2>2. \A i \in 1..n : m + i \in 1..(m + n)
    BY <1>2
  <2>3. Listed(s, e) => Listed(r, e)
    BY <1>1, <1>2, <2>1 DEF Listed
  <2>4. Listed(t, e) => Listed(r, e)
    BY <1>1, <1>2, <2>2 DEF Listed
  <2>5. Listed(r, e) => Listed(s, e) \/ Listed(t, e)
    BY <1>1, <1>2, <1>3 DEF Listed
  <2> QED
    BY <2>3, <2>4, <2>5
<1> QED
  BY <1>1, <1>4, <1>5 DEF r

\* Of a rising list the first element is the least.
LEMMA RisingTail ==
  ASSUME NEW D, D \subseteq Nat, NEW s \in Seq(D), Rises(s), s # << >>
  PROVE  /\ Head(s) \in D /\ Listed(s, Head(s))
         /\ Tail(s) \in Seq(D) /\ Rises(Tail(s))
         /\ \A e : Listed(s, e) => e = Head(s) \/ (Listed(Tail(s), e) /\ Head(s) < e)
         /\ \A e : Listed(Tail(s), e) => Listed(s, e) /\ Head(s) < e
<1> DEFINE t == Tail(s)
           h == Head(s)
           n == Len(s)
<1>1. /\ h \in D /\ t \in Seq(D) /\ 1 \in DOMAIN s /\ h = s[1] /\ Len(t) = n - 1
      /\ \A i \in DOMAIN t : i + 1 \in DOMAIN s /\ t[i] = s[i + 1]
  BY QueueTail
<1>2. n \in Nat /\ n > 0 /\ DOMAIN s = 1..n /\ DOMAIN t = 1..(n - 1)
  BY <1>1, LenProperties
<1> HIDE DEF t, h, n
<1>3. Rises(t)
  <2> SUFFICES ASSUME NEW i \in DOMAIN t, NEW j \in DOMAIN t, i < j PROVE t[i] < t[j]
    BY DEF Rises
  <2>1. i + 1 \in DOMAIN s /\ j + 1 \in DOMAIN s /\ i + 1 < j + 1
    BY <1>1, <1>2
  <2> QED
    BY <1>1, <2>1 DEF Rises
<1>4. \A i \in DOMAIN s : i # 1 => /\ i - 1 \in DOMAIN t /\ (i - 1) + 1 = i /\ 1 < i
                                  /\ s[i] = t[i - 1] /\ h < s[i]
  <2> SUFFICES ASSUME NEW i \in DOMAIN s, i # 1
               PROVE  i - 1 \in DOMAIN t /\ (i - 1) + 1 = i /\ 1 < i /\ s[i] = t[i - 1] /\ h < s[i]
    OBVIOUS
  <2>1. i - 1 \in DOMAIN t /\ (i - 1) + 1 = i /\ 1 < i
    BY <1>2
  <2> QED
    BY <1>1, <2>1 DEF Rises
<1>5. \A e : Listed(s, e) => e = h \/ (Listed(t, e) /\ h < e)
  BY <1>1, <1>4 DEF Listed
<1>6. \A i \in DOMAIN t : h < t[i]
  <2> SUFFICES ASSUME NEW i \in DOMAIN t PROVE h < t[i]
    OBVIOUS
  <2>1. i + 1 \in DOMAIN s /\ i + 1 # 1 /\ t[i] = s[i + 1]
    BY <1>1, <1>2
  <2> QED
    BY <1>4, <2>1
<1>7. \A e : Listed(t, e) => Listed(s, e) /\ h < e
  BY <1>1, <1>6 DEF Listed
<1>8. Listed(s, h)
  BY <1>1 DEF Listed
<1> QED
  BY <1>1, <1>3, <1>5, <1>7, <1>8 DEF t, h

\* The record is a tree whose nodes come one after the other: last[n] is the last node
\* beneath the n-th, begins[n] the byte at which the n-th begins, and begins[n + 1]
\* where the last one ends.
InOrder(last, begins) ==
  LET count == Len(ServiceRecord)
  IN /\ last \in [1..count -> 1..count] /\ begins \in [1..(count + 1) -> Nat] /\ begins[1] = 0
     /\ \A n \in 1..count :
          /\ ServiceRecord[n].parent < n /\ (n > 1 => ServiceRecord[n].parent > 0)
          /\ begins[n + 1] = begins[n] + Len(serializeSimpleDataElement(ServiceRecord[n]))
     /\ \A n, d \in 1..count :
          (n < d /\ d <= last[n]) <=>
            \/ n = ServiceRecord[d].parent
            \/ n < ServiceRecord[d].parent /\ ServiceRecord[d].parent <= last[n]

\* What waits to be written when k nodes are.
Waiting(queue, k) ==
  /\ queue \in Seq(DOMAIN ServiceRecord) /\ Rises(queue)
  /\ \A j \in DOMAIN ServiceRecord :
       Listed(queue, j) <=> (k < j /\ ServiceRecord[j].parent <= k)

\* The nodes of the record, once for all.
LEMMA RecordDomain ==
  /\ ServiceRecord \in Seq(RecordNodes) /\ Len(ServiceRecord) \in Nat
  /\ Len(ServiceRecord) > 0
  /\ DOMAIN ServiceRecord = 1..Len(ServiceRecord) /\ DOMAIN ServiceRecord \subseteq Nat
  /\ \A n \in DOMAIN ServiceRecord : ServiceRecord[n] \in RecordNodes
                                     /\ ServiceRecord[n].parent \in Nat
<1>1. ServiceRecord \in Seq(RecordNodes) /\ 1 \in DOMAIN ServiceRecord
  BY ServiceRecordTyped
<1> DEFINE R == ServiceRecord
<1> HIDE DEF R
<1>2. R \in Seq(RecordNodes) /\ 1 \in DOMAIN R
  BY <1>1 DEF R
<1>3. Len(R) \in Nat /\ DOMAIN R = 1..Len(R)
  BY <1>2, LenProperties
<1>4. Len(R) > 0 /\ DOMAIN R \subseteq Nat
  BY <1>2, <1>3
<1>5. \A n \in DOMAIN R : R[n] \in RecordNodes /\ R[n].parent \in Nat
  <2>1. \A x \in RecordNodes : x.parent \in Nat
    BY DEF RecordNodes
  <2> QED
    BY <1>2, <1>3, <2>1
<1> QED
  BY <1>2, <1>3, <1>4, <1>5 DEF R

\* If anything waits, the next node is in front; if nothing does, all are written.
LEMMA NextInFront ==
  ASSUME NEW last, NEW begins, InOrder(last, begins),
         NEW k \in 0..Len(ServiceRecord), NEW queue, Waiting(queue, k)
  PROVE  /\ queue = << >> => k = Len(ServiceRecord)
         /\ queue # << >> => k + 1 \in DOMAIN ServiceRecord /\ Head(queue) = k + 1
<1> DEFINE R == ServiceRecord
           c == Len(R)
           D == DOMAIN R
           parent(j) == R[j].parent
<1>1. /\ c \in Nat /\ D = 1..c /\ D \subseteq Nat
      /\ \A n \in D : parent(n) \in Nat
  BY RecordDomain
<1>2. \A n \in D : parent(n) < n
  BY RecordDomain DEF InOrder
<1>3. /\ queue \in Seq(D) /\ Rises(queue)
      /\ \A j \in D : Listed(queue, j) <=> (k < j /\ parent(j) <= k)
  BY DEF Waiting
<1>4. k \in Nat /\ k <= c
  BY <1>1
<1> HIDE DEF R, c, D, parent
<1>5. k + 1 \in D => Listed(queue, k + 1)
  <2> SUFFICES ASSUME k + 1 \in D PROVE Listed(queue, k + 1)
    OBVIOUS
  <2>1. parent(k + 1) < k + 1 /\ parent(k + 1) \in Nat
    BY <1>1, <1>2
  <2>2. k < k + 1 /\ parent(k + 1) <= k
    BY <1>4, <2>1
  <2> QED
    BY <1>3, <2>2
<1>6. CASE queue = << >>
  <2>1. \A e : ~Listed(queue, e)
    BY <1>6 DEF Listed
  <2>2. k + 1 \notin D
    BY <1>5, <2>1
  <2>3. k = c
    BY <1>1, <1>4, <2>2
  <2> QED
    BY <1>6, <2>3 DEF c, R
<1>7. CASE queue # << >>
  <2> DEFINE h == Head(queue)
  <2>1. /\ h \in D /\ Listed(queue, h)
        /\ \A e : Listed(queue, e) => e = h \/ h < e
    BY <1>1, <1>3, <1>7, RisingTail
  <2> HIDE DEF h
  <2>2. h \in Nat /\ k < h /\ h \in 1..c
    BY <1>1, <1>3, <2>1
  <2>3. k + 1 \in D
    BY <1>1, <1>4, <2>2
  <2>4. k + 1 = h \/ h < k + 1
    BY <1>5, <2>1, <2>3
  <2>5. h = k + 1
    BY <1>4, <2>2, <2>4
  <2> QED
    BY <1>7, <2>3, <2>5 DEF h, D, R
<1> QED
  BY <1>6, <1>7

\* The children of the node that is written go in front of what waits, and the node
\* after it is the next.
LEMMA ChildrenInFront ==
  ASSUME NEW last, NEW begins, InOrder(last, begins),
         NEW k \in 0..Len(ServiceRecord), NEW queue, Waiting(queue, k), queue # << >>
  PROVE  Waiting(Children(ServiceRecord, k + 1) \o Tail(queue), k + 1)
<1> DEFINE R == ServiceRecord
           c == Len(R)
           D == DOMAIN R
           parent(j) == R[j].parent
           m == k + 1
           s == Children(R, m)
           t == Tail(queue)
<1>1. /\ R \in Seq(RecordNodes) /\ c \in Nat /\ D = 1..c /\ D \subseteq Nat
      /\ \A n \in D : parent(n) \in Nat
  BY RecordDomain
<1>2. \A n \in D : parent(n) < n
  BY RecordDomain DEF InOrder
<1>3. /\ queue \in Seq(D) /\ Rises(queue)
      /\ \A j \in D : Listed(queue, j) <=> (k < j /\ parent(j) <= k)
  BY DEF Waiting
<1>4. m \in D /\ Head(queue) = m /\ k \in Nat /\ m = k + 1
  BY NextInFront
<1>5. \A d \in D : (m < d /\ d <= last[m])
                     <=> (m = parent(d) \/ (m < parent(d) /\ parent(d) <= last[m]))
  BY <1>1, <1>4 DEF InOrder
<1>6. last[m] \in Nat
  BY <1>1, <1>4 DEF InOrder
<1> HIDE DEF R, c, D, parent, m
<1>7. /\ s \in Seq(D) /\ Rises(s)
      /\ \A j \in D : Listed(s, j) <=> parent(j) = m
  <2>1. ListedUpTo(R, m, s, c)
    BY <1>1, ChildrenListed DEF c
  <2> HIDE DEF s
  <2>2. /\ s \in Seq(D) /\ Rises(s)
        /\ \A j \in D : Listed(s, j) <=> (j <= c /\ parent(j) = m)
    BY <2>1 DEF ListedUpTo, D, parent, Listed
  <2>3. \A j \in D : j <= c
    BY <1>1
  <2> QED
    BY <2>2, <2>3
<1>8. /\ t \in Seq(D) /\ Rises(t)
      /\ \A e : Listed(queue, e) => e = m \/ (Listed(t, e) /\ m < e)
      /\ \A e : Listed(t, e) => Listed(queue, e) /\ m < e
  BY <1>1, <1>3, <1>4, RisingTail
<1> HIDE DEF s, t
<1>9. \A i \in DOMAIN s : s[i] \in D /\ Listed(s, s[i])
  BY <1>7 DEF Listed
<1>10. \A i \in DOMAIN t : t[i] \in D /\ Listed(t, t[i])
  BY <1>8 DEF Listed
<1>11. \A a, b \in D : Listed(s, a) /\ Listed(t, b) => a < b
  <2> SUFFICES ASSUME NEW a \in D, NEW b \in D, Listed(s, a), Listed(t, b) PROVE a < b
    OBVIOUS
  <2>1. parent(a) = m
    BY <1>7
  <2>2. m < b /\ parent(b) <= k
    BY <1>3, <1>8
  <2>3. a <= last[m]
    BY <1>5, <2>1
  <2>4. a \in Nat /\ b \in Nat /\ parent(b) \in Nat
    BY <1>1
  <2>5. ~(b <= last[m])
    BY <1>4, <1>5, <2>2, <2>4
  <2> QED
    BY <1>6, <2>3, <2>4, <2>5
<1>12. \A i \in DOMAIN s, j \in DOMAIN t : s[i] < t[j]
  BY <1>9, <1>10, <1>11
<1> DEFINE q == s \o t
<1>13. q \in Seq(D) /\ Rises(q) /\ \A e : Listed(q, e) <=> (Listed(s, e) \/ Listed(t, e))
  <2>1. D \subseteq Nat /\ s \in Seq(D) /\ t \in Seq(D) /\ Rises(s) /\ Rises(t)
    BY <1>1, <1>7, <1>8
  <2> QED
    BY <1>12, <2>1, RisingRow
<1> HIDE DEF q
<1>14. ASSUME NEW j \in D PROVE Listed(q, j) <=> (m < j /\ parent(j) <= m)
  <2>1. Listed(q, j) <=> (parent(j) = m \/ Listed(t, j))
    BY <1>7, <1>13
  <2>2. Listed(t, j) <=> (k < j /\ parent(j) <= k /\ j # m)
    <3>1. m \in Nat /\ j \in Nat
      BY <1>1, <1>4
    <3>2. Listed(t, j) => Listed(queue, j) /\ m < j
      BY <1>8
    <3>3. Listed(queue, j) => j = m \/ Listed(t, j)
      BY <1>8
    <3>4. m < j => j # m
      BY <3>1
    <3> QED
      BY <1>3, <3>2, <3>3, <3>4
  <2>3. parent(j) < j /\ parent(j) \in Nat /\ j \in Nat
    BY <1>1, <1>2
  <2> QED
    BY <1>4, <2>1, <2>2, <2>3
<1>15. Waiting(q, m)
  BY <1>13, <1>14 DEF Waiting, D, R, parent
<1> QED
  BY <1>15 DEF q, s, t, m, R

StartsWith(s, t) ==
  t \in Seq(Bytes256) /\ Len(t) <= Len(s) /\ \A i \in 1..Len(t) : s[i] = t[i]
RootBytes == serializeSimpleDataElement(ServiceRecord[1])

\* The writer when k nodes are written.
WriterAt(w, begins, k) ==
  /\ w \in Writers /\ Waiting(w.deque, k)
  /\ Len(w.target) = begins[k + 1]
  /\ \A j \in 1..k : w.begins[j] = begins[j]
  /\ k > 0 => StartsWith(w.target, RootBytes)

\* What is written behind it leaves the beginning as it is.
LEMMA StillStartsWith ==
  ASSUME NEW s \in Seq(Bytes256), NEW t \in Seq(Bytes256), NEW r \in Seq(Bytes256),
         (s = << >> /\ r = t) \/ StartsWith(s, r)
  PROVE  StartsWith(s \o t, r)
<1>1. /\ Len(s \o t) = Len(s) + Len(t)
      /\ \A i \in 1..Len(s) : (s \o t)[i] = s[i]
      /\ \A i \in 1..Len(t) : (s \o t)[Len(s) + i] = t[i]
  BY Joined
<1>2. Len(s) \in Nat /\ Len(t) \in Nat /\ Len(r) \in Nat
  BY LenProperties
<1>3. CASE s = << >> /\ r = t
  <2>1. Len(s) = 0
    BY <1>3
  <2>2. \A i \in 1..Len(t) : 0 + i = i
    OBVIOUS
  <2> QED
    BY <1>1, <1>2, <1>3, <2>1, <2>2 DEF StartsWith
<1>4. CASE StartsWith(s, r)
  <2>1. \A i \in 1..Len(r) : i \in 1..Len(s)
    BY <1>2, <1>4 DEF StartsWith
  <2>2. Len(r) <= Len(s \o t)
    BY <1>1, <1>2, <1>4 DEF StartsWith
  <2> QED
    BY <1>1, <1>4, <2>1, <2>2 DEF StartsWith
<1> QED
  BY <1>3, <1>4

\* The writer starts before the first node.
LEMMA WriterBegins ==
  ASSUME NEW last, NEW begins, InOrder(last, begins)
  PROVE  WriterAt(Writing(ServiceRecord), begins, 0)
<1> DEFINE R == ServiceRecord
           D == DOMAIN R
           w == Writing(R)
           q == <<1>>
<1>1. D = 1..Len(R) /\ Len(R) \in Nat /\ Len(R) > 0 /\ D \subseteq Nat
  BY RecordDomain
<1>2. \A n \in D : R[n].parent < n /\ R[n].parent \in Nat /\ (n > 1 => R[n].parent > 0)
  BY RecordDomain DEF InOrder
<1>3. begins[1] = 0
  BY DEF InOrder
<1>4. w \in Writers
  BY WritingStarts
<1>5. w.deque = q /\ w.target = << >>
  BY DEF Writing
<1> HIDE DEF R, D, w
<1>6. q \in Seq(D) /\ Len(q) = 1 /\ DOMAIN q = {1} /\ q[1] = 1
  BY <1>1
<1>7. \A j \in D : (1 = j) <=> (0 < j /\ R[j].parent <= 0)
  <2> SUFFICES ASSUME NEW j \in D PROVE (1 = j) <=> (0 < j /\ R[j].parent <= 0)
    OBVIOUS
  <2> DEFINE p == R[j].parent
  <2>1. j \in Nat /\ j > 0
    BY <1>1
  <2>2. p \in Nat /\ p < j /\ (j > 1 => p > 0)
    BY <1>2
  <2> HIDE DEF p
  <2>3. (1 = j) <=> (0 < j /\ p <= 0)
    BY <2>1, <2>2
  <2> QED
    BY <2>3 DEF p
<1>8. Rises(q)
  BY <1>6 DEF Rises
<1>9. \A j \in D : Listed(q, j) <=> (1 = j)
  BY <1>6 DEF Listed
<1>10. Waiting(q, 0)
  BY <1>6, <1>7, <1>8, <1>9 DEF Waiting, D, R
<1>11. Len(w.target) = begins[0 + 1]
  BY <1>3, <1>5
<1> QED
  BY <1>4, <1>5, <1>10, <1>11 DEF WriterAt, w, R

\* A turn of the writer writes the next node, where the table says, or finds that all are
\* written.
LEMMA WriterGoesOn ==
  ASSUME NEW last, NEW begins, InOrder(last, begins),
         NEW k \in 0..Len(ServiceRecord), NEW w, WriterAt(w, begins, k)
  PROVE  LET v == serializeSequenceDataElement(w)
         IN \/ v.state = "threw"
            \/ /\ v.state = "done" /\ k = Len(ServiceRecord)
               /\ v.nodes = w.nodes /\ v.target = w.target /\ v.begins = w.begins
            \/ /\ v.state = "writing" /\ k + 1 \in 0..Len(ServiceRecord)
               /\ WriterAt(v, begins, k + 1)
<1> DEFINE R == ServiceRecord
           c == Len(R)
           D == DOMAIN R
           v == serializeSequenceDataElement(w)
           m == k + 1
           bytes == serializeSimpleDataElement(R[m])
<1>1. /\ c \in Nat /\ D = 1..c /\ k \in Nat /\ k <= c
      /\ \A n \in D : R[n] \in RecordNodes
  BY RecordDomain
<1>2. /\ w \in Writers /\ Waiting(w.deque, k) /\ Len(w.target) = begins[m]
      /\ \A j \in 1..k : w.begins[j] = begins[j]
      /\ k > 0 => StartsWith(w.target, RootBytes)
  BY DEF WriterAt
<1>3. /\ \A n \in D : begins[n + 1] = begins[n] + Len(serializeSimpleDataElement(R[n]))
      /\ begins \in [1..(c + 1) -> Nat] /\ begins[1] = 0
  BY <1>1 DEF InOrder
<1>4. /\ w.deque = << >> => k = c
      /\ w.deque # << >> => m \in D /\ Head(w.deque) = m
  BY <1>2, NextInFront
<1> HIDE DEF R, c, D
<1>5. /\ w \in [nodes : {R}, deque : Seq(D), target : Written, begins : [D -> Nat],
                state : {"writing"}]
  BY <1>2 DEF Writers, R, D
<1>6. /\ w.nodes = R /\ w.deque \in Seq(D) /\ w.target \in Written
      /\ w.begins \in [D -> Nat] /\ w.state = "writing"
  BY <1>5
<1>7. CASE w.deque = << >>
  <2>1. v = [w EXCEPT !.state = "done"]
    BY <1>7 DEF serializeSequenceDataElement
  <2>2. v.state = "done" /\ v.nodes = w.nodes /\ v.target = w.target /\ v.begins = w.begins
    BY <1>5, <2>1
  <2> HIDE DEF v
  <2> QED
    BY <1>4, <1>7, <2>2 DEF v, c, R
<1>8. CASE w.deque # << >>
  <2>1. m \in D /\ Head(w.deque) = m /\ R[m] \in RecordNodes /\ m \in Nat /\ m <= c
    BY <1>1, <1>4, <1>8
  <2>2. CASE ~Convertible(R[m]) \/ Len(w.target) + Len(bytes) > 256
    <3>1. v = [w EXCEPT !.state = "threw"]
      BY <1>6, <1>8, <2>1, <2>2 DEF serializeSequenceDataElement
    <3>2. v.state = "threw"
      BY <1>5, <3>1
    <3> QED
      BY <3>2
  <2>3. CASE Convertible(R[m]) /\ ~(Len(w.target) + Len(bytes) > 256)
    <3> DEFINE target == w.target \o bytes
               deque == Children(R, m) \o Tail(w.deque)
               at == [w.begins EXCEPT ![m] = Len(w.target)]
    <3>1. bytes \in Seq(Bytes256)
      BY <2>1, <2>3, NodeWritten
    <3>2. w.target \in Seq(Bytes256)
      BY <1>6 DEF Written
    <3>3. v = [w EXCEPT !.target = target, !.deque = deque, !.begins = at]
      <4>1. v = [w EXCEPT !.target = target, !.deque = deque, !.begins[m] = Len(w.target)]
        BY <1>6, <1>8, <2>1, <2>3 DEF serializeSequenceDataElement, WithChildren
      <4>2. [w EXCEPT !.target = target, !.deque = deque, !.begins[m] = Len(w.target)]
              = [w EXCEPT !.target = target, !.deque = deque, !.begins = at]
        <5> HIDE DEF target, deque
        <5> QED
          BY <1>5
      <4> QED
        BY <4>1, <4>2
    <3> HIDE DEF bytes
    <3>4. /\ target \in Seq(Bytes256) /\ Len(target) = begins[m + 1]
      <4>1. target \in Seq(Bytes256) /\ Len(target) = Len(w.target) + Len(bytes)
        BY <3>1, <3>2, Joined
      <4>2. begins[m + 1] = begins[m] + Len(bytes)
        BY <1>3, <2>1 DEF bytes
      <4> QED
        BY <1>2, <4>1, <4>2
    <3>5. Waiting(deque, m)
      BY <1>2, <1>8, ChildrenInFront DEF R
    <3>6. \A j \in 1..m : at[j] = begins[j]
      <4> SUFFICES ASSUME NEW j \in 1..m PROVE at[j] = begins[j]
        OBVIOUS
      <4>1. j \in D
        BY <1>1, <2>1
      <4>2. CASE j = m
        BY <1>2, <1>6, <2>1, <4>2
      <4>3. CASE j # m
        <5>1. j \in 1..k
          BY <1>1, <4>3
        <5> QED
          BY <1>2, <1>6, <4>1, <4>3, <5>1
      <4> QED
        BY <4>2, <4>3
    <3>7. StartsWith(target, RootBytes)
      <4>1. /\ RootBytes \in Seq(Bytes256)
            /\ \/ w.target = << >> /\ RootBytes = bytes
               \/ StartsWith(w.target, RootBytes)
        <5>1. CASE k > 0
          <6>1. StartsWith(w.target, RootBytes)
            BY <1>2, <5>1
          <6>2. RootBytes \in Seq(Bytes256)
            BY <6>1 DEF StartsWith
          <6> QED
            BY <6>1, <6>2
        <5>2. CASE ~(k > 0)
          <6>1. m = 1
            BY <1>1, <5>2
          <6>2. RootBytes = bytes
            BY <6>1 DEF RootBytes, bytes, R
          <6>3. Len(w.target) = 0
            BY <1>2, <1>3, <6>1
          <6>4. w.target = << >>
            BY <3>2, <6>3, EmptySeq
          <6> QED
            BY <3>1, <6>2, <6>4
        <5> QED
          BY <5>1, <5>2
      <4> QED
        BY <3>1, <3>2, <4>1, StillStartsWith
    <3>8. v.state = "writing" /\ v.deque = deque /\ v.target = target /\ v.begins = at
      <4> HIDE DEF target, deque, at, v
      <4> QED
        BY <1>5, <3>3
    <3>9. v \in Writers
      <4>1. w \in Writers
        BY <1>2
      <4>2. \/ v.state = "done" /\ v.target \in Written
            \/ v.state = "threw" /\ v.target \in Written
            \/ v.state = "writing" /\ v \in Writers
        BY <4>1, WriterTurn
      <4> HIDE DEF v
      <4> QED
        BY <3>8, <4>2
    <3>10. m \in 0..c
      BY <2>1
    <3> HIDE DEF target, deque, at, v, m
    <3>11. WriterAt(v, begins, m)
      BY <3>4, <3>5, <3>6, <3>7, <3>8, <3>9 DEF WriterAt
    <3> QED
      BY <3>8, <3>10, <3>11 DEF v, m, c, R
  <2> QED
    BY <2>2, <2>3
<1> QED
  BY <1>7, <1>8

-----------------------------------------------------------------------------
(* The service record is such a tree.                                      *)

\* The parent of each node, the last node beneath it, and where it begins.
ParentOf == <<0, 1, 2, 2, 2, 2, 6, 2, 2, 9, 10, 9, 12, 12,
              2, 2, 16, 2, 2, 19, 19, 19, 2, 2, 24, 25, 25, 2, 2>>
LastOf == <<29, 29, 3, 4, 5, 7, 7, 8, 14, 11, 11, 14, 13, 14,
            15, 17, 17, 18, 22, 20, 21, 22, 23, 27, 27, 26, 27, 28, 29>>
BeginOf == <<0, 3, 6, 9, 14, 17, 20, 23, 26, 29, 32, 35, 38, 41, 43,
             46, 49, 52, 55, 58, 61, 64, 67, 70, 73, 76, 79, 82, 85, 98>>

NodeOf(p) == [Node(p[1], p[2], p[4]) EXCEPT !.value = p[3]]
BytesOf(p) == CASE p[1] = "sequence" -> 3
                [] p[1] = "text_string" -> 2 + Len(p[3])
                [] p[1] = "dummy_uint" -> p[2]
                [] OTHER -> 1 + p[2]

\* Bytes are numbers.
LEMMA BytesAreNumbers ==
  ASSUME NEW s \in Seq(Bytes256)
  PROVE  s \in Seq(Int)
<1>1. Len(s) \in Nat /\ s = [k \in 1..Len(s) |-> s[k]] /\ \A k \in 1..Len(s) : s[k] \in Bytes256
  BY LenProperties
<1>2. \A b \in Bytes256 : b \in Int
  BY DEF Bytes256
<1>3. \A k \in 1..Len(s) : s[k] \in Int
  BY <1>1, <1>2
<1> QED
  BY <1>1, <1>3, AsSequence

\* The number of bytes written for a part.
LEMMA PartWritten ==
  ASSUME NEW p \in Parts
  PROVE  Len(serializeSimpleDataElement(NodeOf(p))) = BytesOf(p)
<1> DEFINE node == NodeOf(p)
           size == p[2]
           value == p[3]
<1>1. p[1] \in RecordTypes /\ size \in Nat /\ value \in Seq(Bytes256)
  BY DEF Parts
<1>2. node.type = p[1] /\ node.size = size /\ node.value = value
  BY DEF NodeOf, Node
<1> HIDE DEF node, size, value
<1>3. LastBytes(size, value) \in Seq(Bytes256) /\ Len(LastBytes(size, value)) = size
  <2>1. LastBytes(size, value) \in Seq(Bytes256)
    BY <1>1, LastBytesTyped
  <2>2. DOMAIN LastBytes(size, value) = 1..size
    BY DEF LastBytes
  <2> QED
    BY <1>1, <2>1, <2>2, LenProperties
<1>4. CASE p[1] = "sequence"
  <2>1. serializeSimpleDataElement(node) = <<8 * Code[node.type] + 6>> \o Bytes(size)
    BY <1>2, <1>4 DEF serializeSimpleDataElement, SequenceHeader
  <2>2. Len(<<8 * Code[node.type] + 6>> \o Bytes(size)) = 3
    BY DEF Bytes
  <2> QED
    BY <1>4, <2>1, <2>2 DEF BytesOf, node
<1>5. CASE p[1] = "text_string"
  <2> DEFINE h == <<8 * Code[node.type] + 5, Octet(Len(value))>>
  <2>1. serializeSimpleDataElement(node) = h \o value
    BY <1>2, <1>5 DEF serializeSimpleDataElement
  <2>2. h \in Seq(Int) /\ Len(h) = 2
    <3>1. 8 * Code[node.type] + 5 \in Int
      BY <1>2, <1>5 DEF Code
    <3>2. Octet(Len(value)) \in Int
      BY <1>1, LenProperties DEF Octet
    <3> QED
      BY <3>1, <3>2
  <2>3. value \in Seq(Int) /\ Len(value) \in Nat
    BY <1>1, BytesAreNumbers, LenProperties
  <2> HIDE DEF h
  <2>4. h \in Seq(Int) /\ value \in Seq(Int)
    BY <2>2, <2>3
  <2>5. Len(h \o value) = Len(h) + Len(value)
    BY <2>4, Joined
  <2> QED
    BY <1>5, <2>1, <2>2, <2>5 DEF BytesOf, node, value
<1>6. CASE p[1] = "dummy_uint"
  BY <1>2, <1>3, <1>6 DEF serializeSimpleDataElement, BytesOf, node, size
<1>7. CASE p[1] \in {"uint", "uuid"}
  <2> DEFINE h == <<8 * Code[node.type] + (node.size \div 2)>>
             b == LastBytes(size, value)
  <2>1. serializeSimpleDataElement(node) = h \o b
    BY <1>2, <1>7 DEF serializeSimpleDataElement
  <2>2. h \in Seq(Int) /\ Len(h) = 1
    <3>1. 8 * Code[node.type] + (node.size \div 2) \in Int
      BY <1>1, <1>2, <1>7 DEF Code
    <3> QED
      BY <3>1
  <2>3. b \in Seq(Int) /\ Len(b) = size
    BY <1>3, BytesAreNumbers
  <2> HIDE DEF h, b
  <2>4. h \in Seq(Int) /\ b \in Seq(Int)
    BY <2>2, <2>3
  <2>5. Len(h \o b) = Len(h) + Len(b)
    BY <2>4, Joined
  <2> QED
    BY <1>7, <2>1, <2>2, <2>3, <2>5 DEF BytesOf, node, size
<1> QED
  BY <1>1, <1>4, <1>5, <1>6, <1>7 DEF RecordTypes

\* The nodes of the record are made of its parts.
LEMMA RecordParts ==
  /\ Len(ServiceRecord) = 29
  /\ \A n \in 1..14 : ServiceRecord[n] = NodeOf(ServiceParts[n])
  /\ \A n \in 1..15 : ServiceRecord[14 + n] = NodeOf(ProfileParts[n])
<1> DEFINE s == ServiceParts
           t == ProfileParts
           parts == s \o t
           R == ServiceRecord
<1>1. s \in Seq(Parts) /\ t \in Seq(Parts)
  BY PartsTyped
<1>2. Len(s) = 14 /\ Len(t) = 15
  BY DEF ServiceParts, ProfileParts
<1>3. R = [n \in DOMAIN parts |-> NodeOf(parts[n])]
  BY DEF ServiceRecord, NodeOf
<1>4. R \in Seq(RecordNodes) /\ DOMAIN R = 1..Len(R) /\ Len(R) \in Nat
  BY RecordDomain
<1> HIDE DEF s, t
<1>5. /\ parts \in Seq(Parts) /\ Len(parts) = Len(s) + Len(t)
      /\ \A i \in 1..Len(s) : parts[i] = s[i]
      /\ \A i \in 1..Len(t) : parts[Len(s) + i] = t[i]
  BY <1>1, Joined
<1> HIDE DEF parts, R
<1>6. DOMAIN parts = 1..29
  BY <1>2, <1>5, LenProperties
<1>7. Len(R) = 29
  <2> DEFINE l == Len(R)
  <2>1. 29 \in DOMAIN R /\ 30 \notin DOMAIN R
    BY <1>3, <1>6
  <2>2. l \in Nat /\ 29 \in 1..l /\ 30 \notin 1..l
    BY <1>4, <2>1
  <2> HIDE DEF l
  <2>3. l = 29
    BY <2>2
  <2> QED
    BY <2>3 DEF l
<1>8. \A n \in 1..14 : R[n] = NodeOf(s[n])
  <2>1. \A n \in 1..14 : n \in 1..29
    OBVIOUS
  <2> QED
    BY <1>2, <1>3, <1>5, <1>6, <2>1
<1>9. \A n \in 1..15 : R[14 + n] = NodeOf(t[n])
  <2>1. \A n \in 1..15 : 14 + n \in 1..29
    OBVIOUS
  <2> QED
    BY <1>2, <1>3, <1>5, <1>6, <2>1
<1> QED
  BY <1>7, <1>8, <1>9 DEF R, s, t

\* The tables are those of the record.
LEMMA RecordTables ==
  \A n \in 1..29 : /\ ServiceRecord[n].parent = ParentOf[n]
                   /\ BeginOf[n + 1]
                        = BeginOf[n] + Len(serializeSimpleDataElement(ServiceRecord[n]))
<1>1. ASSUME NEW p \in Parts PROVE NodeOf(p).parent = p[4]
  BY DEF NodeOf, Node
<1>2. /\ \A n \in 1..14 : ServiceParts[n] \in Parts
      /\ \A n \in 1..15 : ProfileParts[n] \in Parts
  <2> DEFINE s == ServiceParts
             t == ProfileParts
  <2>1. Len(s) = 14 /\ Len(t) = 15
    BY DEF ServiceParts, ProfileParts
  <2>2. s \in Seq(Parts) /\ t \in Seq(Parts)
    BY PartsTyped
  <2> HIDE DEF s, t
  <2>3. (\A n \in 1..Len(s) : s[n] \in Parts) /\ \A n \in 1..Len(t) : t[n] \in Parts
    BY <2>2
  <2> QED
    BY <2>1, <2>3 DEF s, t
<1>3. ASSUME NEW n \in 1..14
      PROVE  ParentOf[n] = ServiceParts[n][4]
             /\ BeginOf[n + 1] = BeginOf[n] + BytesOf(ServiceParts[n])
  <2>1. /\ ServiceParts[1][4] = 0 /\ BytesOf(ServiceParts[1]) = 3
        /\ ServiceParts[2][4] = 1 /\ BytesOf(ServiceParts[2]) = 3
        /\ ServiceParts[3][4] = 2 /\ BytesOf(ServiceParts[3]) = 3
        /\ ServiceParts[4][4] = 2 /\ BytesOf(ServiceParts[4]) = 5
        /\ ServiceParts[5][4] = 2 /\ BytesOf(ServiceParts[5]) = 3
        /\ ServiceParts[6][4] = 2 /\ BytesOf(ServiceParts[6]) = 3
        /\ ServiceParts[7][4] = 6 /\ BytesOf(ServiceParts[7]) = 3
        /\ ServiceParts[8][4] = 2 /\ BytesOf(ServiceParts[8]) = 3
        /\ ServiceParts[9][4] = 2 /\ BytesOf(ServiceParts[9]) = 3
        /\ ServiceParts[10][4] = 9 /\ BytesOf(ServiceParts[10]) = 3
        /\ ServiceParts[11][4] = 10 /\ BytesOf(ServiceParts[11]) = 3
        /\ ServiceParts[12][4] = 9 /\ BytesOf(ServiceParts[12]) = 3
        /\ ServiceParts[13][4] = 12 /\ BytesOf(ServiceParts[13]) = 3
        /\ ServiceParts[14][4] = 12 /\ BytesOf(ServiceParts[14]) = 2
    BY DEF ServiceParts, BytesOf
  <2>2. ParentOf[n] = ServiceParts[n][4]
    BY <2>1 DEF ParentOf
  <2>3. BeginOf[n + 1] = BeginOf[n] + BytesOf(ServiceParts[n])
    BY <2>1 DEF BeginOf
  <2> QED
    BY <2>2, <2>3
<1>4. ASSUME NEW n \in 1..15
      PROVE  ParentOf[14 + n] = ProfileParts[n][4]
             /\ BeginOf[14 + n + 1] = BeginOf[14 + n] + BytesOf(ProfileParts[n])
  <2>1. /\ ProfileParts[1][4] = 2 /\ BytesOf(ProfileParts[1]) = 3
        /\ ProfileParts[2][4] = 2 /\ BytesOf(ProfileParts[2]) = 3
        /\ ProfileParts[3][4] = 16 /\ BytesOf(ProfileParts[3]) = 3
        /\ ProfileParts[4][4] = 2 /\ BytesOf(ProfileParts[4]) = 3
        /\ ProfileParts[5][4] = 2 /\ BytesOf(ProfileParts[5]) = 3
        /\ ProfileParts[6][4] = 19 /\ BytesOf(ProfileParts[6]) = 3
        /\ ProfileParts[7][4] = 19 /\ BytesOf(ProfileParts[7]) = 3
        /\ ProfileParts[8][4] = 19 /\ BytesOf(ProfileParts[8]) = 3
        /\ ProfileParts[9][4] = 2 /\ BytesOf(ProfileParts[9]) = 3
        /\ ProfileParts[10][4] = 2 /\ BytesOf(ProfileParts[10]) = 3
        /\ ProfileParts[11][4] = 24 /\ BytesOf(ProfileParts[11]) = 3
        /\ ProfileParts[12][4] = 25 /\ BytesOf(ProfileParts[12]) = 3
        /\ ProfileParts[13][4] = 25 /\ BytesOf(ProfileParts[13]) = 3
        /\ ProfileParts[14][4] = 2 /\ BytesOf(ProfileParts[14]) = 3
        /\ ProfileParts[15][4] = 2 /\ BytesOf(ProfileParts[15]) = 13
    BY DEF ProfileParts, BytesOf
  <2>2. ParentOf[14 + n] = ProfileParts[n][4]
    BY <2>1 DEF ParentOf
  <2>3. BeginOf[14 + n + 1] = BeginOf[14 + n] + BytesOf(ProfileParts[n])
    BY <2>1 DEF BeginOf
  <2> QED
    BY <2>2, <2>3
<1>5. ASSUME NEW n \in 1..14
      PROVE  /\ ServiceRecord[n].parent = ParentOf[n]
             /\ BeginOf[n + 1]
                  = BeginOf[n] + Len(serializeSimpleDataElement(ServiceRecord[n]))
  BY <1>1, <1>2, <1>3, RecordParts, PartWritten
<1>6. ASSUME NEW n \in 1..15
      PROVE  /\ ServiceRecord[14 + n].parent = ParentOf[14 + n]
             /\ BeginOf[14 + n + 1]
                  = BeginOf[14 + n] + Len(serializeSimpleDataElement(ServiceRecord[14 + n]))
  BY <1>1, <1>2, <1>4, RecordParts, PartWritten
<1> SUFFICES ASSUME NEW n \in 1..29
             PROVE  /\ ServiceRecord[n].parent = ParentOf[n]
                    /\ BeginOf[n + 1]
                         = BeginOf[n] + Len(serializeSimpleDataElement(ServiceRecord[n]))
  OBVIOUS
<1>7. n \in 1..14 \/ (n - 14 \in 1..15 /\ 14 + (n - 14) = n)
  OBVIOUS
<1> QED
  BY <1>5, <1>6, <1>7

LEMMA RecordInOrder == InOrder(LastOf, BeginOf)
<1> DEFINE c == Len(ServiceRecord)
<1>1. c = 29
  BY RecordParts
<1>2. LastOf \in [1..29 -> 1..29] /\ BeginOf \in [1..30 -> Nat] /\ BeginOf[1] = 0
  BY DEF LastOf, BeginOf
<1>3. \A n \in 1..29 : ParentOf[n] < n /\ (n > 1 => ParentOf[n] > 0)
  BY DEF ParentOf
<1>4. \A n, d \in 1..29 :
        (n < d /\ d <= LastOf[n]) <=>
          \/ n = ParentOf[d]
          \/ n < ParentOf[d] /\ ParentOf[d] <= LastOf[n]
  BY DEF ParentOf, LastOf
<1> DEFINE R == ServiceRecord
           a == 29
           b == 30
<1>5. /\ \A n \in 1..a : R[n].parent = ParentOf[n]
      /\ \A n \in 1..a : BeginOf[n + 1] = BeginOf[n] + Len(serializeSimpleDataElement(R[n]))
  BY RecordTables
<1>6. c = a /\ a + 1 = b
  BY <1>1
<1> HIDE DEF a, b, c, R
<1>7. LastOf \in [1..a -> 1..a] /\ BeginOf \in [1..b -> Nat] /\ BeginOf[1] = 0
  BY <1>2 DEF a, b
<1>8. \A n \in 1..a : R[n].parent < n /\ (n > 1 => R[n].parent > 0)
  BY <1>3, <1>5 DEF a
<1>9. \A n, d \in 1..a :
        (n < d /\ d <= LastOf[n]) <=>
          (n = R[d].parent \/ (n < R[d].parent /\ R[d].parent <= LastOf[n]))
  <2>1. \A n, d \in 1..a :
          (n < d /\ d <= LastOf[n]) <=>
            (n = ParentOf[d] \/ (n < ParentOf[d] /\ ParentOf[d] <= LastOf[n]))
    BY <1>4 DEF a
  <2> QED
    BY <1>5, <2>1
<1> QED
  BY <1>5, <1>6, <1>7, <1>8, <1>9 DEF InOrder, c, R

-----------------------------------------------------------------------------
(* The answer.                                                             *)

\* What an answer says of its lengths and of the request it answers.
CountsWhatFollows(a, request) ==
  /\ a[3] + 256 * a[4] = Len(a) - 4
  /\ a[5] + 256 * a[6] = Len(a) - 8
  /\ Word(SubSeq(a, 12, 13)) = Len(a) - 13
  /\ Word(SubSeq(a, 14, 15)) = Len(a) - 16
  /\ Word(SubSeq(a, 17, 18)) = Len(a) - 19
  /\ SubSeq(a, 10, 11) = SubSeq(request, 10, 11)

\* Two bytes in the middle.
LEMMA PairAt ==
  ASSUME NEW S, NEW s \in Seq(S), NEW i \in Nat, i > 0, i + 1 <= Len(s)
  PROVE  SubSeq(s, i, i + 1) = <<s[i], s[i + 1]>>
<1> DEFINE p == SubSeq(s, i, i + 1)
           q == <<s[i], s[i + 1]>>
           x == s[i]
           y == s[i + 1]
<1>1. Len(s) \in Nat /\ i \in 1..Len(s) /\ i + 1 \in 1..Len(s)
  BY LenProperties
<1>2. x \in S /\ y \in S
  BY <1>1
<1>3. \A j \in i..(i + 1) : s[j] \in S
  <2>1. \A j \in i..(i + 1) : j \in 1..Len(s)
    BY <1>1
  <2> QED
    BY <2>1
<1>4. /\ p \in Seq(S) /\ Len(p) = IF i <= i + 1 THEN i + 1 - i + 1 ELSE 0
      /\ \A j \in 1..(i + 1 - i + 1) : p[j] = s[i + j - 1]
  BY <1>3, SubSeqProperties
<1> HIDE DEF p
<1>5. Len(p) = 2 /\ p[1] = x /\ p[2] = y
  <2>1. /\ i <= i + 1 /\ i + 1 - i + 1 = 2
        /\ 1 \in 1..(i + 1 - i + 1) /\ 2 \in 1..(i + 1 - i + 1)
        /\ i + 1 - 1 = i /\ i + 2 - 1 = i + 1
    OBVIOUS
  <2> QED
    BY <1>4, <2>1
<1> HIDE DEF x, y
<1>6. p = <<x, y>>
  <2>1. <<x, y>> \in Seq(S) /\ Len(<<x, y>>) = 2
    BY <1>2
  <2>2. \A j \in 1..2 : p[j] = <<x, y>>[j]
    BY <1>5
  <2> QED
    BY <1>4, <1>5, <2>1, <2>2, SeqEqual
<1> QED
  BY <1>6 DEF p, x, y

\* So many bytes, one of them somewhere, and where it is when others are put behind
\* it or in front of it.
Whole(s, n) == s \in Seq(Bytes256) /\ Len(s) = n
Holds(s, i, x) == i \in 1..Len(s) /\ s[i] = x
Joint(r, s, n, t) ==
  /\ \A i, x : Holds(s, i, x) => Holds(r, i, x)
  /\ \A i, x : Holds(t, i, x) => Holds(r, n + i, x)
LEMMA Joins ==
  ASSUME NEW s, NEW t, NEW n, NEW m, Whole(s, n), Whole(t, m)
  PROVE  Whole(s \o t, n + m) /\ Joint(s \o t, s, n, t)
<1> DEFINE r == s \o t
<1>1. s \in Seq(Bytes256) /\ t \in Seq(Bytes256)
  BY DEF Whole
<1>2. /\ r \in Seq(Bytes256) /\ Len(r) = Len(s) + Len(t)
      /\ \A i \in 1..Len(s) : r[i] = s[i]
      /\ \A i \in 1..Len(t) : r[Len(s) + i] = t[i]
  BY <1>1, Joined
<1>3. Len(s) \in Nat /\ Len(t) \in Nat /\ Len(s) = n /\ Len(t) = m
  BY <1>1, LenProperties DEF Whole
<1> HIDE DEF r
<1>4. /\ r \in Seq(Bytes256) /\ Len(r) = n + m
      /\ \A i \in 1..n : r[i] = s[i]
      /\ \A i \in 1..m : r[n + i] = t[i]
  BY <1>2, <1>3
<1>5. /\ \A i \in 1..n : i \in 1..Len(r)
      /\ \A i \in 1..m : n + i \in 1..Len(r)
  BY <1>3, <1>4
<1>6. Joint(r, s, n, t)
  BY <1>3, <1>4, <1>5 DEF Joint, Holds
<1> QED
  BY <1>4, <1>6 DEF Whole, r

\* The sixteen bytes around the record, and where they are.
LEMMA ResponseBytes ==
  ASSUME NEW request \in Requests, NEW data \in Seq(Bytes256), Len(data) <= 256, Len(data) >= 3
  PROVE  LET a == Response(request, data)
             count == Len(data)
         IN /\ a \in Seq(Bytes256) /\ Len(a) = 16 + count
            /\ a[3] = Octet(count + 12) /\ a[4] = 0
            /\ a[5] = Octet(count + 8) /\ a[6] = (count + 8) \div 256
            /\ a[10] = request[10] /\ a[11] = request[11]
            /\ a[12] = Octet((count + 3) \div 256) /\ a[13] = Octet(count + 3)
            /\ a[14] = Octet(count \div 256) /\ a[15] = Octet(count)
            /\ a[17] = data[2] /\ a[18] = data[3]
<1> DEFINE count == Len(data)
           B == Seq(Bytes256)
           a == <<11, 32, Octet(count + 12), 0>>
           b == <<Octet(count + 8), (count + 8) \div 256>>
           d == SubSeq(request, 10, 11)
           e == Bytes(count + 3)
           f == Bytes(count)
           seven == <<7>>
           zero == <<0>>
<1>1. count \in Nat /\ count <= 256 /\ count >= 3
  BY LenProperties
<1>2. request \in B /\ Len(request) >= 13 /\ Len(request) \in Nat
  BY LenProperties DEF Requests, PatternIndex
<1>3. d = <<request[10], request[11]>> /\ request[10] \in Bytes256 /\ request[11] \in Bytes256
  <2>1. SubSeq(request, 10, 10 + 1) = <<request[10], request[10 + 1]>>
    BY <1>2, PairAt
  <2>2. 10 \in 1..Len(request) /\ 11 \in 1..Len(request)
    BY <1>2
  <2> QED
    BY <1>2, <2>1, <2>2
<1>4. /\ SourceCid = <<SourceCid[1], SourceCid[2]>>
      /\ SourceCid[1] \in Bytes256 /\ SourceCid[2] \in Bytes256
  BY SdpAssumption
<1>5. Response(request, data) = a \o b \o SourceCid \o seven \o d \o e \o f \o data \o zero
  BY DEF Response, count
<1>6. /\ a \in B /\ Len(a) = 4 /\ a[3] = Octet(count + 12) /\ a[4] = 0
      /\ b \in B /\ Len(b) = 2 /\ b[1] = Octet(count + 8) /\ b[2] = (count + 8) \div 256
  <2>1. Octet(count + 12) \in Bytes256 /\ Octet(count + 8) \in Bytes256
    BY <1>1, OctetTyped
  <2>2. (count + 8) \div 256 \in Bytes256
    <3> HIDE DEF count
    <3>1. (count + 8) \div 256 \in {0, 1}
      BY <1>1
    <3> QED
      BY <3>1 DEF Bytes256
  <2>3. 11 \in Bytes256 /\ 32 \in Bytes256 /\ 0 \in Bytes256
    BY DEF Bytes256
  <2> HIDE DEF count
  <2> QED
    BY <2>1, <2>2, <2>3
<1>7. /\ SourceCid \in B /\ Len(SourceCid) = 2
      /\ d \in B /\ Len(d) = 2 /\ d[1] = request[10] /\ d[2] = request[11]
      /\ seven \in B /\ Len(seven) = 1 /\ zero \in B /\ Len(zero) = 1
  <2>1. <<SourceCid[1], SourceCid[2]>> \in B /\ Len(<<SourceCid[1], SourceCid[2]>>) = 2
    BY <1>4
  <2>2. 7 \in Bytes256 /\ 0 \in Bytes256
    BY DEF Bytes256
  <2>3. <<request[10], request[11]>> \in B
    BY <1>3
  <2>4. SourceCid \in B /\ Len(SourceCid) = 2
    BY <1>4, <2>1
  <2>5. d \in B /\ Len(d) = 2 /\ d[1] = request[10] /\ d[2] = request[11]
    <3> HIDE DEF d
    <3> QED
      BY <1>3, <2>3
  <2>6. seven \in B /\ Len(seven) = 1 /\ zero \in B /\ Len(zero) = 1
    BY <2>2
  <2> QED
    BY <2>4, <2>5, <2>6
<1>8. /\ e \in B /\ Len(e) = 2 /\ e[1] = Octet((count + 3) \div 256) /\ e[2] = Octet(count + 3)
      /\ f \in B /\ Len(f) = 2 /\ f[1] = Octet(count \div 256) /\ f[2] = Octet(count)
  <2>1. ASSUME NEW n \in Nat
        PROVE  Bytes(n) \in B /\ Len(Bytes(n)) = 2
               /\ Bytes(n)[1] = Octet(n \div 256) /\ Bytes(n)[2] = Octet(n)
    <3>1. n \div 256 \in Int
      OBVIOUS
    <3> QED
      BY <3>1, OctetTyped DEF Bytes
  <2> HIDE DEF count
  <2> QED
    BY <1>1, <2>1
<1>9. data \in B /\ Len(data) = count
  OBVIOUS
<1>10. /\ Whole(a, 4) /\ Whole(b, 2) /\ Whole(SourceCid, 2) /\ Whole(seven, 1) /\ Whole(d, 2)
       /\ Whole(e, 2) /\ Whole(f, 2) /\ Whole(data, count) /\ Whole(zero, 1)
  <2> HIDE DEF a, b, d, e, f, seven, zero, count
  <2> QED
    BY <1>6, <1>7, <1>8, <1>9 DEF Whole
<1>11. /\ Holds(a, 3, Octet(count + 12)) /\ Holds(a, 4, 0)
       /\ Holds(b, 1, Octet(count + 8)) /\ Holds(b, 2, (count + 8) \div 256)
       /\ Holds(d, 1, request[10]) /\ Holds(d, 2, request[11])
       /\ Holds(e, 1, Octet((count + 3) \div 256)) /\ Holds(e, 2, Octet(count + 3))
       /\ Holds(f, 1, Octet(count \div 256)) /\ Holds(f, 2, Octet(count))
  <2> HIDE DEF a, b, d, e, f, seven, zero, count
  <2> QED
    BY <1>6, <1>7, <1>8 DEF Holds
<1>12. Holds(data, 2, data[2]) /\ Holds(data, 3, data[3])
  <2>1. 2 \in 1..count /\ 3 \in 1..count
    BY <1>1
  <2> QED
    BY <2>1 DEF Holds
<1> HIDE DEF a, b, d, e, f, seven, zero, count
<1> DEFINE p1 == a \o b
           p2 == p1 \o SourceCid
           p3 == p2 \o seven
           p4 == p3 \o d
           p5 == p4 \o e
           p6 == p5 \o f
           p7 == p6 \o data
           p8 == p7 \o zero
<1>13. Whole(p1, 6) /\ Joint(p1, a, 4, b)
  <2>1. Whole(p1, 4 + 2) /\ Joint(p1, a, 4, b)
    BY <1>10, Joins
  <2> QED
    BY <2>1
<1> HIDE DEF p1
<1>14. Whole(p2, 8) /\ Joint(p2, p1, 6, SourceCid)
  <2>1. Whole(p2, 6 + 2) /\ Joint(p2, p1, 6, SourceCid)
    BY <1>10, <1>13, Joins
  <2> QED
    BY <2>1
<1> HIDE DEF p2
<1>15. Whole(p3, 9) /\ Joint(p3, p2, 8, seven)
  <2>1. Whole(p3, 8 + 1) /\ Joint(p3, p2, 8, seven)
    BY <1>10, <1>14, Joins
  <2> QED
    BY <2>1
<1> HIDE DEF p3
<1>16. Whole(p4, 11) /\ Joint(p4, p3, 9, d)
  <2>1. Whole(p4, 9 + 2) /\ Joint(p4, p3, 9, d)
    BY <1>10, <1>15, Joins
  <2> QED
    BY <2>1
<1> HIDE DEF p4
<1>17. Whole(p5, 13) /\ Joint(p5, p4, 11, e)
  <2>1. Whole(p5, 11 + 2) /\ Joint(p5, p4, 11, e)
    BY <1>10, <1>16, Joins
  <2> QED
    BY <2>1
<1> HIDE DEF p5
<1>18. Whole(p6, 15) /\ Joint(p6, p5, 13, f)
  <2>1. Whole(p6, 13 + 2) /\ Joint(p6, p5, 13, f)
    BY <1>10, <1>17, Joins
  <2> QED
    BY <2>1
<1> HIDE DEF p6
<1>19. Whole(p7, 15 + count) /\ Joint(p7, p6, 15, data)
  BY <1>10, <1>18, Joins
<1> HIDE DEF p7
<1>20. Whole(p8, 15 + count + 1) /\ \A i, x : Holds(p7, i, x) => Holds(p8, i, x)
  <2>1. Whole(p8, 15 + count + 1) /\ Joint(p8, p7, 15 + count, zero)
    BY <1>10, <1>19, Joins
  <2> QED
    BY <2>1 DEF Joint
<1>21. Response(request, data) = p8
  BY <1>5 DEF p1, p2, p3, p4, p5, p6, p7
<1> HIDE DEF p8
<1>22. /\ \A i, x : Holds(a, i, x) => Holds(p1, i, x)
       /\ \A i, x : Holds(p1, i, x) => Holds(p2, i, x)
       /\ \A i, x : Holds(p2, i, x) => Holds(p3, i, x)
       /\ \A i, x : Holds(p3, i, x) => Holds(p4, i, x)
       /\ \A i, x : Holds(p4, i, x) => Holds(p5, i, x)
       /\ \A i, x : Holds(p5, i, x) => Holds(p6, i, x)
       /\ \A i, x : Holds(p6, i, x) => Holds(p7, i, x)
  BY <1>13, <1>14, <1>15, <1>16, <1>17, <1>18, <1>19 DEF Joint
<1>23. /\ Holds(p1, 4 + 1, Octet(count + 8)) /\ Holds(p1, 4 + 2, (count + 8) \div 256)
       /\ Holds(p4, 9 + 1, request[10]) /\ Holds(p4, 9 + 2, request[11])
       /\ Holds(p5, 11 + 1, Octet((count + 3) \div 256)) /\ Holds(p5, 11 + 2, Octet(count + 3))
       /\ Holds(p6, 13 + 1, Octet(count \div 256)) /\ Holds(p6, 13 + 2, Octet(count))
       /\ Holds(p7, 15 + 2, data[2]) /\ Holds(p7, 15 + 3, data[3])
  BY <1>11, <1>12, <1>13, <1>16, <1>17, <1>18, <1>19 DEF Joint
<1> DEFINE k12 == Octet(count + 12)
           k8 == Octet(count + 8)
           u8 == (count + 8) \div 256
           u3 == Octet((count + 3) \div 256)
           k3 == Octet(count + 3)
           u0 == Octet(count \div 256)
           k0 == Octet(count)
           r1 == request[10]
           r2 == request[11]
           d2 == data[2]
           d3 == data[3]
<1>24. /\ Holds(a, 3, k12) /\ Holds(a, 4, 0) /\ Holds(p1, 5, k8) /\ Holds(p1, 6, u8)
       /\ Holds(p4, 10, r1) /\ Holds(p4, 11, r2) /\ Holds(p5, 12, u3) /\ Holds(p5, 13, k3)
       /\ Holds(p6, 14, u0) /\ Holds(p6, 15, k0) /\ Holds(p7, 17, d2) /\ Holds(p7, 18, d3)
  BY <1>11, <1>23
<1> HIDE DEF k12, k8, u8, u3, k3, u0, k0, r1, r2, d2, d3
<1>25. /\ Holds(p8, 3, k12) /\ Holds(p8, 4, 0) /\ Holds(p8, 5, k8) /\ Holds(p8, 6, u8)
       /\ Holds(p8, 10, r1) /\ Holds(p8, 11, r2) /\ Holds(p8, 12, u3) /\ Holds(p8, 13, k3)
       /\ Holds(p8, 14, u0) /\ Holds(p8, 15, k0) /\ Holds(p8, 17, d2) /\ Holds(p8, 18, d3)
  BY <1>20, <1>22, <1>24
<1>26. /\ p8[3] = k12 /\ p8[4] = 0 /\ p8[5] = k8 /\ p8[6] = u8 /\ p8[10] = r1 /\ p8[11] = r2
       /\ p8[12] = u3 /\ p8[13] = k3 /\ p8[14] = u0 /\ p8[15] = k0
       /\ p8[17] = d2 /\ p8[18] = d3
  BY <1>25 DEF Holds
<1>27. p8 \in Seq(Bytes256) /\ Len(p8) = 16 + count
  <2>1. p8 \in Seq(Bytes256) /\ Len(p8) = 15 + count + 1
    BY <1>20 DEF Whole
  <2>2. 15 + count + 1 = 16 + count
    BY <1>1
  <2> QED
    BY <2>1, <2>2
<1> QED
  BY <1>21, <1>26, <1>27 DEF count, k12, k8, u8, u3, k3, u0, k0, r1, r2, d2, d3

\* So it counts what follows, whatever the record, as long as the record says how long it
\* is and the whole fits the bytes the program counts it with.
LEMMA ResponseCounts ==
  ASSUME NEW request \in Requests, NEW data \in Seq(Bytes256),
         Len(data) >= 3, Len(data) < 244, 256 * data[2] + data[3] = Len(data) - 3
  PROVE  CountsWhatFollows(Response(request, data), request)
<1> DEFINE a == Response(request, data)
           count == Len(data)
           size == 16 + count
<1>1. count \in Nat /\ count >= 3 /\ count < 244 /\ count <= 256
  BY LenProperties
<1>2. /\ a \in Seq(Bytes256) /\ Len(a) = size
      /\ a[3] = Octet(count + 12) /\ a[4] = 0
      /\ a[5] = Octet(count + 8) /\ a[6] = (count + 8) \div 256
      /\ a[10] = request[10] /\ a[11] = request[11]
      /\ a[12] = Octet((count + 3) \div 256) /\ a[13] = Octet(count + 3)
      /\ a[14] = Octet(count \div 256) /\ a[15] = Octet(count)
      /\ a[17] = data[2] /\ a[18] = data[3]
  BY <1>1, ResponseBytes
<1>3. /\ request \in Seq(Bytes256) /\ Len(request) \in Nat /\ 11 <= Len(request)
  BY LenProperties DEF Requests, PatternIndex
<1>4. 256 * data[2] + data[3] = count - 3
  OBVIOUS
<1> HIDE DEF a, count
<1>5. /\ SubSeq(a, 10, 11) = <<a[10], a[11]>> /\ SubSeq(a, 12, 13) = <<a[12], a[13]>>
      /\ SubSeq(a, 14, 15) = <<a[14], a[15]>> /\ SubSeq(a, 17, 18) = <<a[17], a[18]>>
  <2>0. a \in Seq(Bytes256)
    BY <1>2
  <2>1. 10 + 1 <= Len(a) /\ 12 + 1 <= Len(a) /\ 14 + 1 <= Len(a) /\ 17 + 1 <= Len(a)
    BY <1>1, <1>2
  <2>2. /\ SubSeq(a, 10, 10 + 1) = <<a[10], a[10 + 1]>>
        /\ SubSeq(a, 12, 12 + 1) = <<a[12], a[12 + 1]>>
        /\ SubSeq(a, 14, 14 + 1) = <<a[14], a[14 + 1]>>
        /\ SubSeq(a, 17, 17 + 1) = <<a[17], a[17 + 1]>>
    BY <2>0, <2>1, PairAt
  <2> QED
    BY <2>2
<1>6. SubSeq(request, 10, 11) = <<request[10], request[11]>>
  <2>1. SubSeq(request, 10, 10 + 1) = <<request[10], request[10 + 1]>>
    BY <1>3, PairAt
  <2> QED
    BY <2>1
<1>7. ASSUME NEW x, NEW y PROVE Word(<<x, y>>) = 256 * x + y
  BY DEF Word
<1>8. /\ Octet(count + 12) = count + 12 /\ Octet(count + 8) = count + 8
      /\ (count + 8) \div 256 = 0 /\ (count + 3) \div 256 = 0 /\ count \div 256 = 0
      /\ Octet(count + 3) = count + 3 /\ Octet(count) = count /\ Octet(0) = 0
  BY <1>1 DEF Octet
<1>9. a[3] + 256 * a[4] = size - 4 /\ a[5] + 256 * a[6] = size - 8
  <2>1. a[3] = count + 12 /\ a[4] = 0 /\ a[5] = count + 8 /\ a[6] = 0
    BY <1>2, <1>8
  <2> QED
    BY <1>1, <2>1
<1>10. Word(SubSeq(a, 12, 13)) = size - 13
  <2>1. a[12] = 0 /\ a[13] = count + 3
    BY <1>2, <1>8
  <2> DEFINE x == a[12]
             y == a[13]
             pair == SubSeq(a, 12, 13)
  <2>2. pair = <<x, y>> /\ x = 0 /\ y = count + 3
    BY <1>5, <2>1
  <2> HIDE DEF x, y, pair
  <2>3. Word(pair) = 256 * x + y
    BY <1>7, <2>2
  <2> QED
    BY <1>1, <2>2, <2>3 DEF pair
<1>11. Word(SubSeq(a, 14, 15)) = size - 16
  <2>1. a[14] = 0 /\ a[15] = count
    BY <1>2, <1>8
  <2> DEFINE x == a[14]
             y == a[15]
             pair == SubSeq(a, 14, 15)
  <2>2. pair = <<x, y>> /\ x = 0 /\ y = count
    BY <1>5, <2>1
  <2> HIDE DEF x, y, pair
  <2>3. Word(pair) = 256 * x + y
    BY <1>7, <2>2
  <2> QED
    BY <1>1, <2>2, <2>3 DEF pair
<1>12. Word(SubSeq(a, 17, 18)) = size - 19
  <2>1. SubSeq(a, 17, 18) = <<data[2], data[3]>>
    BY <1>2, <1>5
  <2>2. Word(SubSeq(a, 17, 18)) = 256 * data[2] + data[3]
    BY <1>7, <2>1
  <2> QED
    BY <1>1, <1>4, <2>2
<1>13. SubSeq(a, 10, 11) = SubSeq(request, 10, 11)
  BY <1>2, <1>5, <1>6
<1> QED
  <2>1. Len(a) = size
    BY <1>2
  <2> QED
    BY <1>9, <1>10, <1>11, <1>12, <1>13, <2>1 DEF CountsWhatFollows, a

-----------------------------------------------------------------------------
(* The record agrees with itself.                                          *)

\* The nodes above the d-th, and that it is beneath no other: 0 is above all of them.
AboveOf(last, d) ==
  {n \in 0..Len(ServiceRecord) : (n = 0 /\ d > 0) \/ (n > 0 /\ n < d /\ d <= last[n])}
AboveNext(above, d) ==
  IF d = 0 THEN {} ELSE {ServiceRecord[d].parent} \cup above[ServiceRecord[d].parent]

\* One step up.
LEMMA OneUp ==
  ASSUME NEW last, NEW begins, InOrder(last, begins), NEW d \in DOMAIN ServiceRecord
  PROVE  LET p == ServiceRecord[d].parent
         IN p \in 0..Len(ServiceRecord) /\ p < d
            /\ AboveOf(last, d) = {p} \cup AboveOf(last, p)
<1> DEFINE R == ServiceRecord
           c == Len(R)
           p == R[d].parent
<1>1. c \in Nat /\ d \in 1..c /\ p \in Nat
  BY RecordDomain
<1>2. /\ p < d
      /\ \A n \in 1..c : (n < d /\ d <= last[n]) <=> (n = p \/ (n < p /\ p <= last[n]))
  BY <1>1 DEF InOrder
<1> HIDE DEF R, p
<1>3. p \in 0..c /\ d > 0
  BY <1>1, <1>2
<1>4. ASSUME NEW n
      PROVE  n \in AboveOf(last, d) <=> (n = p \/ n \in AboveOf(last, p))
  <2>1. n \in AboveOf(last, d)
          <=> n \in 0..c /\ ((n = 0 /\ d > 0) \/ (n > 0 /\ n < d /\ d <= last[n]))
    BY DEF AboveOf, R
  <2>2. n \in AboveOf(last, p)
          <=> n \in 0..c /\ ((n = 0 /\ p > 0) \/ (n > 0 /\ n < p /\ p <= last[n]))
    BY DEF AboveOf, R
  <2>3. CASE n \in 1..c
    <3>1. n \in 0..c /\ n # 0 /\ n > 0
      BY <1>1, <2>3
    <3> QED
      BY <1>2, <2>1, <2>2, <2>3, <3>1
  <2>4. CASE n = 0
    <3>1. 0 \in 0..c /\ (p > 0 \/ p = 0)
      BY <1>1
    <3> QED
      BY <1>3, <2>1, <2>2, <2>4, <3>1
  <2>5. CASE n # 0 /\ n \notin 1..c
    <3>1. n \notin 0..c
      BY <1>1, <2>5
    <3> QED
      BY <1>3, <2>1, <2>2, <3>1
  <2> QED
    BY <2>3, <2>4, <2>5
<1>5. AboveOf(last, d) = {p} \cup AboveOf(last, p)
  BY <1>4
<1> QED
  BY <1>2, <1>3, <1>5 DEF p, R

\* A sequence is above exactly the nodes up to the last one beneath it.
LEMMA AboveInOrder ==
  ASSUME NEW last, NEW begins, InOrder(last, begins), NEW d \in DOMAIN ServiceRecord
  PROVE  Above(ServiceRecord, d) = AboveOf(last, d)
<1> DEFINE R == ServiceRecord
           c == Len(R)
           g == [k \in 0..c |-> AboveOf(last, k)]
           f == CHOOSE h : h = [k \in 0..c |-> AboveNext(h, k)]
           T == {k \in 0..c : f[k] # AboveOf(last, k)}
<1>1. c \in Nat /\ DOMAIN R = 1..c
  BY RecordDomain
<1>2. Above(R, d) = f[d]
  BY DEF Above, AboveNext
<1>3. AboveOf(last, 0) = {}
  BY <1>1 DEF AboveOf
<1>4. g = [k \in 0..c |-> AboveNext(g, k)]
  <2> SUFFICES ASSUME NEW k \in 0..c PROVE AboveOf(last, k) = AboveNext(g, k)
    OBVIOUS
  <2>1. CASE k = 0
    BY <1>3, <2>1 DEF AboveNext
  <2>2. CASE k # 0
    <3>1. k \in DOMAIN R
      BY <1>1, <2>2
    <3>2. /\ R[k].parent \in 0..c
          /\ AboveOf(last, k) = {R[k].parent} \cup AboveOf(last, R[k].parent)
      BY <3>1, OneUp
    <3>3. g[R[k].parent] = AboveOf(last, R[k].parent)
      BY <3>2
    <3> HIDE DEF g
    <3> QED
      BY <2>2, <3>2, <3>3 DEF AboveNext
  <2> QED
    BY <2>1, <2>2
<1>5. f = [k \in 0..c |-> AboveNext(f, k)]
  <2>1. \E h : h = [k \in 0..c |-> AboveNext(h, k)]
    BY <1>4
  <2> QED
    BY <2>1
<1> HIDE DEF f, g
<1>6. \A k \in 0..c : f[k] = AboveNext(f, k)
  BY <1>5
<1>7. T = {}
  <2> SUFFICES ASSUME T # {} PROVE FALSE
    OBVIOUS
  <2>0. T \subseteq Nat /\ T # {}
    BY <1>1
  <2>1. PICK x \in T : \A y \in T : ~(y < x)
    <3> HIDE DEF T
    <3> QED
      BY <2>0, LeastNumber
  <2>2. x \in 0..c /\ f[x] = AboveNext(f, x) /\ f[x] # AboveOf(last, x)
    BY <1>6
  <2>3. CASE x = 0
    BY <1>3, <2>2, <2>3 DEF AboveNext
  <2>4. CASE x # 0
    <3>1. x \in DOMAIN R
      BY <1>1, <2>2, <2>4
    <3>2. /\ R[x].parent \in 0..c /\ R[x].parent < x
          /\ AboveOf(last, x) = {R[x].parent} \cup AboveOf(last, R[x].parent)
      BY <3>1, OneUp
    <3>3. f[R[x].parent] = AboveOf(last, R[x].parent)
      BY <2>1, <3>2
    <3> QED
      BY <2>2, <2>4, <3>2, <3>3 DEF AboveNext
  <2> QED
    BY <2>3, <2>4
<1>8. d \in 0..c
  BY <1>1
<1>9. f[d] = AboveOf(last, d)
  BY <1>7, <1>8
<1> QED
  BY <1>2, <1>9 DEF R

\* A sequence declares the bytes up to the end of the last node beneath it; there is one.
LEMMA SizesDeclared ==
  \A n \in 1..29 :
    ServiceRecord[n].type = "sequence" =>
      BeginOf[n] + 3 + ServiceRecord[n].size = BeginOf[LastOf[n] + 1] /\ n < LastOf[n]
<1>1. ASSUME NEW p PROVE NodeOf(p).type = p[1] /\ NodeOf(p).size = p[2]
  BY DEF NodeOf, Node
<1>2. ASSUME NEW n \in 1..14, ServiceParts[n][1] = "sequence"
      PROVE  BeginOf[n] + 3 + ServiceParts[n][2] = BeginOf[LastOf[n] + 1] /\ n < LastOf[n]
  <2>1. /\ ServiceParts[1][2] = 95
        /\ ServiceParts[2][2] = 92
        /\ ServiceParts[3][1] # "sequence"
        /\ ServiceParts[4][1] # "sequence"
        /\ ServiceParts[5][1] # "sequence"
        /\ ServiceParts[6][2] = 3
        /\ ServiceParts[7][1] # "sequence"
        /\ ServiceParts[8][1] # "sequence"
        /\ ServiceParts[9][2] = 14
        /\ ServiceParts[10][2] = 3
        /\ ServiceParts[11][1] # "sequence"
        /\ ServiceParts[12][2] = 5
        /\ ServiceParts[13][1] # "sequence"
        /\ ServiceParts[14][1] # "sequence"
    BY DEF ServiceParts
  <2> QED
    BY <1>2, <2>1 DEF BeginOf, LastOf
<1>3. ASSUME NEW n \in 1..15, ProfileParts[n][1] = "sequence"
      PROVE  /\ BeginOf[14 + n] + 3 + ProfileParts[n][2] = BeginOf[LastOf[14 + n] + 1]
             /\ 14 + n < LastOf[14 + n]
  <2>1. /\ ProfileParts[1][1] # "sequence"
        /\ ProfileParts[2][2] = 3
        /\ ProfileParts[3][1] # "sequence"
        /\ ProfileParts[4][1] # "sequence"
        /\ ProfileParts[5][2] = 9
        /\ ProfileParts[6][1] # "sequence"
        /\ ProfileParts[7][1] # "sequence"
        /\ ProfileParts[8][1] # "sequence"
        /\ ProfileParts[9][1] # "sequence"
        /\ ProfileParts[10][2] = 9
        /\ ProfileParts[11][2] = 6
        /\ ProfileParts[12][1] # "sequence"
        /\ ProfileParts[13][1] # "sequence"
        /\ ProfileParts[14][1] # "sequence"
        /\ ProfileParts[15][1] # "sequence"
    BY DEF ProfileParts
  <2> QED
    BY <1>3, <2>1 DEF BeginOf, LastOf
<1>4. ASSUME NEW n \in 1..14, ServiceRecord[n].type = "sequence"
      PROVE  BeginOf[n] + 3 + ServiceRecord[n].size = BeginOf[LastOf[n] + 1] /\ n < LastOf[n]
  <2>1. ServiceRecord[n] = NodeOf(ServiceParts[n])
    BY RecordParts
  <2> QED
    BY <1>1, <1>2, <1>4, <2>1
<1>5. ASSUME NEW n \in 1..15, ServiceRecord[14 + n].type = "sequence"
      PROVE  /\ BeginOf[14 + n] + 3 + ServiceRecord[14 + n].size = BeginOf[LastOf[14 + n] + 1]
             /\ 14 + n < LastOf[14 + n]
  <2>1. ServiceRecord[14 + n] = NodeOf(ProfileParts[n])
    BY RecordParts
  <2> QED
    BY <1>1, <1>3, <1>5, <2>1
<1> SUFFICES ASSUME NEW n \in 1..29, ServiceRecord[n].type = "sequence"
             PROVE  BeginOf[n] + 3 + ServiceRecord[n].size = BeginOf[LastOf[n] + 1] /\ n < LastOf[n]
  OBVIOUS
<1>6. n \in 1..14 \/ (n - 14 \in 1..15 /\ 14 + (n - 14) = n)
  OBVIOUS
<1> QED
  BY <1>4, <1>5, <1>6

\* Where the nodes begin, and the last one ends.
Laid(w) ==
  /\ w.nodes = ServiceRecord /\ \A j \in 1..Len(ServiceRecord) : w.begins[j] = BeginOf[j]
  /\ Len(w.target) = BeginOf[30]

\* In such a record every node ends where the next one begins.
LEMMA LaidWithoutGaps ==
  ASSUME NEW w, Laid(w), NEW d \in DOMAIN w.nodes
  PROVE  /\ d \in 1..29 /\ w.begins[d] = BeginOf[d] /\ WrittenEnd(w, d) = BeginOf[d + 1]
<1>1. DOMAIN w.nodes = 1..29 /\ Len(w.nodes) = 29
  BY RecordDomain, RecordParts DEF Laid
<1>2. d \in 1..29 /\ w.begins[d] = BeginOf[d]
  BY <1>1, RecordParts DEF Laid
<1>3. CASE d = 29
  BY <1>1, <1>2, <1>3 DEF Laid, WrittenEnd
<1>4. CASE d # 29
  <2>1. d + 1 \in 1..29
    BY <1>2, <1>4
  <2>2. w.begins[d + 1] = BeginOf[d + 1]
    BY <2>1, RecordParts DEF Laid
  <2> QED
    BY <1>1, <1>2, <1>4, <2>2 DEF WrittenEnd
<1> QED
  BY <1>2, <1>3, <1>4

\* A record that is laid out so agrees with itself.
LEMMA LaidIsNested ==
  ASSUME NEW w, Laid(w), NEW n \in DOMAIN w.nodes
  PROVE  /\ \A d \in DOMAIN w.nodes : n < d => w.begins[n] < w.begins[d]
         /\ w.nodes[n].type = "sequence" =>
              /\ \A d \in DOMAIN w.nodes : Within(w, n, d) <=> n \in Above(w.nodes, d)
              /\ \E d \in DOMAIN w.nodes :
                   n \in Above(w.nodes, d) /\ WrittenEnd(w, d) = DeclaredEnd(w, n)
<1> DEFINE R == ServiceRecord
           c == 29
           last == LastOf[n]
<1>1. w.nodes = R /\ DOMAIN R = 1..c
  BY RecordDomain, RecordParts DEF Laid
<1>2. n \in 1..c /\ w.begins[n] = BeginOf[n]
  BY LaidWithoutGaps
<1>3. \A i, j \in 1..30 : i < j <=> BeginOf[i] < BeginOf[j]
  BY DEF BeginOf
<1>4. \A i \in 1..30 : BeginOf[i] \in Nat
  BY DEF BeginOf
<1>5. last \in 1..c
  BY <1>2 DEF LastOf
<1>6. R[n].type = "sequence" => BeginOf[n] + 3 + R[n].size = BeginOf[last + 1]
  BY <1>2, SizesDeclared
<1>7. R[n].type = "sequence" => n < last
  BY <1>2, SizesDeclared
<1>8. Len(R) = c
  BY RecordParts
<1>9. ASSUME NEW d \in 1..c
      PROVE  n \in Above(R, d) <=> (n < d /\ d <= last)
  <2>1. Above(R, d) = AboveOf(LastOf, d)
    BY <1>1, AboveInOrder, RecordInOrder
  <2>2. n \in 0..c /\ n > 0 /\ n # 0
    BY <1>2
  <2> QED
    BY <1>8, <2>1, <2>2 DEF AboveOf
<1> HIDE DEF R, last
<1>10. ASSUME NEW d \in DOMAIN w.nodes, n < d PROVE w.begins[n] < w.begins[d]
  <2>1. d \in 1..c /\ w.begins[d] = BeginOf[d]
    BY LaidWithoutGaps
  <2> QED
    BY <1>2, <1>3, <1>10, <2>1
<1>11. CASE R[n].type = "sequence"
  <2>1. DeclaredEnd(w, n) = BeginOf[last + 1]
    BY <1>1, <1>2, <1>6, <1>11 DEF DeclaredEnd
  <2>2. ASSUME NEW d \in DOMAIN w.nodes
        PROVE  Within(w, n, d) <=> n \in Above(w.nodes, d)
    <3>1. d \in 1..c /\ w.begins[d] = BeginOf[d] /\ WrittenEnd(w, d) = BeginOf[d + 1]
      BY LaidWithoutGaps
    <3>2. n \in 1..30 /\ d \in 1..30 /\ d + 1 \in 1..30 /\ last + 1 \in 1..30
      BY <1>2, <1>5, <3>1
    <3>3. Within(w, n, d) <=> BeginOf[n] < BeginOf[d] /\ BeginOf[d + 1] <= BeginOf[last + 1]
      BY <1>2, <2>1, <3>1 DEF Within
    <3>4. BeginOf[d + 1] <= BeginOf[last + 1] <=> ~(BeginOf[last + 1] < BeginOf[d + 1])
      BY <1>4, <3>2
    <3>5. BeginOf[n] < BeginOf[d] <=> n < d
      BY <1>3, <3>2
    <3>6. BeginOf[last + 1] < BeginOf[d + 1] <=> last + 1 < d + 1
      BY <1>3, <3>2
    <3>7. ~(last + 1 < d + 1) <=> d <= last
      BY <1>5, <3>1
    <3> QED
      BY <1>1, <1>9, <3>1, <3>3, <3>4, <3>5, <3>6, <3>7
  <2>3. last \in DOMAIN w.nodes /\ WrittenEnd(w, last) = BeginOf[last + 1]
    BY <1>1, <1>5, LaidWithoutGaps
  <2>4. n \in Above(w.nodes, last)
    BY <1>1, <1>5, <1>7, <1>9, <1>11
  <2> QED
    BY <1>10, <2>1, <2>2, <2>3, <2>4
<1>12. CASE R[n].type # "sequence"
  BY <1>1, <1>10, <1>12
<1> QED
  BY <1>11, <1>12

-----------------------------------------------------------------------------
(* Every answer is such a response, to the search in front of it.          *)

\* The root of the record declares the 95 bytes behind its header.
LEMMA RootDeclares == Len(RootBytes) = 3 /\ RootBytes[2] = 0 /\ RootBytes[3] = 95
<1>1. ServiceRecord[1] = NodeOf(ServiceParts[1])
  BY RecordParts
<1>2. ServiceParts[1] = <<"sequence", 95, << >>, 0>>
  BY DEF ServiceParts
<1>3. ServiceRecord[1].type = "sequence" /\ ServiceRecord[1].size = 95
  BY <1>1, <1>2 DEF NodeOf, Node
<1>4. RootBytes = SequenceHeader(ServiceRecord[1])
  BY <1>3 DEF RootBytes, serializeSimpleDataElement
<1>5. Bytes(95) = <<0, 95>> /\ 8 * Code["sequence"] + 6 = 54
  BY DEF Bytes, Octet, Code
<1>6. SequenceHeader(ServiceRecord[1]) = <<54>> \o <<0, 95>>
  BY <1>3, <1>5 DEF SequenceHeader
<1>7. LET r == <<54>> \o <<0, 95>> IN Len(r) = 3 /\ r[2] = 0 /\ r[3] = 95
  <2> DEFINE h == <<54>>
             b == <<0, 95>>
  <2>1. h \in Seq(Nat) /\ b \in Seq(Nat) /\ Len(h) = 1 /\ Len(b) = 2 /\ b[1] = 0 /\ b[2] = 95
    OBVIOUS
  <2> HIDE DEF h, b
  <2>2. /\ Len(h \o b) = Len(h) + Len(b)
        /\ \A i \in 1..Len(b) : (h \o b)[Len(h) + i] = b[i]
    <3>1. h \in Seq(Nat) /\ b \in Seq(Nat)
      BY <2>1
    <3> QED
      BY <3>1, Joined
  <2>3. Len(h \o b) = 3 /\ (h \o b)[2] = 0 /\ (h \o b)[3] = 95
    BY <2>1, <2>2
  <2> QED
    BY <2>3 DEF h, b
<1> QED
  BY <1>4, <1>6, <1>7

\* When all nodes are written there are 98 bytes, and they say so.
LEMMA WholeRecord ==
  ASSUME NEW w, WriterAt(w, BeginOf, Len(ServiceRecord))
  PROVE  /\ w.target \in Seq(Bytes256) /\ Len(w.target) = 98
         /\ 256 * w.target[2] + w.target[3] = Len(w.target) - 3
<1>1. Len(ServiceRecord) = 29
  BY RecordParts
<1>2. w \in Writers /\ Len(w.target) = BeginOf[29 + 1] /\ StartsWith(w.target, RootBytes)
  BY <1>1 DEF WriterAt
<1>3. w.target \in Seq(Bytes256)
  BY <1>2 DEF Writers, Written
<1>4. Len(w.target) = 98
  <2>1. BeginOf[29 + 1] = 98
    BY DEF BeginOf
  <2> QED
    BY <1>2, <2>1
<1>5. w.target[2] = 0 /\ w.target[3] = 95
  <2>1. 2 \in 1..3 /\ 3 \in 1..3
    OBVIOUS
  <2> QED
    BY <1>2, <2>1, RootDeclares DEF StartsWith
<1> QED
  BY <1>3, <1>4, <1>5

\* While a search is worked on it is the last packet; an answer has its search in front.
LastIsSearch ==
  stage \in {"pattern", "attributes", "response"} =>
    /\ Len(traffic) > 0 /\ traffic[Len(traffic)].search
    /\ traffic[Len(traffic)].bytes = packet
AnsweredAt(s, i) ==
  s[i].type = "hci_asynchronous_data" =>
    i > 1 /\ s[i - 1].search /\ CountsWhatFollows(s[i].bytes, s[i - 1].bytes)
AllAnswered == \A i \in 1..Len(traffic) : AnsweredAt(traffic, i)
WritesInOrder ==
  /\ stage = "response" => \E k \in 0..Len(ServiceRecord) : WriterAt(writer, BeginOf, k)
  /\ writer.state = "done" => Laid(writer)
AnswerInv == LastIsSearch /\ AllAnswered /\ WritesInOrder

\* A packet more.
LEMMA OneMorePacket ==
  ASSUME NEW S, NEW s \in Seq(S), NEW t \in S, \A i \in 1..Len(s) : AnsweredAt(s, i),
         \/ t.type # "hci_asynchronous_data"
         \/ /\ Len(s) > 0 /\ s[Len(s)].search
            /\ CountsWhatFollows(t.bytes, s[Len(s)].bytes)
  PROVE  \A i \in 1..Len(Append(s, t)) : AnsweredAt(Append(s, t), i)
<1> DEFINE a == Append(s, t)
           l == Len(s)
<1>1. /\ Len(a) = l + 1 /\ l \in Nat /\ a[l + 1] = t /\ \A i \in 1..l : a[i] = s[i]
  BY QueueAppend, LenProperties
<1> HIDE DEF a, l
<1> SUFFICES ASSUME NEW i \in 1..(l + 1) PROVE AnsweredAt(a, i)
  BY <1>1 DEF a, l
<1>2. CASE i \in 1..l
  <2>1. AnsweredAt(s, i) /\ a[i] = s[i]
    BY <1>1, <1>2 DEF l
  <2>2. i > 1 => a[i - 1] = s[i - 1]
    <3>1. i > 1 => i - 1 \in 1..l
      BY <1>1, <1>2
    <3> QED
      BY <1>1, <3>1
  <2> QED
    BY <2>1, <2>2 DEF AnsweredAt
<1>3. CASE i = l + 1
  <2>1. CASE t.type # "hci_asynchronous_data"
    BY <1>1, <1>3, <2>1 DEF AnsweredAt
  <2>2. CASE l > 0 /\ s[l].search /\ CountsWhatFollows(t.bytes, s[l].bytes)
    <3>1. i > 1 /\ i - 1 = l /\ l \in 1..l
      BY <1>1, <1>3, <2>2
    <3>2. a[i] = t /\ a[i - 1] = s[l]
      BY <1>1, <1>3, <3>1
    <3> QED
      BY <2>2, <3>1, <3>2 DEF AnsweredAt
  <2> QED
    BY <2>1, <2>2 DEF l
<1> QED
  BY <1>1, <1>2, <1>3

\* A packet that comes in is the last one, and no answer.
LEMMA AnswerAclInCompleted ==
  ASSUME SdpInv, AnswerInv, NEW p \in Packets, AclInCompleted(p)
  PROVE  AnswerInv'
<1> DEFINE t == [type |-> "hci_synchronous_data", bytes |-> p.bytes,
                 search |-> IsSearch(p), uuids |-> p.uuids]
<1>1. /\ traffic' = Append(traffic, t) /\ stage = "idle" /\ writer' = writer
      /\ IF IsSearch(p) THEN stage' = "pattern" /\ packet' = p.bytes ELSE stage' = stage
  BY DEF AclInCompleted, server
<1>2. /\ traffic \in Seq(Entries) /\ t \in Entries
  <2>1. p.bytes \in Seq(Bytes256) /\ p.sdp \in BOOLEAN
    BY SdpAssumption
  <2>2. IsSearch(p) \in BOOLEAN
    BY DEF IsSearch
  <2>3. "hci_synchronous_data" \in DOMAIN HciPacketType
    BY DEF HciPacketType
  <2>4. p.uuids \in {q.uuids : q \in Packets} \cup {<< >>}
    OBVIOUS
  <2> QED
    BY <2>1, <2>2, <2>3, <2>4 DEF Entries, SdpInv, LogInv
<1>3. /\ t.type # "hci_asynchronous_data" /\ t.search = IsSearch(p) /\ t.bytes = p.bytes
  OBVIOUS
<1> HIDE DEF t
<1>4. AllAnswered'
  <2>1. \A i \in 1..Len(Append(traffic, t)) : AnsweredAt(Append(traffic, t), i)
    BY <1>2, <1>3, OneMorePacket DEF AnswerInv, AllAnswered
  <2> QED
    BY <1>1, <2>1 DEF AllAnswered
<1>5. LastIsSearch'
  <2>1. /\ Len(Append(traffic, t)) = Len(traffic) + 1 /\ Len(traffic) \in Nat
        /\ Append(traffic, t)[Len(traffic) + 1] = t
    BY <1>2, QueueAppend, LenProperties
  <2>2. Len(traffic') > 0 /\ traffic'[Len(traffic')] = t
    BY <1>1, <2>1
  <2>3. stage' \in {"pattern", "attributes", "response"} => IsSearch(p) /\ packet' = p.bytes
    BY <1>1
  <2> QED
    BY <1>3, <2>2, <2>3 DEF LastIsSearch
<1>6. WritesInOrder'
  <2>1. stage' # "response" /\ (writer.state = "done" => Laid(writer))
    BY <1>1 DEF AnswerInv, WritesInOrder
  <2> QED
    BY <1>1, <2>1 DEF WritesInOrder, Laid
<1> QED
  BY <1>4, <1>5, <1>6 DEF AnswerInv

\* An answer that is read back is no answer, and is not answered.
LEMMA AnswerAclOutCompleted ==
  ASSUME SdpInv, AnswerInv, AclOutCompleted
  PROVE  AnswerInv'
<1>1. PICK t \in Entries : traffic' = Append(traffic, t) /\ t.type = "hci_synchronous_data"
  BY ReadBackLogged
<1>2. stage' = "idle" /\ writer' = writer
  BY DEF AclOutCompleted, server
<1>3. AllAnswered'
  <2>1. traffic \in Seq(Entries)
    BY DEF SdpInv, LogInv
  <2>2. \A i \in 1..Len(Append(traffic, t)) : AnsweredAt(Append(traffic, t), i)
    BY <1>1, <2>1, OneMorePacket DEF AnswerInv, AllAnswered
  <2> QED
    BY <1>1, <2>2 DEF AllAnswered
<1> QED
  BY <1>2, <1>3 DEF AnswerInv, LastIsSearch, WritesInOrder, Laid

\* Reading leaves the search where it is; the writer starts when it is read.
LEMMA AnswerReads ==
  ASSUME SdpInv, AnswerInv, ReadPattern \/ ReadAttributes
  PROVE  AnswerInv'
<1> DEFINE r == TurnEnded(BodyRead(HeaderRead(reader)))
<1>1. /\ stage \in {"pattern", "attributes"} /\ packet' = packet /\ traffic' = traffic
  BY DEF ReadPattern, ReadAttributes
<1>2. r.state \in {"threw", "crashed", "reading", "done"}
  <2>1. "state" \in DOMAIN reader
    BY <1>1 DEF SdpInv, CallbackInv
  <2> QED
    BY <2>1, TurnEnds
<1>3. \/ writer' = writer /\ stage' # "response"
      \/ writer' = Writing(ServiceRecord)
  <2>1. CASE ReadPattern
    <3>1. /\ writer' = writer
          /\ stage = "pattern"
          /\ IF r.state # "done"
             THEN stage' = IF r.state = "reading" THEN stage ELSE r.state
             ELSE stage' = IF FirstUuid(r.nodes) THEN "attributes" ELSE "threw"
      BY <2>1 DEF ReadPattern
    <3> HIDE DEF r
    <3> QED
      BY <1>2, <3>1
  <2>2. CASE ReadAttributes
    <3>1. /\ stage = "attributes"
          /\ stage' = CASE r.state = "reading" -> stage
                        [] r.state = "done" -> "response"
                        [] OTHER -> r.state
          /\ writer' = IF r.state = "done" THEN Writing(ServiceRecord) ELSE writer
      BY <2>2 DEF ReadAttributes
    <3> HIDE DEF r
    <3> QED
      BY <1>2, <3>1
  <2> QED
    BY <2>1, <2>2
<1> HIDE DEF r
<1>4. LastIsSearch'
  BY <1>1 DEF AnswerInv, LastIsSearch
<1>5. AllAnswered'
  BY <1>1 DEF AnswerInv, AllAnswered
<1>6. WritesInOrder'
  <2>1. CASE writer' = writer /\ stage' # "response"
    BY <2>1 DEF AnswerInv, WritesInOrder, Laid
  <2>2. CASE writer' = Writing(ServiceRecord)
    <3>1. WriterAt(Writing(ServiceRecord), BeginOf, 0)
      BY RecordInOrder, WriterBegins
    <3>2. 0 \in 0..Len(ServiceRecord)
      BY RecordDomain
    <3>3. Writing(ServiceRecord).state # "done"
      BY DEF Writing
    <3> QED
      BY <2>2, <3>1, <3>2, <3>3 DEF WritesInOrder
  <2> QED
    BY <1>3, <2>1, <2>2
<1> QED
  BY <1>4, <1>5, <1>6 DEF AnswerInv

\* A turn of the writer: one node more, or the answer, which is put together from the
\* whole record and the search that is still the last packet.
LEMMA AnswerWriteResponse ==
  ASSUME SdpInv, AnswerInv, WriteResponse
  PROVE  AnswerInv'
<1> DEFINE w == serializeSequenceDataElement(writer)
           answer == Response(packet, w.target)
           t == [type |-> "hci_asynchronous_data", bytes |-> answer, search |-> FALSE,
                 uuids |-> << >>]
           c == Len(ServiceRecord)
<1>1. /\ stage = "response" /\ writer' = w
      /\ w.state = "done" => stage' = "idle" /\ traffic' = Append(traffic, t)
      /\ w.state # "done" => /\ stage' = IF w.state = "threw" THEN "threw" ELSE stage
                             /\ UNCHANGED <<packet, traffic>>
  BY DEF WriteResponse
<1>2. packet \in Requests /\ traffic \in Seq(Entries)
  BY <1>1 DEF SdpInv, CallbackInv, LogInv
<1>3. /\ Len(traffic) > 0 /\ traffic[Len(traffic)].search
      /\ traffic[Len(traffic)].bytes = packet
  BY <1>1 DEF AnswerInv, LastIsSearch
<1>4. PICK k \in 0..c : WriterAt(writer, BeginOf, k)
  BY <1>1 DEF AnswerInv, WritesInOrder
<1>5. \/ w.state = "threw"
      \/ /\ w.state = "done" /\ k = c
         /\ w.nodes = writer.nodes /\ w.target = writer.target /\ w.begins = writer.begins
      \/ w.state = "writing" /\ k + 1 \in 0..c /\ WriterAt(w, BeginOf, k + 1)
  BY <1>4, RecordInOrder, WriterGoesOn
<1>6. CASE w.state = "done"
  <2>1. k = c /\ w.target = writer.target /\ w.nodes = writer.nodes /\ w.begins = writer.begins
    <3> HIDE DEF w
    <3> QED
      BY <1>5, <1>6
  <2>2. /\ w.target \in Seq(Bytes256) /\ Len(w.target) = 98
        /\ 256 * w.target[2] + w.target[3] = Len(w.target) - 3
    <3> HIDE DEF w
    <3> QED
      BY <1>4, <2>1, WholeRecord
  <2>3. answer \in Seq(Bytes256) /\ CountsWhatFollows(answer, packet)
    <3> DEFINE data == w.target
    <3>1. /\ data \in Seq(Bytes256) /\ Len(data) >= 3 /\ Len(data) < 244 /\ Len(data) <= 256
          /\ 256 * data[2] + data[3] = Len(data) - 3
      BY <2>2
    <3> HIDE DEF data
    <3>2. /\ Response(packet, data) \in Seq(Bytes256)
          /\ CountsWhatFollows(Response(packet, data), packet)
      BY <1>2, <3>1, ResponseCounts, ResponseTyped
    <3> QED
      BY <3>2 DEF data
  <2>4. t \in Entries
    <3> HIDE DEF answer
    <3>1. "hci_asynchronous_data" \in DOMAIN HciPacketType
      BY DEF HciPacketType
    <3>2. << >> \in {q.uuids : q \in Packets} \cup {<< >>}
      OBVIOUS
    <3> QED
      BY <2>3, <3>1, <3>2 DEF Entries
  <2>5. t.bytes = answer
    OBVIOUS
  <2>6. Laid(w)
    <3>1. /\ writer \in Writers /\ \A j \in 1..c : writer.begins[j] = BeginOf[j]
          /\ Len(writer.target) = BeginOf[30]
      BY <1>4, <2>1, RecordParts DEF WriterAt
    <3>2. writer.nodes = ServiceRecord
      BY <3>1 DEF Writers
    <3> HIDE DEF w
    <3> QED
      BY <2>1, <3>1, <3>2 DEF Laid
  <2> HIDE DEF w, answer, t
  <2>7. AllAnswered'
    <3>1. \A i \in 1..Len(traffic) : AnsweredAt(traffic, i)
      BY DEF AnswerInv, AllAnswered
    <3>2. CountsWhatFollows(t.bytes, traffic[Len(traffic)].bytes)
      BY <1>3, <2>3, <2>5
    <3>3. \A i \in 1..Len(Append(traffic, t)) : AnsweredAt(Append(traffic, t), i)
      BY <1>2, <1>3, <2>4, <3>1, <3>2, OneMorePacket
    <3> QED
      BY <1>1, <1>6, <3>3 DEF AllAnswered
  <2>8. LastIsSearch'
    BY <1>1, <1>6 DEF LastIsSearch
  <2>9. WritesInOrder'
    BY <1>1, <1>6, <2>6 DEF WritesInOrder, Laid
  <2> QED
    BY <2>7, <2>8, <2>9 DEF AnswerInv
<1>7. CASE w.state # "done"
  <2> HIDE DEF w, c
  <2>1. /\ UNCHANGED <<packet, traffic>> /\ stage' \in {"threw", "response"}
        /\ stage' = "response" => k + 1 \in 0..c /\ WriterAt(w, BeginOf, k + 1)
    BY <1>1, <1>5, <1>7
  <2>2. LastIsSearch'
    BY <1>1, <2>1 DEF AnswerInv, LastIsSearch
  <2>3. AllAnswered'
    BY <2>1 DEF AnswerInv, AllAnswered
  <2>4. WritesInOrder'
    BY <1>1, <1>7, <2>1 DEF WritesInOrder, c
  <2> QED
    BY <2>2, <2>3, <2>4 DEF AnswerInv
<1> QED
  BY <1>6, <1>7

\* The invariant holds in every run.
LEMMA AnswersKept == Spec => []AnswerInv
<1>1. Init => AnswerInv
  <2> SUFFICES ASSUME Init PROVE AnswerInv
    OBVIOUS
  <2>1. stage = "idle" /\ traffic = << >> /\ writer.state = "writing"
    BY DEF Init, Writing
  <2>2. \A i \in 1..Len(traffic) : FALSE
    BY <2>1
  <2> QED
    BY <2>1, <2>2 DEF AnswerInv, LastIsSearch, AllAnswered, WritesInOrder
<1>2. SdpInv /\ AnswerInv /\ [Next]_vars => AnswerInv'
  <2> SUFFICES ASSUME SdpInv, AnswerInv, [Next]_vars PROVE AnswerInv'
    OBVIOUS
  <2>1. ASSUME NEW p \in Packets, AclInCompleted(p) PROVE AnswerInv'
    BY <2>1, AnswerAclInCompleted
  <2>2. CASE Program
    BY <2>2, AnswerReads, AnswerWriteResponse DEF Program
  <2>3. CASE Killed
    <3>1. stage' = "closed" /\ traffic' = traffic /\ writer'.state = "writing"
      BY <2>3 DEF Killed, Writing
    <3> QED
      BY <3>1 DEF AnswerInv, LastIsSearch, AllAnswered, WritesInOrder
  <2>4. CASE ReadLog
    <3>1. stage' = "closed" /\ stage = "closed" /\ traffic' = traffic /\ writer' = writer
      BY <2>4 DEF ReadLog, server
    <3> QED
      BY <3>1 DEF AnswerInv, LastIsSearch, AllAnswered, WritesInOrder, Laid
  <2>5. CASE UNCHANGED vars
    <3>1. UNCHANGED <<stage, packet, traffic, writer>>
      BY <2>5 DEF vars
    <3> QED
      BY <3>1 DEF AnswerInv, LastIsSearch, AllAnswered, WritesInOrder, Laid
  <2>6. CASE AclOutCompleted
    BY <2>6, AnswerAclOutCompleted
  <2> QED
    BY <2>1, <2>2, <2>3, <2>4, <2>5, <2>6 DEF Next
<1> QED
  BY <1>1, <1>2, SdpKept, PTL DEF Spec

\* For all packets, those that do not follow the standard included: whatever is sent as an
\* answer directly follows the search it answers, repeats its transaction, and each of
\* its five lengths counts the bytes behind it, although the program adds a different
\* constant to the length of the record for each of them.
THEOREM AnswersAreWellFormed == Spec => []AnswersWellFormed
<1>1. SdpInv /\ AnswerInv => AnswersWellFormed
  <2> SUFFICES ASSUME SdpInv, AnswerInv, NEW i \in DOMAIN traffic,
                      traffic[i].type = "hci_asynchronous_data"
               PROVE  /\ i > 1 /\ traffic[i - 1].search
                      /\ CountsWhatFollows(traffic[i].bytes, traffic[i - 1].bytes)
    BY DEF AnswersWellFormed, CountsWhatFollows
  <2>1. i \in 1..Len(traffic)
    BY LenProperties DEF SdpInv, LogInv
  <2>2. AnsweredAt(traffic, i)
    BY <2>1 DEF AnswerInv, AllAnswered
  <2> QED
    BY <2>2 DEF AnsweredAt
<1> QED
  BY <1>1, SdpKept, AnswersKept, PTL

\* When the record has been written, its nodes are in the order they were added, and the
\* bytes every sequence declares are those of the nodes beneath it: these lie within them
\* and no other does, and the last one ends where they end.
THEOREM RecordIsNested == Spec => []RecordNested
<1>1. AnswerInv => RecordNested
  <2> SUFFICES ASSUME AnswerInv, writer.state = "done" PROVE RecordNested
    BY DEF RecordNested
  <2>1. Laid(writer)
    BY DEF AnswerInv, WritesInOrder
  <2> QED
    BY <2>1, LaidIsNested DEF RecordNested
<1> QED
  BY <1>1, AnswersKept, PTL
=============================================================================
