---------------------------- MODULE DataElement ----------------------------
(***************************************************************************)
(* SDP data elements as sdp/sdp.cpp reads and writes them.  An element is  *)
(* a header byte (type and size code), the length where the size code says *)
(* so, and a body; the body of a sequence is elements.  The reader builds  *)
(* nodes one after the other and finds their places by counting bytes; the *)
(* writer takes nodes from a double-ended queue.  Byte counts are kept in  *)
(* 8 bits, offsets are those of the C arrays.                              *)
(***************************************************************************)
EXTENDS Integers, Sequences, SequencesExt

Code == [uint |-> 1, uuid |-> 3, text_string |-> 4, sequence |-> 6]
Octet(n) == n % 256

\* The number two bytes stand for.
Word(bytes) == 256 * bytes[1] + bytes[2]

\* Bug the checks must catch: bytes taken as signed characters.
LastCharacters(count, bytes) ==
  [k \in 1..count |->
     IF Len(bytes) + k <= count THEN 0
     ELSE LET b == bytes[Len(bytes) + k - count] IN IF b > 127 THEN b - 256 ELSE b]

\* The last bytes of what may be longer or shorter.
LastBytes(count, bytes) ==
  [k \in 1..count |-> IF Len(bytes) + k > count THEN bytes[Len(bytes) + k - count] ELSE 0]

\* Where a node's parent pointer leads: to a node, nowhere, or, for a root whose
\* constructor never sets it, to whatever the stack held.
Null == 0
Unset == -1

Node(type, size, parent) ==
  [type |-> type, size |-> size, parent |-> parent, start_index |-> 0, value |-> << >>]

-----------------------------------------------------------------------------
(* Reading.                                                                *)

At(data, index) == data[index + 1]

\* Type and size, and the bytes the header takes.  A type outside the four is
\* left unknown; the size fits 16 bits.
readDataElementHeader(data, index) ==
  LET code == At(data, index) % 8
      types == {t \in DOMAIN Code : Code[t] = At(data, index) \div 8}
      length == [k \in 1..(IF code < 5 THEN 0 ELSE code - 4) |-> At(data, index + k)]
  IN [type |-> IF types = {} THEN "unknown" ELSE CHOOSE t \in types : TRUE,
      size |-> IF code < 5 THEN 2^code ELSE Word(LastBytes(2, length)),
      used |-> 1 + Len(length)]

\* The value of a body: the last 32 bits of a number, the last 16 of a UUID, a text.
readDataElementBody(data, index, node) ==
  LET body == [k \in 1..node.size |-> At(data, index + k - 1)]
  IN CASE node.type = "uint" -> LastBytes(4, body)
       [] node.type = "uuid" -> LastBytes(2, body)
       [] node.type = "text_string" -> body
       [] OTHER -> node.value

\* The state of deserializeDataElement; it is at the head of its loop.
Reading(data, start, parent) ==
  [data |-> data, start |-> start, consumed |-> 0, size |-> -1,
   nodes |-> <<Node("unknown", 0, parent)>>, current |-> 1, state |-> "reading"]

\* One more node if the current one is a sequence.
WithChild(r) ==
  IF r.nodes[r.current].type = "sequence"
  THEN [r EXCEPT !.nodes = Append(@, Node("unknown", 0, r.current)),
                 !.current = Len(r.nodes) + 1]
  ELSE r

\* Bugs the checks must catch: nothing added to the size of a sequence, and a leaf
\* that stays the current node.
DataSizeOfBody(type, size) == size
ToParentNever(r) == r

\* "a sequence adds another three byte to the entire data size": it adds two.  The header
\* takes up to four, so the count falls short by two, and the last element is still read
\* when it takes more than two bytes, as every element of a request does that follows
\* the standard (three at least).
DataSize(type, size) == IF type = "sequence" THEN size + 2 ELSE size

\* To the parent, unless there is none.
ToParent(r) ==
  LET parent == r.nodes[r.current].parent
  IN IF parent = Null THEN r ELSE [r EXCEPT !.current = parent]

\* Bug the checks must catch: the count of bytes and the place of the body from the
\* same origin, while the parent of a root is not set.
FinishedOneOrigin(r) ==
  /\ r.nodes[r.current].type = "sequence"
  /\ r.start + r.consumed >= r.nodes[r.current].start_index + r.nodes[r.current].size

\* A sequence is taken to be finished when the count of bytes, which starts at the
\* root, reaches the end of its body, which is counted from the start of the packet
\* and without the header.
Finished(r) ==
  /\ r.nodes[r.current].type = "sequence"
  /\ r.consumed >= r.nodes[r.current].start_index + r.nodes[r.current].size

\* A turn of the loop reads a header ...
HeaderRead(r) ==
  LET at == Octet(r.start + r.consumed)
      h == readDataElementHeader(r.data, at)
      w == WithChild(r)
  IN [w EXCEPT !.nodes[w.current].type = IF h.type = "unknown" THEN @ ELSE h.type,
               !.nodes[w.current].size = h.size,
               !.nodes[w.current].start_index = at,
               !.consumed = Octet(@ + h.used),
               !.size = IF @ = -1 THEN DataSize(h.type, h.size) ELSE @]

\* ... and a body, and goes back to the sequence the element is in.
BodyRead(r) ==
  LET node == r.nodes[r.current]
      value == readDataElementBody(r.data, Octet(r.start + r.consumed), node)
  IN CASE node.type = "unknown" -> [r EXCEPT !.state = "threw"]
       [] node.type = "sequence" -> r
       [] OTHER -> ToParent([r EXCEPT !.nodes[r.current].value = value,
                                      !.consumed = Octet(@ + node.size)])

\* The end of the turn.  A parent that is not set is followed when the test for the
\* end of a sequence, or the next turn, looks at what it points to.
TurnEnded(r) ==
  LET next == IF r.current # Unset /\ Finished(r) THEN ToParent(r) ELSE r
      more == r.consumed < r.size
  IN CASE r.state = "threw" -> r
       [] r.current = Unset \/ (more /\ next.current = Unset) ->
            [r EXCEPT !.state = "crashed", !.current = 1]
       [] OTHER -> [next EXCEPT !.state = IF more THEN "reading" ELSE "done"]

-----------------------------------------------------------------------------
(* Writing.                                                                *)

\* The two bytes of a number, the upper one first.
Bytes(n) == <<Octet(n \div 256), Octet(n)>>

\* The length of a sequence always takes two bytes.
SequenceHeader(node) == <<8 * Code[node.type] + 6>> \o Bytes(node.size)

\* Numbers of 8 and 16 bytes and UUIDs of 16 are not converted, other types neither.
Convertible(node) ==
  \/ node.type \in {"sequence", "text_string", "dummy_uint"}
  \/ node.type \in {"uint", "uuid"} /\ node.size \in {1, 2, 4}

\* What is written for one node.  A dummy is plain bytes without a header; the length
\* of a text takes one byte.
serializeSimpleDataElement(node) ==
  CASE node.type = "sequence" -> SequenceHeader(node)
    [] node.type = "text_string" ->
         <<8 * Code[node.type] + 5, Octet(Len(node.value))>> \o node.value
    [] node.type = "dummy_uint" -> LastBytes(node.size, node.value)
    [] OTHER ->
         <<8 * Code[node.type] + (node.size \div 2)>> \o LastBytes(node.size, node.value)

\* The nodes whose parent is the n-th, in the order they were added.
Children(nodes, n) ==
  LET among[k \in 0..Len(nodes)] ==
        CASE k = 0 -> << >>
          [] k > 0 /\ nodes[k].parent = n -> Append(among[k - 1], k)
          [] OTHER -> among[k - 1]
  IN among[Len(nodes)]

\* The state of serializeSequenceDataElement, and where each node was written.
Writing(nodes) ==
  [nodes |-> nodes, deque |-> <<1>>, target |-> << >>,
   begins |-> [n \in DOMAIN nodes |-> 0], state |-> "writing"]

\* Bug the checks must catch: children at the back of the queue.
WithChildrenBehind(w, n) == Tail(w.deque) \o Children(w.nodes, n)

\* The children go to the front of the queue, the first of them first.
WithChildren(w, n) == Children(w.nodes, n) \o Tail(w.deque)

\* One turn of the loop, or its end.  What would not fit the array of 256 bytes ends it:
\* array::at throws.  In the code the position, 8 bits wide, wraps when the array is exactly
\* full, and a text is copied unchecked; the record written here takes 98 bytes, so the
\* model does not go into either.
serializeSequenceDataElement(w) ==
  IF w.deque = << >> THEN [w EXCEPT !.state = "done"]
  ELSE LET n == Head(w.deque)
           bytes == serializeSimpleDataElement(w.nodes[n])
       IN IF ~Convertible(w.nodes[n]) \/ Len(w.target) + Len(bytes) > 256
          THEN [w EXCEPT !.state = "threw"]
          ELSE [w EXCEPT !.target = @ \o bytes, !.deque = WithChildren(w, n),
                         !.begins[n] = Len(w.target)]
=============================================================================
