--------------------------- MODULE SequenceFacts ---------------------------
(***************************************************************************)
(* What the queues of the models do, element by element: facts about       *)
(* Append, Head and Tail that every invariant over a queue rests on.  And  *)
(* lists without repetition, put together from short ones.                 *)
(***************************************************************************)
EXTENDS Integers, Sequences, SequenceTheorems, TLAPS

\* The first element and the rest of a queue come from the queue.
LEMMA QueueTail ==
  ASSUME NEW S, NEW s \in Seq(S), s # << >>
  PROVE  /\ Head(s) \in S /\ Tail(s) \in Seq(S)
         /\ 1 \in DOMAIN s /\ Head(s) = s[1]
         /\ Len(Tail(s)) = Len(s) - 1 /\ Len(s) > 0
         /\ \A i \in DOMAIN Tail(s) : i + 1 \in DOMAIN s /\ Tail(s)[i] = s[i + 1]
  OBVIOUS

\* A queue that grows keeps its elements and has one more, at its end.
LEMMA QueueAppend ==
  ASSUME NEW S, NEW s \in Seq(S), NEW e \in S
  PROVE  /\ Append(s, e) \in Seq(S)
         /\ Len(Append(s, e)) = Len(s) + 1
         /\ DOMAIN Append(s, e) = 1..(Len(s) + 1) /\ DOMAIN s = 1..Len(s)
         /\ \A i \in DOMAIN s : Append(s, e)[i] = s[i]
         /\ Append(s, e)[Len(s) + 1] = e
  OBVIOUS

\* Two queues in a row: what joins the second joins the row, and what goes from the
\* second to the first leaves the row as it is.
LEMMA QueuesInARow ==
  ASSUME NEW S, NEW s \in Seq(S), NEW t \in Seq(S)
  PROVE  /\ s \o t \in Seq(S) /\ (s = << >> /\ t = << >> => s \o t = << >>)
         /\ \A i \in DOMAIN s : i \in DOMAIN (s \o t) /\ (s \o t)[i] = s[i]
         /\ \A e \in S : s \o Append(t, e) = Append(s \o t, e)
         /\ t # << >> => Append(s, Head(t)) \o Tail(t) = s \o t
<1>1. /\ s \o t \in Seq(S) /\ Len(s \o t) = Len(s) + Len(t)
      /\ \A i \in 1..Len(s) + Len(t) : (s \o t)[i] = IF i <= Len(s) THEN s[i] ELSE t[i - Len(s)]
  BY ConcatProperties
<1>2. \A i \in DOMAIN s : i \in DOMAIN (s \o t) /\ (s \o t)[i] = s[i]
  BY <1>1
<1>3. ASSUME NEW e \in S PROVE s \o Append(t, e) = Append(s \o t, e)
  <2>1. <<e>> \in Seq(S)
    OBVIOUS
  <2>2. Append(t, e) = t \o <<e>> /\ Append(s \o t, e) = (s \o t) \o <<e>>
    BY <1>1, AppendIsConcat
  <2>3. (s \o t) \o <<e>> = s \o (t \o <<e>>)
    BY <2>1, ConcatAssociative
  <2> QED
    BY <2>2, <2>3
<1>4. ASSUME t # << >> PROVE Append(s, Head(t)) \o Tail(t) = s \o t
  <2> DEFINE h == Head(t)
             r == Tail(t)
  <2>1. /\ h \in S /\ r \in Seq(S) /\ Len(r) = Len(t) - 1 /\ h = t[1] /\ Len(t) > 0
        /\ \A i \in DOMAIN r : r[i] = t[i + 1]
    BY <1>4, QueueTail
  <2> HIDE DEF h, r
  <2>2. /\ <<h>> \in Seq(S) /\ Len(<<h>>) = 1 /\ <<h>>[1] = h
    BY <2>1
  <2> DEFINE u == <<h>> \o r
  <2>3. /\ u \in Seq(S) /\ Len(u) = 1 + Len(r)
        /\ \A i \in 1..1 + Len(r) : u[i] = IF i <= 1 THEN <<h>>[i] ELSE r[i - 1]
    BY <2>1, <2>2, ConcatProperties
  <2> HIDE DEF u
  <2>4. Len(u) = Len(t) /\ \A i \in 1..Len(t) : u[i] = t[i]
    <3>1. Len(u) = Len(t) /\ Len(t) \in Nat
      BY <2>1, <2>3
    <3> SUFFICES ASSUME NEW i \in 1..Len(t) PROVE u[i] = t[i]
      BY <3>1
    <3>2. CASE i = 1
      BY <2>1, <2>2, <2>3, <3>2
    <3>3. CASE i # 1
      <4>1. i - 1 \in DOMAIN r /\ u[i] = r[i - 1]
        BY <2>1, <2>3, <3>3
      <4> QED
        BY <2>1, <4>1
    <3> QED
      BY <3>2, <3>3
  <2>5. u = t
    BY <2>3, <2>4, SeqEqual
  <2>6. Append(s, h) = s \o <<h>>
    BY <2>1, AppendIsConcat
  <2>7. (s \o <<h>>) \o r = s \o u
    BY <2>1, <2>2, ConcatAssociative DEF u
  <2> QED
    BY <2>5, <2>6, <2>7 DEF h, r
<1>5. s = << >> /\ t = << >> => s \o t = << >>
  BY ConcatEmptySeq
<1> QED
  BY <1>1, <1>2, <1>3, <1>4, <1>5

\* Where the elements of two queues in a row are.
LEMMA Joined ==
  ASSUME NEW S, NEW s \in Seq(S), NEW t \in Seq(S)
  PROVE  /\ s \o t \in Seq(S) /\ Len(s \o t) = Len(s) + Len(t)
         /\ \A i \in 1..Len(s) : (s \o t)[i] = s[i]
         /\ \A i \in 1..Len(t) : (s \o t)[Len(s) + i] = t[i]
  OBVIOUS

\* A function on the first n numbers is a sequence.
LEMMA AsSequence ==
  ASSUME NEW S, NEW n \in Nat, NEW s, s = [k \in 1..n |-> s[k]], \A k \in 1..n : s[k] \in S
  PROVE  s \in Seq(S) /\ Len(s) = n
<1>1. s \in [1..n -> S]
  OBVIOUS
<1> QED
  BY <1>1

-----------------------------------------------------------------------------
\* The n elements of s, which are in S, have the n ranks behind m.
Places(S, rank, s, m, n) ==
  s \in Seq(S) /\ Len(s) = n /\ \A i \in 1..n : rank[s[i]] = m + i

\* Two lists, one behind the other.
LEMMA PlacesConcat ==
  ASSUME NEW S, NEW rank, NEW s, NEW t, NEW m \in Nat, NEW n \in Nat,
         Places(S, rank, s, 0, m), Places(S, rank, t, m, n)
  PROVE  Places(S, rank, s \o t, 0, m + n)
<1>1. /\ s \o t \in Seq(S) /\ Len(s \o t) = m + n
      /\ \A i \in 1..(m + n) : (s \o t)[i] = IF i <= m THEN s[i] ELSE t[i - m]
  BY ConcatProperties DEF Places
<1> SUFFICES ASSUME NEW i \in 1..(m + n) PROVE rank[(s \o t)[i]] = i
  BY <1>1 DEF Places
<1>2. CASE i <= m
  BY <1>1, <1>2 DEF Places
<1>3. CASE ~(i <= m)
  <2>1. i - m \in 1..n /\ (s \o t)[i] = t[i - m]
    BY <1>1, <1>3
  <2>2. rank[t[i - m]] = m + (i - m)
    BY <2>1 DEF Places
  <2> QED
    BY <2>1, <2>2
<1> QED
  BY <1>2, <1>3

\* An element of a list with ranks is found where it stands.
LEMMA FoundInPlace ==
  ASSUME NEW S, NEW rank, NEW s, NEW n \in Nat, Places(S, rank, s, 0, n), NEW k \in 1..n
  PROVE  (CHOOSE j \in 1..n : s[j] = s[k]) = k
<1>1. \A j \in 1..n : rank[s[j]] = j
  <2> SUFFICES ASSUME NEW j \in 1..n PROVE rank[s[j]] = j
    OBVIOUS
  <2>1. rank[s[j]] = 0 + j
    BY DEF Places
  <2> QED
    BY <2>1
<1> DEFINE e == s[k]
<1>2. \A j \in 1..n : s[j] = e => j = k
  BY <1>1
<1>3. \E j \in 1..n : s[j] = e
  OBVIOUS
<1> HIDE DEF e
<1>4. (CHOOSE j \in 1..n : s[j] = e) \in 1..n /\ s[CHOOSE j \in 1..n : s[j] = e] = e
  BY <1>3
<1> QED
  BY <1>2, <1>4 DEF e
=============================================================================
