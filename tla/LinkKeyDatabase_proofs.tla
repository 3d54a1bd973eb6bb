----------------------- MODULE LinkKeyDatabase_proofs -----------------------
(***************************************************************************)
(* No key that was not agreed with a device is ever stored, saved or sent  *)
(* for it, for any number of devices, pairings, restarts and failures.     *)
(*                                                                         *)
(* GenuineKeys alone is not inductive: a notification that is still on its *)
(* way becomes a pair of the database, so its key has to be genuine too.   *)
(***************************************************************************)
EXTENDS LinkKeyDatabase, SequenceFacts

\* The keys the controller reports were agreed with the device it names.
NotificationsGenuine ==
  \A i \in DOMAIN eventsIn :
    eventsIn[i].kind = "LinkKeyNotification" => <<eventsIn[i].addr, eventsIn[i].key>> \in agreed

GenuineInv == TypeOK /\ GenuineKeys /\ NotificationsGenuine

\* A partial map from addresses to keys, by its domain.
LEMMA KeyMapsDomain ==
  ASSUME NEW f
  PROVE  f \in KeyMaps <=> DOMAIN f \subseteq Devices /\ f \in [DOMAIN f -> Keys]
  BY DEF KeyMaps

\* The invariant holds when main has started without a file.
LEMMA GenuineInit == Init => GenuineInv
<1> SUFFICES ASSUME Init PROVE GenuineInv
  OBVIOUS
<1>1. NoPairs \in KeyMaps /\ DOMAIN NoPairs = {}
  BY KeyMapsDomain DEF NoPairs
<1>2. /\ eventsIn \in Seq(EventMessages) /\ replies \in Seq(Replies)
      /\ DOMAIN eventsIn = {} /\ DOMAIN replies = {}
  BY DEF Init
<1>3. storing \in BOOLEAN /\ unsaved \in BOOLEAN
  BY DEF Init
<1>4. TypeOK
  BY <1>1, <1>2, <1>3, DatabaseAssumption DEF Init, TypeOK
<1> QED
  BY <1>1, <1>2, <1>4 DEF Init, GenuineInv, GenuineKeys, NotificationsGenuine

\* Every step keeps it.
LEMMA GenuineStep == GenuineInv /\ [Next]_vars => GenuineInv'
<1> SUFFICES ASSUME GenuineInv, [Next]_vars PROVE GenuineInv'
  OBVIOUS
<1> USE DatabaseAssumption
<1>1. CASE StoreFlushes
  BY <1>1 DEF StoreFlushes, GenuineInv, TypeOK, GenuineKeys, NotificationsGenuine, air, KeyMaps
<1>2. CASE EventInCompleted
  <2> DEFINE e == Head(eventsIn)
  <2>1. /\ e \in EventMessages /\ eventsIn' \in Seq(EventMessages)
        /\ e.kind = "LinkKeyNotification" => <<e.addr, e.key>> \in agreed
        /\ NotificationsGenuine'
    BY <1>2, QueueTail DEF EventInCompleted, GenuineInv, TypeOK, NotificationsGenuine, air
  <2>2. CASE LinkKeyNotification(e)
    <3>1. <<e.addr, e.key>> \in agreed /\ e.addr \in Devices /\ e.key \in Keys
      BY <2>1, <2>2 DEF LinkKeyNotification, EventMessages, GenuineInv, TypeOK
    <3>2. /\ data_store' \in KeyMaps
          /\ \A d \in DOMAIN data_store' : <<d, data_store'[d]>> \in agreed
      BY <2>2, <3>1, KeyMapsDomain
      DEF LinkKeyNotification, add, contains, GenuineInv, TypeOK, GenuineKeys
    <3>3. /\ file' \in KeyMaps
          /\ \A d \in DOMAIN file' : <<d, (file')[d]>> \in agreed
          /\ storing' \in BOOLEAN /\ unsaved' \in BOOLEAN /\ failures' \in 0..MaxFailures
          /\ missed' \subseteq Devices
      <4>1. NoPairs \in KeyMaps /\ DOMAIN NoPairs = {}
        BY KeyMapsDomain DEF NoPairs
      <4>2. storing' \in BOOLEAN /\ unsaved' \in BOOLEAN
        BY <2>2 DEF LinkKeyNotification, store_to_file, GenuineInv, TypeOK
      <4> QED
        BY <2>2, <4>1, <4>2 DEF LinkKeyNotification, store_to_file, GenuineInv, TypeOK, GenuineKeys
    <3> QED
      BY <1>2, <2>1, <2>2, <3>2, <3>3
      DEF EventInCompleted, LinkKeyNotification, GenuineInv, TypeOK, GenuineKeys, air
  <2>3. CASE LinkKeyRequest(e)
    <3> DEFINE r == IF contains(e.addr) THEN Message("Reply", e.addr, retrieve(e.addr))
                    ELSE Message("NegativeReply", HardCoded, NoKey)
    <3>1. r \in Replies /\ (r.kind = "Reply" => <<r.addr, r.key>> \in agreed)
      BY <2>1, KeyMapsDomain
      DEF contains, retrieve, Message, Replies, EventMessages, GenuineInv, TypeOK, GenuineKeys
    <3> HIDE DEF r
    <3>2. replies' = Append(replies, r)
      BY <2>3 DEF LinkKeyRequest, r
    <3>3. /\ replies' \in Seq(Replies)
          /\ \A i \in DOMAIN replies' : replies'[i].kind = "Reply" =>
               <<replies'[i].addr, replies'[i].key>> \in agreed
      <4>1. replies \in Seq(Replies)
        BY DEF GenuineInv, TypeOK
      <4> QED
        BY <3>1, <3>2, <4>1, QueueAppend DEF GenuineInv, GenuineKeys
    <3> QED
      BY <1>2, <2>1, <2>3, <3>3
      DEF EventInCompleted, LinkKeyRequest, GenuineInv, TypeOK, GenuineKeys, air, host
  <2> QED
    BY <1>2, <2>2, <2>3 DEF EventInCompleted
<1>3. CASE Restart
  <2>1. /\ eventsIn' \in Seq(EventMessages) /\ replies' \in Seq(Replies)
        /\ DOMAIN eventsIn' = {} /\ DOMAIN replies' = {}
    BY <1>3 DEF Restart
  <2>2. storing' \in BOOLEAN /\ unsaved' \in BOOLEAN
    BY <1>3 DEF Restart
  <2>3. /\ data_store' \in KeyMaps /\ missed' \subseteq Devices /\ failures' \in 0..MaxFailures
        /\ \A d \in DOMAIN data_store' : <<d, data_store'[d]>> \in agreed
    <3>1. load_from_file
      BY <1>3 DEF Restart
    <3>2. CASE data_store' = file /\ UNCHANGED <<missed, failures>>
      BY <3>2 DEF GenuineInv, TypeOK, GenuineKeys
    <3>3. CASE /\ failures < MaxFailures /\ failures' = failures + 1
               /\ data_store' = NoPairs /\ missed' = missed \cup DOMAIN file
      <4>1. NoPairs \in KeyMaps /\ DOMAIN NoPairs = {} /\ DOMAIN file \subseteq Devices
        BY KeyMapsDomain DEF NoPairs, GenuineInv, TypeOK
      <4> QED
        BY <3>3, <4>1 DEF GenuineInv, TypeOK
    <3> QED
      BY <3>1, <3>2, <3>3 DEF load_from_file
  <2> QED
    BY <1>3, <2>1, <2>2, <2>3
    DEF Restart, GenuineInv, TypeOK, GenuineKeys, NotificationsGenuine, air
<1>4. ASSUME NEW d \in Devices, Challenge(d) PROVE GenuineInv'
  <2> DEFINE e == Message("LinkKeyRequest", d, NoKey)
  <2>1. e \in EventMessages /\ e.kind # "LinkKeyNotification"
    BY DEF Message, EventMessages
  <2> HIDE DEF e
  <2>2. eventsIn' \in Seq(EventMessages) /\ NotificationsGenuine'
    BY <1>4, <2>1, QueueAppend
    DEF Challenge, GenuineInv, TypeOK, NotificationsGenuine, air, e
  <2> QED
    BY <1>4, <2>2 DEF Challenge, GenuineInv, TypeOK, GenuineKeys, host, air
<1>5. CASE ReplyAccepted
  BY <1>5, QueueTail
  DEF ReplyAccepted, GenuineInv, TypeOK, GenuineKeys, NotificationsGenuine, host, air
<1>6. CASE Paired
  <2> DEFINE r == Head(replies)
             k == pairings + 1
             e == Message("LinkKeyNotification", r.addr, k)
  <2>1. r.addr \in Devices /\ k \in Keys
    BY <1>6 DEF Paired, GenuineInv, TypeOK, Keys
  <2>2. e \in EventMessages /\ e.addr = r.addr /\ e.key = k
    BY <2>1 DEF Message, EventMessages
  <2>3. agreed' = agreed \cup {<<r.addr, k>>} /\ eventsIn' = Append(eventsIn, e)
    BY <1>6 DEF Paired
  <2> HIDE DEF e
  <2>4. eventsIn' \in Seq(EventMessages) /\ NotificationsGenuine'
    BY <2>2, <2>3, QueueAppend DEF GenuineInv, TypeOK, NotificationsGenuine
  <2>5. /\ replies' \in Seq(Replies)
        /\ \A i \in DOMAIN replies' : replies'[i].kind = "Reply" =>
             <<replies'[i].addr, replies'[i].key>> \in agreed
    BY <1>6, QueueTail DEF Paired, GenuineInv, TypeOK, GenuineKeys
  <2>6. /\ linkKey' \in [Devices -> {NoKey} \cup Keys] /\ agreed' \subseteq Devices \X Keys
        /\ pairings' \in 0..MaxPairings /\ challenged' \subseteq Devices
    BY <1>6, <2>1, <2>3 DEF Paired, GenuineInv, TypeOK
  <2> QED
    BY <1>6, <2>3, <2>4, <2>5, <2>6 DEF Paired, GenuineInv, TypeOK, GenuineKeys, host
<1>7. ASSUME NEW d \in Devices, Forget(d) PROVE GenuineInv'
  BY <1>7 DEF Forget, GenuineInv, TypeOK, GenuineKeys, NotificationsGenuine, host
<1>8. CASE UNCHANGED vars
  BY <1>8 DEF vars, host, air, GenuineInv, TypeOK, GenuineKeys, NotificationsGenuine
<1> QED
  BY <1>1, <1>2, <1>3, <1>4, <1>5, <1>6, <1>7, <1>8 DEF Next

\* Type correctness of every variable of the database and its environment.
THEOREM LinkKeyTyped == Spec => []TypeOK
<1>1. GenuineInv => TypeOK
  BY DEF GenuineInv
<1> QED
  BY GenuineInit, GenuineStep, <1>1, PTL DEF Spec

\* dump_hci_event never stores, saves or sends a key of another device or one
\* nobody agreed on, through any restart (load_from_file, store_to_file).
THEOREM KeysAreGenuine == Spec => []GenuineKeys
<1>1. GenuineInv => GenuineKeys
  BY DEF GenuineInv
<1> QED
  BY GenuineInit, GenuineStep, <1>1, PTL DEF Spec

\* Whatever order notifications, failed stores and restarts come in, main would
\* load exactly what the program knows (store_to_file), or has not been able to load
\* it and has added nothing since (load_from_file).
THEOREM FileAlwaysCurrent == Spec => []FileIsCurrent
<1>1. Init => FileIsCurrent
  BY DEF Init, FileIsCurrent
<1>2. FileIsCurrent /\ [Next]_vars => FileIsCurrent'
  <2> SUFFICES ASSUME FileIsCurrent, [Next]_vars PROVE FileIsCurrent'
    OBVIOUS
  <2>1. CASE StoreFlushes
    BY <2>1 DEF StoreFlushes, FileIsCurrent
  <2>2. CASE EventInCompleted
    <3> DEFINE e == Head(eventsIn)
    <3>1. CASE LinkKeyNotification(e)
      <4>1. storing' = TRUE \/ unsaved' = TRUE
        BY <3>1 DEF LinkKeyNotification, store_to_file
      <4> QED
        BY <4>1 DEF FileIsCurrent
    <3>2. CASE LinkKeyRequest(e)
      BY <3>2 DEF LinkKeyRequest, host, FileIsCurrent
    <3> QED
      BY <2>2, <3>1, <3>2 DEF EventInCompleted
  <2>3. CASE Restart
    <3>1. CASE data_store' = file
      BY <2>3, <3>1 DEF Restart, FileIsCurrent
    <3>2. CASE data_store' = NoPairs /\ missed' = missed \cup DOMAIN file
      BY <2>3, <3>2 DEF Restart, NoPairs, FileIsCurrent
    <3> QED
      BY <2>3, <3>1, <3>2 DEF Restart, load_from_file
  <2>4. CASE ReplyAccepted
    BY <2>4 DEF ReplyAccepted, host, FileIsCurrent
  <2>5. CASE Paired
    BY <2>5 DEF Paired, host, FileIsCurrent
  <2>6. ASSUME NEW d \in Devices, Challenge(d) \/ Forget(d) PROVE FileIsCurrent'
    BY <2>6 DEF Challenge, Forget, host, FileIsCurrent
  <2>7. CASE UNCHANGED vars
    BY <2>7 DEF vars, host, FileIsCurrent
  <2> QED
    BY <2>1, <2>2, <2>3, <2>4, <2>5, <2>6, <2>7 DEF Next
<1> QED
  BY <1>1, <1>2, PTL DEF Spec
-----------------------------------------------------------------------------
(***************************************************************************)
(* The stored key is the current one if the only device is the one whose   *)
(* address is in the code and its pairing is never deleted.  With a second *)
(* device a negative reply meant for that one would end the challenge of   *)
(* the first, which then pairs again while its old key is kept.            *)
(*                                                                         *)
(* What makes it hold is that a challenge is a single token, which is a    *)
(* request, then a reply, and that a notification is handled before the    *)
(* next request: a pairing can only follow from a reply that was given     *)
(* when the key was unknown, and it still is.                              *)
(***************************************************************************)
OnlyThePhone == Devices = {HardCoded} /\ MaxForgets = 0

\* No step but a restart takes a pair out of the memory, and a restart brings back
\* what the file holds (load_from_file) unless it cannot open the file, which then
\* still has it: a key once stored is otherwise forgotten only by a kill inside
\* store_to_file or after a store that failed.
THEOREM StoredKeysOutliveTheProcess == Spec => KeysOutliveTheProcess
<1> DEFINE Forgotten == \A d \in kept \cap DOMAIN data_store :
                          d \notin DOMAIN data_store' =>
                            \/ storing \/ unsaved
                            \/ failures' > failures /\ d \in DOMAIN file'
<1>1. TypeOK /\ FileIsCurrent /\ [Next]_vars => [Forgotten]_vars
  <2> SUFFICES ASSUME TypeOK, FileIsCurrent, Next PROVE Forgotten
    OBVIOUS
  <2>1. CASE Restart
    <3> SUFFICES ASSUME NEW d \in kept \cap DOMAIN data_store, d \notin DOMAIN data_store',
                        ~storing, ~unsaved
                 PROVE  failures' > failures /\ d \in DOMAIN file'
      OBVIOUS
    <3>1. file = data_store /\ file' = file
      BY <2>1 DEF Restart, FileIsCurrent, NoPairs
    <3>2. failures' = failures + 1
      BY <2>1, <3>1 DEF Restart, load_from_file
    <3> QED
      BY <3>1, <3>2 DEF TypeOK
  <2>2. CASE EventInCompleted
    <3> DEFINE e == Head(eventsIn)
    <3>1. CASE LinkKeyNotification(e)
      <4>1. DOMAIN data_store' = DOMAIN data_store \cup {e.addr}
        BY <3>1 DEF LinkKeyNotification, add
      <4> QED
        BY <4>1
    <3>2. CASE LinkKeyRequest(e)
      BY <3>2 DEF LinkKeyRequest, host
    <3> QED
      BY <2>2, <3>1, <3>2 DEF EventInCompleted
  <2>3. CASE StoreFlushes \/ ReplyAccepted \/ Paired
    BY <2>3 DEF StoreFlushes, ReplyAccepted, Paired, host
  <2>4. ASSUME NEW d \in Devices, Challenge(d) \/ Forget(d) PROVE Forgotten
    BY <2>4 DEF Challenge, Forget, host
  <2> QED
    BY <2>1, <2>2, <2>3, <2>4 DEF Next
<1> QED
  BY LinkKeyTyped, FileAlwaysCurrent, <1>1, PTL DEF Spec, KeysOutliveTheProcess

Ask == Message("LinkKeyRequest", HardCoded, NoKey)
Tell == Message("LinkKeyNotification", HardCoded, linkKey[HardCoded])

\* The host still has to be told of the key.
Untold == Len(eventsIn) > 0 /\ eventsIn[1] = Tell

\* Where the token is: nowhere, in the queue of events (behind the notification
\* of the pairing before), or in the queue of replies.
Token ==
  \/ /\ challenged = {} /\ Len(replies) = 0
     /\ Len(eventsIn) = 0 \/ (Len(eventsIn) = 1 /\ Untold)
  \/ /\ challenged = Devices /\ Len(replies) = 0
     /\ \/ Len(eventsIn) = 1 /\ eventsIn[1] = Ask
        \/ Len(eventsIn) = 2 /\ eventsIn[2] = Ask /\ Untold
  \/ /\ challenged = Devices /\ Len(eventsIn) = 0 /\ Len(replies) = 1
     /\ replies[1] = IF contains(HardCoded)
                     THEN Message("Reply", HardCoded, linkKey[HardCoded])
                     ELSE Message("NegativeReply", HardCoded, NoKey)

\* A stored key is the device's, and the host is only told of a key it does not have.
Stored ==
  /\ contains(HardCoded) => data_store[HardCoded] = linkKey[HardCoded]
  /\ Untold => ~contains(HardCoded)
  /\ HardCoded \in DOMAIN file =>
       \/ contains(HardCoded) /\ file[HardCoded] = data_store[HardCoded]
       \/ ~contains(HardCoded) /\ HardCoded \in missed

\* The host has a key although it could not load the one before: nothing is promised.
\* It is left only by a process that starts without the key.
Doubtful == contains(HardCoded) /\ HardCoded \in missed

PhoneInv == GenuineInv /\ (Doubtful \/ (Token /\ Stored))

\* A process that starts without a file knows no key and nobody asks for one.
LEMMA PhoneInit == OnlyThePhone /\ Init => PhoneInv
<1> SUFFICES ASSUME OnlyThePhone, Init PROVE PhoneInv
  OBVIOUS
<1> QED
  BY GenuineInit DEF Init, PhoneInv, Token, Stored, Untold, contains, NoPairs

\* The host works off an event: it stores a key it did not have, or it answers
\* a request according to whether it has one.
LEMMA PhoneEvent ==
  ASSUME OnlyThePhone, GenuineInv, Token, Stored, EventInCompleted
  PROVE  Doubtful' \/ (Token' /\ Stored')
<1> DEFINE e == Head(eventsIn)
<1>1. /\ eventsIn \in Seq(EventMessages) /\ Len(eventsIn) > 0 /\ e = eventsIn[1]
      /\ replies \in Seq(Replies) /\ HardCoded \in Devices
  BY QueueTail DEF GenuineInv, TypeOK, EventInCompleted, OnlyThePhone
<1>2. /\ eventsIn' \in Seq(EventMessages) /\ Len(eventsIn') = Len(eventsIn) - 1
      /\ Len(eventsIn') = 1 => eventsIn'[1] = eventsIn[2]
  BY <1>1, QueueTail DEF EventInCompleted
<1>3. linkKey' = linkKey /\ challenged' = challenged
  BY DEF EventInCompleted, air
<1>4. Ask # Tell
  BY DEF Ask, Tell, Message
<1>5. challenged = {} \/ (challenged = Devices /\ Len(replies) = 0)
  BY <1>1 DEF Token
<1>6. CASE LinkKeyNotification(e)
  <2>1. Untold /\ ~contains(HardCoded) /\ e = Tell
    BY <1>1, <1>6 DEF Token, Stored, Untold, LinkKeyNotification, Ask, Message
  <2>2. e.addr = HardCoded /\ e.key = linkKey[HardCoded]
    BY <2>1 DEF Tell, Message
  <2>3. contains(HardCoded)' /\ data_store'[HardCoded] = linkKey'[HardCoded]
    BY <1>3, <1>6, <2>1, <2>2 DEF LinkKeyNotification, add, contains
  <2>4. HardCoded \notin DOMAIN file' \/ HardCoded \in missed'
    BY <1>6, <2>1 DEF LinkKeyNotification, store_to_file, NoPairs, Stored
  <2>5. Len(replies) = 0 /\ replies' = replies
    BY <1>1, <1>4, <1>6, <2>1 DEF Token, LinkKeyNotification, Untold
  <2>6. \/ challenged = {} /\ Len(eventsIn') = 0
        \/ challenged = Devices /\ Len(eventsIn') = 1 /\ eventsIn'[1] = Ask
    <3>1. eventsIn[1] # Ask /\ Len(eventsIn) # 0
      BY <1>1, <1>4, <2>1
    <3>2. \/ challenged = {} /\ Len(eventsIn) = 1
          \/ challenged = Devices /\ Len(eventsIn) = 2 /\ eventsIn[2] = Ask
      BY <2>5, <3>1 DEF Token
    <3> QED
      BY <1>1, <1>2, <3>2
  <2>7. ~Untold' /\ Ask' = Ask
    BY <1>2, <1>3, <1>4, <2>6 DEF Untold, Tell, Ask
  <2> QED
    BY <1>3, <2>3, <2>4, <2>5, <2>6, <2>7 DEF Token, Stored, Doubtful
<1>7. CASE LinkKeyRequest(e)
  <2>1. ~Untold /\ eventsIn[1] = Ask
    BY <1>1, <1>7 DEF Token, Untold, LinkKeyRequest, Tell, Message
  <2>2. Len(eventsIn) = 1 /\ challenged = Devices /\ Len(replies) = 0
    BY <1>1, <2>1 DEF Token
  <2>3. e.addr = HardCoded
    BY <1>1, <2>1 DEF Ask, Message
  <2>4. data_store' = data_store /\ file' = file /\ missed' = missed
    BY <1>7 DEF LinkKeyRequest, host
  <2> DEFINE r == IF contains(HardCoded) THEN Message("Reply", HardCoded, linkKey[HardCoded])
                  ELSE Message("NegativeReply", HardCoded, NoKey)
  <2>5. replies' = Append(replies, r)
    BY <1>7, <2>3 DEF LinkKeyRequest, retrieve, Stored
  <2>6. r \in Replies
    BY <1>1, KeyMapsDomain
    DEF contains, Message, Replies, GenuineInv, TypeOK, Stored
  <2>7. Len(replies') = 1 /\ replies'[1] = r
    BY <1>1, <2>2, <2>5, <2>6, QueueAppend
  <2>8. Len(eventsIn') = 0 /\ ~Untold'
    BY <1>2, <2>2 DEF Untold
  <2> QED
    BY <1>3, <2>2, <2>4, <2>7, <2>8 DEF Token, Stored, contains
<1> QED
  BY <1>6, <1>7 DEF EventInCompleted

\* In doubt the host stays, whatever it does, until a process starts without the key.
LEMMA DoubtfulStep ==
  ASSUME OnlyThePhone, GenuineInv, Doubtful, [Next]_vars
  PROVE  Doubtful' \/ (Token' /\ Stored')
<1>1. CASE EventInCompleted
  BY <1>1 DEF EventInCompleted, LinkKeyNotification, LinkKeyRequest, add, store_to_file, host,
              Doubtful, contains
<1>2. CASE Restart
  <2>1. /\ Len(eventsIn') = 0 /\ Len(replies') = 0 /\ challenged' = {}
        /\ HardCoded \in missed'
    BY <1>2 DEF Restart, load_from_file, Doubtful
  <2> QED
    BY <2>1 DEF Doubtful, Token, Stored, Untold, contains
<1>3. CASE StoreFlushes \/ ReplyAccepted \/ Paired \/ UNCHANGED vars
  BY <1>3 DEF StoreFlushes, ReplyAccepted, Paired, vars, host, Doubtful, contains
<1>4. ASSUME NEW d \in Devices, Challenge(d) \/ Forget(d) PROVE Doubtful'
  BY <1>4 DEF Challenge, Forget, host, Doubtful, contains
<1> QED
  BY <1>1, <1>2, <1>3, <1>4 DEF Next

\* Every step keeps the invariant.
LEMMA PhoneStep == OnlyThePhone /\ PhoneInv /\ [Next]_vars => PhoneInv'
<1> SUFFICES ASSUME OnlyThePhone, PhoneInv, [Next]_vars PROVE PhoneInv'
  OBVIOUS
<1>1. GenuineInv /\ GenuineInv'
  BY GenuineStep DEF PhoneInv
<1> SUFFICES ASSUME Token, Stored PROVE Doubtful' \/ (Token' /\ Stored')
  BY <1>1, DoubtfulStep DEF PhoneInv
<1>2. HardCoded \in Devices
  BY DEF OnlyThePhone
<1>3. /\ eventsIn \in Seq(EventMessages) /\ replies \in Seq(Replies)
      /\ Len(eventsIn) \in Nat /\ Len(replies) \in Nat
  BY <1>1 DEF GenuineInv, TypeOK
<1>4. CASE StoreFlushes
  BY <1>4 DEF StoreFlushes, air, Token, Stored, Untold, Tell, Ask, contains
<1>5. CASE EventInCompleted
  BY <1>1, <1>5, PhoneEvent
<1>6. CASE Restart
  <2>1. Len(eventsIn') = 0 /\ Len(replies') = 0 /\ challenged' = {}
    BY <1>6 DEF Restart
  <2>2. file' = file /\ linkKey' = linkKey
    BY <1>6 DEF Restart, air
  <2>3. CASE data_store' = file /\ missed' = missed
    BY <2>1, <2>2, <2>3 DEF Token, Stored, Untold, contains, Doubtful
  <2>4. CASE data_store' = NoPairs /\ missed' = missed \cup DOMAIN file
    BY <2>1, <2>2, <2>4 DEF Token, Stored, Untold, contains, NoPairs
  <2> QED
    BY <1>6, <2>3, <2>4 DEF Restart, load_from_file
<1>7. ASSUME NEW d \in Devices, Challenge(d) PROVE Doubtful' \/ (Token' /\ Stored')
  <2>1. d = HardCoded /\ challenged = {} /\ challenged' = Devices
    BY <1>2, <1>7 DEF Challenge, OnlyThePhone, Token
  <2>2. Ask \in EventMessages /\ eventsIn' = Append(eventsIn, Ask)
    BY <1>7, <1>2, <2>1 DEF Challenge, Ask, Message, EventMessages
  <2>3. /\ Len(eventsIn') = Len(eventsIn) + 1 /\ eventsIn'[Len(eventsIn) + 1] = Ask
        /\ Len(eventsIn) > 0 => eventsIn'[1] = eventsIn[1]
    BY <1>3, <2>2, QueueAppend
  <2>4. /\ data_store' = data_store /\ file' = file /\ missed' = missed /\ linkKey' = linkKey
        /\ replies' = replies
    BY <1>7 DEF Challenge, host, air
  <2>5. Tell' = Tell /\ Ask' = Ask /\ Ask # Tell
    BY <2>4 DEF Tell, Ask, Message
  <2>6. Untold' => Untold
    BY <1>3, <2>3, <2>5 DEF Untold
  <2>7. Token'
    <3>1. Len(replies') = 0 /\ (Len(eventsIn) = 0 \/ (Len(eventsIn) = 1 /\ Untold))
      BY <1>2, <1>3, <2>1, <2>4 DEF OnlyThePhone, Token
    <3>2. CASE Len(eventsIn) = 0
      BY <2>1, <2>3, <2>5, <3>1, <3>2 DEF Token, OnlyThePhone
    <3>3. CASE Len(eventsIn) = 1 /\ Untold
      <4>1. Len(eventsIn') = 2 /\ eventsIn'[2] = Ask' /\ Untold'
        BY <2>3, <2>5, <3>3 DEF Untold
      <4> QED
        BY <2>1, <3>1, <4>1 DEF Token, OnlyThePhone
    <3> QED
      BY <3>1, <3>2, <3>3
  <2> QED
    BY <2>4, <2>6, <2>7 DEF Stored, contains
<1>8. CASE ReplyAccepted
  <2>1. Len(replies) = 1 /\ Len(eventsIn) = 0 /\ Head(replies) = replies[1]
    BY <1>3, <1>8, QueueTail DEF ReplyAccepted, Token
  <2>2. challenged' = {}
    BY <1>8, <2>1, <1>3 DEF ReplyAccepted, OnlyThePhone, Token, Message
  <2>3. Len(replies') = 0 /\ Len(eventsIn') = 0
    BY <1>3, <1>8, <2>1, QueueTail DEF ReplyAccepted
  <2> QED
    BY <1>8, <2>2, <2>3
    DEF ReplyAccepted, host, air, Token, Stored, Untold, contains
<1>9. CASE Paired
  <2> DEFINE k == pairings + 1
             e == Message("LinkKeyNotification", HardCoded, k)
  <2>1. Len(replies) = 1 /\ Len(eventsIn) = 0 /\ Head(replies) = replies[1]
    BY <1>3, <1>9, QueueTail DEF Paired, Token
  <2>2. replies[1].addr = HardCoded
    BY <2>1 DEF Token, Message
  <2>3. ~contains(HardCoded) /\ challenged = Devices
    BY <1>9, <2>1, <2>2 DEF Paired, Token, Message
  <2>4. /\ linkKey' = [linkKey EXCEPT ![HardCoded] = k] /\ eventsIn' = Append(eventsIn, e)
        /\ challenged' = {} /\ data_store' = data_store /\ file' = file /\ missed' = missed
    BY <1>9, <2>1, <2>2, <2>3 DEF Paired, host, OnlyThePhone
  <2>5. k \in Keys /\ linkKey'[HardCoded] = k
    <3>1. pairings \in Nat /\ pairings < MaxPairings /\ linkKey \in [Devices -> {NoKey} \cup Keys]
      BY <1>1, <1>9, DatabaseAssumption DEF Paired, GenuineInv, TypeOK
    <3> QED
      BY <1>2, <2>4, <3>1, DatabaseAssumption DEF Keys
  <2>6. e \in EventMessages
    BY <1>2, <2>5 DEF EventMessages, Message
  <2>7. e = Tell'
    BY <2>5 DEF Tell
  <2> HIDE DEF e
  <2>8. Len(eventsIn') = 1 /\ eventsIn'[1] = e
    BY <1>3, <2>1, <2>4, <2>6, QueueAppend
  <2>9. Len(replies') = 0
    BY <1>3, <1>9, <2>1, QueueTail DEF Paired
  <2> QED
    BY <2>3, <2>4, <2>7, <2>8, <2>9 DEF Token, Stored, Untold, contains
<1>10. ASSUME NEW d \in Devices, Forget(d) PROVE FALSE
  BY <1>1, <1>10 DEF Forget, OnlyThePhone, GenuineInv, TypeOK
<1>11. CASE UNCHANGED vars
  BY <1>11 DEF vars, host, air, Token, Stored, Untold, Tell, Ask, contains
<1> QED
  BY <1>4, <1>5, <1>6, <1>7, <1>8, <1>9, <1>10, <1>11 DEF Next

\* With the one device dump_hci_event's negative reply is written for, and no
\* pairing deleted, the pair link_key_database holds is the key in use, through
\* any restart and any failed store, unless a start has failed to load the key before
\* it and that key has not been replaced in the file.
THEOREM StoredKeyStaysCurrent == OnlyThePhone /\ Spec => []StoredKeyIsCurrent
<1>1. OnlyThePhone /\ PhoneInv => StoredKeyIsCurrent
  <2> SUFFICES ASSUME OnlyThePhone, PhoneInv, NEW d \in DOMAIN data_store \ missed
               PROVE  linkKey[d] = data_store[d]
    BY DEF StoredKeyIsCurrent
  <2>1. d = HardCoded
    BY KeyMapsDomain DEF OnlyThePhone, PhoneInv, GenuineInv, TypeOK
  <2> QED
    BY <2>1 DEF PhoneInv, Doubtful, Stored, contains
<1>2. CASE OnlyThePhone
  <2>1. Init => PhoneInv
    BY <1>2, PhoneInit
  <2>2. PhoneInv /\ [Next]_vars => PhoneInv'
    BY <1>2, PhoneStep
  <2>3. PhoneInv => StoredKeyIsCurrent
    BY <1>1, <1>2
  <2> QED
    BY <2>1, <2>2, <2>3, PTL DEF Spec
<1>3. CASE ~OnlyThePhone
  BY <1>3
<1> QED
  BY <1>2, <1>3
=============================================================================
