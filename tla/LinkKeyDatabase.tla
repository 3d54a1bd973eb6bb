-------------------------- MODULE LinkKeyDatabase --------------------------
(***************************************************************************)
(* The link keys: hci/link_key_database.cpp, the two events of             *)
(* dump_hci_event that use it (Link Key Notification, Link Key Request)    *)
(* and its loading in main.  The keys live in memory (data_store) and in   *)
(* one file that every notification rewrites.  The event loop never ends,  *)
(* so the process always stops by being killed, at any point.              *)
(*                                                                         *)
(* A key is a number, fresh for every pairing.  The file is what would be  *)
(* read from it: no file, an empty one and one without pairs are the same. *)
(* It is assumed to fit the stream's buffer (some 180 pairs), so that      *)
(* nothing is in it between the truncation and the flush.                  *)
(***************************************************************************)
EXTENDS Integers, Sequences, FiniteSets

CONSTANTS
  Devices,       \* addresses of remote devices
  HardCoded,     \* the address written into the negative reply
  MaxPairings,   \* pairings
  MaxForgets,    \* pairings deleted on the device
  MaxCrashes,    \* ends of the process
  MaxFailures    \* times the file cannot be opened, for writing or for reading

ASSUME DatabaseAssumption ==
  /\ MaxPairings \in Nat /\ MaxForgets \in Nat
  /\ MaxCrashes \in Nat /\ MaxFailures \in Nat

NoKey == 0
Keys == 1..MaxPairings
KeyMaps == UNION {[D -> Keys] : D \in SUBSET Devices}
NoPairs == [d \in {} |-> NoKey]

Message(kind, addr, key) == [kind |-> kind, addr |-> addr, key |-> key]
EventMessages ==
  [kind : {"LinkKeyRequest", "LinkKeyNotification"}, addr : Devices, key : {NoKey} \cup Keys]
Replies == [kind : {"Reply"}, addr : Devices, key : Keys]
             \cup [kind : {"NegativeReply"}, addr : {HardCoded}, key : {NoKey}]

VARIABLES
  data_store,   \* std::map from addresses to keys
  file,         \* link_key_database.lkd
  storing,      \* store_to_file has truncated the file and not flushed it
  eventsIn,     \* the controller's events, in order
  replies,      \* the host's commands to the controller, in order
  linkKey,      \* the key each device holds for this host
  challenged,   \* devices whose authentication waits for the host
  agreed,       \* keys agreed so far, as <<device, key>> (history)
  unsaved,      \* the last store_to_file could not open the file (history)
  kept,         \* devices whose key was in the file once (history)
  missed,       \* devices whose key was in a file that main could not open, and is
                \* not replaced by a new one (history)
  pairings, forgets, crashes, failures

host == <<data_store, file, storing, unsaved, kept, missed>>
air == <<linkKey, agreed, pairings, forgets>>
vars == <<host, eventsIn, replies, air, challenged, crashes, failures>>

Init ==
  /\ data_store = NoPairs /\ file = NoPairs /\ storing = FALSE
  /\ unsaved = FALSE /\ kept = {} /\ missed = {}
  /\ eventsIn = << >> /\ replies = << >>
  /\ linkKey = [d \in Devices |-> NoKey] /\ challenged = {}
  /\ agreed = {} /\ pairings = 0
  /\ forgets = 0 /\ crashes = 0 /\ failures = 0

-----------------------------------------------------------------------------
(* The database.                                                           *)

contains(d) == d \in DOMAIN data_store

\* std::map::insert does not replace the pair of an address it already has.
add(d, k) ==
  data_store' = [a \in DOMAIN data_store \cup {d} |->
                   IF contains(a) THEN data_store[a] ELSE k]

\* operator[]: the address is known, so nothing is inserted.
retrieve(d) == data_store[d]

\* The file is opened, and thereby truncated, or the store is given up.  What it held
\* of devices the memory did not know is gone for good.
store_to_file ==
  \/ /\ file' = NoPairs /\ storing' = TRUE /\ unsaved' = FALSE
     /\ missed' = missed \cap DOMAIN data_store
     /\ UNCHANGED failures
  \/ /\ failures < MaxFailures /\ failures' = failures + 1
     /\ unsaved' = TRUE
     /\ UNCHANGED <<file, storing, missed>>

\* The end of store_to_file: all pairs reach the file with the flush.
StoreFlushes ==
  /\ storing
  /\ storing' = FALSE
  /\ file' = data_store
  /\ kept' = kept \cup DOMAIN data_store
  /\ UNCHANGED <<data_store, unsaved, missed, eventsIn, replies, air, challenged, crashes,
                 failures>>

\* A bug the checks must catch: the map is cleared and the pairs are not added.
load_nothing == data_store' = NoPairs /\ UNCHANGED <<missed, failures>>

\* What the map holds after clear and the insertion of the file's pairs.  A file that
\* cannot be opened is taken for none, and the program goes on without its keys.
load_from_file ==
  \/ data_store' = file /\ UNCHANGED <<missed, failures>>
  \/ /\ failures < MaxFailures /\ failures' = failures + 1
     /\ data_store' = NoPairs
     /\ missed' = missed \cup DOMAIN file

-----------------------------------------------------------------------------
(* dump_hci_event.                                                         *)

LinkKeyNotification(e) ==
  /\ e.kind = "LinkKeyNotification"
  /\ add(e.addr, e.key)
  /\ store_to_file
  /\ UNCHANGED <<kept, replies>>

\* Three bugs the checks must catch: operator[] for an address that may be
\* unknown, no look into the database, no negative reply.
LinkKeyRequestUnchecked(e) ==
  /\ e.kind = "LinkKeyRequest"
  /\ replies' = Append(replies, Message("Reply", e.addr,
                                       IF contains(e.addr) THEN retrieve(e.addr) ELSE NoKey))
  /\ UNCHANGED <<host, failures>>

LinkKeyRequestNegative(e) ==
  /\ e.kind = "LinkKeyRequest"
  /\ replies' = Append(replies, Message("NegativeReply", HardCoded, NoKey))
  /\ UNCHANGED <<host, failures>>

LinkKeyRequestSilent(e) ==
  /\ e.kind = "LinkKeyRequest"
  /\ replies' = IF contains(e.addr)
                THEN Append(replies, Message("Reply", e.addr, retrieve(e.addr))) ELSE replies
  /\ UNCHANGED <<host, failures>>

\* The reply is for the address asked about, the negative reply is not.
LinkKeyRequest(e) ==
  /\ e.kind = "LinkKeyRequest"
  /\ replies' = Append(replies,
       IF contains(e.addr) THEN Message("Reply", e.addr, retrieve(e.addr))
       ELSE Message("NegativeReply", HardCoded, NoKey))
  /\ UNCHANGED <<host, failures>>

EventInCompleted ==
  /\ ~storing /\ eventsIn # << >>
  /\ eventsIn' = Tail(eventsIn)
  /\ LinkKeyNotification(Head(eventsIn)) \/ LinkKeyRequest(Head(eventsIn))
  /\ UNCHANGED <<air, challenged, crashes>>

\* The process is killed and started again; the dongle is reset on the way.
Restart ==
  /\ crashes < MaxCrashes
  /\ crashes' = crashes + 1
  /\ load_from_file
  /\ storing' = FALSE /\ unsaved' = FALSE
  /\ eventsIn' = << >> /\ replies' = << >> /\ challenged' = {}
  /\ UNCHANGED <<file, kept, air>>

-----------------------------------------------------------------------------
(* The controller and the devices.                                         *)

\* A device that connects has its key asked for.
Challenge(d) ==
  /\ d \notin challenged
  /\ challenged' = challenged \cup {d}
  /\ eventsIn' = Append(eventsIn, Message("LinkKeyRequest", d, NoKey))
  /\ UNCHANGED <<host, replies, air, crashes, failures>>

\* The host's key is the device's own, which ends the challenge, or the reply is
\* for a device that has not been challenged.
ReplyAccepted ==
  /\ replies # << >>
  /\ LET r == Head(replies)
     IN /\ r.addr \notin challenged \/ (r.kind = "Reply" /\ r.key = linkKey[r.addr])
        /\ challenged' = challenged \ {r.addr}
  /\ replies' = Tail(replies)
  /\ UNCHANGED <<host, eventsIn, air, crashes, failures>>

\* There is no key, or a wrong one: a new key is agreed and the host told.
Paired ==
  /\ replies # << >> /\ pairings < MaxPairings
  /\ LET r == Head(replies)
         k == pairings + 1
     IN /\ r.addr \in challenged
        /\ r.kind = "NegativeReply" \/ r.key # linkKey[r.addr]
        /\ linkKey' = [linkKey EXCEPT ![r.addr] = k]
        /\ agreed' = agreed \cup {<<r.addr, k>>}
        /\ eventsIn' = Append(eventsIn, Message("LinkKeyNotification", r.addr, k))
        /\ challenged' = challenged \ {r.addr}
  /\ pairings' = pairings + 1
  /\ replies' = Tail(replies)
  /\ UNCHANGED <<host, forgets, crashes, failures>>

\* The user deletes the pairing on the device.
Forget(d) ==
  /\ forgets < MaxForgets /\ linkKey[d] # NoKey
  /\ forgets' = forgets + 1
  /\ linkKey' = [linkKey EXCEPT ![d] = NoKey]
  /\ UNCHANGED <<host, eventsIn, replies, challenged, agreed, pairings, crashes, failures>>

Next ==
  \/ StoreFlushes \/ EventInCompleted \/ Restart \/ ReplyAccepted \/ Paired
  \/ \E d \in Devices : Challenge(d) \/ Forget(d)

Spec == Init /\ [][Next]_vars

\* The event loop works off the events, the controller the replies.
FairSpec == Spec /\ WF_vars(StoreFlushes) /\ WF_vars(EventInCompleted)
                 /\ WF_vars(ReplyAccepted) /\ WF_vars(Paired)

-----------------------------------------------------------------------------
(* Properties.                                                             *)

\* The type invariant.
TypeOK ==
  /\ data_store \in KeyMaps /\ file \in KeyMaps
  /\ storing \in BOOLEAN /\ unsaved \in BOOLEAN
  /\ kept \subseteq Devices /\ missed \subseteq Devices
  /\ eventsIn \in Seq(EventMessages) /\ replies \in Seq(Replies)
  /\ linkKey \in [Devices -> {NoKey} \cup Keys]
  /\ challenged \subseteq Devices
  /\ agreed \subseteq Devices \X Keys
  /\ pairings \in 0..MaxPairings /\ forgets \in 0..MaxForgets
  /\ crashes \in 0..MaxCrashes /\ failures \in 0..MaxFailures

\* Every key in memory, in the file and on its way to the controller was agreed
\* with the device it is stored under: looking up an address never makes up a
\* pair (retrieve is operator[]), and no restart mixes pairs up.
GenuineKeys ==
  /\ \A d \in DOMAIN data_store : <<d, data_store[d]>> \in agreed
  /\ \A d \in DOMAIN file : <<d, file[d]>> \in agreed
  /\ \A i \in DOMAIN replies :
       replies[i].kind = "Reply" => <<replies[i].addr, replies[i].key>> \in agreed

\* Between two events the file holds what the memory holds, unless the last store
\* could not open it, or main could not and nothing has been added since: what main
\* would load is what the program knows.
FileIsCurrent ==
  ~storing /\ ~unsaved =>
    file = data_store \/ (data_store = NoPairs /\ DOMAIN file \subseteq missed)

\* The key stored for a device is the one the device uses, once the host has
\* been told of it (the README's "the link key that is currently used"), unless main
\* has failed to load the key before this one: the device has then paired anew, and if the
\* new key does not reach the file, a later start finds the old one.
StoredKeyIsCurrent ==
  \A d \in DOMAIN data_store \ missed :
    \/ linkKey[d] \in {NoKey, data_store[d]}
    \/ Message("LinkKeyNotification", d, linkKey[d]) \in {eventsIn[i] : i \in DOMAIN eventsIn}

\* A key that was in the file once is only ever forgotten when the process ends
\* between the truncation and the flush of store_to_file, while the last store has
\* failed, or when the new process cannot open the file, which still has the key: add, a
\* repeated notification and every other restart keep it.
KeysOutliveTheProcess ==
  [][\A d \in kept \cap DOMAIN data_store :
       d \notin DOMAIN data_store' =>
         \/ storing \/ unsaved
         \/ failures' > failures /\ d \in DOMAIN file']_vars

\* A device that is asked for its key gets its answer.  One whose stored key is old
\* pairs whenever it connects, which the bound on pairings cuts off.
ChallengesAnswered ==
  \A d \in Devices :
    d \in challenged ~> d \notin challenged \/ (pairings = MaxPairings /\ d \in missed)
=============================================================================
