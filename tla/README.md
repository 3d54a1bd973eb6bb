# A TLA+ model of hci_bluetooth

The repository is a user-space Bluetooth host: a program that drives a USB
dongle through libusb, waits for a client and serves SDP and RFCOMM to it. This
directory holds TLA+ modules that model the program's own logic, the TLC
configurations that check them, and theorems about them checked by TLAPS.
`hci_test.cpp` below is
`src/windows/visual_studio/hci_test/hci_test/hci_test.cpp`, the program;
"the README" is `src/README.md`.

## The system

### How it runs

The program is one thread. `find_dev` claims the dongle, submits 150 event-in
and 150 ACL-in transfers, sends HCI Reset and calls `libusb_handle_events`
for ever. From then on every piece of code runs in a completion callback:

| transfer | completes into | how often |
|---|---|---|
| event in (interrupt) | `async_callback` | each of the pool once: `submit`, called at the end of every handler, has no effect |
| command out (control) | `async_callback` | one transfer and one buffer for all commands |
| ACL in (bulk) | `async_acl_callback` | each of the pool once |
| ACL out (bulk) | `async_acl_callback`, the parser of incoming packets | a new transfer per packet, over the sender's stack buffer |

The callbacks also call `libusb_handle_events_timeout`; libusb refuses to handle
events from within a callback, so a callback runs to its end before the next
one starts and a callback is one action of the models. What is concurrent is the dongle, the
radio and the client: which transfer completes next, and when the dongle reads a
buffer, is open.

### Components

| component | state | operations | what is hard | what makes it correct |
|---|---|---|---|---|
| L2CAP signalling and dispatch (`process_control`, `async_acl_callback`, `process_sdp`, the tail of `async_callback`) | `next_destination_channel_id`, `channel_map`, three `mtu_config_*` globals, the source cid and identifier of the last request | connection, configuration, disconnection and information requests; dispatch of the other channels by PSM; the deferred configuration handshake | the handshake is spread over three callbacks; answers are addressed from globals; outgoing packets are parsed on completion; pools run dry | ids lead to their channels; every answer belongs to a request; configuration ends |
| HCI command channel (`usb_send_cmd_packet`, `async_callback`) | `transfer_completed`, the one command transfer and buffer | 19 steps at fixed counts; commands sent in answer to events and to read-back packets | every completion counts; submissions to a busy transfer are lost | each command executed, in order, one at a time |
| Link keys (`LinkKeyDatabase`, two cases of `dump_hci_event`) | the map, the file | notification, request, load at start | the process is always killed; the store truncates first; `insert` keeps old values | keys are genuine, current, and kept |
| HCI events (`dump_hci_event`) | none | accept a connection, answer key, capability and confirmation requests, print the rest | the answers share the command transfer | every request is answered |
| RFCOMM (`process_rfcomm`) | none | answers SABM, DISC, parameter negotiation and modem status, grants credits, prints data | lengths and check sequences written by hand, answers without a session, `throw` on unknown frames | every frame can be read, every answer has its request, a client that begins ends up connected |
| SDP server (`process_sdp`) | none | reads the search, answers with one fixed record | addressed from globals; sizes counted by hand | the answer goes back over the channel that asked, and its lengths agree |
| SDP data elements (`sdp/sdp.cpp`) | the tree under construction | reads and writes nested elements | places in a sequence are found by counting bytes from two origins; an unset parent pointer | the whole request is read, each element in its place |
| Packet logger (`apple_pklg`) | the log file | a record per packet | byte order, a length cut to 8 bits | a reader finds every record |
| Earlier program (`main.c`) | device handle, endpoints, two pools of three, one command transfer, one count | set-up, bring-up, answers | the same callback for events, ACL packets and commands; transfers are submitted again only where something is sent | Reset meets full pools, commands keep their order, the list is executed |
| Set-up (`find_dev`, `main`) | device handle, transfers | open, claim, allocate, submit | error returns half-way | the event loop starts with the pools in flight |

Beside the program the tree has the older program for Linux and macOS that the
makefile builds (`main.c`, modelled by `EarlyHost`), a client that is one comment
(`spp_client.cpp`), device listings (`usb/`), test programs, a firmware loader
(`ezusb.cpp`, which is built with the program but called only from a `main` that is
renamed) with an option parser, both of other projects, and libusb binaries.

## The modules

| module | what it is |
|---|---|
| `RequestService` | abstract: answers belong to requests and are given once |
| `L2capSignalling` | the L2CAP layer, with a client and a controller |
| `L2capProperties` | its properties; shows when it implements `RequestService` |
| `L2cap_proofs` | type correctness, routing of granted ids, ids never bound again |
| `L2capAnswers_proofs` | one channel at a time: L2CAP implements `RequestService`, and the server configures first |
| `StopAndWait` | abstract: one command outstanding, executed in order |
| `CommandChannel` | the command transfer, the bring-up, the answers to events and the dongle; when it implements `StopAndWait` |
| `CommandChannel_proofs` | the quiet bring-up loses nothing and implements `StopAndWait`; under any noise and faults: types, the order of the initialisation commands, nothing executed more often than it was sent |
| `LinkKeyDatabase` | the key map, its file, pairing devices, the ends of the process |
| `LinkKeyDatabase_proofs` | types, genuine keys, file and memory agree, what a stored key outlives, when it is current |
| `Rfcomm` | `process_rfcomm`, its frames byte by byte, and a client |
| `Rfcomm_proofs` | types, readable frames, answers that belong to requests, the order of a session, what is printed |
| `DataElement` | reader and writer of SDP data elements, turn by turn of their loops |
| `PacketLog` | the record written for a packet, and the reader |
| `SdpServer_proofs` | types; requests of the standard read whole and in place; answers well-formed, the record nested; the log read back |
| `SdpServer` | `process_sdp` over `DataElement` and `PacketLog`, and the log's reader |
| `EarlyHost` | `main.c`: set-up, bring-up, answers |
| `EarlyHost_proofs` | under any noise and faults: types, the state the event loop starts in, the order of the initialisation commands; the pool of a quiet bring-up |
| `SequenceFacts` | queues, rows of two queues, and lists without repetition, for the proofs |
| `MCL2cap`, `MCCommand`, `MCLinkKey`, `MCRfcomm`, `MCSdp`, `MCEarlyHost` | values of the constants for TLC |

Variables and actions carry the names of the code where it has one. `SdpServer`
composes the data elements, the answer and the log, which meet in one callback.
The other components are modelled apart: L2CAP meets the command channel only in the events
that let `async_callback` run (`events`, `commandOut`), the command channel
sees ACL traffic only as completions that count and may have a command sent
(`AclCompleted`), and RFCOMM and SDP leave the addressing of their answers, and what
the parser makes of their own packets when these complete, to `L2capSignalling`; that such
packets are logged again is in `SdpServer` (`AclOutCompleted`).

**L2capSignalling.** `process_control(p, rest)` has one operator per case of the
switch, `DataPacket` is the dispatch by PSM. `AclInCompleted` and
`AclOutCompleted` both run the parser, as in the code; for a completed outgoing
packet `Readings` lists what the parser may find in a stack buffer whose function
has returned: the packet (`own`), the debug runtime's 0xCC fill behind the header
(`fill`; the code has a case 0xCC for it), or something that parses to nothing
(`other`). A buffer that by chance reads as another packet is left out. What the
handlers keep of a packet is its code, identifier, channel id and one more field.
`EventInCompleted` and `CommandOutCompleted` run the tail of `async_callback`.
Failures are submissions that fail and ACL-in transfers that complete with an
error, which the callback parses anyway; a stalled event transfer is modelled in
`CommandChannel`. The client (external) follows the README's steps, one request
outstanding per channel. `asked` and `answers` are history. An exception out of
a callback ends the process (`up`). Echoed RFCOMM replies may or may not end
it, depending on the frame.

**CommandChannel.** `NextStep` is the chain of `if (transfer_completed == 2 * k)`.
`usb_send_cmd_packet` overwrites the shared buffer and is refused when the
transfer is in flight; on an idle transfer submissions may fail, one or several of a
callback, before one succeeds. All callers ignore the result. The dongle takes the buffer at
some time after the submission, executes, and answers with one event.
`dump_hci_event(e)` is the set of answers the code may give: a connection is
accepted for its sender (`Own`), a key request is answered for its sender when
there is a key and for the device written into the code otherwise, and so are
requests for capabilities, confirmation and a PIN (`Fixed`). The third sender is the ACL
callback (`AclCompleted`): a packet of the host's own that reads as the debug
runtime's fill makes `process_control` send Authentication_Requested, once until a
disconnect request takes `authentication_request` back; the packets themselves
are in `L2capSignalling`. The command names no connection (`Unnamed`). The device
(`RemoteAsks`, external) asks in the order of pairing. The PIN reply goes out
with opcode 0x000D and without its length byte; of each answer the model keeps
only which one it is and whom it names.

**LinkKeyDatabase.** `store_to_file` truncates, `StoreFlushes` is the rest of the
function; between them only the end of the process can happen. The file is
assumed to fit the stream's buffer (some 180 pairs), so it is empty in between.
Opening the file may fail, for writing (the store is given up) and for reading
(`load_from_file`: the map is cleared, the program goes on without its keys and the
file keeps them until the next store). `missed` remembers the devices whose key
was in a file that could not be loaded; a failed open is bounded by `MaxFailures`.
Replies are taken to find the command transfer idle, which is the other module's
subject. The code announces 16 bytes of parameters for the key reply and sends 22
(`hci_test.cpp:640`); the model takes the reply as it is meant. `remove` is
called by the database's test only.

**Rfcomm.** `SetMode`, `Disconnect`, `MultiplexerCommand` and `CreditedData` are the
cases of `process_rfcomm`; what it does not know, a multiplexer command (`OtherCommands`)
or a type of frame (`OtherControls`), ends in a `throw` (`Throw`) and so ends the process. The check sequence is computed with the table of the
code on the server's side and by polynomial division on the client's
(`EveryFrameReadable` compares them on every frame). Packets are taken as copied
when they are submitted: the code's buffers are on the stack and one of them is
filled twice. The client (external) negotiates, opens the data channel, exchanges
modem status, sends with the credits it was granted, closes the data channel and
opens it again; it does not close the multiplexer. That a disconnection is
acknowledged from the data channel's address whatever channel it names, and that
credits are granted once and never renewed (`README.md:394`), is visible in the
definitions. `DataPrinted` states what `PrintPayload` does: of n bytes 2n - 5 are
printed, the payload exactly for n = 5.

**DataElement, SdpServer.** The reader keeps a byte count, the position and the
nodes found so far; `HeaderRead`, `BodyRead` and `TurnEnded` are one turn of its
loop. A fresh root has no parent set, because `DataElement::reset` assigns to a
local variable: `Unset` stands for whatever the memory held, and
`NoUnsetParentFollowed` says that no step depends on it. The last part of the
record is a raw byte pair 08 01, which happens to be a data element of one byte
(channel 1) although the comment at `sdp.cpp:659` calls it non-conforming. The
same record answers every search; `RecordNested` compares the bytes its sequences
declare with where the writer begins and ends their elements: these bytes hold the
elements of the sequence to their ends, nothing else, and end with the last of them, so that
one size counted wrong by hand fails it (its mutant). An answer whose transfer
completes is logged once more, as a packet received, with whatever its buffer holds by then
(`AclOutCompleted`, `ReadBack`). `WellFormed` says what a request of the
Bluetooth standard is: two sequences of elements of one type and a continuation state
of one byte, shorter than 256 bytes in all, since positions in the code are bytes.
`MCSdp` assumes its searches are such requests, and TLC evaluates that. `sdp_test.cpp` reads an element whose parent is
not set, so what it checks depends on the memory.

**PacketLog.** `packetlogger_read_packet` is called by nothing in the program; it
stands for the readers of the log, who follow the same format.

**EarlyHost.** `StartUp` goes through `main` and `find_dev` with their error
returns; each device of the list is opened into the one global handle. The
completed transfer is submitted again only in the branches that also send
something, so the pools of three shrink. The submission of a command and the
resubmission of the transfer fail independently of each other.

## What TLC checks

Bounds are in the cfg files; `CHECK_DEADLOCK FALSE` throughout, since the client and
the dongle may stop and the pools of inbound transfers run dry by design.

| run | question | result |
|---|---|---|
| `L2cap_sequential` | one channel at a time: does every answer belong (`AnswersMatchRequests`, refinement of `RequestService`), does the server configure first, does configuration end if an event comes whenever it waits for one | holds |
| `L2cap_overlap` | two channels, abandoned channels, a fault, packets read back: are ids routed and never rebound, are types kept | holds |
| `L2cap_two_searching` | two channels open: does each search get its own answer | **violated** |
| `BringUp_quiet` | only command answers: nothing lost, stop-and-wait (refinement of `StopAndWait`), all 20 commands executed | holds |
| `BringUp_noisy` | another event, a device that pairs, packets whose completion has a command sent, a fault: is the order kept, is anything executed more often than sent | holds |
| `BringUp_other_event` | one unrelated event: does the bring-up complete | **violated** |
| `LinkKey_two_devices` | genuine keys, file and memory, what stored keys outlive, with restarts, failed stores and loads, deleted pairings | holds |
| `LinkKey_phone` | the device in the code, no pairing deleted: current keys, every challenge answered | holds |
| `LinkKey_paired_again` | is the stored key the current one | **violated** |
| `EarlyHost` | `main.c`: does Reset meet full pools, is the order kept, does a quiet bring-up keep its pool and complete | holds |
| `Rfcomm` | are frames readable, answers asked for, does the server speak on open channels only, what is printed, does a session get established | holds |
| `Sdp_service` | are requests read whole and in place, are answers well-formed and always given, is the record nested, is the log read back | holds |

**Bounds.** `L2cap_sequential`: 7 packets of the client are a full life of one
channel (connect, configure, answer, request or not, disconnect) and the
connection and configuration of the next; client ids are 0x41 (which equals the
first id of the server) and 0x48; SDP, RFCOMM and an unknown service.
`L2cap_overlap`: 4 packets are two connections and two more requests, enough to
grant two ids while either is configured, closed or lost, and one failure at any
place. The pools have 150 transfers in the code; small pools are run dry here,
which is the case a large pool hides. `BringUp_*`: the full 20 commands; in the
noisy run 26 event transfers, so that the pool also runs dry, one fault, and
while the last commands of the list are under way a device that connects and
pairs and packets that complete, four of these in all (`Noise`, a state
constraint): the four questions of a pairing (the connection, the key and two
more), or fewer with up to two completed packets, so that
Authentication_Requested is sent; or an unrelated event with one of them. Two
devices that ask at once give five times the states and the same contention for
the transfer; the theorems are for any number. `LinkKey_*`: three pairings are a
first one, a repeated one and one of another device; two restarts and two failed
opens are a load that fails with the store after it, and a load that succeeds
again. In `LinkKey_phone` three restarts and three failed opens are a pairing
whose store fails, one more that follows a failed load, and a start after both;
five pairings are one more than three restarts can cause unless an old key comes
back. `EarlyHost`: the pools and the device order of a real bus (a keyboard
before the dongle, then a second dongle), with one interference of each kind at
any place. `Rfcomm`: 12 inbound transfers are two sessions; the client may send
one command or one frame (DM) that the program does not know; the payloads are
the one recorded in `doc/decode_rfcomm_data.txt`, a shorter and a longer one.
`Sdp_service`: any two of seven packets: four searches that cover the three
widths of a sequence header and of a UUID (a 128-bit one outside the Bluetooth
base among them), another request, and packets of 256 and 300 bytes for the log;
the theorems about them are for requests of any number of elements.

**Fairness.** The program's actions are weakly fair because the event loop never
stops handling completions. Delivery to the client is fair (the radio
retransmits), so is the client's configuration of a channel it has opened. In
`CommandChannel` and `EarlyHost` the dongle works off its commands. An `Rfcomm`
client goes on with a session it has begun; in `SdpServer` a callback that has begun
runs on. Connecting, requesting,
disconnecting, faults, other events and the ends of the process are never fair.
`BusyControllerSpec` adds that the controller reports an event whenever the
deferred half of the configuration waits (`HandshakeWaits`) and none is pending, an
assumption about the environment and not about the code.

**What the violations show.**

- The README promises several channels at the same time. `process_sdp` and the
  deferred configuration address their answers from `l2cap_source_cid`, the
  source cid of the last connection or disconnection request, so with two channels
  answers go to the wrong one. In `L2cap_sequential`, where the client closes one
  channel before it opens the next, this cannot be seen.
- The bring-up counts all completions alike. One more event and the next command
  is sent while the last is in flight, refused, and skipped for good; the order of
  the rest survives (`InitOrder`).
- `add` keeps the key of an earlier pairing.

**Known limits without a run**, because no document promises otherwise. The
configuration handshake waits for two completions of events or commands that
nothing in the handshake causes. Any answer to an event, the acceptance of a
connection included, is lost when it meets the busy transfer. `store_to_file`
truncates the only copy before it writes, so a kill in between loses every key.
A start that cannot open the file takes it for none: the program goes on without its
keys, and the next store replaces the file with what it has learnt since.
`KeysOutliveTheProcess` names these two and a failed store as the ways to lose a key. After a
failed load a phone pairs anew; if that key is not stored either, a later start
loads the old one, which is why `StoredKeyIsCurrent` leaves out the devices in `missed`. The pools
of both programs run dry, after which nothing is received.

Three more disagreements were met and have no run of their own. With
`Readings = {"own"}` the property `AnswersMatchRequests` also fails for one channel: the
server takes its own configure request, read back on completion, for the
client's and answers it. With `Devices` other than `HardCoded`,
`ChallengesAnswered` fails: the negative reply names the device written into the
code. `README.md:238-241` gives the pools 100 transfers, the code 150.

## What is proved

All theorems are for every value of the constants that meets the named
assumptions (`ConstantsAssumption`, `CommandAssumption`, `DatabaseAssumption`,
`EarlyAssumption`, `RfcommAssumption`, `SdpAssumption`); `RecordReadBack` and
`EarlierRecordsKept` are for every file, type and packet. Four theorems say that
clients keep to a standard (`Standard`, below), five are about an environment that is named
in them (`Quiet`, `Sequential`, `OnlyThePhone`); the others have no further hypothesis.

- `L2capTyped`, `GrantedIdsRoute`, `IdsNeverRebound` (`L2cap_proofs`). The id in
  a connection response leads to the entry made for that channel, and entries
  never change. `GrantedCidRoutes` is not inductive: it says nothing until the
  client has the response. `RouteInv` follows the id from the request to the
  client: `AskedPsm` for the request on its way, `DenseMap` (the map holds exactly the
  ids handed out, so `insert` always inserts), `GrantPending` for the response on
  its way, `NoRequestFlying` (no connection request can be read back), and
  `BoundedIds`: ids handed out plus ACL-in transfers left never exceed the pool,
  so an id fits the single byte of the response and the client's identifiers do
  not repeat. That is where `ACL_IN_BUFFER_COUNT <= 190` is used; the code has 150.
  Were transfers resubmitted, the property would fail with the 192nd request.
- `SequentialAnswers`, `ConfiguresFirst` (`L2capAnswers_proofs`), for a client that
  uses one channel at a time (`Sequential`: `MaxOpen` is 1, a channel is disconnected
  when it is open and idle, no information requests, outgoing buffers do not read as
  packets), for any ids, services and pools and any failed transfers. The server
  answers from globals, so `AnswerInv`, which is inductive only together with
  `RouteInv`, follows what is outstanding: one thing at most (`OnePlace`), a request
  not read yet (`RequestsDue`), the handshake remembered in the `mtu_` globals
  (`HandshakeDue`) or a response on its way (`RepliesAwaited`); its channel waits for
  it, and `l2cap_source_cid` names that channel (`SourceFollows`). Each step then asks, answers
  what is due, or stutters: a step of `RequestService`. `OfferFirst` follows the
  server's own configure request through the two events of the handshake. With two
  channels open `SourceFollows` cannot hold, which is what `L2cap_two_searching` shows.
- `QuietBringUpLosesNothing`, `QuietBringUpInStep` (`CommandChannel_proofs`).
  Without unrelated events, connections, ACL traffic and faults, the count is
  even exactly when the command transfer is idle and the dongle has executed all that
  was sent; hence no submission meets a busy transfer, and each step sends or
  executes one command of `StopAndWait` or stutters. `Quiet` is this assumption on the bounds.
- `CommandTyped`, `InitOrderHolds` (`CommandChannel_proofs`), with no assumption about
  the environment. `InitOrder` speaks of what has been executed; `OrderInv` adds
  what the dongle has taken and the buffer. Two facts carry it: the chain sends
  position p when the count reaches 2(p - 1) and the count only goes up
  (`AllCounted`), so a command of the chain is newer than all before it; and the shared buffer holds the
  newest (`BufferNewest`), so whenever the dongle reads it, it reads nothing older
  than it has read. `PositionOfStep` proves that no command is twice in the list.
  Answers and the command of the ACL callback have no position in the chain; a callback sends
  them before the chain's own command, so the buffer still holds the newest of a callback
  that sends one.
- `EarlyTyped`, `LoopEnteredWithFullPools`, `EarlyInitOrderHolds`
  (`EarlyHost_proofs`), for any device list and pools, with no assumption about the
  environment. `Claimed` follows the dongle from the list to the claim. The order
  is proved as above, over `Line`, the executed commands followed by the
  queued ones: an execution moves a command within the line and leaves it as it
  is, so only the dongle's reading of the buffer adds to it. That ACL
  packets are counted and answered through the same buffer changes nothing: an
  answer comes before the chain's command, and the buffer keeps the last one.
- `NothingExecutedTwice` (`CommandChannel_proofs`). `TakenAsSent`: what the dongle has
  taken of a command, and one if it is in the buffer and submitted, is at most what was sent
  of it plus the faults. A new submission needs a new send, and a send into
  a transfer in flight replaces the command that would have been read.
- `LinkKeyTyped`, `KeysAreGenuine`, `FileAlwaysCurrent`, `StoredKeysOutliveTheProcess`,
  `StoredKeyStaysCurrent` (`LinkKeyDatabase_proofs`).
  Genuineness needs the keys in notifications on their way; the file property
  is inductive with the types. All of them allow a file that cannot be opened at a start,
  and three name it as an exception: the memory is then empty while the file has keys
  (`FileAlwaysCurrent`), a key is forgotten that the file still has
  (`StoredKeysOutliveTheProcess`), and what is known of a device in `missed` need not be
  current (`StoredKeyStaysCurrent`, whose invariant says `Doubtful` for it and is back at the
  strong part as soon as a process starts without the key). `StoredKeyStaysCurrent` assumes that no pairing is deleted and that
  the device is the one in the code: a question about the key, the reply
  without a key, the pairing and its notification pass one token around, so no
  second pairing starts while a first is unstored. With a second device the
  property does not hold: the reply without a key always names the first.
- `PoolLastsThroughBringUp` (`EarlyHost_proofs`). In the quiet environment every completion of
  the early program takes one transfer of its pool and submits another: from the
  entry into the event loop on, exactly one thing is under way (a submission, a taken
  command, its answer) until the last answer is read (`BringingUp`, `Done`),
  and the pool is full while one is. Each pass therefore leaves what it found.
- `RfcommTyped`, `AnswersCanBeRead`, `AnswersBelongToRequests`,
  `ServerSpeaksOnOpenChannel`, `DataIsPrinted` (`Rfcomm_proofs`), for any payloads of
  at most 127 bytes (the length of a frame is one byte), any commands and any
  types of frames besides those the program knows, and any failed submissions. `EveryFrameReadable` compares
  two computations: the code's table and division bit by bit; they are shown to agree on each
  byte and hence on each header. `Exchanges` says of each kind of request that it is on
  its way, or its answer is, or neither, one at a time and in the order of the client's states.
  `Session` adds that what the server says unasked (modem status, credits) lies in the
  packets between the acknowledgement that opened the channel and the one that closes
  it, which `SpeaksOnOpenChannel` alone does not say while they are on their way.
  `DataInv` gives each payload that was sent and not printed its place in the queue, in the order sent.
  A failed submission only leaves a gap: `AnswersBelong` holds over it, since it
  speaks of answers on their way, while `SpeaksOnOpenChannel` promises nothing after one
  (`failures = 0`). What ends the program (`up`) is a frame or a command it does not know.
- `RecordReadBack`, `EarlierRecordsKept` (`SdpServer_proofs`). The reader at the old
  end of the file finds type and packet (the part that 8 bits of length let
  through) and ends at the new end; in front of it, every record whose header
  announces no more than the file holds is read as before.
- `LogIsReadBack` (`SdpServer_proofs`), for any packets, searches of 13 bytes or more
  among them, and whatever the loop over their elements makes of them: it ends in an
  answer, an exception, a crash or the end of the program, and a reader that reaches the end of the log has
  all of it. `LogState` carries it: there are positions in the file such that between each
  two lies the record of one packet (`LogOf`), and the reader stands at one of them
  with the records before it, stopped only at the last. The rest of `SdpInv` follows
  the request and the writer's queue to the answer, which is logged too
  and has to be bytes. `LeastNumber` stands for induction where a recursive function
  (`Children`) is reasoned about.

- `WholeRequestIsRead`, `PatternKeepsItsPlace`, `NoUnsetParentIsFollowed`, `SdpTyping`
  (`SdpServer_proofs`), for requests of any number of elements, under `Standard`: a search
  is `WellFormed`. Without it they do not hold, since the reader takes what it finds behind the
  end of a malformed request. `ReadInv` says what the reader is when it is behind
  the k-th element (`ReaderAfter`): the nodes it has built, each in its place with
  its value, all of them children of the root, and the bytes it has consumed. That decides
  the tests of a turn. The loop ends when the bytes consumed reach the size
  and two: short of the last element they do not, since it has three bytes at least and a header
  of two to four leads them by two at most. The end of a sequence is compared with a
  place counted from the start of the packet, while the bytes are counted from the
  header, which lies at 13 or later: the test never succeeds for a root, so its
  unset parent is not followed. `TypeInv` adds that counts and
  positions fit 8 bits; without `Standard` the reader may run past the packet.
- `AnswersAreWellFormed`, `RecordIsNested` (`SdpServer_proofs`), for all packets, whatever
  precedes the answer. The writer puts the children of a node in front of its queue,
  so that after k nodes the queue is rising, and holds exactly the nodes behind k
  whose parent is not (`Waiting`); node k + 1 is therefore in front, and the record is
  written in its own order, each node where a table (`RecordTables` checks it against the sizes) says (`WriterAt`,
  `BeginOf`). `Laid` reads `RecordNested` from that table, in which every node ends where the next
  begins (`LaidWithoutGaps`) and a sequence declares exactly up to where the last of its
  descendants ends (`SizesDeclared`). `AnswerInv` adds that while a
  search is worked on it is the last packet of the history, so an answer comes directly
  behind its search and nothing else is answered, and that the record begins with the
  root, whose declared size is what the lengths of the answer are made of.

Only model-checked is everything with liveness: `ConfigurationEnds`, `BringUpCompletes`
(in both programs), `ChallengesAnswered`, `SessionEstablished` and `SearchesAnswered`,
which the prover's backends do not reach. Every other property of a passing run is
stated by a theorem above.

## Not modelled, and the plan

Not modelled:

- parameters and wording of commands, printing, device listings (`usb/`): no
  state and nothing that could go wrong in several steps;
- the error returns of `hci_test.cpp`'s `find_dev`; `EarlyHost` has the same
  set-up in its older text, with its error returns;
- `spp_client.cpp`, which is a comment from its first line to its last,
  `command_template.h`, which nothing includes, and the test programs;
- other projects' code: the firmware loader (`ezusb.cpp`, in two copies, one of
  which nothing compiles), the option parser, `libpcap.h`, and the six copies of
  `libusb.h`, which alone are more than half of the lines of the tree. libusb is
  modelled by what the program uses of it: submission, busy transfers,
  completion, failure.

Of the program's own logic what remains is a composition, `HciServer`: L2CAP and
the command channel over one pool of events and one count, where the deferred
configuration is driven by the events that the commands cause.
