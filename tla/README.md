# DTChat verification

TLA+ models of DTChat, a chat program for a three-node delay-tolerant network
(`src/src`, Rust), and of the two bridges it ships to reach a DTN stack:
bp-socket, a Linux socket family in front of ION (`src/bp-socket`, C), and the
AAP2 sidecar in front of uD3TN (`src/scripts/aap2_bridge`, Python). The models
are checked with TLC on small instances; the safety properties of all of them
are also proved with TLAPS, for every value of their constants.

All paths below are relative to the repository root, as in `PROJECT.json`,
whose `map` gives for each definition the lines it translates.

## 1. Inventory

How a message travels, from the user's Send to the mark on the sender's screen:

    MessagePrompt (UI thread) -- spawn_blocking --> manage_send -- list it, spawn -->
    send task per peer -- serialize, socket --> bp-socket | AAP2 bridge | UDP | TCP
       ... DTN ...
    listener --> receive task (controller lock) --> ACK task --> back the same way
                          \--> ChatModel.on_socket_event (model lock) --> displayed
    and at the sender: receive task --> ChatModel.on_ack_received --> "ack" mark

| component | state it keeps | operations | module |
|---|---|---|---|
| message list (`app.rs`, `utils/message.rs`) | the messages in display order, the sort strategy, a delivery with `acked_at` per recipient | start-up seeding, `add_message` by binary search, `sort_messages`, `update_message_with_ack` | `ChatModel` |
| mesh delivery and ACKs (`message_prompt.rs`, `socket.rs`, `ack.rs`, `main.rs`) | send, receive and ACK tasks; the observers of the controller | `manage_send`, `send_to_peer`, the listeners, decoding with its ACK, `notify_observers`, start-up order, the end of a listener or of the process | `Mesh`, `Delivery` |
| ADU encoding (`proto.rs` and the string handling of both bp-socket legs) | the bytes on the way | `serialize_message`, the legs, `decode_proto_tolerant` | `AduCodec` |
| endpoints (`socket.rs`, `message_prompt.rs`) | the endpoint lists of the configurations, the listeners | `is_valid`, `init_controller`, `send_to_peer`'s choice, `choose_ack_endpoint` | `Endpoints` |
| bp-socket host (`bp_socket/`, `daemon/`) | the list of bound sockets, a queue per socket, netlink messages, threads of the daemon, ION's endpoints | bind, send, receive (interrupted or not) and release of an AF_BP socket, the daemon's event loop and receive threads, with what fails at each stage | `BpSocket` |
| AAP2 bridge (`aap2_bridge.py`) | the sending session and its lock, the subscription, the bundle in hand, the attempts | route handlers, `_run_receiver`, `_drain`, `_forward_inbound`, interrupt and exit | `Aap2Bridge` |
| node threads and locks (`app.rs`, `main.rs`, `socket.rs`, `layout/`) | the three locks and their poisoning, the place of each thread, the tasks of the runtime, descriptors | start-up, frames, `manage_send`, receive, send and ACK tasks, the TCP listener's end | `NodeThreads` |
| arrival prediction, what the user interface draws, configuration and clocks, kernel module load and demo tools, scripts | see section 7 | | not modelled |

The components meet in three ways. Inside a node they call each other under
three locks: a receive task holds the controller and takes the model under it;
the model's observers take the event handler under the model. Between DTChat and
its DTN stack there are sockets and netlink messages, whose sender is told of a
success long before anybody took the data. Between nodes there are packets that
may be lost, duplicated and reordered, and that are acknowledged by DTChat
itself, once, with no retry and no memory of what was seen.

What is hard about it, and what correctness means, per component:

- **Message list.** `tx` of a local message is stamped by the UI thread and `rx`
  of a remote one under the controller lock; both are inserted later under the
  model lock, so stamps and insertions have different orders. `binary_search_by`
  gives anything on a slice that is not sorted. Correct: always sorted by the
  selected strategy; an arrival is appended in the standard order; no sort,
  insertion or repeated ACK loses a message or a mark.
- **Mesh.** The ACK can be back before `manage_send` has returned; the ACK leaves
  before the message is displayed; listeners run before the model observes the
  controller; duplicates are not recognised; nothing survives a restart; a listener
  that ends is not started again; some messages get no ACK. Correct: ACKs find their
  message; a mark is never a phantom; an acknowledged message is displayed; without
  losses everything is displayed, and marked where an ACK is due.
- **ADU.** Two C-string legs and an SDR string with its length byte. Correct: a
  message that fits comes back unaltered.
- **Endpoints.** Placeholders, unsupported addresses, several listeners, TCP
  connections whose peer address says nothing. Correct: the documented preference
  for ACKs, and an ACK wherever the configuration allows one.
- **bp-socket.** A reader asks for one bundle and sleeps; only an answer wakes it.
  Requests die silently when the endpoint is open already; the bundle is
  delivered after the endpoint is closed; an interrupted wait leaves its request
  behind; bind checks and adds under two locks. Correct: no reader is forgotten, no
  bundle lost or read twice, none overtaken but over a wait that was left, no address
  bound twice.
- **AAP2 bridge.** Bundle custody across lost sessions, a DTChat that is down, an
  interrupted bridge; handlers on one session. Correct: no success for what was
  not handed over, no copy without a lost report, responses do not mix, no
  handler hangs.

- **Node threads.** A receive task takes the controller, the model and the event
  handler, each under the one before; frames take the model and the handler;
  `manage_send` the model and the handler. A panic poisons what its thread holds,
  and `lock().unwrap()` passes the panic on. Correct: no deadlock; what a lack of
  descriptors or a stalled connection can break stays away from the window; tasks
  end and frames keep coming.

The hazards, each at its line with the properties that cover it, are in
`PROJECT.json`.

## 2. Modules

    ChatModel     <- MCChatModel     <- ChatModel.cfg, ChatModelHover.cfg
                  <- ChatModelProofs
    Delivery      <- Mesh (INSTANCE, refinement)
    Mesh          <- MCMesh          <- Mesh.cfg
                  <- MeshProofs
    AduCodec      <- MCAduCodec      <- AduCodec.cfg, AduCodecLegs.cfg
                  <- AduCodecProofs
    Endpoints                        <- Endpoints.cfg, EndpointsNone.cfg
                  <- EndpointsProofs
    LastHop       <- BpSocket, Aap2Bridge (INSTANCE, refinement)
    BpSocket      <- MCBpSocket      <- BpSocket.cfg, BpSocketTwice.cfg, BpSocketReader.cfg
                  <- BpSocketProofs
    Aap2Bridge    <- MCAap2Bridge    <- Aap2Bridge.cfg
                  <- Aap2BridgeProofs
    NodeThreads   <- MCNodeThreads   <- NodeThreads.cfg
                  <- NodeThreadsProofs

Operators commented "Mutant" (`AddMessageOnce`, `TransmitAndMark`, ...) are never
used by a specification. Each is a plausible bug in the definition that follows
it, and shows that the property it is paired with in `PROJECT.json` can fail.

### ChatModel: one node's list

`messages`, `sort_strategy` are the fields of `ChatModel`; `composed` holds the
sends whose `tx` the UI has stamped and whose `manage_send` still runs;
`receiving` is the message of the receive task that holds the controller lock.
`Compose`/`ManageSend` and `Decode`/`OnSocketEvent` are the two pairs of steps
with a stamp in the first and an insertion in the second. `Less` follows
`standard_cmp` and `relative_cmp`; `InsertionPoints` is the contract of
`binary_search_by` (any of several equal elements, and anywhere on an unsorted
slice), `StableSorts` that of `sort_by`. The clock is a counter that need not
move between steps, so equal stamps occur, but that never goes back. The code stamps
with the wall clock (`Utc::now`), which a correction may set back: `StampsPast` and
`ArrivalsLandAtBottom` hold between two corrections, and the order of stamps is the order
of events only there. The other properties compare stamps with each other alone. A message is its uuid, sender and
stamps; texts, rooms and the prediction decide nothing.

### Mesh and Delivery: the network of nodes

Packets in transit are bags: `outgoing` (a send or ACK task has it), `inFlight`
(the network), `incoming` (a receive task has it). `phase` is the start-up order
of `main`: `init_controller` before `add_observer`. `handling` is the message of
the receive task under the controller lock, between the ACK that was spawned and
the observers. `DecodeAndAck` follows `send_ack_if_needed_with_endpoint_info` through
its returns: no ACK of a text that starts with `[ACK]` (`tagged`, chosen when the text
is written), none to a sender outside `Peers`; to a peer outside `Answers`, one with
an endpoint for which no socket can be made, the ACK may or may not be spawned, as the
endpoints of `Endpoints` have it. `AckDue` says when it must be. `SendFails` and `Lose`
share the budget of losses; `Crash` is the end of the process, with its tasks.
`ListenerEnds` is the `break` of a listen loop, or a listener that never started; the
node is then `deaf`: what comes for that endpoint stays unread and what comes for
another is read, so a packet may be read and need not be. `decoded`,
`unobserved` and `crashed` are history: they let a property speak about who has
had a message and why somebody does not show it.

`Delivery` is the promise to a user, in three variables and without packets or
tasks: a message reaches only its audience; a mark appears only after delivery;
only a restart of the writer takes marks away. `Mesh` implements it with
`written <- composed, delivered <- decoded, confirmed <- acked`. A duplicated
packet and a repeated ACK are stuttering steps.

### AduCodec: a text as counts

What decides the fate of an ADU is where bytes are and whether they are base64
characters, so a text is a record: `prefix` (a length byte, and whether it looks
like base64), `chars`, `pads`, `stray` (base64-looking bytes directly behind) and
`tail`. `SerializeMessage` picks the length of the protobuf; `SendDirect`,
`BridgeOut`/`BridgeIn`, `SendLeg` and `ReceiveLeg` are the ways; `Receive` decodes.
Facts about the data that `Decode` rests on:

- The content is the last field of the protobuf, so a message that lost its end
  never parses, nor does one followed by a single byte. Two foreign bytes may
  parse as an unknown field, so `Decode` leaves the outcome open then.
- A length byte that is a base64 character shifts the text by six bits. The shifted
  text then never parses, so only the attempt behind the byte counts: its first
  byte is four times the character's value, a tag of wire type 4 (refused at once)
  or 0; in the latter case one byte of value follows, and then the shifted uuid,
  36 bytes that all have the continuation bit of a varint, longer than any tag.
  This is the code's own second offset, not an idealisation.
- `SdrStringMax` is ION's 255; `BufferSize` is the listeners' 1024.

### Endpoints: which endpoint carries what

One message from node a to node b and its ACK. `own`, `forth` and `back` are
three lists from two configuration files: b's endpoints as b and as a have them,
and a's as b has them. Every combination of up to two endpoints a list is tried,
with addresses that are good, refused by `is_valid` or accepted by it and useless.
`Relays` is the AAP2 bridge on the way, which joins TCP to BP. `SkipAck` are the
two ways the code never acknowledges: a text that starts with `[ACK]`, and a sender
who is not in the peer list. `FirstOf` is the `find` of the preference lists; it
is a least index and no recursion, so that it can be proved about.

### BpSocket: one host

`Create`, `BindCheck`, `BindAdd`, `Recv`, `Wake`, `SendMsg` and `Release` (part
of `Kill` and of a failed read) are the socket's operations as the kernel module
implements them; `bp_bind` is two steps because it takes two locks.
`Interrupt` is the signal that ends a wait with `-ERESTARTSYS`: the restarted call is
a `Recv` again and posts a second request, while `abandoned` counts the waits left
without a bundle. `HandleCommand` is the daemon's event loop, in which a send of more
than 255 bytes (`TooLong`) is refused by `sdr_string_create`; `ThreadOpen`,
`ThreadReceive` and `Deliver` are the three stages of a request's thread, between
which others run. Failures share one budget: `CommandFails` is a send ION does not
take or a request that gets no memory or thread, `ThreadFails` a `bp_receive` that
fails or brings no payload (the bundle stays in ION), `BundleFails` a payload that
cannot be read or handed to the kernel (the bundle is gone, ION has given it up),
`DaemonStops` the end of the daemon.
ION itself is external: a queue per endpoint that keeps bundles for a closed one
(rule `q` of the scripts' `ipn.rc`) and refuses to open an endpoint twice.

### Aap2Bridge: the sidecar

`receiver` is the inbound thread through `Connect`, `ReceiveAdu`, `Forward` or
`ForwardFails`, `Report`, `LeaveSession`. An attempt fails on a DTChat that is down,
and at most `MaxStalls` times on one that runs: its backlog is full, or the
connection takes more than 5 s. `handler[o]` is the thread of one
outbound connection through `Handle`, `Acquire`, `SendAdu`, `ReceiveResponse` or
`SendFails`. `Interrupt`, `Exit` and `Restart` are the life of the process.
uD3TN is external and modelled by what the bridge relies on: it keeps a bundle
until a success is reported on the session it was offered on, offers it again
after that, and answers ADUs in order. DTChat's listener is its backlog. The
sending session is opened once and never again, as in `main`. Left out: the
status in a response, which the code does not read, and exceptions of the AAP2
client on a session that is intact.

### LastHop: what the two bridges promise

To DTChat either bridge is a hop from the bundle agent of its host to its own
listener. `LastHop` states the two promises in three variables: with
`AtMostOnce` the agent gives a bundle up first, and it is then handed over or lost;
with `AtLeastOnce` the agent gives it up when it was handed over, and until then it
may be handed over again. `BpSocket` implements the first (`held` is what waits in
ION, `copies` counts the listeners that read it), `Aap2Bridge` the second (`held`
is what uD3TN keeps, `copies` counts the times it reached DTChat's backlog). This
is how they compose with `Mesh`, which is over the network alone: `Mesh!Lose` and
`Mesh!Duplicate` allow for every behaviour of either hop, since a loss is a bundle
given up and not handed over, and a repetition one handed over twice; neither hop
hands over what never arrived. What is checked and proved of `Mesh` with losses
and duplicates therefore holds behind both bridges; what needs a network without
losses (`EventuallyAcked`) holds where `NothingLost` and `EventuallyRead`, or
`EventuallyReceived`, hold for the hop.

### NodeThreads: one process

`pc` says which critical section each thread is in or waits for, `owner` who has
which lock: a thread whose place is a section is inside when it owns the lock of
that section (`LockOf`) and waits otherwise. `Enter` is `lock()`, `EnterPoisoned`
the `unwrap` of a poisoned one. The threads are the UI thread (`main`, then the
frames of `display`), the workers of the tokio runtime, which run a spawned task
from `Take` to its end without yielding since nothing in a task is awaited, and a
thread of the blocking pool for each `manage_send`. What a section does to the
list or the network is left to `ChatModel` and `Mesh`; here it decides only where
the thread goes next. Three more things end or block threads: descriptors
(connections and the sockets of tasks hold one; `CloneFails` is the `expect` at
`socket.rs:139`, `ListenerEnds` the `break` after a failed `accept`), connections
whose sender never closes (`Stall`), and the two panics of a frame (`NoRoom`,
`NarrowSplit`).

## 3. Runs

| run | what it shows | bounds |
|---|---|---|
| `chat_model` | The list stays sorted under every interleaving of sends, arrivals, repeated ACKs, strategy changes and ticks; arrivals are appended; nothing is lost. | 2 peers, one without an endpoint; 1 local and 2 remote uuids; 0 to 2 seeds; 3 entries; 3 instants |
| `hover_text` (violation) | The view of a peer orders the others by arrival, not by sending time. | as above, no seeds |
| `mesh` | One message to two recipients with peer lists that disagree: ACKs find their message, what is acknowledged is displayed, copies are accounted for, a mesh at rest has delivered everything and marked what an ACK is due for, the refinement of `Delivery`, and liveness where nothing is lost. | 3 nodes, 1 message, `[ACK]` text or not, 1 loss, 1 duplicate, 1 end of a process or a listener |
| `adu_codec` | A pad per bp-socket leg is enough, on every way. | protobufs of 62-105, 184-194 and 762-772 bytes, 0-3 stray bytes |
| `adu_legs` (violation) | Without a pad the send leg takes a character. | 62-105 bytes, no stray byte |
| `endpoints` | ACK preference; good configurations are acknowledged, but for the two texts and senders that never are. | lists of up to 2 endpoints, all of them |
| `endpoints_none` (violation) | A placeholder of the arrival family is chosen. | lists of up to 1 |
| `bp_socket` | Nothing read twice; unique binding unless raced; an at-most-once hop. | 3 sockets of one service, 2 of one address and 1 of another node's; 2 bundles, one oversize; 1 kill; 1 fault; 1 interrupted wait |
| `bp_socket_twice` (violation) | Two overlapping binds both succeed. | as above, no failures |
| `bp_socket_reader` | No forgotten reader; nothing lost; nothing under way beside a request but for waits that were left; bundles are read and ADUs taken. | 2 sockets, each with a service of its own; 2 bundles for one of them, one oversize; 2 ADUs, one too long; 1 kill; 1 interrupted wait; no fault |
| `bridge` | Custody, copies, response matching, an at-least-once hop, and that everything ends. | 1 bundle, 2 handlers, 2 attempts, each failure once, 1 attempt that times out on a running DTChat |
| `node_threads` | No deadlock; panics stay away from the window, which ends in three known ways; tasks end and frames keep coming. | 2 workers, 1 message to 1 recipient, 1 datagram, 1 connection, 2 descriptors, pages Contacts and Split, with and without a room |

Why the bounds are enough to show what they are meant to:

- *chat_model*: three instants give earlier, equal and later stamps; three
  entries give an insertion above, between and below others and a tie with two.
  Two remote uuids and repeated decoding give duplicates. A peer without an
  endpoint gives an ACK that has no delivery. Proofs lift all of them to any
  values.
- *mesh*: a node that lists itself, one that does not know another, and two
  recipients of one message, one with a usable endpoint for the ACK and one with a
  placeholder, with an end and a restart of a node while packets of its earlier run
  are in flight, or with a listener that ends. Traffic in both directions multiplies the states and
  adds no case: a node's part as a writer and as a reader share no variable here. The
  proofs cover it, with any number of everything.
- *adu_codec*: the 62 bytes are those of an empty chat message between two nodes
  of the demo (100 for an ACK); the other ranges straddle the SDR string and the
  read buffer. All three residues modulo 3 and all classes of length byte occur.
- *endpoints*: two endpoints are needed for a first one that is useless and a
  second of the same or another family; a third would repeat a case.
- *bp_socket*: two sockets of one address are what the bind race needs; the third,
  of another node with the same service, is what the first match of delivery confuses
  them with. One kill, one fault and one interrupted wait are enough to leave a thread
  behind for a socket that comes back. The two sockets of one address are symmetric.
- *bp_socket_reader*: both bundles are for one reader, which may be killed and
  interrupted, so that it has two requests under way and two threads that hold a bundle
  each: `OneUnderWay` reaches its bound of 1 to 3, and over a wait that was left the
  second bundle may overtake the first. Without such a wait it may not. The oversize bundle
  ends the reader. The other socket's service has no bundle: its thread blocks in
  `bp_receive`, and its requests mix with the first one's in the daemon's queue. The
  faults are in `bp_socket`; the proofs of `OneUnderWay` and of the others are for any
  number of them.
- *bridge*: bundles are taken one at a time by one thread, so a second adds
  nothing to custody; two handlers are needed for the lock. One loss of each kind
  meets every stage, and with two attempts the one that times out may be the first, with
  the second a success, or the last.
- *node_threads*: one worker can stall on the connection while the other has all
  three locks to take, against the UI thread and a `manage_send`. With two
  descriptors all of none, one and two free occur, hence the clone that fails and
  the listener that ends. The split view takes every lock a frame can take, Contacts
  none. Safety is proved for any numbers.

`CHECK_DEADLOCK FALSE` is set where the system may really stop: all messages
written and answered (`mesh`), the one message handled (`endpoints*`), all
bundles read and the budgets spent (`bp_socket*`, `bridge`), the process ended
(`node_threads`).

## 4. Fairness

All liveness but that of `NodeThreads` is under weak fairness of steps that a scheduler
runs and no others, but for the restarts of the bridge's run, which are an operator's;
no user has to send, no node of the mesh to start, and no fault has to happen or to
stop other than by its budget.

- `Mesh!Fairness`: the tokio runtime polls each spawned task, and each listener of a
  node of which none has ended; `main` goes on from `init_controller` to `add_observer`.
  Nobody has to call `init_controller`: `EventuallyAcked` and `EventuallyShown` are about
  recipients that are started. Receive tasks compete for the controller
  lock; with finitely many packets each competitor holds it finitely often, so
  weak fairness per packet is enough.
- `BpSocket!Fairness`: kernel calls return, the daemon's libevent loop and its
  threads run. Creating a socket and sending need nobody's fairness, and no signal has to
  come; `MaxInterrupts` bounds those that do. A reader interrupted without end would
  never read: each of its calls waits anew.
- `Aap2Bridge!Fairness`: the receiver thread as a whole, each handler as a whole,
  DTChat's listener, and whoever restarts a process that ended. The `with lock`
  of Python is not fair among threads; with finitely many handlers none of which
  takes it twice this makes no difference. Attempts that fail on a running DTChat are
  at most `MaxStalls`: with a backlog that is full for ever nothing is ever received.
- `NodeThreads!Fairness`: strong fairness of each thread. The UI thread takes the
  model and the handler again and again for as long as the process runs, at least
  twice a second (`app.rs:233-240`), so a lock is never free for good. It is free
  for most of the time, since frames wait for the display; a thread that waits gets
  it at one of those times. Nothing has to arrive and no user has to send.

`EventuallyAcked` and `EventuallyShown` hold on a network that loses nothing and
among nodes whose process and listeners do not stop: DTChat sends once and promises
nothing more. `EventuallyAcked` asks for an ACK that is due (`AckDue`), since the code
sends none for an `[ACK]` text nor where it finds no endpoint.

## 5. Findings

- `hover_text`: the menu's hover text states the opposite of what `relative_cmp`
  compares.
- `adu_legs`: `bp_send` in the daemon gives `zco_create` the payload's length for
  an SDR string that begins with a length byte. One byte is lost. `proto.rs` says
  that a pad is; for a third of all message lengths there is none.
- `endpoints_none`: `choose_ack_endpoint` returns an endpoint of the arrival
  family without `is_valid`, though its comment promises a usable one or none.
- `bp_socket_twice`: `bp_bind` tests for an address in use under one lock and
  adds under another.

What the passing properties leave open on purpose, because the code does: a
message taken in before `main` adds the observer is acknowledged and never shown
(`unobserved` in `AckedMeansShown`); a bundle in the backlog of a DTChat that ends
is acknowledged to uD3TN and gone (`stranded` in `AckedMeansHandedOff`); duplicated
datagrams are shown again (`CopiesShown`); an ACK that is not due never comes
(`AckDue` in `QuietMeansDone`); after an interrupted wait two bundles of a reader may be
under way (`abandoned` in `OneUnderWay`); an ADU of more than 255 bytes is not sent
though `bp_sendmsg` succeeded (`TooLong` in `SendsAreKept`); two sockets of one service
on different nodes share its bundles (`OneReader`, which `bp_socket` checks on two such
sockets, says no more than that no bundle is read twice).

## 6. Proofs

Checked by TLAPS, for every value of the constants that satisfies the named
assumptions of the modules.

**ChatModelProofs**, from `PeersAssumption`, `MarkersAssumption`,
`UuidsAssumption` (v4 uuids of two nodes never collide), `BoundsAssumption` and
`NoMessageAssumption`:

- `TypeCorrect`: the deliveries of a sent message keep their domain.
- `AlwaysSorted` (`Sorted`). Inductive together with `TypeOK` and nothing else.
  The argument is in the lemmas: `Less` is asymmetric and its negation transitive
  for both strategies; on a sorted list every point of `InsertionPoints` has
  nothing greater before it and nothing smaller behind it
  (`InsertionPointSeparates`); hence insertion keeps the order
  (`InsertionKeepsOrder`), a stable sort makes it (`SortedResult`), and an ACK
  touches no stamp (`AckKeepsOrder`).
- `StampsInOrder` (`StampsPast`): nothing is stamped ahead of the clock, and
  arrivals are stamped in the order they are inserted, since one lock covers both.
- `DelayedArrivalsLandAtBottom` (`ArrivalsLandAtBottom`), from the two above: what
  is below an arrival in a sorted list is not smaller, and what is stamped later
  than it can only be local.
- `NothingIsForgotten` (`HistoryKept`): an insertion, a stable sort and an ACK each
  map the places of the old list injectively into those of the new one (`Embeds`), with
  what was there and its ACKs (`Survives`); an injection loses no copy
  (`EmbeddedCopies`).
- `ViewsAgree` (`CommonOrder`): what all views have in common, and exactly where the
  hover text goes wrong. Own messages are in the order they were sent, inbound ones
  in the order they were received, except those of the peer the view is about.
- `SentAreDistinct` (`SentOnce`), and from it `AcksMarkTheirMessage`
  (`AcksAreExact`): `update_message_with_ack` looks only at the first message with
  the uuid. There is never a second, through insertions, sorts and ACKs, so the ACK
  is noted on the message it is about and nothing else changes.

**MeshProofs**, from `Mesh`'s assumptions on `Origin`, `Peers`, `Answers`, `NoPacket`
and the budgets:

- `TypeCorrect`: no bag of packets is overdrawn.
- `MeshInvariant`: the inductive invariant `MeshInv`. None of the three properties
  is inductive alone: an ACK found in a bag must be known to stem from a node that
  decoded the message, a decoded message to stem from a packet of a listed one,
  and a message in `handling` to be on its way to the display. `TransitOK`,
  `HandlingOK` and `AckedOK` say this of each place a packet can be in;
  `MovedPackets` treats the actions that only move packets at once.
- `NoUnknownDelivery` (`AcksFindTheirMessage`), `NoPhantomAck`
  (`AckedMeansDecoded`), `AcknowledgedIsDisplayed` (`AckedMeansShown`) follow.
- `MeshImplementsDelivery` (`ImplementsDelivery`): each step is a step of
  `Delivery` or leaves its variables alone, under `MeshInv`.
- `OneCopyPerPacket` (`CopiesShown`): by counting over the places a packet can be in,
  outgoing, in flight, incoming, handled and shown.

- `KeptInvariant`: as long as nothing was lost and no process or listener ended, every
  message sent has a copy under way to each recipient that has not decoded it, and every
  decoded one whose ACK is due has the ACK under way or on the screen. It follows the
  two outcomes of `DecodeAndAck`: where `AckDue` holds only the first is open.
- `RestIsDone` (`QuietMeansDone`) from it, and `NothingGoesBack`: see below.

**AduCodecProofs**, from `SizesAssumption` and `StrayAssumption`:

- `TypeCorrect`, and `OnePadPerLeg` (`PadsPayForLegs`) for messages of any length
  and any number of stray bytes. `CodecInv` says what the text looks like in each
  place. With a pad for each leg the characters are all there after the last of
  them; either a pad is left to end the core or nothing was appended
  (`WholeCoreDecodes`).
- `OnlyTheHeapAlters` (`AlteredByTheHeap`) and `PadlessNeverCross`
  (`SendLegEatsPadless`): the extent of finding `adu_legs`, from the invariant
  `Extent`. With fewer pads than legs a message is rejected or lost. It is taken for
  another one only where the heap behind a receive leg continues it with base64
  characters, and a message without a pad never crosses a send leg unless it does.

**EndpointsProofs**, from `EndpointsAssumption`:

- `TypeCorrect`, `AcksPreferTheArrivalFamily` (`AckPreference`) and
  `GoodConfigurationsAreAcked` (`GoodConfigsAreAcked`), for lists of any length. The
  invariant `Chosen` says of the two endpoints in use that they are what
  `send_to_peer` and `choose_ack_endpoint` return; `FirstOfFinds` is the contract of
  a `find`, `BestValidIsBest` and `ChoiceOfAckEndpoint` those of the choices.
- `AckFailures` (`AckFailsOnOneEntry`): the extent of finding `endpoints_none`. An ACK
  that fails although another endpoint would have carried it went to one of the
  arrival family, or to an address `is_valid` lets through.

**BpSocketProofs**, from `SocketsAssumption` and `BudgetAssumption`. All its
safety properties, for any sockets, services and bundles, any number of kills,
faults and interrupted waits, from these invariants:

- `TypeCorrect`. `SocketInv` ties the socket list to the state of each socket.
- `BindsAreUnique` (`UniqueUnlessRaced`): a socket whose address was found free
  still has it for itself (`Reserved`), unless two binds overlapped.
- `BundlesAreShared` (`OneReader`) and `HostImplementsLastHop`: `Places` says that a
  bundle is in one of ION, a thread, one queue, one set of bundles read, and once
  there. Sequences without repetition do what a count would.
- `SleepersAreServed` (`ReaderHasHelp`): what is under way for a service ends only in
  a delivery to it (`EngagedKept`), which fills the queue of its one socket
  (`DeliveryWakes`).
- `BundlesAreKept` (`NothingLost`): a thread takes a bundle out only when a socket
  has asked (`EngagedByReader`), and without failures no socket leaves the list
  (`BoundStays`), so the delivery finds one (`Attended`).
- `NothingOvertakes` (`OneUnderWay`), by counting what is under way for a service at
  each of its five stages (`Asked`, `Opening`, `Opened`, `Fetched`, `Filled`). A step
  moves one thing a stage on (`MoveOn`), loses some (`Lose`), or is a `Recv`, which adds a
  request (`Asks`), and then the reader waits (`StagesStep`). So the count is never more
  than the waits of the socket, the one it is in and those it left (`Accounted`), and
  this needs no absence of failures.
- `PostedIsKept` (`SendsAreKept`): without a fault the daemon drops no command but a send
  that is too long. `RestIsRead` (`RestMeansRead`) and `RequestsMoveOn`: see below.

**Aap2BridgeProofs**, from `AttemptsAssumption`, `NoBundleAssumption` and
`BudgetAssumption`:

- `TypeCorrect`, and with it `OwnResponses` (`OwnResponse`): the handler that holds
  the session's lock is the only one in the exchange, and nobody leaves a response
  behind (`Sending`).
- `NoAckWithoutHandOff` (`AckedMeansHandedOff`) and `BridgeImplementsLastHop`: a
  success is reported only for the bundle in hand after it reached the backlog
  (`Custody`).
- `CopiesAreAccountedFor` (`CopiesNeedLosses`): a copy more than the first is paid
  for by a session or a process that ended between hand-over and report
  (`Accounting`).
- `InboundKeepsGoing` (`InboundGoesOn`), `RestIsSettled` (`RestMeansSettled`) and
  `ThreadsAdvance`: see below.

**NodeThreadsProofs**, from `ThreadsAssumption`, `DescriptorsAssumption` and
`PagesAssumption`, for any number of workers, messages, recipients and packets:

- `TypeCorrect`: the descriptors are never overdrawn, by counting the tasks that
  hold one (`OneMore`, `HeldGrowsByOne`).
- `NoDeadlock` (`NoCircularWait`): whoever has a lock is in a section of that lock
  or of a later one (`LockOrder`), so in any set of threads the one that is
  furthest does not wait for another of the set.
- `PanicsAreConfined` (`PoisonConfined`) and `WindowStays` (`WindowSurvives`): no
  panic of a task is under the model or the handler.

- `LocksMoveOn` (`LocksMove`), `RestIsDone` (`RestMeansDone`) and `ThreadsAdvance`:
  see below.

**What can be proved of liveness.** The eight liveness properties (`EventuallyAcked`,
`EventuallyShown`, `EventuallyRead`, `EventuallyAccepted`, `EventuallyReceived`,
`EventuallySettled`, `TasksEnd`, `FramesKeepComing`) are model-checked only:
weak fairness speaks of ENABLED, which TLAPS cannot treat. What the code contributes
to them is proved for every value of the constants, in three kinds of theorem:

| | nothing is dropped, and somebody has a step | a system at rest has done its work | steps only lead forward |
|---|---|---|---|
| `Mesh` | `KeptInvariant` | `RestIsDone` | `NothingGoesBack` |
| `BpSocket` | `PostedIsKept`, `BundlesAreKept`, `SleepersAreServed` | `RestIsRead` | `RequestsMoveOn` |
| `Aap2Bridge` | `InboundKeepsGoing` | `RestIsSettled` | `ThreadsAdvance` |
| `NodeThreads` | `LocksMoveOn`, `NoDeadlock` | `RestIsDone` | `ThreadsAdvance` |

The third column gives each message, bundle or thread a stage that no step of another
one takes back and that its own steps raise, up to a bound; for the requests of a
socket it is a measure of the work left (`WorkLeft`), which every step that touches them
lowers, failures included, but for a new `bp_recvmsg`. Together they
leave to fairness only that a thread with a step takes it. The predicates of rest
(`Quiet`, `AtRest`, `ReceiverCan`, `HandlerCan`, `CanStep`) are written out from the
guards of the actions in place of ENABLED; on the instances of the runs TLC finds
them equal to ENABLED of the actions they stand for. Where the theorems need more
than the runs' assumptions it is stated in them: `RestIsDone` of `NodeThreads` asks
for finitely many workers and streams, and for more workers than streams that stall. A
node with no worker left does nothing more: the code has no way out of that.

No recursion over data is needed by any of these proofs; `AduCodec` counts characters
and the sequences of the other modules are treated by position.

## 7. Not modelled

- *Arrival prediction* (`prediction_config.rs`): parses a contact plan and calls the
  external a_sabr router. The time it returns is displayed beside a delivery and no
  branch depends on it. The `expect` of its conversion is out of reach of the f64
  values it is given.
- *User interface*: what is drawn. Its operations with an effect, Send and the sort
  menu, are actions of `ChatModel` and `Mesh`, its frames with their locks and panics
  are in `NodeThreads`. Left out are the bars and the sliding window of
  `message_graph.rs`, the form for a new room, which creates none, and the status line
  of the prompt, which keeps only the last of the queued events
  (`message_prompt.rs:143`): they are read by nobody but the user.
- *Panics other than those of `NodeThreads`*: `println!` on a closed terminal, and the
  external router that `manage_send` asks for a prediction with the model locked, would
  poison the locks their thread holds. `PoisonConfined` and `WindowSurvives` are about the
  panics of the code itself.
- *Corrections of the wall clock*: see `ChatModel` in section 2.
- *Configuration, time, colours*: a YAML file read once, conversions for display.
- *Kernel module load, demo tools, set-up scripts*: no state that DTChat depends on.

## 8. Plan

Done: the modules of section 2, in the order `ChatModel`, `Mesh` with `Delivery`,
`AduCodec`, `Endpoints`, `BpSocket`, `Aap2Bridge`, `NodeThreads`, `LastHop`; the
proofs of every safety property and of the three refinements; the extent of the
findings; the safety half of liveness.

What is left is small:

1. A module that instantiates `LastHop` inside `Mesh`, so that the argument of
   section 2 about their composition is a refinement instead of a text.
2. The sliding window of the message graph, should a branch ever depend on it.
