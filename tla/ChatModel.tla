------------------------------ MODULE ChatModel ------------------------------
(***************************************************************************)
(* The message list of one DTChat node: ChatModel of src/src/app.rs with   *)
(* the statuses of src/src/utils/message.rs.  The list is kept in the      *)
(* order of the selected strategy by a binary-search insertion; a menu     *)
(* re-sorts it; ACKs mark the deliveries of a sent message.                *)
(*                                                                         *)
(* Two time stamps are taken OUTSIDE the model lock: the tx of a local     *)
(* message when the user presses Send, the rx of an inbound message when   *)
(* it is decoded.  Both messages are inserted later, so the order in which *)
(* they enter the list is not the order of their stamps.                   *)
(*                                                                         *)
(* The stamps come from the wall clock (Utc::now), assumed here never to   *)
(* step back: what is said below of stamps in the past and of where an     *)
(* arrival is inserted holds between two corrections of the clock.         *)
(***************************************************************************)
EXTENDS Naturals, Sequences, SequencesExt, FiniteSets, TLC

CONSTANTS
    LocalPeer,      \* the peer this node is
    Peers,          \* the peers of its configuration
    Reachable,      \* those with at least one endpoint
    Standard,       \* SortStrategy::Standard; Relative(p) is p itself
    NotAcked,       \* acked_at = None
    NoMessage,      \* no receive task holds the controller lock
    LocalUuids,     \* uuids this node generates
    RemoteUuids,    \* uuids the other nodes (and the demo seed) generate
    SenderTimes,    \* bound: tx stamps of inbound messages, from their clocks
    AckTimes,       \* time stamps carried by ACKs, from the ackers' clocks
    MaxTime,        \* bound: last instant of the clock
    MaxSeeds,       \* bound: demo messages pushed at start-up
    MaxMessages     \* bound: length of the list

Time == 0 .. MaxTime
Everyone == Peers \cup {LocalPeer}

ASSUME PeersAssumption == LocalPeer \notin Peers /\ Reachable \subseteq Peers
ASSUME MarkersAssumption == Standard \notin Everyone /\ NotAcked \notin AckTimes
(* generate_uuid draws random v4 uuids: no two nodes ever draw the same one. *)
ASSUME UuidsAssumption == LocalUuids \cap RemoteUuids = {}
ASSUME BoundsAssumption ==
    /\ MaxTime \in Nat \ {0} /\ MaxSeeds \in Nat /\ MaxMessages \in Nat
    /\ SenderTimes \subseteq Nat /\ 0 \in SenderTimes

SentMessage ==
    [kind : {"Sent"}, uuid : LocalUuids, sender : {LocalPeer}, tx : Time,
     deliveries : [Reachable -> AckTimes \cup {NotAcked}]]

ReceivedMessage ==
    [kind : {"Received"}, uuid : RemoteUuids, sender : Everyone,
     tx : SenderTimes, rx : Time]

ChatMessage == SentMessage \cup ReceivedMessage
SortStrategy == {Standard} \cup Everyone

ASSUME NoMessageAssumption == NoMessage \notin ChatMessage

VARIABLES
    messages,       \* ChatModel.messages
    sort_strategy,  \* ChatModel.sort_strategy
    composed,       \* sends stamped by the UI, manage_send still to run
    receiving,      \* decoded message whose task holds the controller lock
    now             \* the node's clock

vars == <<messages, sort_strategy, composed, receiving, now>>

----------------------------------------------------------------------------
(* The orders *)

ArrivalTime(m) == IF m.kind = "Sent" THEN m.tx ELSE m.rx

(* Mutant: messages ordered by the time they were sent. *)
SendTimeLess(a, b) == a.tx < b.tx

StandardLess(a, b) ==
    \/ ArrivalTime(a) < ArrivalTime(b)
    \/ ArrivalTime(a) = ArrivalTime(b) /\ a.tx < b.tx

RelativeAnchor(m, ctx) ==
    IF m.kind = "Received" /\ m.sender # ctx THEN m.rx ELSE m.tx

RelativeLess(a, b, ctx) == RelativeAnchor(a, ctx) < RelativeAnchor(b, ctx)

Less(strat, a, b) ==
    IF strat = Standard THEN StandardLess(a, b) ELSE RelativeLess(a, b, strat)

IsSortedBy(strat, s) ==
    \A i, j \in DOMAIN s : i < j => ~ Less(strat, s[j], s[i])

(* Where binary_search_by may put m: at any tie when there is one, else at   *)
(* the partition point.  On an unsorted slice its result is unspecified.    *)
InsertionPoints(strat, s, m) ==
    LET ties == {i \in DOMAIN s : ~ Less(strat, s[i], m) /\ ~ Less(strat, m, s[i])}
        gaps == {i \in 1 .. Len(s) + 1 :
                    /\ \A j \in 1 .. i - 1 : Less(strat, s[j], m)
                    /\ \A j \in i .. Len(s) : Less(strat, m, s[j])}
    IN  IF ~ IsSortedBy(strat, s) THEN 1 .. Len(s) + 1
        ELSE IF ties # {} THEN ties ELSE gaps

(* Mutant: a message replaces the copies of it that are already listed. *)
AddMessageOnce(m) ==
    LET others == SelectSeq(messages, LAMBDA x : x.uuid # m.uuid)
    IN  \E i \in InsertionPoints(sort_strategy, others, m) :
            messages' = InsertAt(others, i, m)

AddMessage(m) ==
    \E i \in InsertionPoints(sort_strategy, messages, m) :
        messages' = InsertAt(messages, i, m)

(* slice::sort_by is stable: p lists the old positions in their new order.  *)
StablySorts(p, strat, s) ==
    \A i, j \in DOMAIN s : i < j =>
        \/ Less(strat, s[p[i]], s[p[j]])
        \/ ~ Less(strat, s[p[j]], s[p[i]]) /\ p[i] < p[j]

StableSorts(strat, s) ==
    {[i \in DOMAIN s |-> s[p[i]]] :
        p \in {q \in Bijection(DOMAIN s, DOMAIN s) : StablySorts(q, strat, s)}}

(* Mutant: an ACK creates the delivery it does not find. *)
MarkAckAlways(m, acker, t) ==
    IF m.kind = "Sent" THEN [m EXCEPT !.deliveries = (acker :> t) @@ @] ELSE m

(* update_message_with_ack: only the first message with the uuid is looked  *)
(* at, and mark_ack overwrites its delivery to the acker, if it has one.    *)
MarkAck(m, acker, t) ==
    IF m.kind = "Sent" /\ acker \in DOMAIN m.deliveries
    THEN [m EXCEPT !.deliveries[acker] = t] ELSE m

UpdateMessageWithAck(s, uuid, acker, t) ==
    [i \in DOMAIN s |->
        IF s[i].uuid = uuid /\ \A j \in 1 .. i - 1 : s[j].uuid # uuid
        THEN MarkAck(s[i], acker, t) ELSE s[i]]

----------------------------------------------------------------------------
(* Start-up: seed_demo_messages pushes Received messages in any order, all  *)
(* of them in the past, then main sorts the list.                           *)
SeedTimes == {0, 1}

Seeds ==
    {s \in UNION {[1 .. n -> [kind : {"Received"}, uuid : RemoteUuids,
                              sender : Everyone, tx : {0}, rx : SeedTimes]] :
                  n \in 0 .. MaxSeeds} :
        \A i, j \in DOMAIN s : i # j => s[i].uuid # s[j].uuid}

Init ==
    /\ \E seed \in Seeds : messages \in StableSorts(Standard, seed)
    /\ sort_strategy = Standard
    /\ composed = {}
    /\ receiving = NoMessage
    /\ now = 1

(* The user presses Send: uuid and tx are fixed, manage_send is spawned.    *)
Compose(u) ==
    /\ \A m \in composed : m.uuid # u
    /\ \A i \in DOMAIN messages : messages[i].uuid # u
    /\ composed' = composed \cup
          {[kind |-> "Sent", uuid |-> u, sender |-> LocalPeer, tx |-> now,
            deliveries |-> [p \in Reachable |-> NotAcked]]}
    /\ UNCHANGED <<messages, sort_strategy, receiving, now>>

(* manage_send, on the blocking pool, takes the model lock.                 *)
ManageSend(m) ==
    /\ Len(messages) < MaxMessages
    /\ AddMessage(m)
    /\ composed' = composed \ {m}
    /\ UNCHANGED <<sort_strategy, receiving, now>>

(* Mutant: the message carries its sender's stamp as the local one. *)
DecodeUnstamped(u, sender, tx) ==
    /\ receiving = NoMessage
    /\ receiving' = [kind |-> "Received", uuid |-> u, sender |-> sender,
                     tx |-> tx, rx |-> tx]
    /\ UNCHANGED <<messages, sort_strategy, composed, now>>

(* A receive task, holding the controller lock, decodes a message: its rx   *)
(* is now, its tx whatever the sender's clock said.                         *)
Decode(u, sender, tx) ==
    /\ receiving = NoMessage
    /\ receiving' = [kind |-> "Received", uuid |-> u, sender |-> sender,
                     tx |-> tx, rx |-> now]
    /\ UNCHANGED <<messages, sort_strategy, composed, now>>

(* on_socket_event, still under the controller lock, takes the model lock.  *)
OnSocketEvent ==
    /\ receiving # NoMessage
    /\ Len(messages) < MaxMessages
    /\ AddMessage(receiving)
    /\ receiving' = NoMessage
    /\ UNCHANGED <<sort_strategy, composed, now>>

(* The ACK of a message this node displays, possibly a repeated one, or one *)
(* for a message of an earlier run that it no longer knows.                 *)
OnAckReceived(u, acker, t) ==
    /\ receiving = NoMessage
    /\ messages' = UpdateMessageWithAck(messages, u, acker, t)
    /\ UNCHANGED <<sort_strategy, composed, receiving, now>>

(* Mutant: the strategy changes, the list is not sorted again. *)
SelectStrategy(strat) ==
    /\ sort_strategy' = strat
    /\ UNCHANGED <<messages, composed, receiving, now>>

SortMessages(strat) ==
    /\ sort_strategy' = strat
    /\ messages' \in StableSorts(strat, messages)
    /\ UNCHANGED <<composed, receiving, now>>

Tick ==
    /\ now < MaxTime
    /\ now' = now + 1
    /\ UNCHANGED <<messages, sort_strategy, composed, receiving>>

Next ==
    \/ \E u \in LocalUuids : Compose(u)
    \/ \E m \in composed : ManageSend(m)
    \/ \E u \in RemoteUuids, p \in Peers, tx \in SenderTimes : Decode(u, p, tx)
    \/ OnSocketEvent
    \/ \E u \in LocalUuids, p \in Peers, t \in AckTimes : OnAckReceived(u, p, t)
    \/ \E strat \in SortStrategy : SortMessages(strat)
    \/ Tick

Spec == Init /\ [][Next]_vars

----------------------------------------------------------------------------
(* Every variable holds a value of its type. *)
TypeOK ==
    /\ messages \in Seq(ChatMessage)
    /\ sort_strategy \in SortStrategy
    /\ composed \subseteq SentMessage
    /\ receiving \in ReceivedMessage \cup {NoMessage}
    /\ now \in Time

(* main.rs:63 "add_message binary-inserts, so the seeded vec must start     *)
(* sorted": the list is sorted by the selected strategy at all times, across *)
(* late sends, ties, delayed arrivals, ACKs and strategy changes.           *)
Sorted == IsSortedBy(sort_strategy, messages)

(* No stamp is in the future of the node's clock, and the message being     *)
(* received is stamped no earlier than any message received before it: the  *)
(* controller lock covers both the stamp and the insertion.                 *)
StampsPast ==
    /\ \A m \in composed : m.tx <= now
    /\ \A i \in DOMAIN messages : ArrivalTime(messages[i]) <= now
    /\ receiving # NoMessage =>
          /\ receiving.rx <= now
          /\ \A i \in DOMAIN messages :
                messages[i].kind = "Received" => messages[i].rx <= receiving.rx

(* app.rs:35 "a network-delayed message lands at the bottom on arrival": in *)
(* the standard order an arriving message is put below every message that   *)
(* arrived at an earlier instant.  Only own messages, stamped while it was  *)
(* being handled, and arrivals of the very same instant may be under it.    *)
LandsAtBottom ==
    \E i \in DOMAIN messages' :
        /\ messages'[i] = receiving
        /\ \A j \in i + 1 .. Len(messages') :
              ArrivalTime(messages'[j]) >= receiving.rx
                /\ (messages'[j].kind = "Received" => messages'[j].rx = receiving.rx)

ArrivalsLandAtBottom ==
    [][receiving # NoMessage /\ receiving' = NoMessage /\ sort_strategy = Standard
          => LandsAtBottom]_vars

(* The menu's hover text (message_list.rs:103) promises of the view of a    *)
(* peer p: "receiving time for peer p and sending times for the other       *)
(* peers".  relative_cmp does the opposite for inbound messages: p's own by *)
(* tx, those of the others by the local rx.  This does not hold.            *)
HoverTextOrder ==
    sort_strategy # Standard =>
        \A i, j \in DOMAIN messages :
            (/\ i < j
             /\ messages[i].kind = "Received" /\ messages[j].kind = "Received"
             /\ messages[i].sender # sort_strategy
             /\ messages[j].sender # sort_strategy)
                => messages[i].tx <= messages[j].tx

(* What every view agrees on, whichever strategy sorted the list: this node's *)
(* messages stand in the order it sent them, and inbound messages in the      *)
(* order they were received, except those of the peer the view is about.      *)
(* That rx rules the others' messages is what the hover text has wrong.       *)
CommonOrder ==
    \A i, j \in DOMAIN messages : (i < j /\ messages[i].kind = messages[j].kind) =>
        IF messages[i].kind = "Sent" THEN messages[i].tx <= messages[j].tx
        ELSE \/ sort_strategy \in {messages[i].sender, messages[j].sender}
             \/ messages[i].rx <= messages[j].rx

(* No two messages sent by this node share a uuid, waiting or listed.        *)
SentOnce ==
    /\ \A m, n \in composed : m.uuid = n.uuid => m = n
    /\ \A m \in composed : \A i \in DOMAIN messages : messages[i].uuid # m.uuid
    /\ \A i, j \in DOMAIN messages :
          messages[i].kind = "Sent" /\ messages[i].uuid = messages[j].uuid => i = j

(* update_message_with_ack stops at the first message with the uuid: that is *)
(* always the message the ACK is about.  The ACK is noted on it, under the   *)
(* peer that sent it, when this node sends to that peer; nothing else moves. *)
NotedOn(m, u, acker, t) ==
    IF m.kind = "Sent" /\ m.uuid = u /\ acker \in Reachable
    THEN [m EXCEPT !.deliveries[acker] = t] ELSE m

AcksAreExact ==
    [][\A u \in LocalUuids, p \in Peers, t \in AckTimes : OnAckReceived(u, p, t) =>
          messages' = [i \in DOMAIN messages |-> NotedOn(messages[i], u, p, t)]]_vars

(* What the list shows is never lost: no sort, insertion or repeated ACK    *)
(* drops a message, merges two copies or takes back an ACK.                 *)
AckedBy(m) == {p \in DOMAIN m.deliveries : m.deliveries[p] # NotAcked}

Copies(s, u, rx) ==
    Cardinality({i \in DOMAIN s : s[i].kind = "Received" /\ s[i].uuid = u /\ s[i].rx = rx})

HistoryKept ==
    [][/\ \A i \in DOMAIN messages : messages[i].kind = "Sent" =>
            \E j \in DOMAIN messages' :
                /\ messages'[j].uuid = messages[i].uuid
                /\ AckedBy(messages[i]) \subseteq AckedBy(messages'[j])
       /\ \A u \in RemoteUuids, t \in Time :
            Copies(messages', u, t) >= Copies(messages, u, t)]_vars
=============================================================================
