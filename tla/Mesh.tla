-------------------------------- MODULE Mesh --------------------------------
(***************************************************************************)
(* The full mesh of DTChat nodes: manage_send and send_to_peer             *)
(* (layout/rooms/message_prompt.rs), the listeners and the                 *)
(* DefaultSocketController (utils/socket.rs), the ACK tasks (utils/ack.rs) *)
(* and the start-up sequence of main.rs, over a network that may lose,     *)
(* duplicate and reorder packets and among nodes that may stop and start.  *)
(*                                                                         *)
(* A packet goes through three places: the asynchronous task of its sender *)
(* (outgoing), the network (inFlight) and the asynchronous task its        *)
(* receiver spawned when it read it (incoming).  A node that stops loses   *)
(* everything but the packets already in the network: nothing is stored.   *)
(***************************************************************************)
EXTENDS Naturals, FiniteSets

CONSTANTS
    Nodes,
    Messages,       \* message uuids
    Origin,         \* [Messages -> Nodes], the node that generates the uuid
    Peers,          \* [Nodes -> SUBSET Nodes], peer lists (with endpoints)
    Answers,        \* [Nodes -> SUBSET Nodes], peers whose every endpoint
                    \*   makes a socket: an ACK can always be addressed
    NoPacket,       \* no receive task holds the controller lock
    MaxLosses,      \* bound: packets lost by a failed send or the network
    MaxDups,        \* bound: packets duplicated by the network
    MaxCrashes      \* bound: ends of processes and of listeners

(* A chat packet goes from the message's origin to peer, an ACK back.       *)
Packets == [kind : {"chat", "ack"}, msg : Messages, peer : Nodes]

ASSUME OriginAssumption == Origin \in [Messages -> Nodes]
ASSUME PeersAssumption == Peers \in [Nodes -> SUBSET Nodes]
ASSUME AnswersAssumption ==
    /\ Answers \in [Nodes -> SUBSET Nodes]
    /\ \A n \in Nodes : Answers[n] \subseteq Peers[n]
ASSUME NoPacketAssumption == NoPacket \notin Packets
ASSUME BoundsAssumption == MaxLosses \in Nat /\ MaxDups \in Nat /\ MaxCrashes \in Nat

VARIABLES
    phase,          \* "down", "listening" (no observer yet) or "ready"
    deaf,           \* nodes of which a listener has ended or never started
    composed,       \* uuids generated so far
    tagged,         \* composed, their text starting with "[ACK]"
    pending,        \* composed, their manage_send still to run
    listed,         \* messages in their origin's ChatModel, as Sent
    acked,          \* [Messages -> SUBSET Nodes], deliveries with acked_at
    shown,          \* copies of a message in a node's ChatModel, as Received
    outgoing,       \* packets owned by send tasks and ACK tasks
    inFlight,       \* packets in the network
    incoming,       \* packets owned by receive tasks
    handling,       \* packet whose receive task holds the controller lock
    decoded,        \* history: nodes that ever decoded a message
    unobserved,     \* history: nodes that decoded it without an observer
    crashed,        \* history: nodes that ever stopped
    losses, dups, crashes   \* the budgets used

nodeVars == <<phase, deaf, composed, tagged, pending, listed, acked, shown>>
packetVars == <<outgoing, inFlight, incoming, handling>>
historyVars == <<decoded, unobserved, crashed>>
budgetVars == <<losses, dups, crashes>>
vars == <<nodeVars, packetVars, historyVars, budgetVars>>

----------------------------------------------------------------------------
Chat(m, n) == [kind |-> "chat", msg |-> m, peer |-> n]
Ack(m, n) == [kind |-> "ack", msg |-> m, peer |-> n]

From(p) == IF p.kind = "chat" THEN Origin[p.msg] ELSE p.peer
To(p) == IF p.kind = "chat" THEN p.peer ELSE Origin[p.msg]

Plus(bag, p) == [bag EXCEPT ![p] = @ + 1]
Minus(bag, p) == [bag EXCEPT ![p] = @ - 1]

(* Mutant: no filter, the node writes to itself if its peer list names it. *)
EveryPeer(n) == Peers[n]

(* manage_send's filter: every peer with an endpoint but the node itself.   *)
Recipients(n) == {p \in Peers[n] : p # n}

Init ==
    /\ phase = [n \in Nodes |-> "down"]
    /\ deaf = {} /\ composed = {} /\ tagged = {} /\ pending = {} /\ listed = {}
    /\ acked = [m \in Messages |-> {}]
    /\ shown = [m \in Messages |-> [n \in Nodes |-> 0]]
    /\ outgoing = [p \in Packets |-> 0]
    /\ inFlight = [p \in Packets |-> 0]
    /\ incoming = [p \in Packets |-> 0]
    /\ handling = [n \in Nodes |-> NoPacket]
    /\ decoded = [m \in Messages |-> {}]
    /\ unobserved = [m \in Messages |-> {}]
    /\ crashed = {}
    /\ losses = 0 /\ dups = 0 /\ crashes = 0

----------------------------------------------------------------------------
(* Start-up *)

(* main calls init_controller: the listeners read packets from now on.      *)
InitController(n) ==
    /\ phase[n] = "down"
    /\ phase' = [phase EXCEPT ![n] = "listening"]
    /\ UNCHANGED <<deaf, composed, tagged, pending, listed, acked, shown>>
    /\ UNCHANGED <<packetVars, historyVars, budgetVars>>

(* main then locks the controller to add the model as its observer.         *)
AddObserver(n) ==
    /\ phase[n] = "listening" /\ handling[n] = NoPacket
    /\ phase' = [phase EXCEPT ![n] = "ready"]
    /\ UNCHANGED <<deaf, composed, tagged, pending, listed, acked, shown>>
    /\ UNCHANGED <<packetVars, historyVars, budgetVars>>

----------------------------------------------------------------------------
(* Sending *)

(* The user presses Send in the prompt, whatever the text: manage_send is   *)
(* spawned.                                                                 *)
Compose(m) ==
    /\ m \notin composed /\ phase[Origin[m]] = "ready"
    /\ composed' = composed \cup {m}
    /\ tagged' \in {tagged, tagged \cup {m}}
    /\ pending' = pending \cup {m}
    /\ UNCHANGED <<phase, deaf, listed, acked, shown>>
    /\ UNCHANGED <<packetVars, historyVars, budgetVars>>

(* Mutant: the copies leave first, the message is listed by a later step.   *)
SendBeforeListing(m) ==
    /\ m \in pending
    /\ \E done \in BOOLEAN :
          /\ pending' = IF done THEN pending \ {m} ELSE pending
          /\ listed' = IF done THEN listed \cup {m} ELSE listed
          /\ outgoing' = [p \in Packets |->
                IF p.kind = "chat" /\ p.msg = m /\ ~ done /\ outgoing[p] = 0
                      /\ p.peer \in Recipients(Origin[m])
                THEN 1 ELSE outgoing[p]]
    /\ UNCHANGED <<phase, deaf, composed, tagged, acked, shown, inFlight, incoming, handling>>
    /\ UNCHANGED <<historyVars, budgetVars>>

(* manage_send lists the message with one delivery per recipient, then      *)
(* spawns one send task per recipient.                                      *)
ManageSend(m) ==
    /\ m \in pending
    /\ pending' = pending \ {m}
    /\ listed' = listed \cup {m}
    /\ outgoing' = [p \in Packets |->
          IF p.kind = "chat" /\ p.msg = m /\ p.peer \in Recipients(Origin[m])
          THEN outgoing[p] + 1 ELSE outgoing[p]]
    /\ UNCHANGED <<phase, deaf, composed, tagged, acked, shown, inFlight, incoming, handling>>
    /\ UNCHANGED <<historyVars, budgetVars>>

(* Mutant: a copy that could be written counts as acknowledged. *)
TransmitAndMark(p) ==
    /\ outgoing[p] > 0
    /\ outgoing' = Minus(outgoing, p)
    /\ inFlight' = Plus(inFlight, p)
    /\ acked' = IF p.kind = "chat"
                THEN [acked EXCEPT ![p.msg] = @ \cup {p.peer}] ELSE acked
    /\ UNCHANGED <<phase, deaf, composed, tagged, pending, listed, shown>>
    /\ UNCHANGED <<incoming, handling, historyVars, budgetVars>>

(* A send task or an ACK task writes its packet to the socket.              *)
Transmit(p) ==
    /\ outgoing[p] > 0
    /\ outgoing' = Minus(outgoing, p)
    /\ inFlight' = Plus(inFlight, p)
    /\ UNCHANGED <<nodeVars, incoming, handling, historyVars, budgetVars>>

(* The socket cannot be created or written: an error is shown or logged and *)
(* nothing is tried again.                                                  *)
SendFails(p) ==
    /\ outgoing[p] > 0 /\ losses < MaxLosses
    /\ outgoing' = Minus(outgoing, p)
    /\ losses' = losses + 1
    /\ UNCHANGED <<nodeVars, inFlight, incoming, handling, historyVars, dups, crashes>>

----------------------------------------------------------------------------
(* The network *)

Lose(p) ==
    /\ inFlight[p] > 0 /\ losses < MaxLosses
    /\ inFlight' = Minus(inFlight, p)
    /\ losses' = losses + 1
    /\ UNCHANGED <<nodeVars, outgoing, incoming, handling, historyVars, dups, crashes>>

Duplicate(p) ==
    /\ inFlight[p] > 0 /\ dups < MaxDups
    /\ inFlight' = Plus(inFlight, p)
    /\ dups' = dups + 1
    /\ UNCHANGED <<nodeVars, outgoing, incoming, handling, historyVars, losses, crashes>>

----------------------------------------------------------------------------
(* Receiving *)

(* Mutant: a read that would block is taken for a packet. *)
ListenOnNothing(p) ==
    /\ phase[To(p)] # "down"
    /\ inFlight' = Minus(inFlight, p)
    /\ incoming' = Plus(incoming, p)
    /\ UNCHANGED <<nodeVars, outgoing, handling, historyVars, budgetVars>>

(* A listener reads a packet, in any order, and spawns its receive task.    *)
Listen(p) ==
    /\ inFlight[p] > 0 /\ phase[To(p)] # "down"
    /\ inFlight' = Minus(inFlight, p)
    /\ incoming' = Plus(incoming, p)
    /\ UNCHANGED <<nodeVars, outgoing, handling, historyVars, budgetVars>>

(* Mutant: a received message is not acknowledged. *)
DecodeOnly(p) ==
    /\ p.kind = "chat" /\ incoming[p] > 0 /\ handling[To(p)] = NoPacket
    /\ incoming' = Minus(incoming, p)
    /\ handling' = [handling EXCEPT ![To(p)] = p]
    /\ decoded' = [decoded EXCEPT ![p.msg] = @ \cup {To(p)}]
    /\ unobserved' = IF phase[To(p)] = "ready" THEN unobserved
                     ELSE [unobserved EXCEPT ![p.msg] = @ \cup {To(p)}]
    /\ UNCHANGED <<nodeVars, outgoing, inFlight, crashed, budgetVars>>

(* send_ack_if_needed: no ACK of a text that starts with "[ACK]", nor to a   *)
(* sender out of the peer list; to a peer in it, none if no endpoint is     *)
(* found (choose_ack_endpoint) or the socket cannot be made.                *)
MayAck(p) == p.msg \notin tagged /\ From(p) \in Peers[To(p)]
MustAck(p) == p.msg \notin tagged /\ From(p) \in Answers[To(p)]

(* The receive task of a chat packet locks the controller, decodes it and   *)
(* spawns the ACK, or returns from send_ack_if_needed without one...        *)
DecodeAndAck(p) ==
    /\ p.kind = "chat" /\ incoming[p] > 0 /\ handling[To(p)] = NoPacket
    /\ incoming' = Minus(incoming, p)
    /\ handling' = [handling EXCEPT ![To(p)] = p]
    /\ \/ MayAck(p) /\ outgoing' = Plus(outgoing, Ack(p.msg, To(p)))
       \/ ~ MustAck(p) /\ UNCHANGED outgoing
    /\ decoded' = [decoded EXCEPT ![p.msg] = @ \cup {To(p)}]
    /\ unobserved' = IF phase[To(p)] = "ready" THEN unobserved
                     ELSE [unobserved EXCEPT ![p.msg] = @ \cup {To(p)}]
    /\ UNCHANGED <<nodeVars, inFlight, crashed, budgetVars>>

(* Mutant: the message acknowledged last is dropped before the observers.   *)
ForgetMessage(n) ==
    /\ handling[n] # NoPacket
    /\ handling' = [handling EXCEPT ![n] = NoPacket]
    /\ UNCHANGED <<nodeVars, outgoing, inFlight, incoming, historyVars, budgetVars>>

(* ... then, still holding the lock, hands it to the observers, if any.     *)
NotifyObservers(n) ==
    /\ handling[n] # NoPacket
    /\ shown' = IF phase[n] = "ready"
                THEN [shown EXCEPT ![handling[n].msg][n] = @ + 1] ELSE shown
    /\ handling' = [handling EXCEPT ![n] = NoPacket]
    /\ UNCHANGED <<phase, deaf, composed, tagged, pending, listed, acked>>
    /\ UNCHANGED <<outgoing, inFlight, incoming, historyVars, budgetVars>>

(* The receive task of an ACK: on_ack_received marks the delivery, or logs  *)
(* an "unknown delivery" when the model does not list it.                   *)
HandleAck(p) ==
    /\ p.kind = "ack" /\ incoming[p] > 0 /\ handling[To(p)] = NoPacket
    /\ incoming' = Minus(incoming, p)
    /\ acked' = IF /\ phase[To(p)] = "ready" /\ p.msg \in listed
                   /\ p.peer \in Recipients(To(p))
                THEN [acked EXCEPT ![p.msg] = @ \cup {p.peer}] ELSE acked
    /\ UNCHANGED <<phase, deaf, composed, tagged, pending, listed, shown>>
    /\ UNCHANGED <<outgoing, inFlight, handling, historyVars, budgetVars>>

----------------------------------------------------------------------------
(* A listener leaves its loop on an error (a receive or an accept that      *)
(* fails), or never started: what comes for it stays unread, while what     *)
(* comes for another endpoint of the node is still read.  Only a new        *)
(* process listens again.                                                   *)
ListenerEnds(n) ==
    /\ phase[n] # "down" /\ n \notin deaf /\ crashes < MaxCrashes
    /\ deaf' = deaf \cup {n}
    /\ crashes' = crashes + 1
    /\ UNCHANGED <<phase, composed, tagged, pending, listed, acked, shown>>
    /\ UNCHANGED <<packetVars, historyVars, losses, dups>>

(* The process of a node ends: its model, its tasks and its sockets go.     *)
Crash(n) ==
    /\ phase[n] # "down" /\ crashes < MaxCrashes
    /\ phase' = [phase EXCEPT ![n] = "down"]
    /\ deaf' = deaf \ {n}
    /\ pending' = {m \in pending : Origin[m] # n}
    /\ listed' = {m \in listed : Origin[m] # n}
    /\ acked' = [m \in Messages |-> IF Origin[m] = n THEN {} ELSE acked[m]]
    /\ shown' = [m \in Messages |-> [shown[m] EXCEPT ![n] = 0]]
    /\ outgoing' = [p \in Packets |-> IF From(p) = n THEN 0 ELSE outgoing[p]]
    /\ incoming' = [p \in Packets |-> IF To(p) = n THEN 0 ELSE incoming[p]]
    /\ handling' = [handling EXCEPT ![n] = NoPacket]
    /\ crashed' = crashed \cup {n}
    /\ crashes' = crashes + 1
    /\ UNCHANGED <<composed, tagged, inFlight, decoded, unobserved, losses, dups>>

NodeNext ==
    \/ \E n \in Nodes : InitController(n) \/ AddObserver(n) \/ NotifyObservers(n)
    \/ \E m \in Messages : Compose(m) \/ ManageSend(m)
    \/ \E p \in Packets : Transmit(p) \/ Listen(p) \/ DecodeAndAck(p) \/ HandleAck(p)

FaultNext ==
    \/ \E p \in Packets : SendFails(p) \/ Lose(p) \/ Duplicate(p)
    \/ \E n \in Nodes : ListenerEnds(n) \/ Crash(n)

Next == NodeNext \/ FaultNext

Spec == Init /\ [][Next]_vars

(* The runtime polls every spawned task and every listener still in its     *)
(* loop, and main goes on from init_controller to add_observer.  The user   *)
(* is under no obligation to start a node or to write, the network none to  *)
(* fail.                                                                    *)
Fairness ==
    /\ \A n \in Nodes : WF_vars(AddObserver(n)) /\ WF_vars(NotifyObservers(n))
    /\ \A m \in Messages : WF_vars(ManageSend(m))
    /\ \A p \in Packets : /\ WF_vars(Transmit(p)) /\ WF_vars(DecodeAndAck(p))
                          /\ WF_vars(HandleAck(p))
                          /\ WF_vars(To(p) \notin deaf /\ Listen(p))

FairSpec == Spec /\ Fairness

----------------------------------------------------------------------------
(* Every variable holds a value of its type. *)
TypeOK ==
    /\ phase \in [Nodes -> {"down", "listening", "ready"}]
    /\ deaf \subseteq Nodes
    /\ composed \subseteq Messages /\ tagged \subseteq Messages
    /\ pending \subseteq Messages /\ listed \subseteq Messages
    /\ acked \in [Messages -> SUBSET Nodes]
    /\ shown \in [Messages -> [Nodes -> Nat]]
    /\ outgoing \in [Packets -> Nat]
    /\ inFlight \in [Packets -> Nat]
    /\ incoming \in [Packets -> Nat]
    /\ handling \in [Nodes -> Packets \cup {NoPacket}]
    /\ decoded \in [Messages -> SUBSET Nodes]
    /\ unobserved \in [Messages -> SUBSET Nodes]
    /\ crashed \subseteq Nodes
    /\ losses \in 0 .. MaxLosses /\ dups \in 0 .. MaxDups /\ crashes \in 0 .. MaxCrashes

InTransit(p) == outgoing[p] > 0 \/ inFlight[p] > 0 \/ incoming[p] > 0

(* app.rs:168 logs an "unknown delivery": an ACK never meets a model that   *)
(* does not list its message and recipient, unless the node that wrote the  *)
(* message has stopped since.  manage_send lists a message before the first *)
(* copy leaves, so no network is fast enough.                               *)
AcksFindTheirMessage ==
    \A p \in Packets : p.kind = "ack" /\ InTransit(p) =>
        \/ Origin[p.msg] \in crashed
        \/ p.msg \in listed /\ p.peer \in Recipients(Origin[p.msg])

(* The "ack" shown for a recipient is never a promise it did not make: that *)
(* recipient has decoded the message.                                       *)
AckedMeansDecoded ==
    \A m \in Messages : acked[m] \subseteq decoded[m]

(* The ACK leaves before the message is handed to the model                 *)
(* (socket.rs:246-247).  An acknowledged message is nevertheless displayed, *)
(* or about to be, but for two cases: the recipient stopped, or it decoded  *)
(* the message while main had not added the observer yet.                   *)
Accounted(m, n) ==
    \/ shown[m][n] > 0 \/ handling[n] = Chat(m, n)
    \/ n \in crashed \/ n \in unobserved[m]

AckedMeansShown ==
    \A m \in Messages : \A n \in acked[m] : Accounted(m, n)

(* The inductive invariant behind the three properties above: where every   *)
(* packet comes from, and what its presence says of both ends.              *)
Genuine(m, n) ==
    /\ m \in composed /\ n \in Recipients(Origin[m])
    /\ m \in listed \/ Origin[m] \in crashed

TransitOK(p) ==
    InTransit(p) =>
        /\ Genuine(p.msg, p.peer)
        /\ p.kind = "ack" => p.peer \in decoded[p.msg] /\ Accounted(p.msg, p.peer)

HandlingOK(n) ==
    handling[n] # NoPacket =>
        \E m \in Messages :
            /\ handling[n] = Chat(m, n) /\ Genuine(m, n) /\ n \in decoded[m]
            /\ phase[n] = "ready" \/ n \in unobserved[m]

AckedOK(m) == \A n \in acked[m] : n \in decoded[m] /\ Accounted(m, n)

MeshInv ==
    /\ pending \subseteq composed
    /\ \A p \in Packets : TransitOK(p)
    /\ \A n \in Nodes : HandlingOK(n)
    /\ \A m \in Messages : AckedOK(m)

(* Whom a message is for. *)
Audience == [m \in Messages |-> Peers[Origin[m]] \ {Origin[m]}]

(* There is no check for duplicates: a message is displayed once per packet *)
(* that reached the node, never more.  The sender never displays a copy     *)
(* (mesh_integration.rs:149 "The sender must not receive its own            *)
(* broadcast").                                                             *)
CopiesShown ==
    \A m \in Messages, n \in Nodes :
        shown[m][n] <= IF n \in Audience[m] THEN 1 + dups ELSE 0

(* The mesh implements the promise of Delivery. *)
Promise == INSTANCE Delivery WITH
    written <- composed, delivered <- decoded, confirmed <- acked

ImplementsDelivery == Promise!Spec

(* As long as nothing was lost and no node and no listener stopped. *)
Undisturbed == losses = 0 /\ crashes = 0

(* No message waits to be sent, no packet is under way, no task is at work. *)
Quiet ==
    /\ pending = {}
    /\ \A p \in Packets : ~ InTransit(p)
    /\ \A n \in Nodes : handling[n] = NoPacket

(* An ACK is due from n: it can be addressed and the text does not start    *)
(* with "[ACK]".                                                            *)
AckDue(m, n) == Origin[m] \in Answers[n] /\ m \notin tagged

(* What the mesh owes the user once it has come to rest undisturbed: every  *)
(* recipient of a message has decoded it, its ACK is on the sender's screen *)
(* if one is due, and it is displayed, once if the network made no          *)
(* duplicate, unless it was taken in before main had added the observer.    *)
(* The liveness properties below say that the mesh gets there.              *)
QuietMeansDone ==
    Undisturbed /\ Quiet =>
        \A m \in composed : \A n \in Recipients(Origin[m]) :
            /\ n \in decoded[m]
            /\ AckDue(m, n) => n \in acked[m]
            /\ n \notin unobserved[m] =>
                  shown[m][n] > 0 /\ (dups = 0 => shown[m][n] = 1)

(* On a network that loses nothing, among nodes that do not stop, whoever   *)
(* wrote a message sees the ACK due from each recipient that is started.    *)
EventuallyAcked ==
    \A m \in Messages : \A n \in Recipients(Origin[m]) :
        (m \in composed /\ phase[n] # "down" /\ AckDue(m, n))
            ~> (n \in acked[m] \/ ~ Undisturbed)

(* There, each recipient that is started displays the message, unless it    *)
(* took it in before main had added the observer: then it acknowledged a    *)
(* message it will never show.                                              *)
EventuallyShown ==
    \A m \in Messages : \A n \in Recipients(Origin[m]) :
        (m \in composed /\ phase[n] # "down")
            ~> (shown[m][n] > 0 \/ n \in unobserved[m] \/ ~ Undisturbed)
=============================================================================
