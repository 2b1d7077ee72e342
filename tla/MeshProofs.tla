----------------------------- MODULE MeshProofs -----------------------------
(* TLAPS proofs about Mesh, for any nodes, peer lists and messages, and any   *)
(* number of lost and duplicated packets and of restarts.                     *)
EXTENDS Mesh, TLAPS

----------------------------------------------------------------------------
(* Packets and bags of packets *)
LEMMA PacketParts ==
    ASSUME NEW p \in Packets
    PROVE  /\ p.kind \in {"chat", "ack"} /\ p.msg \in Messages /\ p.peer \in Nodes
           /\ p.kind = "chat" => p = Chat(p.msg, p.peer)
           /\ p.kind = "ack" => p = Ack(p.msg, p.peer)
           /\ From(p) \in Nodes /\ To(p) \in Nodes /\ Origin[p.msg] \in Nodes
BY OriginAssumption DEF Packets, Chat, Ack, From, To

LEMMA ChatAndAck ==
    ASSUME NEW m \in Messages, NEW n \in Nodes
    PROVE  /\ Chat(m, n) \in Packets /\ Chat(m, n).kind = "chat"
           /\ Chat(m, n).msg = m /\ Chat(m, n).peer = n
           /\ Ack(m, n) \in Packets /\ Ack(m, n).kind = "ack"
           /\ Ack(m, n).msg = m /\ Ack(m, n).peer = n
BY DEF Packets, Chat, Ack

LEMMA PlusMinus ==
    ASSUME NEW bag \in [Packets -> Nat], NEW p \in Packets
    PROVE  /\ Plus(bag, p) \in [Packets -> Nat]
           /\ \A q \in Packets : Plus(bag, p)[q] = IF q = p THEN bag[q] + 1 ELSE bag[q]
           /\ bag[p] > 0 => Minus(bag, p) \in [Packets -> Nat]
           /\ \A q \in Packets : Minus(bag, p)[q] = IF q = p THEN bag[q] - 1 ELSE bag[q]
BY DEF Plus, Minus

----------------------------------------------------------------------------
(* Every variable keeps its type: no bag of packets is ever overdrawn. *)
THEOREM TypeCorrect == Spec => []TypeOK
<1>1. Init => TypeOK
  BY BoundsAssumption DEF Init, TypeOK
<1>2. TypeOK /\ [Next]_vars => TypeOK'
  <2>1. SUFFICES ASSUME TypeOK, [Next]_vars PROVE TypeOK'
    OBVIOUS
  <2> USE DEF TypeOK, nodeVars, packetVars, historyVars, budgetVars
  <2>2. ASSUME NEW n \in Nodes, InitController(n) PROVE TypeOK'
    BY <2>1, <2>2 DEF InitController
  <2>3. ASSUME NEW n \in Nodes, AddObserver(n) PROVE TypeOK'
    BY <2>1, <2>3 DEF AddObserver
  <2>4. ASSUME NEW n \in Nodes, NotifyObservers(n) PROVE TypeOK'
    <3>1. handling[n] \in Packets
      BY <2>1, <2>4 DEF NotifyObservers
    <3>2. handling[n].msg \in Messages
      BY <3>1, PacketParts
    <3>3. shown' \in [Messages -> [Nodes -> Nat]]
      BY <2>1, <2>4, <3>2 DEF NotifyObservers
    <3>4. handling' \in [Nodes -> Packets \cup {NoPacket}]
      BY <2>1, <2>4 DEF NotifyObservers
    <3>5. QED
      BY <2>1, <2>4, <3>3, <3>4 DEF NotifyObservers
  <2>5. ASSUME NEW m \in Messages, Compose(m) PROVE TypeOK'
    BY <2>1, <2>5 DEF Compose
  <2>6. ASSUME NEW m \in Messages, ManageSend(m) PROVE TypeOK'
    BY <2>1, <2>6 DEF ManageSend
  <2>7. ASSUME NEW p \in Packets, Transmit(p) PROVE TypeOK'
    BY <2>1, <2>7, PlusMinus DEF Transmit
  <2>8. ASSUME NEW p \in Packets, Listen(p) PROVE TypeOK'
    BY <2>1, <2>8, PlusMinus DEF Listen
  <2>9. ASSUME NEW p \in Packets, DecodeAndAck(p) PROVE TypeOK'
    <3>1. To(p) \in Nodes /\ p.msg \in Messages /\ Ack(p.msg, To(p)) \in Packets
      BY PacketParts, ChatAndAck
    <3>2. incoming' \in [Packets -> Nat] /\ outgoing' \in [Packets -> Nat]
      <4>1. incoming' \in [Packets -> Nat]
        BY <2>1, <2>9, PlusMinus DEF DecodeAndAck
      <4>2. outgoing' = outgoing \/ outgoing' = Plus(outgoing, Ack(p.msg, To(p)))
        BY <2>9 DEF DecodeAndAck
      <4>3. Plus(outgoing, Ack(p.msg, To(p))) \in [Packets -> Nat]
        BY <2>1, <3>1, PlusMinus
      <4>4. QED
        BY <2>1, <4>1, <4>2, <4>3
    <3>3. handling' \in [Nodes -> Packets \cup {NoPacket}]
      BY <2>1, <2>9, <3>1 DEF DecodeAndAck
    <3>4. decoded' \in [Messages -> SUBSET Nodes] /\ unobserved' \in [Messages -> SUBSET Nodes]
      BY <2>1, <2>9, <3>1 DEF DecodeAndAck
    <3>5. QED
      BY <2>1, <2>9, <3>2, <3>3, <3>4 DEF DecodeAndAck
  <2>10. ASSUME NEW p \in Packets, HandleAck(p) PROVE TypeOK'
    <3>1. acked' \in [Messages -> SUBSET Nodes]
      BY <2>1, <2>10, PacketParts DEF HandleAck
    <3>2. QED
      BY <2>1, <2>10, <3>1, PlusMinus DEF HandleAck
  <2>11. ASSUME NEW p \in Packets, SendFails(p) PROVE TypeOK'
    <3>1. outgoing' \in [Packets -> Nat]
      BY <2>1, <2>11, PlusMinus DEF SendFails
    <3>2. losses' \in 0 .. MaxLosses
      BY <2>1, <2>11, BoundsAssumption DEF SendFails
    <3>3. QED
      BY <2>1, <2>11, <3>1, <3>2 DEF SendFails
  <2>12. ASSUME NEW p \in Packets, Lose(p) PROVE TypeOK'
    <3>1. inFlight' \in [Packets -> Nat]
      BY <2>1, <2>12, PlusMinus DEF Lose
    <3>2. losses' \in 0 .. MaxLosses
      BY <2>1, <2>12, BoundsAssumption DEF Lose
    <3>3. QED
      BY <2>1, <2>12, <3>1, <3>2 DEF Lose
  <2>13. ASSUME NEW p \in Packets, Duplicate(p) PROVE TypeOK'
    <3>1. inFlight' \in [Packets -> Nat]
      BY <2>1, <2>13, PlusMinus DEF Duplicate
    <3>2. dups' \in 0 .. MaxDups
      BY <2>1, <2>13, BoundsAssumption DEF Duplicate
    <3>3. QED
      BY <2>1, <2>13, <3>1, <3>2 DEF Duplicate
  <2>14. ASSUME NEW n \in Nodes, Crash(n) PROVE TypeOK'
    <3>1. /\ acked' \in [Messages -> SUBSET Nodes]
          /\ shown' \in [Messages -> [Nodes -> Nat]]
      BY <2>1, <2>14 DEF Crash
    <3>2. outgoing' \in [Packets -> Nat] /\ incoming' \in [Packets -> Nat]
      BY <2>1, <2>14 DEF Crash
    <3>3. crashes' \in 0 .. MaxCrashes
      BY <2>1, <2>14, BoundsAssumption DEF Crash
    <3>4. QED
      BY <2>1, <2>14, <3>1, <3>2, <3>3 DEF Crash
  <2>15. ASSUME NEW n \in Nodes, ListenerEnds(n) PROVE TypeOK'
    <3>1. crashes' \in 0 .. MaxCrashes
      BY <2>1, <2>15, BoundsAssumption DEF ListenerEnds
    <3>2. QED
      BY <2>1, <2>15, <3>1 DEF ListenerEnds
  <2>16. CASE UNCHANGED vars
    BY <2>1, <2>16 DEF vars
  <2>17. QED
    BY <2>1, <2>2, <2>3, <2>4, <2>5, <2>6, <2>7, <2>8, <2>9, <2>10, <2>11, <2>12,
       <2>13, <2>14, <2>15, <2>16 DEF Next, NodeNext, FaultNext
<1>3. QED
  BY <1>1, <1>2, PTL DEF Spec

----------------------------------------------------------------------------
(* A packet in transit after a step was in transit before it, but for the     *)
(* copies manage_send makes and the ACK a decoded message gives rise to.      *)
LEMMA MovedPackets ==
    ASSUME TypeOK, NEW p \in Packets, NEW q \in Packets,
           Transmit(p) \/ Listen(p) \/ SendFails(p) \/ Lose(p) \/ Duplicate(p) \/ HandleAck(p),
           InTransit(q)'
    PROVE  InTransit(q)
<1>1. /\ outgoing \in [Packets -> Nat] /\ inFlight \in [Packets -> Nat]
      /\ incoming \in [Packets -> Nat]
  BY DEF TypeOK
<1>2. CASE Transmit(p)
  BY <1>1, <1>2, PlusMinus DEF Transmit, InTransit
<1>3. CASE Listen(p)
  BY <1>1, <1>3, PlusMinus DEF Listen, InTransit
<1>4. CASE SendFails(p)
  BY <1>1, <1>4, PlusMinus DEF SendFails, InTransit
<1>5. CASE Lose(p)
  BY <1>1, <1>5, PlusMinus DEF Lose, InTransit
<1>6. CASE Duplicate(p)
  BY <1>1, <1>6, PlusMinus DEF Duplicate, InTransit
<1>7. CASE HandleAck(p)
  BY <1>1, <1>7, PlusMinus DEF HandleAck, InTransit
<1>8. QED
  BY <1>2, <1>3, <1>4, <1>5, <1>6, <1>7

(* A message its task hands to the observers is displayed, or was taken in    *)
(* before there were any.                                                     *)
LEMMA NotifiedIsAccounted ==
    ASSUME TypeOK, MeshInv, NEW n \in Nodes, NotifyObservers(n),
           NEW k \in Messages, NEW j \in Nodes, Accounted(k, j)
    PROVE  Accounted(k, j)'
<1>1. PICK m \in Messages : /\ handling[n] = Chat(m, n) /\ handling[n].msg = m
                            /\ phase[n] = "ready" \/ n \in unobserved[m]
  BY ChatAndAck DEF NotifyObservers, MeshInv, HandlingOK
<1>2. /\ handling' = [handling EXCEPT ![n] = NoPacket]
      /\ shown' = IF phase[n] = "ready" THEN [shown EXCEPT ![m][n] = @ + 1] ELSE shown
      /\ UNCHANGED <<unobserved, crashed>>
  BY <1>1 DEF NotifyObservers, historyVars
<1>3. shown[k][j] > 0 => shown'[k][j] > 0
  BY <1>2 DEF TypeOK
<1>4. CASE handling[j] = Chat(k, j) /\ j = n
  <2>1. k = m
    BY <1>1, <1>4, ChatAndAck
  <2>2. phase[n] = "ready" => shown'[m][n] > 0
    BY <1>2 DEF TypeOK
  <2>3. QED
    BY <1>1, <1>2, <1>4, <2>1, <2>2 DEF Accounted
<1>5. CASE handling[j] = Chat(k, j) /\ j # n
  BY <1>2, <1>5 DEF Accounted, TypeOK
<1>6. QED
  BY <1>2, <1>3, <1>4, <1>5 DEF Accounted

(* The inductive invariant: every packet in transit is genuine, and every ACK *)
(* accounted for by what its sender shows or is about to show.                *)
LEMMA MeshInvInductive == TypeOK /\ MeshInv /\ [Next]_vars => MeshInv'
<1>1. SUFFICES ASSUME TypeOK, MeshInv, [Next]_vars PROVE MeshInv'
  OBVIOUS
<1> USE DEF nodeVars, packetVars, historyVars, budgetVars
(* Most steps keep what is known of a message at a node, and add no packet.   *)
<1>2. ASSUME \A m \in Messages, n \in Nodes : Genuine(m, n) => Genuine(m, n)',
             \A m \in Messages, n \in Nodes : Accounted(m, n) => Accounted(m, n)',
             \A m \in Messages : decoded[m] \subseteq decoded'[m],
             NEW q \in Packets, InTransit(q)' => InTransit(q)
      PROVE  TransitOK(q)'
  BY <1>1, <1>2, PacketParts DEF MeshInv, TransitOK
<1>3. ASSUME \A m \in Messages, n \in Nodes : Accounted(m, n) => Accounted(m, n)',
             \A m \in Messages : decoded[m] \subseteq decoded'[m],
             NEW m \in Messages, acked'[m] \subseteq acked[m]
      PROVE  AckedOK(m)'
  BY <1>1, <1>3 DEF MeshInv, AckedOK, TypeOK
<1>4. ASSUME \A m \in Messages, n \in Nodes : Genuine(m, n) => Genuine(m, n)',
             \A m \in Messages : decoded[m] \subseteq decoded'[m],
             \A m \in Messages : unobserved[m] \subseteq unobserved'[m],
             NEW n \in Nodes, handling'[n] # NoPacket => handling'[n] = handling[n],
             handling'[n] # NoPacket /\ phase[n] = "ready" => phase'[n] = "ready"
      PROVE  HandlingOK(n)'
  BY <1>1, <1>4 DEF MeshInv, HandlingOK
<1>5. CASE \/ UNCHANGED vars
           \/ \E n \in Nodes : InitController(n) \/ AddObserver(n) \/ ListenerEnds(n)
           \/ \E m \in Messages : Compose(m)
           \/ \E p \in Packets : \/ Transmit(p) \/ Listen(p) \/ SendFails(p)
                                \/ Lose(p) \/ Duplicate(p)
  <2>1. /\ UNCHANGED <<listed, acked, shown, handling, decoded, unobserved, crashed>>
        /\ composed \subseteq composed' /\ pending' \subseteq composed'
    BY <1>1, <1>5 DEF vars, InitController, AddObserver, ListenerEnds, Compose, Transmit, Listen,
                      SendFails, Lose, Duplicate, MeshInv
  <2>2. \A n \in Nodes : phase[n] = "ready" => phase'[n] = "ready"
    BY <1>1, <1>5 DEF vars, InitController, AddObserver, ListenerEnds, Compose, Transmit, Listen,
                      SendFails, Lose, Duplicate, TypeOK
  <2>3. \A q \in Packets : InTransit(q)' => InTransit(q)
    <3>1. CASE UNCHANGED <<outgoing, inFlight, incoming>>
      BY <3>1 DEF InTransit
    <3>2. CASE \E p \in Packets : \/ Transmit(p) \/ Listen(p) \/ SendFails(p)
                                 \/ Lose(p) \/ Duplicate(p)
      BY <1>1, <3>2, MovedPackets
    <3>3. QED
      BY <1>5, <3>1, <3>2 DEF vars, InitController, AddObserver, ListenerEnds, Compose
  <2>4. /\ \A m \in Messages, n \in Nodes : Genuine(m, n) => Genuine(m, n)'
        /\ \A m \in Messages, n \in Nodes : Accounted(m, n) => Accounted(m, n)'
    BY <2>1 DEF Genuine, Accounted
  <2>5. QED
    BY <1>2, <1>3, <1>4, <2>1, <2>2, <2>3, <2>4 DEF MeshInv
<1>6. ASSUME NEW m \in Messages, ManageSend(m) PROVE MeshInv'
  <2>1. ASSUME NEW q \in Packets, InTransit(q)'
        PROVE  InTransit(q) \/ (q.kind = "chat" /\ q.msg = m /\ q.peer \in Recipients(Origin[m]))
    BY <1>1, <1>6, <2>1 DEF ManageSend, InTransit, TypeOK
  <2>2. /\ m \in composed' /\ m \in listed' /\ pending' \subseteq composed'
        /\ listed \subseteq listed'
        /\ UNCHANGED <<phase, composed, acked, shown, handling, decoded, unobserved, crashed>>
    BY <1>1, <1>6 DEF ManageSend, MeshInv
  <2>3. /\ \A k \in Messages, n \in Nodes : Genuine(k, n) => Genuine(k, n)'
        /\ \A k \in Messages, n \in Nodes : Accounted(k, n) => Accounted(k, n)'
    BY <2>2 DEF Genuine, Accounted
  <2>4. ASSUME NEW q \in Packets PROVE TransitOK(q)'
    <3>1. CASE InTransit(q)' => InTransit(q)
      BY <1>2, <2>2, <2>3, <3>1
    <3>2. CASE q.kind = "chat" /\ q.msg = m /\ q.peer \in Recipients(Origin[m])
      BY <2>2, <3>2 DEF TransitOK, Genuine
    <3>3. QED
      BY <2>1, <3>1, <3>2
  <2>5. QED
    BY <1>3, <1>4, <2>2, <2>3, <2>4 DEF MeshInv
<1>7. ASSUME NEW p \in Packets, HandleAck(p) PROVE MeshInv'
  <2>1. \A q \in Packets : InTransit(q)' => InTransit(q)
    BY <1>1, <1>7, MovedPackets
  <2>2. /\ UNCHANGED <<phase, composed, pending, listed, shown, handling, decoded,
                        unobserved, crashed>>
        /\ pending' \subseteq composed'
    BY <1>1, <1>7 DEF HandleAck, MeshInv
  <2>3. /\ \A m \in Messages, n \in Nodes : Genuine(m, n) => Genuine(m, n)'
        /\ \A m \in Messages, n \in Nodes : Accounted(m, n) <=> Accounted(m, n)'
    BY <2>2 DEF Genuine, Accounted
  <2>4. p.peer \in decoded[p.msg] /\ Accounted(p.msg, p.peer)
    BY <1>1, <1>7 DEF HandleAck, InTransit, MeshInv, TransitOK
  <2>5. ASSUME NEW m \in Messages PROVE AckedOK(m)'
    <3>1. ASSUME NEW n \in acked'[m] PROVE n \in decoded[m] /\ Accounted(m, n)
      <4>1. n \in acked[m] \/ (m = p.msg /\ n = p.peer)
        BY <1>1, <1>7, <3>1 DEF HandleAck, TypeOK
      <4>2. QED
        BY <1>1, <2>4, <4>1 DEF MeshInv, AckedOK
    <3>2. \A n \in acked'[m] : n \in Nodes
      BY <1>1, <1>7, PacketParts DEF HandleAck, TypeOK
    <3>3. QED
      BY <2>2, <2>3, <3>1, <3>2 DEF AckedOK
  <2>6. QED
    BY <1>2, <1>4, <2>1, <2>2, <2>3, <2>5 DEF MeshInv
<1>8. ASSUME NEW p \in Packets, DecodeAndAck(p) PROVE MeshInv'
  <2>1. /\ p = Chat(p.msg, p.peer) /\ To(p) = p.peer /\ p.peer \in Nodes /\ p.msg \in Messages
        /\ Ack(p.msg, p.peer) \in Packets /\ p # NoPacket
    BY <1>8, PacketParts, ChatAndAck, NoPacketAssumption DEF DecodeAndAck, To
  <2>2. InTransit(p) /\ Genuine(p.msg, p.peer)
    BY <1>1, <1>8 DEF DecodeAndAck, InTransit, TypeOK, MeshInv, TransitOK
  <2>3. /\ handling' = [handling EXCEPT ![p.peer] = p]
        /\ handling[p.peer] = NoPacket /\ handling'[p.peer] = p
        /\ p.peer \in decoded'[p.msg]
        /\ phase[p.peer] = "ready" \/ p.peer \in unobserved'[p.msg]
        /\ \A m \in Messages : decoded[m] \subseteq decoded'[m]
        /\ \A m \in Messages : unobserved[m] \subseteq unobserved'[m]
        /\ UNCHANGED <<nodeVars, crashed>>
    BY <1>1, <1>8, <2>1 DEF DecodeAndAck, TypeOK
  <2>4. ASSUME NEW q \in Packets, InTransit(q)'
        PROVE  InTransit(q) \/ q = Ack(p.msg, p.peer)
    <3>1. incoming'[q] > 0 => incoming[q] > 0
      BY <1>1, <1>8, PlusMinus DEF DecodeAndAck, TypeOK
    <3>2. outgoing'[q] > 0 => outgoing[q] > 0 \/ q = Ack(p.msg, p.peer)
      <4>1. \/ outgoing' = outgoing
            \/ outgoing' = Plus(outgoing, Ack(p.msg, p.peer))
        BY <1>8, <2>1 DEF DecodeAndAck
      <4>2. outgoing \in [Packets -> Nat]
        BY <1>1 DEF TypeOK
      <4>3. QED
        BY <2>1, <4>1, <4>2, PlusMinus
    <3>3. inFlight' = inFlight
      BY <1>8 DEF DecodeAndAck
    <3>4. QED
      BY <2>4, <3>1, <3>2, <3>3 DEF InTransit
  <2>5. \A m \in Messages, n \in Nodes : Genuine(m, n) => Genuine(m, n)'
    BY <2>3 DEF Genuine
  <2>6. \A m \in Messages, n \in Nodes : Accounted(m, n) => Accounted(m, n)'
    <3>1. \A m \in Messages, n \in Nodes : Chat(m, n) # NoPacket
      BY ChatAndAck, NoPacketAssumption
    <3>2. QED
      BY <1>1, <2>1, <2>3, <3>1 DEF Accounted, TypeOK
  <2>7. Accounted(p.msg, p.peer)'
    BY <2>1, <2>3 DEF Accounted
  <2>8. ASSUME NEW q \in Packets PROVE TransitOK(q)'
    <3>1. CASE InTransit(q)' => InTransit(q)
      BY <1>2, <2>3, <2>5, <2>6, <3>1
    <3>2. CASE q = Ack(p.msg, p.peer)
      <4>1. q.msg = p.msg /\ q.peer = p.peer
        BY <3>2 DEF Ack
      <4>2. Genuine(p.msg, p.peer)'
        BY <2>1, <2>2, <2>5
      <4>3. QED
        BY <2>3, <2>7, <4>1, <4>2 DEF TransitOK
    <3>3. QED
      BY <2>4, <3>1, <3>2
  <2>9. ASSUME NEW n \in Nodes PROVE HandlingOK(n)'
    <3>1. CASE n = p.peer
      <4>1. Genuine(p.msg, n)'
        BY <2>1, <2>2, <2>5, <3>1
      <4>2. QED
        BY <2>1, <2>3, <3>1, <4>1 DEF HandlingOK
    <3>2. CASE n # p.peer
      <4>1. handling'[n] = handling[n] /\ phase' = phase
        BY <1>1, <2>3, <3>2 DEF TypeOK
      <4>2. QED
        BY <1>4, <2>3, <2>5, <4>1
    <3>3. QED
      BY <3>1, <3>2
  <2>10. /\ pending' \subseteq composed'
         /\ \A m \in Messages : acked'[m] \subseteq acked[m]
    BY <1>1, <2>3 DEF MeshInv
  <2>11. QED
    BY <1>3, <2>3, <2>6, <2>8, <2>9, <2>10 DEF MeshInv
<1>9. ASSUME NEW n \in Nodes, NotifyObservers(n) PROVE MeshInv'
  <2>1. PICK m \in Messages : /\ handling[n] = Chat(m, n) /\ handling[n].msg = m
                              /\ phase[n] = "ready" \/ n \in unobserved[m]
    BY <1>1, <1>9, ChatAndAck DEF NotifyObservers, MeshInv, HandlingOK
  <2>2. /\ handling' = [handling EXCEPT ![n] = NoPacket]
        /\ shown' = IF phase[n] = "ready" THEN [shown EXCEPT ![m][n] = @ + 1] ELSE shown
        /\ UNCHANGED <<phase, composed, pending, listed, acked, outgoing, inFlight, incoming,
                       historyVars>>
    BY <1>9, <2>1 DEF NotifyObservers
  <2>3. \A k \in Nodes : handling'[k] # NoPacket => handling'[k] = handling[k]
    BY <1>1, <2>2 DEF TypeOK
  <2>4. \A k \in Messages, j \in Nodes : Accounted(k, j) => Accounted(k, j)'
    BY <1>1, <1>9, NotifiedIsAccounted
  <2>5. /\ \A q \in Packets : InTransit(q)' => InTransit(q)
        /\ \A k \in Messages, j \in Nodes : Genuine(k, j) => Genuine(k, j)'
        /\ pending' \subseteq composed'
    BY <1>1, <2>2 DEF InTransit, Genuine, MeshInv
  <2>6. QED
    BY <1>2, <1>3, <1>4, <2>2, <2>3, <2>4, <2>5 DEF MeshInv
<1>10. ASSUME NEW n \in Nodes, Crash(n) PROVE MeshInv'
  <2>1. \A q \in Packets : InTransit(q)' => InTransit(q)
    BY <1>1, <1>10 DEF Crash, InTransit, TypeOK
  <2>2. \A m \in Messages, k \in Nodes : Genuine(m, k) => Genuine(m, k)'
    BY <1>10 DEF Crash, Genuine
  <2>3. \A m \in Messages, k \in Nodes : Accounted(m, k) => Accounted(m, k)'
    BY <1>1, <1>10 DEF Crash, Accounted, TypeOK
  <2>4. /\ pending' \subseteq composed' /\ UNCHANGED <<decoded, unobserved>>
        /\ \A m \in Messages : acked'[m] \subseteq acked[m]
        /\ \A k \in Nodes : handling'[k] # NoPacket =>
              handling'[k] = handling[k] /\ phase'[k] = phase[k]
    BY <1>1, <1>10 DEF Crash, MeshInv, TypeOK
  <2>5. QED
    BY <1>2, <1>3, <1>4, <2>1, <2>2, <2>3, <2>4 DEF MeshInv
<1>11. QED
  BY <1>1, <1>5, <1>6, <1>7, <1>8, <1>9, <1>10 DEF Next, NodeNext, FaultNext

(* Every packet stems from a listed message and every ACK from a node that    *)
(* decoded it, wherever they are: the inductive invariant of the node.        *)
THEOREM MeshInvariant == Spec => []MeshInv
<1>1. Init => MeshInv
  BY DEF Init, MeshInv, TransitOK, InTransit, HandlingOK, AckedOK
<1>2. QED
  BY <1>1, MeshInvInductive, TypeCorrect, PTL DEF Spec

----------------------------------------------------------------------------
(* An ACK never meets a model that does not know its message, unless the node *)
(* that wrote the message has stopped in the meantime.                        *)
THEOREM NoUnknownDelivery == Spec => []AcksFindTheirMessage
<1>1. MeshInv => AcksFindTheirMessage
  BY DEF MeshInv, TransitOK, Genuine, AcksFindTheirMessage
<1>2. QED
  BY <1>1, MeshInvariant, PTL

(* No recipient is shown as having acknowledged a message it never decoded.   *)
THEOREM NoPhantomAck == Spec => []AckedMeansDecoded
<1>1. MeshInv => AckedMeansDecoded
  BY DEF MeshInv, AckedOK, AckedMeansDecoded
<1>2. QED
  BY <1>1, MeshInvariant, PTL

(* What is acknowledged is displayed, but for a restart of the recipient or   *)
(* its start-up window without observer.                                      *)
THEOREM AcknowledgedIsDisplayed == Spec => []AckedMeansShown
<1>1. MeshInv => AckedMeansShown
  BY DEF MeshInv, AckedOK, AckedMeansShown
<1>2. QED
  BY <1>1, MeshInvariant, PTL

----------------------------------------------------------------------------
(* Every step of the mesh is a step of Delivery or leaves it unchanged.       *)
LEMMA StepIsPromised == TypeOK /\ MeshInv /\ [Next]_vars => [Promise!Next]_Promise!vars
<1>1. SUFFICES ASSUME TypeOK, MeshInv, [Next]_vars
               PROVE  Promise!Next \/ UNCHANGED <<composed, decoded, acked>>
  BY DEF Promise!vars
<1> USE DEF nodeVars, packetVars, historyVars, budgetVars
<1>2. ASSUME NEW m \in Messages, Compose(m) PROVE Promise!Next
  BY <1>2 DEF Compose, Promise!Next, Promise!Write
<1>3. ASSUME NEW p \in Packets, DecodeAndAck(p) PROVE Promise!Next
  <2>1. /\ p.msg \in Messages /\ p.peer \in Nodes /\ To(p) = p.peer /\ InTransit(p)
    BY <1>1, <1>3, PacketParts DEF DecodeAndAck, To, InTransit, TypeOK
  <2>2. p.msg \in composed /\ p.peer \in Recipients(Origin[p.msg])
    BY <1>1, <2>1 DEF MeshInv, TransitOK, Genuine
  <2>3. Promise!Deliver(p.msg, p.peer)
    BY <1>3, <2>1, <2>2 DEF DecodeAndAck, Promise!Deliver, Audience, Recipients
  <2>4. QED
    BY <2>1, <2>3 DEF Promise!Next
<1>4. ASSUME NEW p \in Packets, HandleAck(p)
      PROVE  Promise!Next \/ UNCHANGED <<composed, decoded, acked>>
  <2>1. p.msg \in Messages /\ p.peer \in Nodes /\ p.peer \in decoded[p.msg]
    BY <1>1, <1>4, PacketParts DEF HandleAck, InTransit, MeshInv, TransitOK
  <2>2. CASE acked' = acked
    BY <1>4, <2>2 DEF HandleAck
  <2>3. CASE acked' = [acked EXCEPT ![p.msg] = @ \cup {p.peer}]
    <3>1. Promise!Confirm(p.msg, p.peer)
      BY <1>4, <2>1, <2>3 DEF HandleAck, Promise!Confirm
    <3>2. QED
      BY <2>1, <3>1 DEF Promise!Next
  <2>4. QED
    BY <1>4, <2>2, <2>3 DEF HandleAck
<1>5. ASSUME NEW n \in Nodes, Crash(n) PROVE Promise!Next
  <2>1. Promise!Restart(n)
    BY <1>5 DEF Crash, Promise!Restart
  <2>2. QED
    BY <2>1 DEF Promise!Next
<1>6. CASE \/ UNCHANGED vars
           \/ \E n \in Nodes : \/ InitController(n) \/ AddObserver(n)
                               \/ NotifyObservers(n) \/ ListenerEnds(n)
           \/ \E m \in Messages : ManageSend(m)
           \/ \E p \in Packets : \/ Transmit(p) \/ Listen(p) \/ SendFails(p)
                                \/ Lose(p) \/ Duplicate(p)
  BY <1>6 DEF vars, InitController, AddObserver, NotifyObservers, ListenerEnds, ManageSend,
              Transmit, Listen, SendFails, Lose, Duplicate
<1>7. QED
  BY <1>1, <1>2, <1>3, <1>4, <1>5, <1>6 DEF Next, NodeNext, FaultNext

(* The mesh implements its promise: a message reaches only its audience, an   *)
(* ACK is shown only for a delivered copy and forgotten only by a restart.    *)
THEOREM MeshImplementsDelivery == Spec => ImplementsDelivery
<1>1. Init => Promise!Init
  BY DEF Init, Promise!Init
<1>2. QED
  BY <1>1, StepIsPromised, TypeCorrect, MeshInvariant, PTL
     DEF Spec, ImplementsDelivery, Promise!Spec
----------------------------------------------------------------------------
(* The copies of a message meant for a node, from the send task to the list.  *)
Copies(m, n) ==
    outgoing[Chat(m, n)] + inFlight[Chat(m, n)] + incoming[Chat(m, n)]
        + (IF handling[n] = Chat(m, n) THEN 1 ELSE 0) + shown[m][n]

Allowed(m, n) == IF n \in Audience[m] /\ m \in composed \ pending THEN 1 + dups ELSE 0

CopiesInv == \A m \in Messages, n \in Nodes : Copies(m, n) <= Allowed(m, n)

LEMMA CopiesTypes ==
    ASSUME TypeOK, NEW m \in Messages, NEW n \in Nodes
    PROVE  /\ outgoing[Chat(m, n)] \in Nat /\ inFlight[Chat(m, n)] \in Nat
           /\ incoming[Chat(m, n)] \in Nat /\ shown[m][n] \in Nat
           /\ dups \in Nat /\ Copies(m, n) \in Nat /\ Allowed(m, n) \in Nat
<1>1. Chat(m, n) \in Packets
  BY ChatAndAck
<1>2. /\ outgoing[Chat(m, n)] \in Nat /\ inFlight[Chat(m, n)] \in Nat
      /\ incoming[Chat(m, n)] \in Nat /\ shown[m][n] \in Nat /\ dups \in Nat
  BY <1>1, BoundsAssumption DEF TypeOK
<1>3. QED
  BY <1>2 DEF Copies, Allowed

(* A packet that moves adds no copy, and two chat packets are the same only   *)
(* if they are the same message to the same node.                             *)
LEMMA CopiesMove ==
    ASSUME TypeOK, MeshInv, NEW m \in Messages, NEW n \in Nodes,
           \/ \E p \in Packets : \/ Transmit(p) \/ Listen(p) \/ SendFails(p) \/ Lose(p)
                                \/ HandleAck(p) \/ DecodeAndAck(p)
           \/ \E k \in Nodes : NotifyObservers(k) \/ Crash(k)
    PROVE  Copies(m, n)' <= Copies(m, n)
<1> DEFINE c == Chat(m, n)
<1>1. c \in Packets /\ c.kind = "chat" /\ c.msg = m /\ c.peer = n /\ To(c) = n
  BY ChatAndAck DEF To
<1>2. /\ outgoing \in [Packets -> Nat] /\ inFlight \in [Packets -> Nat]
      /\ incoming \in [Packets -> Nat] /\ shown[m][n] \in Nat
      /\ handling \in [Nodes -> Packets \cup {NoPacket}]
  BY DEF TypeOK
<1> DEFINE held == IF handling[n] = c THEN 1 ELSE 0
           total == outgoing[c] + inFlight[c] + incoming[c] + held + shown[m][n]
<1>3. Copies(m, n) = total /\ Copies(m, n)' = total'
  BY DEF Copies, Chat
<1> HIDE DEF c
<1>4. ASSUME NEW p \in Packets, Transmit(p) PROVE total' <= total
  <2> DEFINE step == IF c = p THEN 1 ELSE 0
  <2>1. outgoing'[c] = outgoing[c] - step /\ inFlight'[c] = inFlight[c] + step
    BY <1>1, <1>2, <1>4 DEF Transmit, Plus, Minus
  <2>2. UNCHANGED <<incoming, handling, shown>>
    BY <1>4 DEF Transmit, nodeVars
  <2>3. outgoing'[c] \in Nat /\ inFlight'[c] \in Nat
    BY <1>1, <1>2, <1>4, PlusMinus DEF Transmit
  <2>4. QED
    BY <1>1, <1>2, <2>1, <2>2, <2>3
<1>5. ASSUME NEW p \in Packets, Listen(p) PROVE total' <= total
  <2> DEFINE step == IF c = p THEN 1 ELSE 0
  <2>1. inFlight'[c] = inFlight[c] - step /\ incoming'[c] = incoming[c] + step
    BY <1>1, <1>2, <1>5 DEF Listen, Plus, Minus
  <2>2. UNCHANGED <<outgoing, handling, shown>>
    BY <1>5 DEF Listen, nodeVars
  <2>3. inFlight'[c] \in Nat /\ incoming'[c] \in Nat
    BY <1>1, <1>2, <1>5, PlusMinus DEF Listen
  <2>4. QED
    BY <1>1, <1>2, <2>1, <2>2, <2>3
<1>6. ASSUME NEW p \in Packets, SendFails(p) PROVE total' <= total
  <2>1. outgoing'[c] \in Nat /\ outgoing'[c] <= outgoing[c]
    BY <1>1, <1>2, <1>6 DEF SendFails, Minus
  <2>2. UNCHANGED <<inFlight, incoming, handling, shown>>
    BY <1>6 DEF SendFails, nodeVars
  <2>3. QED
    BY <1>1, <1>2, <2>1, <2>2
<1>7. ASSUME NEW p \in Packets, Lose(p) PROVE total' <= total
  <2>1. inFlight'[c] \in Nat /\ inFlight'[c] <= inFlight[c]
    BY <1>1, <1>2, <1>7, PlusMinus DEF Lose
  <2>2. UNCHANGED <<outgoing, incoming, handling, shown>>
    BY <1>7 DEF Lose, nodeVars
  <2>3. QED
    BY <1>1, <1>2, <2>1, <2>2
<1>8. ASSUME NEW p \in Packets, HandleAck(p) PROVE total' <= total
  <2>1. incoming'[c] = incoming[c]
    BY <1>1, <1>2, <1>8, PlusMinus DEF HandleAck
  <2>2. UNCHANGED <<outgoing, inFlight, handling, shown>>
    BY <1>8 DEF HandleAck
  <2>3. QED
    BY <1>1, <1>2, <2>1, <2>2
<1>9. ASSUME NEW p \in Packets, DecodeAndAck(p) PROVE total' <= total
  <2>1. To(p) \in Nodes /\ Ack(p.msg, To(p)) \in Packets /\ Ack(p.msg, To(p)) # c
    BY <1>1, PacketParts, ChatAndAck
  <2>2. outgoing'[c] = outgoing[c]
    BY <1>1, <1>2, <1>9, <2>1, PlusMinus DEF DecodeAndAck
  <2>3. UNCHANGED <<inFlight, shown>>
    BY <1>9 DEF DecodeAndAck, nodeVars
  <2>4. c # NoPacket
    BY <1>1, NoPacketAssumption
  <2>5. incoming'[c] + held' = incoming[c] + held /\ incoming'[c] \in Nat /\ held' \in Nat
    <3>1. CASE p = c
      BY <1>1, <1>2, <1>9, <2>4, <3>1, PlusMinus DEF DecodeAndAck
    <3>2. CASE p # c
      <4>1. incoming'[c] = incoming[c]
        BY <1>1, <1>2, <1>9, <3>2, PlusMinus DEF DecodeAndAck
      <4>2. handling[n] # c => handling'[n] # c
        BY <1>1, <1>2, <1>9, <2>1, <3>2 DEF DecodeAndAck
      <4>3. handling[n] = c => handling'[n] = c
        BY <1>1, <1>2, <1>9, <2>1, <2>4 DEF DecodeAndAck
      <4>4. QED
        BY <1>1, <1>2, <4>1, <4>2, <4>3
    <3>3. QED
      BY <3>1, <3>2
  <2>6. QED
    BY <1>1, <1>2, <2>2, <2>3, <2>5
<1>10. ASSUME NEW k \in Nodes, NotifyObservers(k) PROVE total' <= total
  <2>1. UNCHANGED <<outgoing, inFlight, incoming>>
    BY <1>10 DEF NotifyObservers
  <2>2. PICK j \in Messages : handling[k] = Chat(j, k)
    BY <1>10 DEF NotifyObservers, MeshInv, HandlingOK
  <2>3. handling[k].msg = j
    BY <2>2, ChatAndAck
  <2>4. c # NoPacket /\ handling'[k] = NoPacket
    BY <1>1, <1>2, <1>10, NoPacketAssumption DEF NotifyObservers
  <2>5. held' + shown'[m][n] <= held + shown[m][n] /\ shown'[m][n] \in Nat /\ held' \in Nat
    <3>1. CASE k = n /\ j = m
      <4>1. held = 1 /\ held' = 0
        BY <2>2, <2>4, <3>1 DEF c
      <4>2. shown'[m][n] = shown[m][n] \/ shown'[m][n] = shown[m][n] + 1
        BY <1>10, <2>3, <3>1 DEF NotifyObservers, TypeOK
      <4>3. QED
        BY <1>2, <4>1, <4>2
    <3>2. CASE ~ (k = n /\ j = m)
      <4>1. shown'[m][n] = shown[m][n]
        BY <1>10, <2>3, <3>2 DEF NotifyObservers, TypeOK
      <4>2. handling[n] # c => handling'[n] # c
        BY <1>2, <1>10, <2>4 DEF NotifyObservers
      <4>3. QED
        BY <1>2, <4>1, <4>2
    <3>3. QED
      BY <3>1, <3>2
  <2>6. QED
    BY <1>1, <1>2, <2>1, <2>5
<1>11. ASSUME NEW k \in Nodes, Crash(k) PROVE total' <= total
  <2>1. /\ outgoing'[c] \in Nat /\ outgoing'[c] <= outgoing[c]
        /\ incoming'[c] \in Nat /\ incoming'[c] <= incoming[c]
    BY <1>1, <1>2, <1>11 DEF Crash
  <2>2. shown'[m][n] \in Nat /\ shown'[m][n] <= shown[m][n] /\ inFlight' = inFlight
    BY <1>2, <1>11 DEF Crash, TypeOK
  <2>3. handling[n] # c => handling'[n] # c
    BY <1>1, <1>2, <1>11, NoPacketAssumption DEF Crash
  <2>4. QED
    BY <1>1, <1>2, <2>1, <2>2, <2>3
<1>12. QED
  BY <1>3, <1>4, <1>5, <1>6, <1>7, <1>8, <1>9, <1>10, <1>11

LEMMA CopiesStep == TypeOK /\ TypeOK' /\ MeshInv /\ CopiesInv /\ [Next]_vars => CopiesInv'
<1>1. SUFFICES ASSUME TypeOK, TypeOK', MeshInv, CopiesInv, [Next]_vars,
                      NEW m \in Messages, NEW n \in Nodes
               PROVE  Copies(m, n)' <= Allowed(m, n)'
  BY DEF CopiesInv
<1>2. /\ Copies(m, n) <= Allowed(m, n) /\ Copies(m, n) \in Nat /\ Allowed(m, n) \in Nat
      /\ dups \in Nat
  BY <1>1, CopiesTypes DEF CopiesInv
<1>3. Copies(m, n)' \in Nat /\ Allowed(m, n)' \in Nat
  <2>1. Chat(m, n) \in Packets /\ Chat(m, n)' = Chat(m, n)
    BY ChatAndAck DEF Chat
  <2>2. /\ outgoing'[Chat(m, n)] \in Nat /\ inFlight'[Chat(m, n)] \in Nat
        /\ incoming'[Chat(m, n)] \in Nat /\ shown'[m][n] \in Nat /\ dups' \in Nat
    BY <1>1, <2>1, BoundsAssumption DEF TypeOK
  <2>3. Copies(m, n)' \in Nat
    BY <2>2 DEF Copies, Chat
  <2>4. Allowed(m, n)' = 1 + dups' \/ Allowed(m, n)' = 0
    BY DEF Allowed
  <2>5. QED
    BY <2>2, <2>3, <2>4
<1>4. pending \subseteq composed
  BY <1>1 DEF MeshInv
<1> USE DEF nodeVars, packetVars, historyVars, budgetVars
<1>5. CASE \/ UNCHANGED vars
           \/ \E k \in Nodes : InitController(k) \/ AddObserver(k) \/ ListenerEnds(k)
  BY <1>2, <1>5 DEF vars, InitController, AddObserver, ListenerEnds, Copies, Allowed
<1>6. ASSUME NEW k \in Messages, Compose(k) PROVE Copies(m, n)' <= Allowed(m, n)'
  <2>1. Copies(m, n)' = Copies(m, n)
    BY <1>6 DEF Compose, Copies
  <2>2. Allowed(m, n)' = Allowed(m, n)
    BY <1>4, <1>6 DEF Compose, Allowed
  <2>3. QED
    BY <1>2, <2>1, <2>2
<1>7. ASSUME NEW k \in Messages, ManageSend(k) PROVE Copies(m, n)' <= Allowed(m, n)'
  <2>1. /\ Chat(m, n) \in Packets /\ Chat(m, n).kind = "chat"
        /\ Chat(m, n).msg = m /\ Chat(m, n).peer = n
    BY ChatAndAck
  <2>2. outgoing'[Chat(m, n)] =
            IF m = k /\ n \in Recipients(Origin[k])
            THEN outgoing[Chat(m, n)] + 1 ELSE outgoing[Chat(m, n)]
    BY <1>7, <2>1 DEF ManageSend
  <2>3. Copies(m, n)' = IF m = k /\ n \in Recipients(Origin[k])
                        THEN Copies(m, n) + 1 ELSE Copies(m, n)
    BY <1>1, <1>7, <2>2, CopiesTypes DEF ManageSend, Copies
  <2>4. CASE m = k
    <3>1. Copies(m, n) <= 0 /\ m \in composed' \ pending' /\ dups' = dups
      BY <1>2, <1>4, <1>7, <2>4 DEF ManageSend, Allowed
    <3>2. n \in Recipients(Origin[k]) <=> n \in Audience[m]
      BY <1>1, <2>4, OriginAssumption, PeersAssumption DEF Recipients, Audience
    <3>3. QED
      BY <1>2, <2>3, <2>4, <3>1, <3>2 DEF Allowed
  <2>5. CASE m # k
    BY <1>2, <1>7, <2>3, <2>5 DEF ManageSend, Allowed
  <2>6. QED
    BY <2>4, <2>5
<1>8. ASSUME NEW p \in Packets, Duplicate(p) PROVE Copies(m, n)' <= Allowed(m, n)'
  <2>1. Chat(m, n) \in Packets
    BY ChatAndAck
  <2>2. inFlight'[Chat(m, n)] = inFlight[Chat(m, n)] \/ p = Chat(m, n)
    BY <1>1, <1>8, <2>1, PlusMinus DEF Duplicate, TypeOK
  <2>3. CASE p = Chat(m, n)
    <3>1. inFlight[p] > 0 /\ inFlight'[p] = inFlight[p] + 1 /\ dups' = dups + 1
      BY <1>1, <1>8, PlusMinus DEF Duplicate, TypeOK
    <3>2. Copies(m, n)' = Copies(m, n) + 1 /\ Copies(m, n) > 0
      BY <1>1, <1>8, <2>3, <3>1, CopiesTypes DEF Duplicate, Copies
    <3>3. n \in Audience[m] /\ m \in composed \ pending /\ Copies(m, n) <= 1 + dups
      BY <1>2, <3>2 DEF Allowed
    <3>4. UNCHANGED <<composed, pending>>
      BY <1>8 DEF Duplicate
    <3>5. QED
      BY <1>2, <3>1, <3>2, <3>3, <3>4 DEF Allowed
  <2>4. CASE inFlight'[Chat(m, n)] = inFlight[Chat(m, n)]
    <3>1. Copies(m, n)' = Copies(m, n)
      BY <1>8, <2>4 DEF Duplicate, Copies
    <3>2. Allowed(m, n)' = Allowed(m, n) \/ Allowed(m, n)' = Allowed(m, n) + 1
      BY <1>2, <1>8 DEF Duplicate, Allowed
    <3>3. QED
      BY <1>2, <3>1, <3>2
  <2>5. QED
    BY <2>2, <2>3, <2>4
<1>9. CASE \/ \E p \in Packets : \/ Transmit(p) \/ Listen(p) \/ SendFails(p) \/ Lose(p)
                                 \/ HandleAck(p) \/ DecodeAndAck(p)
           \/ \E k \in Nodes : NotifyObservers(k) \/ Crash(k)
  <2>1. Copies(m, n)' <= Copies(m, n)
    BY <1>1, <1>9, CopiesMove
  <2>2. pending' \subseteq pending /\ composed' = composed /\ dups' = dups
    BY <1>9 DEF Transmit, Listen, SendFails, Lose, HandleAck, DecodeAndAck, NotifyObservers,
                Crash
  <2>3. Allowed(m, n) <= Allowed(m, n)'
    BY <1>2, <2>2 DEF Allowed
  <2>4. QED
    BY <1>2, <1>3, <2>1, <2>3
<1>10. QED
  BY <1>1, <1>5, <1>6, <1>7, <1>8, <1>9 DEF Next, NodeNext, FaultNext

(* A message is displayed once per packet that reached its recipient, and     *)
(* never at its writer: the code has no check for duplicates, and needs none  *)
(* on a network that makes none (app.rs:134-148).                             *)
THEOREM OneCopyPerPacket == Spec => []CopiesShown
<1>1. Init => CopiesInv
  BY ChatAndAck, NoPacketAssumption DEF Init, CopiesInv, Copies, Allowed
<1>2. TypeOK /\ CopiesInv => CopiesShown
  <2> SUFFICES ASSUME TypeOK, CopiesInv, NEW m \in Messages, NEW n \in Nodes
               PROVE  shown[m][n] <= IF n \in Audience[m] THEN 1 + dups ELSE 0
    BY DEF CopiesShown
  <2>1. Copies(m, n) <= Allowed(m, n)
    BY DEF CopiesInv
  <2>2. shown[m][n] <= Copies(m, n)
    BY CopiesTypes DEF Copies
  <2>3. QED
    BY <2>1, <2>2, CopiesTypes DEF Allowed
<1>3. QED
  BY <1>1, <1>2, TypeCorrect, MeshInvariant, CopiesStep, PTL DEF Spec
----------------------------------------------------------------------------
(* At rest *)

(* What is kept as long as nothing is lost and no node or listener stops: a   *)
(* copy of every message sent is under way to each recipient that has not     *)
(* decoded it, and the ACK due from each that has is under way or on the      *)
(* screen.                                                                    *)
WritersUp == crashed = {} /\ \A m \in composed : phase[Origin[m]] = "ready"

CopiesKept(m) == \A n \in Recipients(Origin[m]) : InTransit(Chat(m, n)) \/ n \in decoded[m]

AcksKept(m) ==
    \A n \in decoded[m] :
        /\ AckDue(m, n) => InTransit(Ack(m, n)) \/ n \in acked[m]
        /\ Accounted(m, n)

KeptInv ==
    Undisturbed =>
        /\ WritersUp
        /\ \A m \in composed \ pending : CopiesKept(m)
        /\ \A m \in Messages : AcksKept(m)

(* A packet that is not handled by its receiver stays in transit, unless a    *)
(* send fails or the network loses it.                                        *)
LEMMA StaysInTransit ==
    ASSUME TypeOK, NEW p \in Packets, NEW q \in Packets,
           \/ Transmit(p) \/ Listen(p) \/ Duplicate(p)
           \/ (HandleAck(p) \/ DecodeAndAck(p)) /\ p # q,
           InTransit(q)
    PROVE  InTransit(q)'
<1>1. /\ outgoing \in [Packets -> Nat] /\ inFlight \in [Packets -> Nat]
      /\ incoming \in [Packets -> Nat]
  BY DEF TypeOK
<1>2. CASE Transmit(p)
  BY <1>1, <1>2, PlusMinus DEF Transmit, InTransit
<1>3. CASE Listen(p)
  <2>1. /\ inFlight'[q] = (IF q = p THEN inFlight[q] - 1 ELSE inFlight[q])
        /\ incoming'[q] = (IF q = p THEN incoming[q] + 1 ELSE incoming[q])
        /\ UNCHANGED outgoing
    BY <1>1, <1>3 DEF Listen, Plus, Minus
  <2>2. incoming[q] \in Nat
    BY <1>1
  <2>3. QED
    BY <2>1, <2>2 DEF InTransit
<1>4. CASE Duplicate(p)
  BY <1>1, <1>4, PlusMinus DEF Duplicate, InTransit
<1>5. CASE HandleAck(p) /\ p # q
  BY <1>1, <1>5, PlusMinus DEF HandleAck, InTransit
<1>6. CASE DecodeAndAck(p) /\ p # q
  <2>1. /\ UNCHANGED inFlight /\ incoming'[q] = incoming[q]
        /\ outgoing' = outgoing \/ outgoing' = Plus(outgoing, Ack(p.msg, To(p)))
    BY <1>1, <1>6, PlusMinus DEF DecodeAndAck
  <2>2. Ack(p.msg, To(p)) \in Packets
    BY PacketParts, ChatAndAck
  <2>3. outgoing[q] > 0 => outgoing'[q] > 0
    <3>1. CASE outgoing' = outgoing
      BY <3>1
    <3>2. CASE outgoing' = Plus(outgoing, Ack(p.msg, To(p)))
      BY <1>1, <2>2, <3>2 DEF Plus
    <3>3. QED
      BY <2>1, <3>1, <3>2
  <2>4. QED
    BY <2>1, <2>3 DEF InTransit
<1>7. QED
  BY <1>2, <1>3, <1>4, <1>5, <1>6

LEMMA StaysUndisturbed ==
    ASSUME TypeOK, [Next]_vars, Undisturbed'
    PROVE  /\ Undisturbed
           /\ \A p \in Packets : ~ SendFails(p) /\ ~ Lose(p)
           /\ \A n \in Nodes : ~ ListenerEnds(n) /\ ~ Crash(n)
<1>1. losses' = 0 /\ crashes' = 0 /\ losses \in Nat /\ crashes \in Nat
  BY BoundsAssumption DEF Undisturbed, TypeOK
<1>2. ASSUME NEW p \in Packets PROVE ~ SendFails(p) /\ ~ Lose(p)
  BY <1>1 DEF SendFails, Lose
<1>3. ASSUME NEW n \in Nodes PROVE ~ ListenerEnds(n) /\ ~ Crash(n)
  BY <1>1 DEF ListenerEnds, Crash
<1>4. UNCHANGED <<losses, crashes>>
  BY <1>2, <1>3 DEF Next, NodeNext, FaultNext, vars, budgetVars, InitController, AddObserver,
     NotifyObservers, Compose, ManageSend, Transmit, Listen, DecodeAndAck, HandleAck, Duplicate
<1>5. QED
  BY <1>1, <1>2, <1>3, <1>4 DEF Undisturbed

LEMMA KeptStep == TypeOK /\ TypeOK' /\ MeshInv /\ KeptInv /\ [Next]_vars => KeptInv'
<1>1. SUFFICES ASSUME TypeOK, TypeOK', MeshInv, KeptInv, [Next]_vars, Undisturbed'
               PROVE  /\ WritersUp'
                      /\ \A m \in composed' \ pending' : CopiesKept(m)'
                      /\ \A m \in Messages : AcksKept(m)'
  BY DEF KeptInv
<1> DEFINE Goal == /\ WritersUp'
                   /\ \A m \in composed' \ pending' : CopiesKept(m)'
                   /\ \A m \in Messages : AcksKept(m)'
<1>2. /\ WritersUp
      /\ \A m \in composed \ pending : CopiesKept(m)
      /\ \A m \in Messages : AcksKept(m)
  BY <1>1, StaysUndisturbed DEF KeptInv
<1>3. /\ composed \subseteq Messages /\ composed' \subseteq Messages
      /\ \A m \in Messages : Recipients(Origin[m]) \subseteq Nodes /\ Origin[m] \in Nodes
      /\ \A m \in Messages : decoded[m] \subseteq Nodes /\ decoded'[m] \subseteq Nodes
  BY <1>1, OriginAssumption, PeersAssumption DEF Recipients, TypeOK
<1>4. \A m \in Messages, n \in Nodes :
          /\ Chat(m, n) \in Packets /\ Ack(m, n) \in Packets /\ Chat(m, n) # NoPacket
          /\ Chat(m, n).kind = "chat" /\ Chat(m, n).msg = m /\ Chat(m, n).peer = n
          /\ Ack(m, n).kind = "ack" /\ Ack(m, n).msg = m /\ Ack(m, n).peer = n
  BY ChatAndAck, NoPacketAssumption
<1> USE DEF nodeVars, packetVars, historyVars, budgetVars
(* Most steps keep every packet in transit and what is known of a message.    *)
<1>5. ASSUME \A q \in Packets : InTransit(q) => InTransit(q)',
             UNCHANGED <<acked, decoded, crashed>>, tagged \subseteq tagged',
             \A n \in Nodes : phase[n] = "ready" => phase'[n] = "ready",
             \A m \in Messages, n \in Nodes : Accounted(m, n) => Accounted(m, n)'
      PROVE  /\ composed' = composed => WritersUp'
             /\ \A m \in composed \ pending : CopiesKept(m)'
             /\ \A m \in Messages : AcksKept(m)'
  <2>1. composed' = composed => WritersUp'
    BY <1>2, <1>3, <1>5 DEF WritersUp
  <2>2. \A m \in composed \ pending : CopiesKept(m)'
    BY <1>2, <1>3, <1>4, <1>5 DEF CopiesKept
  <2>3. \A m \in Messages : AcksKept(m)'
    BY <1>2, <1>3, <1>4, <1>5 DEF AcksKept, AckDue
  <2>4. QED
    BY <2>1, <2>2, <2>3
<1>6. CASE \/ UNCHANGED vars
           \/ \E n \in Nodes : InitController(n) \/ AddObserver(n) \/ NotifyObservers(n)
           \/ \E p \in Packets : Transmit(p) \/ Listen(p) \/ Duplicate(p)
  <2>1. /\ UNCHANGED <<composed, tagged, pending, acked, decoded, unobserved, crashed>>
        /\ \A n \in Nodes : phase[n] = "ready" => phase'[n] = "ready"
    BY <1>1, <1>6 DEF vars, InitController, AddObserver, NotifyObservers, Transmit, Listen,
                      Duplicate, TypeOK
  <2>2. \A q \in Packets : InTransit(q) => InTransit(q)'
    <3>1. CASE UNCHANGED <<outgoing, inFlight, incoming>>
      BY <3>1 DEF InTransit
    <3>2. CASE \E p \in Packets : Transmit(p) \/ Listen(p) \/ Duplicate(p)
      BY <1>1, <3>2, StaysInTransit
    <3>3. QED
      BY <1>6, <3>1, <3>2 DEF vars, InitController, AddObserver, NotifyObservers
  <2>3. \A m \in Messages, n \in Nodes : Accounted(m, n) => Accounted(m, n)'
    <3>1. CASE UNCHANGED <<shown, handling>>
      BY <2>1, <3>1 DEF Accounted
    <3>2. CASE \E n \in Nodes : NotifyObservers(n)
      BY <1>1, <3>2, NotifiedIsAccounted
    <3>3. QED
      BY <1>6, <3>1, <3>2 DEF vars, InitController, AddObserver, Transmit, Listen, Duplicate
  <2>4. QED
    BY <1>5, <2>1, <2>2, <2>3
<1>7. ASSUME NEW k \in Messages, Compose(k) PROVE Goal
  <2>1. /\ UNCHANGED <<phase, acked, shown, outgoing, inFlight, incoming, handling, decoded,
                       unobserved, crashed>>
        /\ composed' = composed \cup {k} /\ pending' = pending \cup {k}
        /\ tagged \subseteq tagged'
        /\ phase[Origin[k]] = "ready"
    BY <1>7 DEF Compose
  <2>2. WritersUp'
    BY <1>2, <2>1 DEF WritersUp
  <2>3. QED
    BY <1>5, <2>1, <2>2 DEF InTransit, Accounted
<1>8. ASSUME NEW k \in Messages, ManageSend(k) PROVE Goal
  <2>1. /\ UNCHANGED <<phase, composed, tagged, acked, shown, inFlight, incoming, handling,
                       decoded, unobserved, crashed>>
        /\ pending' = pending \ {k}
    BY <1>8 DEF ManageSend
  <2>2. /\ \A q \in Packets : InTransit(q) => InTransit(q)'
        /\ \A n \in Recipients(Origin[k]) : InTransit(Chat(k, n))'
    BY <1>1, <1>3, <1>4, <1>8 DEF ManageSend, InTransit, TypeOK
  <2>3. CopiesKept(k)'
    <3>1. \A n \in Recipients(Origin[k]) : Chat(k, n)' = Chat(k, n)
      BY DEF Chat
    <3>2. QED
      BY <2>2, <3>1 DEF CopiesKept
  <2>4. QED
    BY <1>5, <2>1, <2>2, <2>3 DEF Accounted
<1>9. ASSUME NEW p \in Packets, HandleAck(p) PROVE Goal
  <2>1. /\ p.msg \in Messages /\ p.peer \in Nodes /\ p = Ack(p.msg, p.peer)
        /\ To(p) = Origin[p.msg] /\ InTransit(p) /\ p.kind = "ack"
    BY <1>9, PacketParts DEF HandleAck, To, InTransit
  <2>2. /\ UNCHANGED <<phase, composed, tagged, pending, shown, handling, decoded, unobserved,
                       crashed>>
        /\ acked' = IF /\ phase[To(p)] = "ready" /\ p.msg \in listed
                       /\ p.peer \in Recipients(To(p))
                    THEN [acked EXCEPT ![p.msg] = @ \cup {p.peer}] ELSE acked
    BY <1>9 DEF HandleAck
  <2>3. /\ p.msg \in composed /\ p.msg \in listed
        /\ p.peer \in Recipients(Origin[p.msg])
    <3>1. Genuine(p.msg, p.peer)
      BY <1>1, <2>1 DEF MeshInv, TransitOK
    <3>2. QED
      BY <1>2, <3>1 DEF Genuine, WritersUp
  <2>4. acked' = [acked EXCEPT ![p.msg] = @ \cup {p.peer}]
    BY <1>2, <2>1, <2>2, <2>3 DEF WritersUp
  <2>5. /\ p.peer \in acked'[p.msg]
        /\ \A m \in Messages : acked[m] \subseteq acked'[m]
    BY <1>1, <2>1, <2>4 DEF TypeOK
  <2>6. \A q \in Packets : q # p /\ InTransit(q) => InTransit(q)'
    BY <1>1, <1>9, StaysInTransit
  <2>7. WritersUp'
    BY <1>2, <2>2 DEF WritersUp
  <2>8. ASSUME NEW m \in composed \ pending PROVE CopiesKept(m)'
    BY <1>2, <1>3, <1>4, <2>1, <2>2, <2>6 DEF CopiesKept
  <2>9. ASSUME NEW m \in Messages PROVE AcksKept(m)'
    <3>1. ASSUME NEW n \in decoded[m]
          PROVE  /\ AckDue(m, n) => InTransit(Ack(m, n))' \/ n \in acked'[m]
                 /\ Accounted(m, n)'
      <4>1. /\ AckDue(m, n) => InTransit(Ack(m, n)) \/ n \in acked[m]
            /\ Accounted(m, n) /\ n \in Nodes
        BY <1>2, <1>3 DEF AcksKept
      <4>2. Accounted(m, n)'
        BY <2>2, <4>1 DEF Accounted
      <4>3. CASE Ack(m, n) = p
        BY <1>4, <2>5, <4>1, <4>2, <4>3
      <4>4. CASE Ack(m, n) # p
        BY <1>4, <2>5, <2>6, <4>1, <4>2, <4>4
      <4>5. QED
        BY <4>3, <4>4
    <3>2. QED
      BY <2>2, <3>1 DEF AcksKept, AckDue
  <2>10. QED
    BY <2>2, <2>7, <2>8, <2>9
<1>10. ASSUME NEW p \in Packets, DecodeAndAck(p) PROVE Goal
  <2>1. /\ p.msg \in Messages /\ p.peer \in Nodes /\ p = Chat(p.msg, p.peer)
        /\ To(p) = p.peer /\ From(p) = Origin[p.msg] /\ p.kind = "chat" /\ p # NoPacket
    BY <1>10, PacketParts, NoPacketAssumption DEF DecodeAndAck, To, From
  <2>2. /\ UNCHANGED <<phase, composed, tagged, pending, acked, shown, crashed>>
        /\ handling[p.peer] = NoPacket /\ handling' = [handling EXCEPT ![p.peer] = p]
        /\ decoded' = [decoded EXCEPT ![p.msg] = @ \cup {p.peer}]
        /\ \A m \in Messages : unobserved[m] \subseteq unobserved'[m]
        /\ AckDue(p.msg, p.peer) => outgoing' = Plus(outgoing, Ack(p.msg, p.peer))
    BY <1>1, <1>10, <2>1 DEF DecodeAndAck, MustAck, AckDue, TypeOK
  <2>3. \A q \in Packets : q # p /\ InTransit(q) => InTransit(q)'
    BY <1>1, <1>10, StaysInTransit
  <2>4. AckDue(p.msg, p.peer) => InTransit(Ack(p.msg, p.peer))'
    <3>1. Ack(p.msg, p.peer) \in Packets /\ outgoing \in [Packets -> Nat]
      BY <1>1, <1>4, <2>1 DEF TypeOK
    <3>2. Plus(outgoing, Ack(p.msg, p.peer))[Ack(p.msg, p.peer)] > 0
      BY <3>1 DEF Plus
    <3>3. QED
      BY <2>2, <3>2 DEF InTransit, Ack
  <2>5. /\ p.peer \in decoded'[p.msg]
        /\ \A m \in Messages : decoded[m] \subseteq decoded'[m]
        /\ \A m \in Messages : \A n \in decoded'[m] :
              n \in decoded[m] \/ (m = p.msg /\ n = p.peer)
    BY <1>1, <2>1, <2>2 DEF TypeOK
  <2>6. WritersUp'
    BY <1>2, <2>2 DEF WritersUp
  <2>7. ASSUME NEW m \in composed \ pending PROVE CopiesKept(m)'
    <3>1. ASSUME NEW n \in Recipients(Origin[m])
          PROVE  InTransit(Chat(m, n))' \/ n \in decoded'[m]
      <4>1. InTransit(Chat(m, n)) \/ n \in decoded[m]
        BY <1>2 DEF CopiesKept
      <4>2. Chat(m, n) = p => m = p.msg /\ n = p.peer
        BY <1>3, <1>4
      <4>3. QED
        BY <1>3, <1>4, <2>3, <2>5, <4>1, <4>2
    <3>2. QED
      BY <3>1 DEF CopiesKept
  <2>8. ASSUME NEW m \in Messages PROVE AcksKept(m)'
    <3>1. ASSUME NEW n \in decoded'[m]
          PROVE  /\ AckDue(m, n) => InTransit(Ack(m, n))' \/ n \in acked'[m]
                 /\ Accounted(m, n)'
      <4>1. CASE m = p.msg /\ n = p.peer
        <5>1. Accounted(m, n)'
          BY <1>1, <2>1, <2>2, <4>1 DEF Accounted, TypeOK
        <5>2. QED
          BY <2>4, <4>1, <5>1
      <4>2. CASE n \in decoded[m]
        <5>1. /\ AckDue(m, n) => InTransit(Ack(m, n)) \/ n \in acked[m]
              /\ Accounted(m, n) /\ n \in Nodes
          BY <1>2, <1>3, <4>2 DEF AcksKept
        <5>2. Ack(m, n) # p
          BY <1>4, <2>1, <5>1
        <5>3. AckDue(m, n) => InTransit(Ack(m, n))' \/ n \in acked'[m]
          BY <1>4, <2>2, <2>3, <5>1, <5>2
        <5>4. handling[n] = Chat(m, n) => handling'[n] = Chat(m, n)
          BY <1>1, <1>4, <2>1, <2>2, <5>1 DEF TypeOK
        <5>5. Accounted(m, n)'
          BY <2>2, <5>1, <5>4 DEF Accounted
        <5>6. QED
          BY <5>3, <5>5
      <4>3. QED
        BY <2>5, <3>1, <4>1, <4>2
    <3>2. QED
      BY <2>2, <3>1 DEF AcksKept, AckDue
  <2>9. QED
    BY <2>2, <2>6, <2>7, <2>8
<1>11. QED
  BY <1>1, <1>6, <1>7, <1>8, <1>9, <1>10, StaysUndisturbed DEF Next, NodeNext, FaultNext

(* Undisturbed, a message has a copy under way to each recipient that has not *)
(* decoded it, and a decoded one the ACK due for it under way or on the       *)
(* screen: neither a send task nor a receive task drops anything.             *)
THEOREM KeptInvariant == Spec => []KeptInv
<1>1. Init => KeptInv
  BY DEF Init, KeptInv, WritersUp, CopiesKept, AcksKept
<1>2. QED
  BY <1>1, KeptStep, TypeCorrect, MeshInvariant, PTL DEF Spec

(* An undisturbed mesh that has come to rest has done all its writers asked   *)
(* for: no task may end early and no ACK that is due be dropped without a     *)
(* loss, whatever becomes of the ACKs that are not.                           *)
THEOREM RestIsDone == Spec => []QuietMeansDone
<1>1. TypeOK /\ KeptInv /\ CopiesShown => QuietMeansDone
  <2> SUFFICES ASSUME TypeOK, KeptInv, CopiesShown, Undisturbed, Quiet,
                      NEW m \in composed, NEW n \in Recipients(Origin[m])
               PROVE  /\ n \in decoded[m]
                      /\ AckDue(m, n) => n \in acked[m]
                      /\ n \notin unobserved[m] =>
                            shown[m][n] > 0 /\ (dups = 0 => shown[m][n] = 1)
    BY DEF QuietMeansDone
  <2>1. m \in Messages /\ n \in Nodes /\ shown[m][n] \in Nat
    BY OriginAssumption, PeersAssumption DEF TypeOK, Recipients
  <2>2. /\ ~ InTransit(Chat(m, n)) /\ ~ InTransit(Ack(m, n))
        /\ handling[n] # Chat(m, n) /\ n \notin crashed
    BY <2>1, ChatAndAck, NoPacketAssumption DEF Quiet, KeptInv, WritersUp
  <2>3. n \in decoded[m]
    BY <2>2 DEF Quiet, KeptInv, CopiesKept
  <2>4. /\ AckDue(m, n) => n \in acked[m]
        /\ shown[m][n] > 0 \/ n \in unobserved[m]
    BY <2>1, <2>2, <2>3 DEF KeptInv, AcksKept, Accounted
  <2>5. dups = 0 => shown[m][n] <= 1
    BY <2>1 DEF CopiesShown
  <2>6. QED
    BY <2>1, <2>3, <2>4, <2>5
<1>2. QED
  BY <1>1, TypeCorrect, KeptInvariant, OneCopyPerPacket, PTL
----------------------------------------------------------------------------
(* On the way there *)

(* Where a message to a node and its ACK are: how many packets of the pair    *)
(* each of the nine places of their way holds.                                *)
One(c) == IF c THEN 1 ELSE 0

Place(m, n) ==
    <<One(m \notin composed), One(m \in pending),
      outgoing[Chat(m, n)], inFlight[Chat(m, n)], incoming[Chat(m, n)],
      One(handling[n] = Chat(m, n)),
      outgoing[Ack(m, n)], inFlight[Ack(m, n)], incoming[Ack(m, n)]>>

(* The steps still ahead of them at most, duplicates the network may still    *)
(* make included.                                                             *)
Ahead(m, n) ==
    9 * One(m \notin composed) + 8 * One(m \in pending)
      + 7 * outgoing[Chat(m, n)] + 6 * inFlight[Chat(m, n)] + 5 * incoming[Chat(m, n)]
      + One(handling[n] = Chat(m, n))
      + 3 * outgoing[Ack(m, n)] + 2 * inFlight[Ack(m, n)] + incoming[Ack(m, n)]
      + 7 * (MaxDups - dups)

(* Every step that touches the pair brings it closer to its rest, and no step *)
(* takes it back: nothing is sent, read, decoded or acknowledged again.       *)
Forward(m, n) ==
    /\ Ahead(m, n)' <= Ahead(m, n)
    /\ Place(m, n)' # Place(m, n) => Ahead(m, n)' < Ahead(m, n)

LEMMA ForwardStep ==
    ASSUME TypeOK, TypeOK', MeshInv, [Next]_vars, NEW m \in Messages, NEW n \in Nodes
    PROVE  Forward(m, n)
<1> DEFINE c == Chat(m, n)
           a == Ack(m, n)
           C == One(m \notin composed)
           Q == One(m \in pending)
           H == One(handling[n] = c)
           B == MaxDups - dups
           oc == outgoing[c]
           fc == inFlight[c]
           ic == incoming[c]
           oa == outgoing[a]
           fa == inFlight[a]
           ia == incoming[a]
           W == 9 * C + 8 * Q + 7 * oc + 6 * fc + 5 * ic + H + 3 * oa + 2 * fa + ia + 7 * B
           Same == /\ C' = C /\ Q' = Q /\ H' = H /\ oc' = oc /\ fc' = fc /\ ic' = ic
                   /\ oa' = oa /\ fa' = fa /\ ia' = ia
           Goal == W' <= W /\ (Same \/ W' < W)
<1>1. /\ c \in Packets /\ c.kind = "chat" /\ c.msg = m /\ c.peer = n /\ To(c) = n
      /\ a \in Packets /\ a.kind = "ack" /\ a.msg = m /\ a.peer = n /\ a # c
      /\ c # NoPacket
  BY ChatAndAck, NoPacketAssumption DEF To
<1>2. /\ outgoing \in [Packets -> Nat] /\ inFlight \in [Packets -> Nat]
      /\ incoming \in [Packets -> Nat]
      /\ outgoing' \in [Packets -> Nat] /\ inFlight' \in [Packets -> Nat]
      /\ incoming' \in [Packets -> Nat]
      /\ handling \in [Nodes -> Packets \cup {NoPacket}]
  BY DEF TypeOK
<1>3. /\ oc \in Nat /\ fc \in Nat /\ ic \in Nat /\ oa \in Nat /\ fa \in Nat /\ ia \in Nat
      /\ oc' \in Nat /\ fc' \in Nat /\ ic' \in Nat /\ oa' \in Nat /\ fa' \in Nat /\ ia' \in Nat
  BY <1>1, <1>2
<1>4. /\ C \in Nat /\ C' \in Nat /\ Q \in Nat /\ Q' \in Nat /\ H \in Nat /\ H' \in Nat
  BY DEF One
<1>5. B \in Nat /\ B' \in Nat
  <2>1. dups \in 0 .. MaxDups /\ dups' \in 0 .. MaxDups
    BY DEF TypeOK
  <2>2. \A d \in 0 .. MaxDups : MaxDups - d \in Nat
    BY BoundsAssumption
  <2>3. QED
    BY <2>1, <2>2
<1>6. /\ UNCHANGED composed => C' = C
      /\ UNCHANGED pending => Q' = Q
      /\ UNCHANGED handling => H' = H
      /\ UNCHANGED dups => B' = B
      /\ UNCHANGED outgoing => oc' = oc /\ oa' = oa
      /\ UNCHANGED inFlight => fc' = fc /\ fa' = fa
      /\ UNCHANGED incoming => ic' = ic /\ ia' = ia
  BY DEF Chat, Ack
<1>7. Ahead(m, n) = W /\ Ahead(m, n)' = W' /\ (Same => Place(m, n)' = Place(m, n))
  BY DEF Ahead, Place, Chat, Ack
<1> HIDE DEF c, a, C, Q, H, B, oc, fc, ic, oa, fa, ia
<1> USE DEF nodeVars, packetVars, historyVars, budgetVars
<1>8. W \in Nat
  BY <1>3, <1>4, <1>5
<1>9. SUFFICES ASSUME Next PROVE Goal
  <2>1. UNCHANGED vars => Same /\ W' = W
    BY <1>6 DEF vars
  <2>2. QED
    BY <1>7, <1>8, <1>9, <2>1 DEF Forward
<1>10. ASSUME NEW k \in Nodes, InitController(k) \/ AddObserver(k) \/ ListenerEnds(k)
       PROVE  Goal
  <2>1. UNCHANGED <<composed, pending, outgoing, inFlight, incoming, handling, dups>>
    BY <1>10 DEF InitController, AddObserver, ListenerEnds
  <2>2. Same
    BY <1>6, <2>1
  <2>3. W' = W
    BY <1>6, <2>1
  <2>4. QED
    BY <1>8, <2>2, <2>3
<1>11. ASSUME NEW k \in Messages, Compose(k) PROVE Goal
  <2>1. UNCHANGED <<outgoing, inFlight, incoming, handling, dups>>
    BY <1>11 DEF Compose
  <2>2. CASE k = m
    <3>1. C = 1 /\ C' = 0 /\ Q = 0 /\ Q' = 1
      BY <1>11, <2>2 DEF Compose, C, Q, One, MeshInv
    <3>2. W' = W - 1
      BY <1>3, <1>4, <1>5, <1>6, <1>8, <2>1, <3>1
    <3>3. QED
      BY <1>8, <3>2
  <2>3. CASE k # m
    <3>1. C' = C /\ Q' = Q
      BY <1>11, <2>3 DEF Compose, C, Q, One
    <3>2. QED
      BY <1>3, <1>4, <1>5, <1>6, <1>8, <2>1, <3>1
  <2>4. QED
    BY <2>2, <2>3
<1>12. ASSUME NEW k \in Messages, ManageSend(k) PROVE Goal
  <2>1. UNCHANGED <<composed, inFlight, incoming, handling, dups>> /\ oa' = oa
    BY <1>1, <1>2, <1>12 DEF ManageSend, oc, oa
  <2>2. CASE k = m
    <3>1. Q = 1 /\ Q' = 0
      BY <1>12, <2>2 DEF ManageSend, Q, One
    <3> DEFINE x == IF n \in Recipients(Origin[k]) THEN 1 ELSE 0
    <3>2. oc' = oc + x
      BY <1>1, <1>2, <1>12, <2>2 DEF ManageSend, oc
    <3>3. x \in {0, 1}
      OBVIOUS
    <3> HIDE DEF x
    <3>4. W' = W - 8 + 7 * x
      BY <1>3, <1>4, <1>5, <1>6, <2>1, <3>1, <3>2, <3>3
    <3>5. QED
      BY <1>8, <3>3, <3>4
  <2>3. CASE k # m
    <3>1. Q' = Q /\ oc' = oc
      BY <1>1, <1>2, <1>12, <2>3 DEF ManageSend, Q, One, oc
    <3>2. QED
      BY <1>3, <1>4, <1>5, <1>6, <1>8, <2>1, <3>1
  <2>4. QED
    BY <2>2, <2>3
<1>13. ASSUME NEW p \in Packets, Transmit(p) PROVE Goal
  <2> DEFINE x == IF c = p THEN 1 ELSE 0
             y == IF a = p THEN 1 ELSE 0
  <2>1. /\ oc' = oc - x /\ fc' = fc + x
        /\ oa' = oa - y /\ fa' = fa + y
    BY <1>1, <1>2, <1>13 DEF Transmit, Plus, Minus, oc, fc, ic, oa, fa, ia
  <2>2. UNCHANGED <<composed, pending, incoming, handling, dups>>
    BY <1>13 DEF Transmit
  <2>3. x \in {0, 1} /\ y \in {0, 1}
    OBVIOUS
  <2> HIDE DEF x, y
  <2>4. W' = W - x - y
    BY <1>3, <1>4, <1>5, <1>6, <1>8, <2>1, <2>2, <2>3
  <2>5. x = 0 /\ y = 0 => Same
    BY <1>3, <1>6, <2>1, <2>2
  <2>6. QED
    BY <1>8, <2>3, <2>4, <2>5
<1>14. ASSUME NEW p \in Packets, Listen(p) PROVE Goal
  <2> DEFINE x == IF c = p THEN 1 ELSE 0
             y == IF a = p THEN 1 ELSE 0
  <2>1. /\ fc' = fc - x /\ ic' = ic + x
        /\ fa' = fa - y /\ ia' = ia + y
    BY <1>1, <1>2, <1>14 DEF Listen, Plus, Minus, oc, fc, ic, oa, fa, ia
  <2>2. UNCHANGED <<composed, pending, outgoing, handling, dups>>
    BY <1>14 DEF Listen
  <2>3. x \in {0, 1} /\ y \in {0, 1}
    OBVIOUS
  <2> HIDE DEF x, y
  <2>4. W' = W - x - y
    BY <1>3, <1>4, <1>5, <1>6, <1>8, <2>1, <2>2, <2>3
  <2>5. x = 0 /\ y = 0 => Same
    BY <1>3, <1>6, <2>1, <2>2
  <2>6. QED
    BY <1>8, <2>3, <2>4, <2>5
<1>15. ASSUME NEW p \in Packets, SendFails(p) PROVE Goal
  <2> DEFINE x == IF c = p THEN 1 ELSE 0
             y == IF a = p THEN 1 ELSE 0
  <2>1. oc' = oc - x /\ oa' = oa - y
    BY <1>1, <1>2, <1>15 DEF SendFails, Minus, oc, fc, ic, oa, fa, ia
  <2>2. UNCHANGED <<composed, pending, inFlight, incoming, handling, dups>>
    BY <1>15 DEF SendFails
  <2>3. x \in {0, 1} /\ y \in {0, 1}
    OBVIOUS
  <2> HIDE DEF x, y
  <2>4. W' = W - 7 * x - 3 * y
    BY <1>3, <1>4, <1>5, <1>6, <1>8, <2>1, <2>2, <2>3
  <2>5. x = 0 /\ y = 0 => Same
    BY <1>3, <1>6, <2>1, <2>2
  <2>6. QED
    BY <1>8, <2>3, <2>4, <2>5
<1>16. ASSUME NEW p \in Packets, Lose(p) PROVE Goal
  <2> DEFINE x == IF c = p THEN 1 ELSE 0
             y == IF a = p THEN 1 ELSE 0
  <2>1. fc' = fc - x /\ fa' = fa - y
    BY <1>1, <1>2, <1>16 DEF Lose, Minus, oc, fc, ic, oa, fa, ia
  <2>2. UNCHANGED <<composed, pending, outgoing, incoming, handling, dups>>
    BY <1>16 DEF Lose
  <2>3. x \in {0, 1} /\ y \in {0, 1}
    OBVIOUS
  <2> HIDE DEF x, y
  <2>4. W' = W - 6 * x - 2 * y
    BY <1>3, <1>4, <1>5, <1>6, <1>8, <2>1, <2>2, <2>3
  <2>5. x = 0 /\ y = 0 => Same
    BY <1>3, <1>6, <2>1, <2>2
  <2>6. QED
    BY <1>8, <2>3, <2>4, <2>5
<1>17. ASSUME NEW p \in Packets, Duplicate(p) PROVE Goal
  <2> DEFINE x == IF c = p THEN 1 ELSE 0
             y == IF a = p THEN 1 ELSE 0
  <2>1. fc' = fc + x /\ fa' = fa + y
    BY <1>1, <1>2, <1>17 DEF Duplicate, Plus, oc, fc, ic, oa, fa, ia
  <2>2. UNCHANGED <<composed, pending, outgoing, incoming, handling>>
    BY <1>17 DEF Duplicate
  <2>3. x \in {0, 1} /\ y \in {0, 1} /\ x + y <= 1
    BY <1>1
  <2>4. B' = B - 1
    BY <1>17, BoundsAssumption DEF Duplicate, B, TypeOK
  <2> HIDE DEF x, y
  <2>5. W' = W - 7 + 6 * x + 2 * y
    BY <1>3, <1>4, <1>5, <1>6, <1>8, <2>1, <2>2, <2>3, <2>4
  <2>6. QED
    BY <1>8, <2>3, <2>5
<1>18. ASSUME NEW p \in Packets, HandleAck(p) PROVE Goal
  <2> DEFINE y == IF a = p THEN 1 ELSE 0
  <2>1. ic' = ic /\ ia' = ia - y
    BY <1>1, <1>2, <1>18 DEF HandleAck, Minus, oc, fc, ic, oa, fa, ia
  <2>2. UNCHANGED <<composed, pending, outgoing, inFlight, handling, dups>>
    BY <1>18 DEF HandleAck
  <2>3. y \in {0, 1}
    OBVIOUS
  <2> HIDE DEF y
  <2>4. W' = W - y
    BY <1>3, <1>4, <1>5, <1>6, <1>8, <2>1, <2>2, <2>3
  <2>5. y = 0 => Same
    BY <1>3, <1>6, <2>1, <2>2
  <2>6. QED
    BY <1>8, <2>3, <2>4, <2>5
<1>19. ASSUME NEW p \in Packets, DecodeAndAck(p) PROVE Goal
  <2> DEFINE x == IF c = p THEN 1 ELSE 0
  <2>1. /\ p.peer \in Nodes /\ p.msg \in Messages /\ To(p) = p.peer
        /\ p = Chat(p.msg, p.peer) /\ Ack(p.msg, p.peer) \in Packets
        /\ (Ack(p.msg, p.peer) = a <=> p = c)
        /\ Ack(p.msg, p.peer) # c
    <3>1. /\ p.peer \in Nodes /\ p.msg \in Messages /\ To(p) = p.peer
          /\ p = Chat(p.msg, p.peer)
      BY <1>19, PacketParts DEF DecodeAndAck, To
    <3>2. /\ Ack(p.msg, p.peer) \in Packets /\ Ack(p.msg, p.peer).kind = "ack"
          /\ Ack(p.msg, p.peer).msg = p.msg /\ Ack(p.msg, p.peer).peer = p.peer
      BY <3>1, ChatAndAck
    <3>3. Ack(p.msg, p.peer) # c
      BY <1>1, <3>2
    <3>4. p.msg = m /\ p.peer = n => p = c /\ Ack(p.msg, p.peer) = a
      BY <3>1 DEF c, a
    <3>5. p = c \/ Ack(p.msg, p.peer) = a => p.msg = m /\ p.peer = n
      BY <1>1, <3>2
    <3>6. QED
      BY <3>1, <3>2, <3>3, <3>4, <3>5
  <2>2. UNCHANGED <<composed, pending, inFlight, dups>>
    BY <1>19 DEF DecodeAndAck
  <2>3. ic' = ic - x /\ ia' = ia
    BY <1>1, <1>2, <1>19 DEF DecodeAndAck, Minus, oc, fc, ic, oa, fa, ia
  <2>4. oc' = oc
    <3>1. \/ outgoing' = outgoing
          \/ outgoing' = [outgoing EXCEPT ![Ack(p.msg, p.peer)] = @ + 1]
      BY <1>19, <2>1 DEF DecodeAndAck, Plus
    <3>2. QED
      BY <1>1, <1>2, <2>1, <3>1 DEF oc
  <2>5. PICK y \in 0 .. x : oa' = oa + y
    <3>1. CASE outgoing' = outgoing
      BY <1>3, <1>6, <3>1
    <3>2. CASE outgoing' = [outgoing EXCEPT ![Ack(p.msg, p.peer)] = @ + 1]
      <4>1. oa' = oa + x
        BY <1>1, <1>2, <1>3, <2>1, <3>2 DEF oa
      <4>2. QED
        BY <4>1
    <3>3. QED
      BY <1>19, <2>1, <3>1, <3>2 DEF DecodeAndAck, Plus
  <2>6. H' = H + x
    <3>1. CASE p = c
      BY <1>1, <1>2, <1>19, <2>1, <3>1 DEF DecodeAndAck, H, One
    <3>2. CASE p # c
      <4>1. handling'[n] = c <=> handling[n] = c
        BY <1>1, <1>2, <1>19, <2>1, <3>2 DEF DecodeAndAck
      <4>2. H' = H
        BY <4>1 DEF H, One, c
      <4>3. QED
        BY <1>4, <3>2, <4>2
    <3>3. QED
      BY <3>1, <3>2
  <2>7. x \in {0, 1}
    OBVIOUS
  <2> HIDE DEF x
  <2>8. W' = W - 4 * x + 3 * y
    BY <1>3, <1>4, <1>5, <1>6, <2>2, <2>3, <2>4, <2>5, <2>6, <2>7
  <2>9. x = 0 => Same
    BY <1>3, <1>4, <1>6, <2>2, <2>3, <2>4, <2>5, <2>6
  <2>10. QED
    BY <1>8, <2>5, <2>7, <2>8, <2>9
<1>20. ASSUME NEW k \in Nodes, NotifyObservers(k) PROVE Goal
  <2>1. UNCHANGED <<composed, pending, outgoing, inFlight, incoming, dups>>
    BY <1>20 DEF NotifyObservers
  <2>2. PICK x \in {0, 1} : H' = H - x
    <3>1. handling'[n] = c => handling[n] = c
      BY <1>1, <1>2, <1>20 DEF NotifyObservers
    <3>2. H' = H - 0 \/ H' = H - 1
      BY <3>1 DEF H, One, c
    <3>3. QED
      BY <3>2
  <2>3. W' = W - x
    BY <1>3, <1>4, <1>5, <1>6, <2>1, <2>2
  <2>4. x = 0 => Same
    BY <1>4, <1>6, <2>1, <2>2
  <2>5. QED
    BY <1>8, <2>2, <2>3, <2>4
<1>21. ASSUME NEW k \in Nodes, Crash(k) PROVE Goal
  <2>1. UNCHANGED <<composed, inFlight, dups>>
    BY <1>21 DEF Crash
  <2>2. /\ oc' = oc \/ oc' = 0
        /\ oa' = oa \/ oa' = 0
        /\ ic' = ic \/ ic' = 0
        /\ ia' = ia \/ ia' = 0
    BY <1>1, <1>2, <1>21 DEF Crash, oc, oa, ic, ia
  <2>3. PICK v \in Nat, w \in Nat, x \in Nat, y \in Nat :
            oc' = oc - v /\ oa' = oa - w /\ ic' = ic - x /\ ia' = ia - y
    <3>1. /\ \E v \in Nat : oc' = oc - v
          /\ \E w \in Nat : oa' = oa - w
          /\ \E x \in Nat : ic' = ic - x
          /\ \E y \in Nat : ia' = ia - y
      BY <1>3, <2>2
    <3>2. QED
      BY <3>1
  <2>4. PICK h \in {0, 1} : H' = H - h
    <3>1. handling'[n] = c => handling[n] = c
      BY <1>1, <1>2, <1>21 DEF Crash
    <3>2. H' = H - 0 \/ H' = H - 1
      BY <3>1 DEF H, One, c
    <3>3. QED
      BY <3>2
  <2>5. PICK q \in {0, 1} : Q' = Q - q
    <3>1. Q' = Q - 0 \/ Q' = Q - 1
      BY <1>21 DEF Crash, Q, One
    <3>2. QED
      BY <3>1
  <2>6. W' = W - 7 * v - 3 * w - 5 * x - y - h - 8 * q
    BY <1>3, <1>4, <1>5, <1>6, <2>1, <2>3, <2>4, <2>5
  <2>7. v = 0 /\ w = 0 /\ x = 0 /\ y = 0 /\ h = 0 /\ q = 0 => Same
    BY <1>3, <1>4, <1>6, <2>1, <2>3, <2>4, <2>5
  <2>8. QED
    BY <1>8, <2>3, <2>4, <2>5, <2>6, <2>7
<1>22. QED
  BY <1>9, <1>10, <1>11, <1>12, <1>13, <1>14, <1>15, <1>16, <1>17, <1>18, <1>19, <1>20, <1>21
     DEF Next, NodeNext, FaultNext

(* A message and its ACK only ever go forward, each step of theirs bringing   *)
(* them closer to their end: the code has no retransmission and no loop in    *)
(* which ACKs answer ACKs.  So a composed message comes to rest, after at     *)
(* most 8 steps of its own and 7 for each duplicate made of any packet.       *)
THEOREM NothingGoesBack ==
    Spec => [][\A m \in Messages, n \in Nodes : Forward(m, n)]_vars
<1>1. TypeOK /\ TypeOK' /\ MeshInv /\ [Next]_vars =>
          \A m \in Messages, n \in Nodes : Forward(m, n)
  BY ForwardStep
<1>2. QED
  BY <1>1, TypeCorrect, MeshInvariant, PTL DEF Spec
=============================================================================
