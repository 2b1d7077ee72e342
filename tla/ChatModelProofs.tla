--------------------------- MODULE ChatModelProofs ---------------------------
(* TLAPS proofs about ChatModel, for any peers, clocks and number of          *)
(* messages: its type invariant, that the list is sorted by the selected      *)
(* strategy at all times, where arrivals land, and that nothing is forgotten. *)
EXTENDS ChatModel, SequenceTheorems, FunctionTheorems, FiniteSetTheorems, TLAPS

----------------------------------------------------------------------------
(* Both orders compare natural numbers, so "not after" is transitive. *)
LEMMA StampsAreNat ==
    ASSUME NEW m \in ChatMessage, NEW ctx
    PROVE  /\ m.tx \in Nat /\ ArrivalTime(m) \in Nat
           /\ RelativeAnchor(m, ctx) \in Nat
<1>1. Time \subseteq Nat /\ SenderTimes \subseteq Nat
  BY BoundsAssumption DEF Time
<1>2. CASE m \in SentMessage
  <2>1. m.kind = "Sent" /\ m.tx \in Time
    BY <1>2 DEF SentMessage
  <2>2. QED
    BY <1>1, <2>1 DEF ArrivalTime, RelativeAnchor
<1>3. CASE m \in ReceivedMessage
  <2>1. m.kind = "Received" /\ m.tx \in SenderTimes /\ m.rx \in Time
    BY <1>3 DEF ReceivedMessage
  <2>2. QED
    BY <1>1, <2>1 DEF ArrivalTime, RelativeAnchor
<1>4. QED
  BY <1>2, <1>3 DEF ChatMessage

LEMMA NotLessTransitive ==
    ASSUME NEW a \in ChatMessage, NEW b \in ChatMessage, NEW c \in ChatMessage,
           NEW strat, ~ Less(strat, b, a), ~ Less(strat, c, b)
    PROVE  ~ Less(strat, c, a)
<1>1. \A m \in ChatMessage : /\ m.tx \in Nat /\ ArrivalTime(m) \in Nat
                             /\ RelativeAnchor(m, strat) \in Nat
  BY StampsAreNat
<1>2. QED
  BY <1>1 DEF Less, StandardLess, RelativeLess

LEMMA LessIsAsymmetric ==
    ASSUME NEW a \in ChatMessage, NEW b \in ChatMessage, NEW strat, Less(strat, a, b)
    PROVE  ~ Less(strat, b, a)
<1>1. \A m \in ChatMessage : /\ m.tx \in Nat /\ ArrivalTime(m) \in Nat
                             /\ RelativeAnchor(m, strat) \in Nat
  BY StampsAreNat
<1>2. QED
  BY <1>1 DEF Less, StandardLess, RelativeLess

----------------------------------------------------------------------------
(* What InsertAt returns, position by position. *)
LEMMA InsertAtElements ==
    ASSUME NEW S, NEW s \in Seq(S), NEW i \in 1 .. Len(s) + 1, NEW e \in S
    PROVE  /\ InsertAt(s, i, e) \in Seq(S)
           /\ Len(InsertAt(s, i, e)) = Len(s) + 1
           /\ \A k \in 1 .. Len(s) + 1 :
                InsertAt(s, i, e)[k] =
                    IF k < i THEN s[k] ELSE IF k = i THEN e ELSE s[k - 1]
<1> DEFINE above == SubSeq(s, 1, i - 1)
           below == SubSeq(s, i, Len(s))
<1>1. Len(s) \in Nat /\ i \in Nat /\ \A k \in 1 .. Len(s) : s[k] \in S
  OBVIOUS
<1>2. /\ above \in Seq(S) /\ Len(above) = i - 1
      /\ \A k \in 1 .. i - 1 : above[k] = s[k]
  <2>1. \A k \in 1 .. i - 1 : s[k] \in S
    BY <1>1
  <2>2. QED
    BY <1>1, <2>1, SubSeqProperties
<1>3. /\ below \in Seq(S) /\ Len(below) = Len(s) - i + 1
      /\ \A k \in 1 .. Len(s) - i + 1 : below[k] = s[i + k - 1]
  <2>1. \A k \in i .. Len(s) : s[k] \in S
    BY <1>1
  <2>2. QED
    BY <1>1, <2>1, SubSeqProperties
<1>4. <<e>> \in Seq(S) /\ Len(<<e>>) = 1 /\ <<e>>[1] = e
  OBVIOUS
<1> HIDE DEF above, below
<1>5. /\ above \o <<e>> \in Seq(S)
      /\ Len(above \o <<e>>) = i
      /\ \A k \in 1 .. i : (above \o <<e>>)[k] = IF k < i THEN s[k] ELSE e
  BY <1>1, <1>2, <1>4, ConcatProperties
<1> DEFINE upTo == above \o <<e>>
<1> HIDE DEF upTo
<1>6. /\ upTo \in Seq(S) /\ Len(upTo) = i
      /\ \A k \in 1 .. i : upTo[k] = IF k < i THEN s[k] ELSE e
  BY <1>5 DEF upTo
<1>7. /\ upTo \o below \in Seq(S)
      /\ Len(upTo \o below) = i + (Len(s) - i + 1)
      /\ \A k \in 1 .. i + (Len(s) - i + 1) :
            (upTo \o below)[k] = IF k <= i THEN upTo[k] ELSE below[k - i]
  <2>1. /\ upTo \o below \in Seq(S)
        /\ Len(upTo \o below) = Len(upTo) + Len(below)
        /\ \A k \in 1 .. Len(upTo) + Len(below) :
              (upTo \o below)[k] = IF k <= Len(upTo) THEN upTo[k] ELSE below[k - Len(upTo)]
    BY <1>3, <1>6, ConcatProperties
  <2>2. Len(upTo) = i /\ Len(below) = Len(s) - i + 1
    BY <1>3, <1>6
  <2>3. QED
    BY ONLY <2>1, <2>2
<1>8. i + (Len(s) - i + 1) = Len(s) + 1
  BY <1>1
<1>9. InsertAt(s, i, e) = upTo \o below
  BY DEF InsertAt, above, below, upTo
<1>10. ASSUME NEW k \in 1 .. Len(s) + 1
       PROVE  (upTo \o below)[k] =
                IF k < i THEN s[k] ELSE IF k = i THEN e ELSE s[k - 1]
  <2>1. CASE k <= i
    <3>1. (upTo \o below)[k] = upTo[k] /\ k \in 1 .. i
      BY <1>1, <1>7, <1>8, <2>1
    <3>2. k < i \/ k = i
      BY <1>1, <2>1
    <3>3. QED
      BY <1>6, <3>1, <3>2
  <2>2. CASE k > i
    <3>1. k - i \in 1 .. Len(s) - i + 1 /\ i + (k - i) - 1 = k - 1
      BY <1>1, <2>2
    <3>2. below[k - i] = s[k - 1]
      BY <1>3, <3>1
    <3>3. (upTo \o below)[k] = below[k - i] /\ ~ (k < i) /\ k # i
      BY <1>1, <1>7, <1>8, <2>2
    <3>4. QED
      BY <3>2, <3>3
  <2>3. k <= i \/ k > i
    BY <1>1
  <2>4. QED
    BY <2>1, <2>2, <2>3
<1>11. QED
  BY <1>7, <1>8, <1>9, <1>10

(* The binary search of a sorted list separates what must stay above the new  *)
(* message from what must stay below it.                                      *)
LEMMA InsertionPointSeparates ==
    ASSUME NEW s \in Seq(ChatMessage), NEW m \in ChatMessage, NEW strat,
           IsSortedBy(strat, s), NEW i \in InsertionPoints(strat, s, m)
    PROVE  /\ i \in 1 .. Len(s) + 1
           /\ \A j \in 1 .. i - 1 : ~ Less(strat, m, s[j])
           /\ \A j \in i .. Len(s) : ~ Less(strat, s[j], m)
<1> DEFINE ties == {k \in DOMAIN s : ~ Less(strat, s[k], m) /\ ~ Less(strat, m, s[k])}
<1>1. CASE ties # {}
  <2>1. i \in DOMAIN s /\ ~ Less(strat, s[i], m) /\ ~ Less(strat, m, s[i])
    BY <1>1 DEF InsertionPoints
  <2>2. DOMAIN s = 1 .. Len(s) /\ \A j \in 1 .. Len(s) : s[j] \in ChatMessage
    OBVIOUS
  <2>3. ASSUME NEW j \in 1 .. i - 1 PROVE ~ Less(strat, m, s[j])
    <3>1. j \in 1 .. Len(s) /\ i \in 1 .. Len(s) /\ j < i
      BY <2>1, <2>2
    <3>2. ~ Less(strat, s[i], s[j])
      BY <3>1, <2>2 DEF IsSortedBy
    <3>3. QED
      BY <3>1, <3>2, <2>1, <2>2, NotLessTransitive
  <2>4. ASSUME NEW j \in i .. Len(s) PROVE ~ Less(strat, s[j], m)
    <3>1. j \in 1 .. Len(s) /\ i \in 1 .. Len(s) /\ (i < j \/ i = j)
      BY <2>1, <2>2
    <3>2. CASE i = j
      BY <3>2, <2>1
    <3>3. CASE i < j
      <4>1. ~ Less(strat, s[j], s[i])
        BY <3>1, <3>3, <2>2 DEF IsSortedBy
      <4>2. QED
        BY <4>1, <3>1, <2>1, <2>2, NotLessTransitive
    <3>4. QED
      BY <3>1, <3>2, <3>3
  <2>5. QED
    BY <2>1, <2>2, <2>3, <2>4
<1>2. CASE ties = {}
  <2>1. /\ i \in 1 .. Len(s) + 1
        /\ \A j \in 1 .. i - 1 : Less(strat, s[j], m)
        /\ \A j \in i .. Len(s) : Less(strat, m, s[j])
    BY <1>2 DEF InsertionPoints
  <2>2. \A j \in 1 .. Len(s) : s[j] \in ChatMessage
    OBVIOUS
  <2>3. /\ \A j \in 1 .. i - 1 : j \in 1 .. Len(s)
        /\ \A j \in i .. Len(s) : j \in 1 .. Len(s)
    BY <2>1
  <2>4. QED
    BY <2>1, <2>2, <2>3, LessIsAsymmetric
<1>3. QED
  BY <1>1, <1>2

(* add_message keeps a sorted list sorted. *)
LEMMA InsertionKeepsOrder ==
    ASSUME NEW s \in Seq(ChatMessage), NEW m \in ChatMessage, NEW strat,
           IsSortedBy(strat, s), NEW i \in InsertionPoints(strat, s, m)
    PROVE  /\ InsertAt(s, i, m) \in Seq(ChatMessage)
           /\ IsSortedBy(strat, InsertAt(s, i, m))
<1> DEFINE t == InsertAt(s, i, m)
<1>1. /\ i \in 1 .. Len(s) + 1
      /\ \A j \in 1 .. i - 1 : ~ Less(strat, m, s[j])
      /\ \A j \in i .. Len(s) : ~ Less(strat, s[j], m)
  BY InsertionPointSeparates
<1>2. /\ t \in Seq(ChatMessage) /\ Len(t) = Len(s) + 1
      /\ \A k \in 1 .. Len(s) + 1 :
            t[k] = IF k < i THEN s[k] ELSE IF k = i THEN m ELSE s[k - 1]
  <2>1. i \in 1 .. Len(s) + 1
    BY <1>1
  <2>2. QED
    BY <2>1, InsertAtElements
<1> HIDE DEF t
<1>3. ASSUME NEW j \in DOMAIN t, NEW k \in DOMAIN t, j < k
      PROVE  ~ Less(strat, t[k], t[j])
  <2>1. j \in 1 .. Len(s) + 1 /\ k \in 1 .. Len(s) + 1
    BY <1>2
  <2>2. \A a, b \in 1 .. Len(s) : a < b => ~ Less(strat, s[b], s[a])
    BY DEF IsSortedBy
  <2>3. CASE k < i
    <3>1. t[j] = s[j] /\ t[k] = s[k] /\ j \in 1 .. Len(s) /\ k \in 1 .. Len(s)
      BY <1>1, <1>2, <1>3, <2>1, <2>3
    <3>2. QED
      BY <3>1, <2>2, <1>3
  <2>4. CASE k = i
    <3>1. t[j] = s[j] /\ t[k] = m /\ j \in 1 .. i - 1
      BY <1>1, <1>2, <1>3, <2>1, <2>4
    <3>2. QED
      BY <3>1, <1>1
  <2>5. CASE k > i /\ j = i
    <3>1. t[j] = m /\ t[k] = s[k - 1] /\ k - 1 \in i .. Len(s)
      BY <1>1, <1>2, <2>1, <2>5
    <3>2. QED
      BY <3>1, <1>1
  <2>6. CASE k > i /\ j < i
    <3>1. t[j] = s[j] /\ t[k] = s[k - 1] /\ j < k - 1
          /\ j \in 1 .. Len(s) /\ k - 1 \in 1 .. Len(s)
      BY <1>1, <1>2, <2>1, <2>6
    <3>2. QED
      BY <3>1, <2>2
  <2>7. CASE k > i /\ j > i
    <3>1. t[j] = s[j - 1] /\ t[k] = s[k - 1] /\ j - 1 < k - 1
          /\ j - 1 \in 1 .. Len(s) /\ k - 1 \in 1 .. Len(s)
      BY <1>1, <1>2, <1>3, <2>1, <2>7
    <3>2. QED
      BY <3>1, <2>2
  <2>8. QED
    BY <1>1, <2>1, <2>3, <2>4, <2>5, <2>6, <2>7
<1>4. QED
  BY <1>2, <1>3 DEF IsSortedBy, t

(* sort_messages returns messages of the list, in the order asked for. *)
LEMMA SortedResult ==
    ASSUME NEW s \in Seq(ChatMessage), NEW strat, NEW t \in StableSorts(strat, s)
    PROVE  t \in Seq(ChatMessage) /\ IsSortedBy(strat, t)
<1>1. PICK p \in Bijection(DOMAIN s, DOMAIN s) :
        StablySorts(p, strat, s) /\ t = [i \in DOMAIN s |-> s[p[i]]]
  BY DEF StableSorts
<1>2. p \in [DOMAIN s -> DOMAIN s]
  BY DEF Bijection, Injection
<1>3. DOMAIN s = 1 .. Len(s) /\ \A i \in 1 .. Len(s) : s[i] \in ChatMessage
  OBVIOUS
<1>4. t \in [1 .. Len(s) -> ChatMessage]
  BY <1>1, <1>2, <1>3
<1>5. t \in Seq(ChatMessage) /\ DOMAIN t = DOMAIN s
  BY <1>3, <1>4
<1>6. ASSUME NEW i \in DOMAIN s, NEW j \in DOMAIN s, i < j
      PROVE  ~ Less(strat, t[j], t[i])
  <2>1. t[i] = s[p[i]] /\ t[j] = s[p[j]] /\ t[i] \in ChatMessage /\ t[j] \in ChatMessage
    BY <1>1, <1>3, <1>4
  <2>2. Less(strat, t[i], t[j]) \/ ~ Less(strat, t[j], t[i])
    BY <1>1, <1>6, <2>1 DEF StablySorts
  <2>3. QED
    BY <2>1, <2>2, LessIsAsymmetric
<1>7. QED
  BY <1>5, <1>6 DEF IsSortedBy

(* An ACK moves nothing and changes no stamp, so it cannot disturb the order. *)
LEMMA AckKeepsPlaces ==
    ASSUME NEW s \in Seq(ChatMessage), NEW u \in LocalUuids, NEW p \in Peers,
           NEW t \in AckTimes
    PROVE  /\ UpdateMessageWithAck(s, u, p, t) \in Seq(ChatMessage)
           /\ DOMAIN UpdateMessageWithAck(s, u, p, t) = DOMAIN s
           /\ \A i \in DOMAIN s :
                /\ UpdateMessageWithAck(s, u, p, t)[i].kind = s[i].kind
                /\ UpdateMessageWithAck(s, u, p, t)[i].tx = s[i].tx
                /\ s[i].kind = "Received" => UpdateMessageWithAck(s, u, p, t)[i] = s[i]
<1> DEFINE r == UpdateMessageWithAck(s, u, p, t)
<1>1. DOMAIN s = 1 .. Len(s) /\ \A i \in 1 .. Len(s) : s[i] \in ChatMessage
  OBVIOUS
<1>2. ASSUME NEW m \in ChatMessage
      PROVE  /\ MarkAck(m, p, t) \in ChatMessage
             /\ MarkAck(m, p, t).kind = m.kind /\ MarkAck(m, p, t).tx = m.tx
             /\ m.kind = "Received" => MarkAck(m, p, t) = m
  <2>1. CASE m \in ReceivedMessage
    <3>1. m.kind = "Received"
      BY <2>1 DEF ReceivedMessage
    <3>2. QED
      BY <3>1 DEF MarkAck
  <2>2. CASE m \in SentMessage
    <3>1. /\ m.kind = "Sent"
          /\ m.deliveries \in [Reachable -> AckTimes \cup {NotAcked}]
      BY <2>2 DEF SentMessage
    <3>2. CASE p \in DOMAIN m.deliveries
      <4>1. MarkAck(m, p, t) = [m EXCEPT !.deliveries = [m.deliveries EXCEPT ![p] = t]]
        BY <3>1, <3>2 DEF MarkAck
      <4>2. [m.deliveries EXCEPT ![p] = t] \in [Reachable -> AckTimes \cup {NotAcked}]
        BY <3>1
      <4>3. MarkAck(m, p, t) \in SentMessage
        BY <2>2, <4>1, <4>2 DEF SentMessage
      <4>4. QED
        BY <2>2, <3>1, <4>1, <4>3 DEF SentMessage, ChatMessage
    <3>3. CASE p \notin DOMAIN m.deliveries
      BY <3>1, <3>3 DEF MarkAck
    <3>4. QED
      BY <3>2, <3>3
  <2>3. QED
    BY <2>1, <2>2 DEF ChatMessage
<1>3. \A i \in 1 .. Len(s) : r[i] = s[i] \/ r[i] = MarkAck(s[i], p, t)
  BY <1>1 DEF UpdateMessageWithAck
<1>4. DOMAIN r = 1 .. Len(s)
  BY <1>1 DEF UpdateMessageWithAck
<1>5. r \in [1 .. Len(s) -> ChatMessage]
  BY <1>1, <1>2, <1>3, <1>4 DEF UpdateMessageWithAck
<1>6. r \in Seq(ChatMessage)
  BY <1>1, <1>5
<1>7. QED
  BY <1>1, <1>2, <1>3, <1>4, <1>6

LEMMA AckKeepsOrder ==
    ASSUME NEW s \in Seq(ChatMessage), NEW u \in LocalUuids, NEW p \in Peers,
           NEW t \in AckTimes, NEW strat, IsSortedBy(strat, s)
    PROVE  IsSortedBy(strat, UpdateMessageWithAck(s, u, p, t))
<1> DEFINE r == UpdateMessageWithAck(s, u, p, t)
<1>1. /\ DOMAIN r = DOMAIN s
      /\ \A i \in DOMAIN s : /\ r[i].kind = s[i].kind /\ r[i].tx = s[i].tx
                             /\ s[i].kind = "Received" => r[i] = s[i]
  BY AckKeepsPlaces
<1>2. \A i \in DOMAIN s : s[i].kind \in {"Sent", "Received"}
  BY DEF ChatMessage, SentMessage, ReceivedMessage
<1> HIDE DEF r
<1>3. \A i \in DOMAIN s : /\ ArrivalTime(r[i]) = ArrivalTime(s[i])
                         /\ RelativeAnchor(r[i], strat) = RelativeAnchor(s[i], strat)
  BY <1>1, <1>2 DEF ArrivalTime, RelativeAnchor
<1>4. \A i, j \in DOMAIN s : Less(strat, r[i], r[j]) = Less(strat, s[i], s[j])
  BY <1>1, <1>3 DEF Less, StandardLess, RelativeLess
<1>5. QED
  BY <1>1, <1>4 DEF IsSortedBy, r

----------------------------------------------------------------------------
(* Init builds a sorted list of messages. *)
LEMMA SeedsAreMessages ==
    ASSUME NEW seed \in Seeds
    PROVE  seed \in Seq(ChatMessage)
<1>1. PICK n \in 0 .. MaxSeeds :
        seed \in [1 .. n -> [kind : {"Received"}, uuid : RemoteUuids,
                            sender : Everyone, tx : {0}, rx : SeedTimes]]
  BY DEF Seeds
<1>2. SeedTimes \subseteq Time /\ {0} \subseteq SenderTimes
  BY BoundsAssumption DEF SeedTimes, Time
<1>3. seed \in [1 .. n -> ChatMessage]
  BY <1>1, <1>2 DEF ChatMessage, ReceivedMessage
<1>4. n \in Nat
  BY BoundsAssumption
<1>5. QED
  BY <1>3, <1>4

LEMMA InsertedMessages ==
    \A s \in Seq(ChatMessage), m \in ChatMessage : \A i \in 1 .. Len(s) + 1 :
        /\ InsertAt(s, i, m) \in Seq(ChatMessage)
        /\ Len(InsertAt(s, i, m)) = Len(s) + 1
        /\ \A k \in 1 .. Len(s) + 1 :
              InsertAt(s, i, m)[k] =
                  IF k < i THEN s[k] ELSE IF k = i THEN m ELSE s[k - 1]
BY InsertAtElements

LEMMA AddedMessageType ==
    ASSUME TypeOK, NEW m \in ChatMessage, AddMessage(m)
    PROVE  messages' \in Seq(ChatMessage)
<1>1. PICK i \in InsertionPoints(sort_strategy, messages, m) :
        messages' = InsertAt(messages, i, m)
  BY DEF AddMessage
<1>2. i \in 1 .. Len(messages) + 1
  BY DEF InsertionPoints, TypeOK
<1>3. QED
  BY <1>1, <1>2, InsertAtElements DEF TypeOK

(* Every variable keeps its type: in particular the list holds only messages  *)
(* whose deliveries are exactly the reachable peers.                          *)
THEOREM TypeCorrect == Spec => []TypeOK
<1>1. Init => TypeOK
  <2>1. SUFFICES ASSUME Init PROVE TypeOK
    OBVIOUS
  <2>2. messages \in Seq(ChatMessage)
    <3>1. PICK seed \in Seeds : messages \in StableSorts(Standard, seed)
      BY <2>1 DEF Init
    <3>2. QED
      BY <3>1, SeedsAreMessages, SortedResult
  <2>3. now \in Time
    BY <2>1, BoundsAssumption DEF Init, Time
  <2>4. /\ sort_strategy \in SortStrategy /\ composed \subseteq SentMessage
        /\ receiving \in ReceivedMessage \cup {NoMessage}
    BY <2>1 DEF Init, SortStrategy
  <2>5. QED
    BY <2>2, <2>3, <2>4 DEF TypeOK
<1>2. TypeOK /\ [Next]_vars => TypeOK'
  <2>1. SUFFICES ASSUME TypeOK, [Next]_vars PROVE TypeOK'
    OBVIOUS
  <2>2. ASSUME NEW u \in LocalUuids, Compose(u) PROVE TypeOK'
    BY <2>1, <2>2 DEF Compose, TypeOK, SentMessage
  <2>3. ASSUME NEW m \in composed, ManageSend(m) PROVE TypeOK'
    <3>1. m \in ChatMessage
      BY <2>1 DEF TypeOK, ChatMessage
    <3>2. messages' \in Seq(ChatMessage)
      BY <2>1, <2>3, <3>1, AddedMessageType DEF ManageSend
    <3>3. QED
      BY <2>1, <2>3, <3>2 DEF ManageSend, TypeOK
  <2>4. ASSUME NEW u \in RemoteUuids, NEW p \in Peers, NEW tx \in SenderTimes,
               Decode(u, p, tx)
        PROVE  TypeOK'
    BY <2>1, <2>4 DEF Decode, TypeOK, ReceivedMessage, Everyone
  <2>5. CASE OnSocketEvent
    <3>1. receiving \in ChatMessage
      BY <2>1, <2>5 DEF OnSocketEvent, TypeOK, ChatMessage
    <3>2. messages' \in Seq(ChatMessage)
      BY <2>1, <2>5, <3>1, AddedMessageType DEF OnSocketEvent
    <3>3. QED
      BY <2>1, <2>5, <3>2 DEF OnSocketEvent, TypeOK
  <2>6. ASSUME NEW u \in LocalUuids, NEW p \in Peers, NEW t \in AckTimes,
               OnAckReceived(u, p, t)
        PROVE  TypeOK'
    BY <2>1, <2>6, AckKeepsPlaces DEF OnAckReceived, TypeOK
  <2>7. ASSUME NEW strat \in SortStrategy, SortMessages(strat) PROVE TypeOK'
    BY <2>1, <2>7, SortedResult DEF SortMessages, TypeOK
  <2>8. CASE Tick
    BY <2>1, <2>8, BoundsAssumption DEF Tick, TypeOK, Time
  <2>9. CASE UNCHANGED vars
    BY <2>1, <2>9 DEF vars, TypeOK
  <2>10. QED
    BY <2>1, <2>2, <2>3, <2>4, <2>5, <2>6, <2>7, <2>8, <2>9 DEF Next
<1>3. QED
  BY <1>1, <1>2, PTL DEF Spec

(* The list is always sorted by the selected strategy: main.rs:63 requires it *)
(* of the seeds because every later insertion is a binary search.             *)
THEOREM AlwaysSorted == Spec => []Sorted
<1>1. Init => Sorted
  BY SeedsAreMessages, SortedResult DEF Init, Sorted
<1>2. TypeOK /\ Sorted /\ [Next]_vars => Sorted'
  <2>1. SUFFICES ASSUME TypeOK, Sorted, [Next]_vars PROVE Sorted'
    OBVIOUS
  <2>2. ASSUME NEW m \in ChatMessage, AddMessage(m), sort_strategy' = sort_strategy
        PROVE  Sorted'
    BY <2>1, <2>2, InsertionKeepsOrder DEF AddMessage, Sorted, TypeOK
  <2>3. ASSUME NEW m \in composed, ManageSend(m) PROVE Sorted'
    BY <2>1, <2>2, <2>3 DEF ManageSend, TypeOK, ChatMessage
  <2>4. CASE OnSocketEvent
    BY <2>1, <2>2, <2>4 DEF OnSocketEvent, TypeOK, ChatMessage
  <2>5. ASSUME NEW u \in LocalUuids, NEW p \in Peers, NEW t \in AckTimes,
               OnAckReceived(u, p, t)
        PROVE  Sorted'
    BY <2>1, <2>5, AckKeepsOrder DEF OnAckReceived, Sorted, TypeOK
  <2>6. ASSUME NEW strat \in SortStrategy, SortMessages(strat) PROVE Sorted'
    BY <2>1, <2>6, SortedResult DEF SortMessages, Sorted, TypeOK
  <2>7. CASE UNCHANGED <<messages, sort_strategy>>
    BY <2>1, <2>7 DEF Sorted
  <2>8. QED
    BY <2>1, <2>3, <2>4, <2>5, <2>6, <2>7
       DEF Next, Compose, Decode, Tick, vars
<1>3. QED
  BY <1>1, <1>2, TypeCorrect, PTL DEF Spec

----------------------------------------------------------------------------
(* The stamps of the list: an insertion adds one message, a sort or an ACK    *)
(* none.                                                                      *)
LEMMA AddedMessageElements ==
    ASSUME TypeOK, NEW m \in ChatMessage, AddMessage(m)
    PROVE  \A k \in DOMAIN messages' :
              messages'[k] = m \/ \E i \in DOMAIN messages : messages'[k] = messages[i]
<1>1. PICK i \in InsertionPoints(sort_strategy, messages, m) :
        messages' = InsertAt(messages, i, m)
  BY DEF AddMessage
<1>2. i \in 1 .. Len(messages) + 1 /\ messages \in Seq(ChatMessage)
  BY DEF InsertionPoints, TypeOK
<1>3. /\ messages' \in Seq(ChatMessage) /\ Len(messages') = Len(messages) + 1
      /\ \A k \in 1 .. Len(messages) + 1 :
            messages'[k] = IF k < i THEN messages[k]
                           ELSE IF k = i THEN m ELSE messages[k - 1]
  <2>1. /\ InsertAt(messages, i, m) \in Seq(ChatMessage)
        /\ Len(InsertAt(messages, i, m)) = Len(messages) + 1
        /\ \A k \in 1 .. Len(messages) + 1 :
              InsertAt(messages, i, m)[k] =
                  IF k < i THEN messages[k] ELSE IF k = i THEN m ELSE messages[k - 1]
    BY <1>2, InsertAtElements
  <2>2. QED
    BY <1>1, <2>1
<1>4. ASSUME NEW k \in DOMAIN messages', messages'[k] # m
      PROVE  \E j \in DOMAIN messages : messages'[k] = messages[j]
  <2>1. k \in 1 .. Len(messages) + 1 /\ k # i
    BY <1>3, <1>4
  <2>2. CASE k < i
    BY <1>2, <1>3, <2>1, <2>2
  <2>3. CASE k > i
    <3>1. messages'[k] = messages[k - 1] /\ k - 1 \in DOMAIN messages
      BY <1>2, <1>3, <2>1, <2>3
    <3>2. QED
      BY <3>1
  <2>4. QED
    BY <1>2, <2>1, <2>2, <2>3
<1>5. QED
  BY <1>4

LEMMA SortedElements ==
    ASSUME NEW s \in Seq(ChatMessage), NEW strat, NEW t \in StableSorts(strat, s)
    PROVE  \A k \in DOMAIN t : \E i \in DOMAIN s : t[k] = s[i]
BY DEF StableSorts, Bijection, Injection

(* Inbound messages are stamped in the order they enter the list, whatever    *)
(* sends, ACKs and sorts happen between a stamp and its insertion.            *)
THEOREM StampsInOrder == Spec => []StampsPast
<1>1. Init => StampsPast
  <2>1. SUFFICES ASSUME Init PROVE StampsPast
    OBVIOUS
  <2>2. PICK seed \in Seeds : messages \in StableSorts(Standard, seed)
    BY <2>1 DEF Init
  <2>3. ASSUME NEW i \in DOMAIN seed PROVE ArrivalTime(seed[i]) \in {0, 1}
    BY DEF Seeds, SeedTimes, ArrivalTime
  <2>4. \A k \in DOMAIN messages : \E i \in DOMAIN seed : messages[k] = seed[i]
    BY <2>2, SeedsAreMessages, SortedElements
  <2>5. \A k \in DOMAIN messages : ArrivalTime(messages[k]) <= now
    BY <2>1, <2>3, <2>4 DEF Init
  <2>6. QED
    BY <2>1, <2>5 DEF Init, StampsPast
<1>2. TypeOK /\ StampsPast /\ [Next]_vars => StampsPast'
  <2>1. SUFFICES ASSUME TypeOK, StampsPast, [Next]_vars PROVE StampsPast'
    OBVIOUS
  <2>2. /\ now \in Nat
        /\ \A m \in ChatMessage : m.tx \in Nat /\ ArrivalTime(m) \in Nat
        /\ \A i \in DOMAIN messages : messages[i] \in ChatMessage
        /\ \A m \in composed : m \in ChatMessage /\ m.kind = "Sent" /\ ArrivalTime(m) = m.tx
    <3>1. now \in Nat
      BY <2>1, BoundsAssumption DEF TypeOK, Time
    <3>2. \A m \in composed : m \in ChatMessage /\ m.kind = "Sent" /\ ArrivalTime(m) = m.tx
      BY <2>1 DEF TypeOK, ChatMessage, SentMessage, ArrivalTime
    <3>3. QED
      BY <2>1, <3>1, <3>2, StampsAreNat DEF TypeOK
  <2>3. receiving # NoMessage =>
          /\ receiving \in ChatMessage /\ receiving.kind = "Received"
          /\ receiving.rx \in Nat /\ ArrivalTime(receiving) = receiving.rx
    <3>1. receiving # NoMessage =>
            receiving \in ReceivedMessage /\ receiving.kind = "Received"
      BY <2>1 DEF TypeOK, ReceivedMessage
    <3>2. QED
      BY <3>1, StampsAreNat DEF ChatMessage, ArrivalTime
  <2>4. ASSUME NEW u \in LocalUuids, Compose(u) PROVE StampsPast'
    BY <2>1, <2>2, <2>4 DEF Compose, StampsPast
  <2>5. ASSUME NEW m \in composed, ManageSend(m) PROVE StampsPast'
    <3>1. \A k \in DOMAIN messages' :
            messages'[k] = m \/ \E i \in DOMAIN messages : messages'[k] = messages[i]
      BY <2>1, <2>2, <2>5, AddedMessageElements DEF ManageSend
    <3>2. QED
      BY <2>1, <2>2, <2>5, <3>1 DEF ManageSend, StampsPast
  <2>6. ASSUME NEW u \in RemoteUuids, NEW p \in Peers, NEW tx \in SenderTimes,
               Decode(u, p, tx)
        PROVE  StampsPast'
    <3>1. \A i \in DOMAIN messages :
            messages[i].kind = "Received" => messages[i].rx <= now
      BY <2>1 DEF StampsPast, ArrivalTime
    <3>2. QED
      BY <2>1, <2>2, <2>6, <3>1 DEF Decode, StampsPast
  <2>7. CASE OnSocketEvent
    <3>1. \A k \in DOMAIN messages' :
            \/ messages'[k] = receiving
            \/ \E i \in DOMAIN messages : messages'[k] = messages[i]
      BY <2>1, <2>3, <2>7, AddedMessageElements DEF OnSocketEvent
    <3>2. QED
      BY <2>1, <2>2, <2>3, <2>7, <3>1 DEF OnSocketEvent, StampsPast
  <2>8. ASSUME NEW u \in LocalUuids, NEW p \in Peers, NEW t \in AckTimes,
               OnAckReceived(u, p, t)
        PROVE  StampsPast'
    <3>1. /\ DOMAIN messages' = DOMAIN messages
          /\ \A i \in DOMAIN messages :
                /\ messages'[i].kind = messages[i].kind
                /\ messages'[i].tx = messages[i].tx
                /\ messages[i].kind = "Received" => messages'[i] = messages[i]
      BY <2>1, <2>8, AckKeepsPlaces DEF OnAckReceived, TypeOK
    <3>2. \A i \in DOMAIN messages : messages[i].kind \in {"Sent", "Received"}
      BY <2>2 DEF ChatMessage, SentMessage, ReceivedMessage
    <3>3. \A i \in DOMAIN messages : ArrivalTime(messages'[i]) = ArrivalTime(messages[i])
      BY <3>1, <3>2 DEF ArrivalTime
    <3>4. QED
      BY <2>1, <2>8, <3>1, <3>3 DEF OnAckReceived, StampsPast
  <2>9. ASSUME NEW strat \in SortStrategy, SortMessages(strat) PROVE StampsPast'
    <3>1. \A k \in DOMAIN messages' : \E i \in DOMAIN messages : messages'[k] = messages[i]
      BY <2>1, <2>9, SortedElements DEF SortMessages, TypeOK
    <3>2. QED
      BY <2>1, <2>9, <3>1 DEF SortMessages, StampsPast
  <2>10. CASE Tick
    BY <2>1, <2>2, <2>3, <2>10 DEF Tick, StampsPast
  <2>11. CASE UNCHANGED vars
    BY <2>1, <2>11 DEF vars, StampsPast
  <2>12. QED
    BY <2>1, <2>4, <2>5, <2>6, <2>7, <2>8, <2>9, <2>10, <2>11 DEF Next
<1>3. QED
  BY <1>1, <1>2, TypeCorrect, PTL DEF Spec

----------------------------------------------------------------------------
(* app.rs:35: in the standard order a message that arrives, however long it   *)
(* was delayed, is inserted below every message that arrived earlier.         *)
THEOREM DelayedArrivalsLandAtBottom == Spec => ArrivalsLandAtBottom
<1> DEFINE Arrives == /\ receiving # NoMessage /\ receiving' = NoMessage
                      /\ sort_strategy = Standard
<1>1. TypeOK /\ Sorted /\ StampsPast /\ [Next]_vars => (Arrives => LandsAtBottom)
  <2>1. SUFFICES ASSUME TypeOK, Sorted, StampsPast, [Next]_vars, Arrives
                 PROVE  LandsAtBottom
    OBVIOUS
  <2>2. OnSocketEvent
    BY <2>1, NoMessageAssumption
       DEF Next, Compose, ManageSend, Decode, OnAckReceived, SortMessages, Tick, vars
  <2>3. /\ receiving \in ReceivedMessage /\ receiving \in ChatMessage
        /\ messages \in Seq(ChatMessage)
    BY <2>1 DEF TypeOK, ChatMessage
  <2>4. PICK i \in InsertionPoints(Standard, messages, receiving) :
            messages' = InsertAt(messages, i, receiving)
    BY <2>1, <2>2 DEF OnSocketEvent, AddMessage
  <2>5. IsSortedBy(Standard, messages)
    BY <2>1 DEF Sorted
  <2>6. /\ i \in 1 .. Len(messages) + 1
        /\ IsSortedBy(Standard, InsertAt(messages, i, receiving))
    BY <2>3, <2>4, <2>5, InsertionPointSeparates, InsertionKeepsOrder
  <2>7. /\ InsertAt(messages, i, receiving) \in Seq(ChatMessage)
        /\ Len(InsertAt(messages, i, receiving)) = Len(messages) + 1
        /\ \A k \in 1 .. Len(messages) + 1 :
              InsertAt(messages, i, receiving)[k] =
                  IF k < i THEN messages[k]
                  ELSE IF k = i THEN receiving ELSE messages[k - 1]
    <3>1. i \in 1 .. Len(messages) + 1
      BY <2>6
    <3>2. receiving \in ChatMessage /\ messages \in Seq(ChatMessage)
      BY <2>3
    <3>3. QED
      BY <3>1, <3>2, InsertedMessages
  <2>8. /\ messages' \in Seq(ChatMessage) /\ Len(messages') = Len(messages) + 1
        /\ IsSortedBy(Standard, messages') /\ messages'[i] = receiving
        /\ \A k \in i + 1 .. Len(messages) + 1 : messages'[k] = messages[k - 1]
    BY <2>3, <2>4, <2>6, <2>7
  <2>9. receiving.kind = "Received" /\ ArrivalTime(receiving) = receiving.rx
        /\ receiving.rx \in Nat
    <3>1. receiving.kind = "Received"
      BY <2>3 DEF ReceivedMessage
    <3>2. QED
      BY <3>1, <2>3, StampsAreNat DEF ArrivalTime
  <2>10. ASSUME NEW j \in i + 1 .. Len(messages')
         PROVE  /\ ArrivalTime(messages'[j]) >= receiving.rx
                /\ messages'[j].kind = "Received" => messages'[j].rx = receiving.rx
    <3>1. /\ j \in DOMAIN messages' /\ i \in DOMAIN messages' /\ i < j
          /\ j - 1 \in DOMAIN messages /\ messages'[j] = messages[j - 1]
      BY <2>3, <2>6, <2>8
    <3>2. ~ Less(Standard, messages'[j], receiving)
      BY <2>8, <3>1 DEF IsSortedBy
    <3>3. messages'[j] \in ChatMessage
      BY <2>8, <3>1
    <3>4. ArrivalTime(messages'[j]) \in Nat
      BY <3>3, StampsAreNat
    <3>5. ArrivalTime(messages'[j]) >= receiving.rx
      BY <2>9, <3>2, <3>4 DEF Less, StandardLess
    <3>6. messages[j - 1].kind = "Received" => messages[j - 1].rx <= receiving.rx
      BY <2>1, <3>1 DEF StampsPast
    <3>7. messages'[j].kind = "Received" =>
              messages'[j].rx = ArrivalTime(messages'[j])
      BY DEF ArrivalTime
    <3>8. messages'[j].kind = "Received" => messages'[j].rx = receiving.rx
      BY <2>9, <3>1, <3>4, <3>5, <3>6, <3>7
    <3>9. QED
      BY <3>5, <3>8
  <2>11. QED
    BY <2>3, <2>6, <2>8, <2>10 DEF LandsAtBottom
<1>2. QED
  BY <1>1, TypeCorrect, AlwaysSorted, StampsInOrder, PTL DEF Spec, ArrivalsLandAtBottom

----------------------------------------------------------------------------
(* No step loses history: every step maps the places of the list injectively  *)
(* into the places of the new one, and what was at a place is still at its    *)
(* image, with the ACKs it had.                                               *)
Survives(a, b) ==
    /\ b.uuid = a.uuid
    /\ a.kind = "Received" => b = a
    /\ a.kind = "Sent" => AckedBy(a) \subseteq AckedBy(b)

Embeds(s, t) ==
    \E f \in Injection(DOMAIN s, DOMAIN t) : \A i \in DOMAIN s : Survives(s[i], t[f[i]])

(* add_message moves what is below the new message one place down. *)
LEMMA InsertionEmbeds ==
    ASSUME NEW s \in Seq(ChatMessage), NEW m \in ChatMessage, NEW i \in 1 .. Len(s) + 1
    PROVE  Embeds(s, InsertAt(s, i, m))
<1> DEFINE t == InsertAt(s, i, m)
           f == [k \in DOMAIN s |-> IF k < i THEN k ELSE k + 1]
<1>1. /\ t \in Seq(ChatMessage) /\ Len(t) = Len(s) + 1
      /\ \A k \in 1 .. Len(s) + 1 :
            t[k] = IF k < i THEN s[k] ELSE IF k = i THEN m ELSE s[k - 1]
  BY InsertedMessages
<1>2. DOMAIN s = 1 .. Len(s) /\ DOMAIN t = 1 .. Len(s) + 1 /\ Len(s) \in Nat
  BY <1>1
<1> HIDE DEF t
<1>3. f \in [DOMAIN s -> DOMAIN t]
  BY <1>2
<1>4. \A a, b \in DOMAIN s : f[a] = f[b] => a = b
  BY <1>2
<1>5. f \in Injection(DOMAIN s, DOMAIN t)
  BY <1>3, <1>4, Fun_IsInj
<1>6. ASSUME NEW k \in DOMAIN s PROVE t[f[k]] = s[k]
  BY <1>1, <1>2
<1>7. \A k \in DOMAIN s : Survives(s[k], t[f[k]])
  BY <1>6 DEF Survives
<1> HIDE DEF f
<1>8. QED
  BY <1>5, <1>7 DEF Embeds, t

(* sort_messages permutes the places. *)
LEMMA SortEmbeds ==
    ASSUME NEW s \in Seq(ChatMessage), NEW strat, NEW t \in StableSorts(strat, s)
    PROVE  Embeds(s, t)
<1>1. PICK p \in Bijection(DOMAIN s, DOMAIN s) : t = [i \in DOMAIN s |-> s[p[i]]]
  BY DEF StableSorts
<1> DEFINE f == [j \in DOMAIN s |-> CHOOSE i \in DOMAIN s : p[i] = j]
<1>2. \A j \in DOMAIN s : \E i \in DOMAIN s : p[i] = j
  BY DEF Bijection, Surjection
<1>3. \A j \in DOMAIN s : f[j] \in DOMAIN s /\ p[f[j]] = j
  BY <1>2
<1>4. f \in [DOMAIN s -> DOMAIN s]
  BY <1>3
<1>5. DOMAIN t = DOMAIN s
  BY <1>1
<1> HIDE DEF f
<1>6. f \in Injection(DOMAIN s, DOMAIN t)
  <2>1. \A a, b \in DOMAIN s : f[a] = f[b] => a = b
    BY <1>3
  <2>2. QED
    BY <1>4, <1>5, <2>1, Fun_IsInj
<1>7. \A j \in DOMAIN s : t[f[j]] = s[j]
  BY <1>1, <1>3
<1>8. QED
  BY <1>6, <1>7 DEF Embeds, Survives

(* An ACK moves nothing, and the time it writes is not None. *)
LEMMA AckEmbeds ==
    ASSUME NEW s \in Seq(ChatMessage), NEW u \in LocalUuids, NEW p \in Peers,
           NEW t \in AckTimes
    PROVE  Embeds(s, UpdateMessageWithAck(s, u, p, t))
<1> DEFINE r == UpdateMessageWithAck(s, u, p, t)
           f == [i \in DOMAIN s |-> i]
<1>1. /\ DOMAIN r = DOMAIN s
      /\ \A i \in DOMAIN s : r[i] = s[i] \/ r[i] = MarkAck(s[i], p, t)
  BY DEF UpdateMessageWithAck
<1>2. ASSUME NEW m \in ChatMessage PROVE Survives(m, MarkAck(m, p, t))
  <2>1. CASE m \in ReceivedMessage
    <3>1. m.kind = "Received"
      BY <2>1 DEF ReceivedMessage
    <3>2. QED
      BY <3>1 DEF MarkAck, Survives
  <2>2. CASE m \in SentMessage /\ p \in DOMAIN m.deliveries
    <3>1. /\ m.kind = "Sent"
          /\ m.deliveries \in [Reachable -> AckTimes \cup {NotAcked}]
      BY <2>2 DEF SentMessage
    <3>2. MarkAck(m, p, t) = [m EXCEPT !.deliveries = [m.deliveries EXCEPT ![p] = t]]
      BY <2>2, <3>1 DEF MarkAck
    <3>3. /\ MarkAck(m, p, t).uuid = m.uuid
          /\ MarkAck(m, p, t).deliveries = [m.deliveries EXCEPT ![p] = t]
      BY <2>2, <3>2 DEF SentMessage
    <3>4. t # NotAcked
      BY MarkersAssumption
    <3>5. AckedBy(m) \subseteq AckedBy(MarkAck(m, p, t))
      BY <3>1, <3>3, <3>4 DEF AckedBy
    <3>6. QED
      BY <3>1, <3>3, <3>5 DEF Survives
  <2>3. CASE m \in SentMessage /\ p \notin DOMAIN m.deliveries
    BY <2>3 DEF MarkAck, Survives, SentMessage
  <2>4. QED
    BY <2>1, <2>2, <2>3 DEF ChatMessage
<1>3. \A i \in DOMAIN s : s[i] \in ChatMessage
  OBVIOUS
<1> HIDE DEF r
<1>4. \A i \in DOMAIN s : Survives(s[i], r[f[i]])
  BY <1>1, <1>2, <1>3 DEF Survives
<1>5. f \in Injection(DOMAIN s, DOMAIN r)
  BY <1>1, Fun_IsInj
<1> HIDE DEF f
<1>6. QED
  BY <1>4, <1>5 DEF Embeds, r

(* What an injection into the new list says of the old one. *)
LEMMA EmbeddedCopies ==
    ASSUME NEW s \in Seq(ChatMessage), NEW t \in Seq(ChatMessage), Embeds(s, t),
           NEW u, NEW rx
    PROVE  Copies(t, u, rx) >= Copies(s, u, rx)
<1> DEFINE At(q) == {i \in DOMAIN q : q[i].kind = "Received" /\ q[i].uuid = u /\ q[i].rx = rx}
<1>1. PICK f \in Injection(DOMAIN s, DOMAIN t) :
        \A i \in DOMAIN s : Survives(s[i], t[f[i]])
  BY DEF Embeds
<1>2. /\ f \in [DOMAIN s -> DOMAIN t]
      /\ \A a, b \in DOMAIN s : f[a] = f[b] => a = b
  BY <1>1 DEF Injection, IsInjective
<1> DEFINE g == [i \in At(s) |-> f[i]]
<1>3. g \in [At(s) -> At(t)]
  BY <1>1, <1>2 DEF Survives
<1>4. g \in Injection(At(s), At(t))
  <2>1. \A a, b \in At(s) : g[a] = g[b] => a = b
    BY <1>2
  <2>2. QED
    BY <1>3, <2>1, Fun_IsInj
<1>5. IsFiniteSet(At(t))
  <2>1. DOMAIN t = 1 .. Len(t) /\ Len(t) \in Nat
    OBVIOUS
  <2>2. IsFiniteSet(DOMAIN t)
    BY <2>1, FS_Interval
  <2>3. At(t) \in SUBSET DOMAIN t
    OBVIOUS
  <2>4. QED
    BY <2>2, <2>3, FS_Subset
<1> HIDE DEF g, At
<1>6. /\ IsFiniteSet(At(s))
      /\ Cardinality(At(s)) <= Cardinality(At(t))
  BY <1>4, <1>5, FS_Injection
<1>7. Cardinality(At(s)) \in Nat /\ Cardinality(At(t)) \in Nat
  BY <1>5, <1>6, FS_CardinalityType
<1>8. Cardinality(At(t)) >= Cardinality(At(s))
  BY <1>6, <1>7
<1>9. QED
  BY <1>8 DEF Copies, At

(* The list never loses a message, merges two copies or takes back an ACK,    *)
(* whatever sends, arrivals, repeated ACKs and sorts follow each other.       *)
THEOREM NothingIsForgotten == Spec => HistoryKept
<1> DEFINE Kept ==
        /\ \A i \in DOMAIN messages : messages[i].kind = "Sent" =>
              \E j \in DOMAIN messages' :
                  /\ messages'[j].uuid = messages[i].uuid
                  /\ AckedBy(messages[i]) \subseteq AckedBy(messages'[j])
        /\ \A u \in RemoteUuids, t \in Time :
              Copies(messages', u, t) >= Copies(messages, u, t)
<1>1. ASSUME TypeOK, TypeOK', [Next]_vars PROVE Kept
  <2>1. messages \in Seq(ChatMessage) /\ messages' \in Seq(ChatMessage)
    BY <1>1 DEF TypeOK
  <2>2. ASSUME NEW m \in ChatMessage, AddMessage(m) PROVE Embeds(messages, messages')
    <3>1. PICK i \in InsertionPoints(sort_strategy, messages, m) :
            messages' = InsertAt(messages, i, m)
      BY <2>2 DEF AddMessage
    <3>2. i \in 1 .. Len(messages) + 1
      BY <2>1, <3>1 DEF InsertionPoints
    <3>3. QED
      BY <2>1, <3>1, <3>2, InsertionEmbeds
  <2>3. ASSUME messages' = messages PROVE Kept
    <3>1. \A u, t : Copies(messages, u, t) \in Nat
      <4>1. DOMAIN messages = 1 .. Len(messages) /\ Len(messages) \in Nat
        BY <2>1
      <4>2. IsFiniteSet(DOMAIN messages)
        BY <4>1, FS_Interval
      <4>3. ASSUME NEW u, NEW t PROVE Copies(messages, u, t) \in Nat
        <5> DEFINE At == {i \in DOMAIN messages : messages[i].kind = "Received"
                             /\ messages[i].uuid = u /\ messages[i].rx = t}
        <5>1. At \in SUBSET DOMAIN messages
          OBVIOUS
        <5>2. Cardinality(At) \in Nat
          BY <4>2, <5>1, FS_Subset, FS_CardinalityType
        <5>3. QED
          BY <5>2 DEF Copies
      <4>4. QED
        BY <4>3
    <3>2. \A u, t : Copies(messages', u, t) = Copies(messages, u, t)
      BY <2>3
    <3>3. \A u, t : Copies(messages', u, t) >= Copies(messages, u, t)
      BY <3>1, <3>2
    <3>4. QED
      BY <2>3, <3>3
  <2>4. ASSUME Embeds(messages, messages') PROVE Kept
    <3>1. \A u, t : Copies(messages', u, t) >= Copies(messages, u, t)
      BY <2>1, <2>4, EmbeddedCopies
    <3>2. PICK f \in Injection(DOMAIN messages, DOMAIN messages') :
            \A i \in DOMAIN messages : Survives(messages[i], messages'[f[i]])
      BY <2>4 DEF Embeds
    <3>3. \A i \in DOMAIN messages : f[i] \in DOMAIN messages'
      BY <3>2 DEF Injection
    <3>4. QED
      BY <3>1, <3>2, <3>3 DEF Survives
  <2>5. ASSUME NEW m \in composed, ManageSend(m) PROVE Kept
    BY <1>1, <2>2, <2>4, <2>5 DEF ManageSend, TypeOK, ChatMessage
  <2>6. CASE OnSocketEvent
    BY <1>1, <2>2, <2>4, <2>6 DEF OnSocketEvent, TypeOK, ChatMessage
  <2>7. ASSUME NEW u \in LocalUuids, NEW p \in Peers, NEW t \in AckTimes,
               OnAckReceived(u, p, t)
        PROVE  Kept
    BY <2>1, <2>4, <2>7, AckEmbeds DEF OnAckReceived
  <2>8. ASSUME NEW strat \in SortStrategy, SortMessages(strat) PROVE Kept
    BY <2>1, <2>4, <2>8, SortEmbeds DEF SortMessages
  <2>9. CASE UNCHANGED messages
    BY <2>3, <2>9
  <2>10. QED
    BY <1>1, <2>5, <2>6, <2>7, <2>8, <2>9 DEF Next, Compose, Decode, Tick, vars
<1>2. QED
  BY <1>1, TypeCorrect, PTL DEF Spec, HistoryKept
----------------------------------------------------------------------------
(* Own messages stand in the order they were sent, and inbound ones in the    *)
(* order they were received, in every view but that of their sender: both are *)
(* what the compared stamps are, once the list is sorted.                     *)
THEOREM ViewsAgree == Spec => []CommonOrder
<1>1. TypeOK /\ Sorted => CommonOrder
  <2>1. SUFFICES ASSUME TypeOK, Sorted,
                        NEW i \in DOMAIN messages, NEW j \in DOMAIN messages,
                        i < j, messages[i].kind = messages[j].kind
                 PROVE  IF messages[i].kind = "Sent" THEN messages[i].tx <= messages[j].tx
                        ELSE \/ sort_strategy \in {messages[i].sender, messages[j].sender}
                             \/ messages[i].rx <= messages[j].rx
    BY DEF CommonOrder
  <2> DEFINE a == messages[i]
             b == messages[j]
  <2>2. /\ a \in ChatMessage /\ b \in ChatMessage
        /\ a.tx \in Nat /\ b.tx \in Nat
        /\ ArrivalTime(a) \in Nat /\ ArrivalTime(b) \in Nat
    BY <2>1, StampsAreNat DEF TypeOK
  <2>3. ~ Less(sort_strategy, b, a)
    BY <2>1 DEF Sorted, IsSortedBy
  <2>4. a.kind = b.kind /\ a.kind \in {"Sent", "Received"}
    BY <2>1, <2>2 DEF ChatMessage, SentMessage, ReceivedMessage
  <2> HIDE DEF a, b
  <2>5. CASE a.kind = "Sent"
    <3>1. ArrivalTime(a) = a.tx /\ ArrivalTime(b) = b.tx
      BY <2>4, <2>5 DEF ArrivalTime
    <3>2. RelativeAnchor(a, sort_strategy) = a.tx /\ RelativeAnchor(b, sort_strategy) = b.tx
      BY <2>4, <2>5 DEF RelativeAnchor
    <3>3. a.tx <= b.tx
      BY <2>2, <2>3, <3>1, <3>2 DEF Less, StandardLess, RelativeLess
    <3>4. QED
      BY <2>5, <3>3 DEF a, b
  <2>6. CASE a.kind = "Received"
    <3>1. ArrivalTime(a) = a.rx /\ ArrivalTime(b) = b.rx
      BY <2>4, <2>6 DEF ArrivalTime
    <3>2. CASE sort_strategy = Standard
      <4>1. a.rx <= b.rx
        BY <2>2, <2>3, <3>1, <3>2 DEF Less, StandardLess
      <4>2. QED
        BY <2>6, <4>1 DEF a, b
    <3>3. CASE sort_strategy # Standard /\ sort_strategy \notin {a.sender, b.sender}
      <4>1. RelativeAnchor(a, sort_strategy) = a.rx /\ RelativeAnchor(b, sort_strategy) = b.rx
        BY <2>4, <2>6, <3>3 DEF RelativeAnchor
      <4>2. a.rx <= b.rx
        BY <2>2, <2>3, <3>1, <3>3, <4>1 DEF Less, RelativeLess
      <4>3. QED
        BY <2>6, <4>2 DEF a, b
    <3>4. QED
      BY <2>6, <3>2, <3>3 DEF a, b
  <2>7. QED
    BY <2>4, <2>5, <2>6
<1>2. QED
  BY <1>1, TypeCorrect, AlwaysSorted, PTL

----------------------------------------------------------------------------
(* A uuid finds one sent message: insertions, sorts and ACKs keep it so.      *)
OnceIn(s) ==
    \A i, j \in DOMAIN s : s[i].kind = "Sent" /\ s[i].uuid = s[j].uuid => i = j

LEMMA KindsAndUuids ==
    \A m \in ChatMessage :
        \/ m.kind = "Sent" /\ m \in SentMessage /\ m.uuid \in LocalUuids
        \/ m.kind = "Received" /\ m \in ReceivedMessage /\ m.uuid \in RemoteUuids
BY DEF ChatMessage, SentMessage, ReceivedMessage

LEMMA InsertionOnce ==
    ASSUME NEW s \in Seq(ChatMessage), NEW m \in ChatMessage, NEW i \in 1 .. Len(s) + 1,
           OnceIn(s),
           \A k \in DOMAIN s : m.kind = "Sent" \/ s[k].kind = "Sent" => s[k].uuid # m.uuid
    PROVE  OnceIn(InsertAt(s, i, m))
<1> DEFINE t == InsertAt(s, i, m)
           back(k) == IF k < i THEN k ELSE k - 1
<1>1. /\ t \in Seq(ChatMessage) /\ Len(t) = Len(s) + 1
      /\ \A k \in 1 .. Len(s) + 1 :
            t[k] = IF k < i THEN s[k] ELSE IF k = i THEN m ELSE s[k - 1]
  BY InsertedMessages
<1>2. DOMAIN s = 1 .. Len(s) /\ DOMAIN t = 1 .. Len(s) + 1 /\ Len(s) \in Nat
  BY <1>1
<1> HIDE DEF t
<1>3. ASSUME NEW k \in DOMAIN t
      PROVE  (k = i /\ t[k] = m) \/ (k # i /\ back(k) \in DOMAIN s /\ t[k] = s[back(k)])
  BY <1>1, <1>2, <1>3
<1>4. \A a, b \in DOMAIN t : a # i /\ b # i /\ back(a) = back(b) => a = b
  BY <1>2
<1> HIDE DEF back
<1>5. ASSUME NEW a \in DOMAIN t, NEW b \in DOMAIN t,
             t[a].kind = "Sent", t[a].uuid = t[b].uuid
      PROVE  a = b
  <2>1. CASE a = i /\ b # i
    BY <1>3, <1>5, <2>1
  <2>2. CASE a # i /\ b = i
    BY <1>3, <1>5, <2>2
  <2>3. CASE a # i /\ b # i
    BY <1>3, <1>4, <1>5, <2>3 DEF OnceIn
  <2>4. QED
    BY <2>1, <2>2, <2>3
<1>6. QED
  BY <1>5 DEF OnceIn, t

LEMMA SortOnce ==
    ASSUME NEW s \in Seq(ChatMessage), NEW strat, NEW t \in StableSorts(strat, s), OnceIn(s)
    PROVE  OnceIn(t)
<1>1. PICK p \in Bijection(DOMAIN s, DOMAIN s) : t = [i \in DOMAIN s |-> s[p[i]]]
  BY DEF StableSorts
<1>2. /\ p \in [DOMAIN s -> DOMAIN s]
      /\ \A a, b \in DOMAIN s : p[a] = p[b] => a = b
  BY <1>1 DEF Bijection, Injection, IsInjective
<1>3. QED
  BY <1>1, <1>2 DEF OnceIn

(* Then the first message with the uuid is the one the ACK is about. *)
LEMMA AckIsNoted ==
    ASSUME NEW s \in Seq(ChatMessage), NEW u \in LocalUuids, NEW p \in Peers,
           NEW t \in AckTimes, OnceIn(s)
    PROVE  UpdateMessageWithAck(s, u, p, t) = [i \in DOMAIN s |-> NotedOn(s[i], u, p, t)]
<1>1. ASSUME NEW i \in DOMAIN s
      PROVE  (IF s[i].uuid = u /\ \A j \in 1 .. i - 1 : s[j].uuid # u
              THEN MarkAck(s[i], p, t) ELSE s[i]) = NotedOn(s[i], u, p, t)
  <2>1. s[i] \in ChatMessage /\ DOMAIN s = 1 .. Len(s) /\ Len(s) \in Nat
    OBVIOUS
  <2>2. CASE s[i].uuid # u \/ s[i].kind # "Sent"
    BY <2>2 DEF NotedOn, MarkAck
  <2>3. CASE s[i].uuid = u /\ s[i].kind = "Sent"
    <3>1. \A j \in 1 .. i - 1 : s[j].uuid # u
      BY <2>1, <2>3 DEF OnceIn
    <3>2. DOMAIN s[i].deliveries = Reachable
      BY <2>1, <2>3, KindsAndUuids DEF SentMessage
    <3>3. MarkAck(s[i], p, t) = NotedOn(s[i], u, p, t)
      BY <2>3, <3>2 DEF MarkAck, NotedOn
    <3>4. QED
      BY <2>3, <3>1, <3>3
  <2>4. QED
    BY <2>2, <2>3
<1>2. QED
  BY <1>1 DEF UpdateMessageWithAck

LEMMA NotedKeepsUuids ==
    ASSUME NEW m \in ChatMessage, NEW u, NEW p, NEW t
    PROVE  NotedOn(m, u, p, t).uuid = m.uuid /\ NotedOn(m, u, p, t).kind = m.kind
BY KindsAndUuids DEF NotedOn, SentMessage

(* The uuid an ACK quotes names at most one message this node sent. *)
THEOREM SentAreDistinct == Spec => []SentOnce
<1>1. Init => SentOnce
  <2>1. SUFFICES ASSUME Init PROVE SentOnce
    OBVIOUS
  <2>2. PICK seed \in Seeds : messages \in StableSorts(Standard, seed)
    BY <2>1 DEF Init
  <2>3. \A k \in DOMAIN messages : \E i \in DOMAIN seed : messages[k] = seed[i]
    BY <2>2, SeedsAreMessages, SortedElements
  <2>4. \A i \in DOMAIN seed : seed[i].kind = "Received"
    BY DEF Seeds
  <2>5. QED
    BY <2>1, <2>3, <2>4 DEF Init, SentOnce
<1>2. TypeOK /\ SentOnce /\ [Next]_vars => SentOnce'
  <2>1. SUFFICES ASSUME TypeOK, SentOnce, [Next]_vars PROVE SentOnce'
    OBVIOUS
  <2>2. /\ messages \in Seq(ChatMessage) /\ OnceIn(messages)
        /\ \A i \in DOMAIN messages : messages[i] \in ChatMessage
        /\ \A m \in composed : m \in ChatMessage /\ m.kind = "Sent"
    BY <2>1 DEF TypeOK, SentOnce, OnceIn, ChatMessage, SentMessage
  <2>3. ASSUME NEW u \in LocalUuids, Compose(u) PROVE SentOnce'
    BY <2>1, <2>3 DEF Compose, SentOnce
  <2>4. ASSUME NEW m \in ChatMessage, AddMessage(m), composed' = composed \ {m},
               m.kind = "Received" \/ m \in composed
        PROVE  SentOnce'
    <3>1. PICK i \in InsertionPoints(sort_strategy, messages, m) :
            messages' = InsertAt(messages, i, m)
      BY <2>4 DEF AddMessage
    <3>2. i \in 1 .. Len(messages) + 1
      BY <2>2, <3>1 DEF InsertionPoints
    <3>3. \A k \in DOMAIN messages :
            m.kind = "Sent" \/ messages[k].kind = "Sent" => messages[k].uuid # m.uuid
      BY <2>1, <2>2, <2>4, KindsAndUuids, UuidsAssumption DEF SentOnce
    <3>4. OnceIn(messages')
      BY <2>2, <3>1, <3>2, <3>3, InsertionOnce
    <3>5. \A k \in DOMAIN messages' :
            messages'[k] = m \/ \E j \in DOMAIN messages : messages'[k] = messages[j]
      BY <2>1, <2>4, AddedMessageElements
    <3>6. \A n \in composed' : n \in composed /\ n.uuid # m.uuid
      BY <2>1, <2>2, <2>4, KindsAndUuids, UuidsAssumption DEF SentOnce
    <3>7. QED
      BY <2>1, <3>4, <3>5, <3>6 DEF SentOnce, OnceIn
  <2>5. ASSUME NEW m \in composed, ManageSend(m) PROVE SentOnce'
    BY <2>2, <2>4, <2>5 DEF ManageSend
  <2>6. CASE OnSocketEvent
    <3>1. receiving \in ChatMessage /\ receiving.kind = "Received"
      BY <2>1, <2>6 DEF OnSocketEvent, TypeOK, ChatMessage, ReceivedMessage
    <3>2. composed' = composed \ {receiving}
      BY <2>2, <2>6, <3>1 DEF OnSocketEvent
    <3>3. QED
      BY <2>4, <2>6, <3>1, <3>2 DEF OnSocketEvent
  <2>7. ASSUME NEW u \in LocalUuids, NEW p \in Peers, NEW t \in AckTimes,
               OnAckReceived(u, p, t)
        PROVE  SentOnce'
    <3>1. messages' = [i \in DOMAIN messages |-> NotedOn(messages[i], u, p, t)]
      BY <2>2, <2>7, AckIsNoted DEF OnAckReceived
    <3>2. /\ DOMAIN messages' = DOMAIN messages
          /\ \A i \in DOMAIN messages : /\ messages'[i].uuid = messages[i].uuid
                                        /\ messages'[i].kind = messages[i].kind
      BY <2>2, <3>1, NotedKeepsUuids
    <3>3. QED
      BY <2>1, <2>7, <3>2 DEF OnAckReceived, SentOnce
  <2>8. ASSUME NEW strat \in SortStrategy, SortMessages(strat) PROVE SentOnce'
    <3>1. OnceIn(messages')
      BY <2>2, <2>8, SortOnce DEF SortMessages
    <3>2. \A k \in DOMAIN messages' : \E i \in DOMAIN messages : messages'[k] = messages[i]
      BY <2>2, <2>8, SortedElements DEF SortMessages
    <3>3. QED
      BY <2>1, <2>8, <3>1, <3>2 DEF SortMessages, SentOnce, OnceIn
  <2>9. CASE UNCHANGED <<messages, composed>>
    BY <2>1, <2>9 DEF SentOnce
  <2>10. QED
    BY <2>1, <2>3, <2>5, <2>6, <2>7, <2>8, <2>9 DEF Next, Decode, Tick, vars
<1>3. QED
  BY <1>1, <1>2, TypeCorrect, PTL DEF Spec

(* Whatever was inserted, sorted and acknowledged before, an ACK is noted on  *)
(* the message it is about, under the peer that sent it, and nowhere else.    *)
THEOREM AcksMarkTheirMessage == Spec => AcksAreExact
<1>1. ASSUME TypeOK, SentOnce
      PROVE  \A u \in LocalUuids, p \in Peers, t \in AckTimes : OnAckReceived(u, p, t) =>
                messages' = [i \in DOMAIN messages |-> NotedOn(messages[i], u, p, t)]
  <2>1. messages \in Seq(ChatMessage) /\ OnceIn(messages)
    BY <1>1 DEF TypeOK, SentOnce, OnceIn
  <2>2. QED
    BY <2>1, AckIsNoted DEF OnAckReceived
<1>2. QED
  BY <1>1, TypeCorrect, SentAreDistinct, PTL DEF AcksAreExact
=============================================================================
