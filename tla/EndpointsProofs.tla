--------------------------- MODULE EndpointsProofs ----------------------------
(* TLAPS proofs about Endpoints, for endpoint lists of any length.            *)
EXTENDS Endpoints, WellFoundedInduction, TLAPS

LEMMA LeastExists ==
    ASSUME NEW S \in SUBSET Nat, S # {}
    PROVE  \E x \in S : \A y \in S : x <= y
<1>1. PICK x \in S : \A y \in S : ~ (<<y, x>> \in OpToRel(<, Nat))
  <2>1. IsWellFoundedOn(OpToRel(<, Nat), Nat)
    BY NatLessThanWellFounded
  <2>2. QED
    BY <2>1, WFMin
<1>2. \A y \in S : ~ (y < x)
  BY <1>1 DEF OpToRel
<1>3. QED
  BY <1>2

LEMMA EndpointParts ==
    /\ None \notin Endpoint
    /\ \A e \in Endpoint : /\ e.type \in {"Bp", "Tcp", "Udp"}
                           /\ e.address \in {"good", "unsupported", "invalid"}
BY DEF Endpoint, None

LEMMA ConfigurationEntries ==
    ASSUME NEW list \in Configurations
    PROVE  /\ list \in Seq(Endpoint)
           /\ \A i \in DOMAIN list : list[i] \in Endpoint
<1>1. PICK n \in 0 .. MaxEndpoints : list \in [1 .. n -> Endpoint]
  BY DEF Configurations
<1>2. n \in Nat
  BY EndpointsAssumption
<1>3. list \in Seq(Endpoint)
  BY <1>1, <1>2
<1>4. QED
  BY <1>1, <1>2, <1>3

(* FirstOf returns an endpoint of the list, or None if there is none to       *)
(* choose.                                                                    *)
LEMMA FirstOfFinds ==
    ASSUME NEW list \in Configurations, NEW choice \in SUBSET Endpoint
    PROVE  \/ /\ FirstOf(list, choice) = None
              /\ \A j \in DOMAIN list : list[j] \notin choice
           \/ /\ FirstOf(list, choice) # None /\ FirstOf(list, choice) \in choice
              /\ \E j \in DOMAIN list : FirstOf(list, choice) = list[j]
<1> DEFINE I == {j \in 1 .. Len(list) : list[j] \in choice}
           i == SelectInSeq(list, LAMBDA e : e \in choice)
<1>1. i = IF I # {} THEN Min(I) ELSE 0
  BY DEF SelectInSeq
<1>2. FirstOf(list, choice) = IF i = 0 THEN None ELSE list[i]
  BY DEF FirstOf
<1>3. list \in Seq(Endpoint) /\ DOMAIN list = 1 .. Len(list)
  BY ConfigurationEntries
<1>4. CASE I = {}
  BY <1>1, <1>2, <1>3, <1>4
<1>5. CASE I # {}
  <2>1. I \in SUBSET Nat
    OBVIOUS
  <2>2. \E x \in I : \A y \in I : x <= y
    BY <1>5, <2>1, LeastExists
  <2>3. Min(I) \in I
    BY <2>2 DEF Min
  <2>4. i \in DOMAIN list /\ i # 0 /\ list[i] \in choice
    BY <1>1, <1>3, <1>5, <2>3
  <2>5. list[i] # None
    BY <2>4, EndpointParts
  <2>6. QED
    BY <1>2, <2>4, <2>5
<1>6. QED
  BY <1>4, <1>5

Members(list) == {list[i] : i \in DOMAIN list}

(* What the choice of an endpoint for an ACK comes to.                        *)
NothingUsable(list, from) ==
    \A e \in Members(list) : e.type # from.type /\ ~ IsValid(e)

BestOfOthers(list, from, e) ==
    /\ \A f \in Members(list) : f.type # from.type
    /\ IsValid(e) /\ \A f \in Members(list) : IsValid(f) => f.type \notin Better(e)

LEMMA BestValidIsBest ==
    ASSUME NEW list \in Configurations
    PROVE  \/ BestValid(list) = None /\ \A e \in Members(list) : ~ IsValid(e)
           \/ /\ BestValid(list) # None /\ BestValid(list) \in Members(list)
              /\ IsValid(BestValid(list))
              /\ \A e \in Members(list) : IsValid(e) => e.type \notin Better(BestValid(list))
<1> DEFINE First(k) == FirstValid(list, Families[k])
           ranks == {k \in DOMAIN Families : First(k) # None}
<1>1. /\ DOMAIN Families = {1, 2, 3}
      /\ Families[1] = "Bp" /\ Families[2] = "Tcp" /\ Families[3] = "Udp"
  BY DEF Families
<1>2. ASSUME NEW k \in {1, 2, 3}
      PROVE  \/ /\ First(k) = None
                /\ \A e \in Members(list) : e.type = Families[k] => ~ IsValid(e)
             \/ /\ First(k) # None /\ First(k) \in Members(list)
                /\ IsValid(First(k)) /\ First(k).type = Families[k]
  <2> DEFINE choice == {e \in OfType(Families[k]) : IsValid(e)}
  <2>1. choice \in SUBSET Endpoint /\ First(k) = FirstOf(list, choice)
    BY DEF OfType, FirstValid
  <2>2. \A e \in Members(list) : e \in Endpoint
    BY ConfigurationEntries DEF Members
  <2> HIDE DEF First
  <2>3. CASE First(k) = None
    <3>1. \A e \in Members(list) : e \notin choice
      BY <2>1, <2>3, FirstOfFinds DEF Members
    <3>2. QED
      BY <2>2, <2>3, <3>1 DEF OfType
  <2>4. CASE First(k) # None
    <3>1. First(k) \in choice /\ First(k) \in Members(list)
      BY <2>1, <2>4, FirstOfFinds DEF Members
    <3>2. QED
      BY <2>4, <3>1 DEF OfType
  <2>5. QED
    BY <2>3, <2>4
<1>3. BestValid(list) = IF ranks = {} THEN None
                        ELSE First(CHOOSE k \in ranks : \A j \in ranks : k <= j)
  BY DEF BestValid
<1>4. \A e \in Members(list) : e.type \in {"Bp", "Tcp", "Udp"}
  BY ConfigurationEntries, EndpointParts DEF Members
<1> HIDE DEF First
<1>5. CASE ranks = {}
  <2>1. \A e \in Members(list) : ~ IsValid(e)
    BY <1>1, <1>2, <1>4, <1>5
  <2>2. QED
    BY <1>3, <1>5, <2>1
<1>6. CASE ranks # {}
  <2> DEFINE k == CHOOSE k \in ranks : \A j \in ranks : k <= j
  <2>1. ranks \in SUBSET Nat
    BY <1>1
  <2>2. k \in ranks /\ \A j \in ranks : k <= j
    BY <1>6, <2>1, LeastExists
  <2>3. BestValid(list) = First(k) /\ k \in {1, 2, 3}
    BY <1>1, <1>3, <1>6, <2>2
  <2> HIDE DEF k
  <2>4. First(k) \in Members(list) /\ IsValid(First(k)) /\ First(k).type = Families[k]
    BY <1>2, <2>2, <2>3
  <2>5. ASSUME NEW e \in Members(list), IsValid(e) PROVE e.type \notin Better(First(k))
    <3>1. PICK j \in {1, 2, 3} : e.type = Families[j]
      BY <1>1, <1>4
    <3>2. j \in ranks
      BY <1>1, <1>2, <2>5, <3>1
    <3>3. k <= j
      BY <2>2, <3>2
    <3>4. QED
      BY <1>1, <2>3, <2>4, <3>1, <3>3 DEF Better
  <2>6. QED
    BY <2>2, <2>3, <2>4, <2>5
<1>7. QED
  BY <1>5, <1>6

LEMMA ChoiceOfAckEndpoint ==
    ASSUME NEW list \in Configurations, NEW from, NEW e, e = ChooseAckEndpoint(list, from)
    PROVE  \/ e = None /\ NothingUsable(list, from)
           \/ e \in Members(list) /\ (e.type = from.type \/ BestOfOthers(list, from, e))
<1> DEFINE same == FirstOf(list, OfType(from.type))
<1>1. e = IF same # None THEN same ELSE BestValid(list)
  BY DEF ChooseAckEndpoint
<1>2. OfType(from.type) \in SUBSET Endpoint
  BY DEF OfType
<1> HIDE DEF same
<1>3. CASE same # None
  <2>1. same \in OfType(from.type) /\ same \in Members(list)
    BY <1>2, <1>3, FirstOfFinds DEF same, Members
  <2>2. QED
    BY <1>1, <1>3, <2>1 DEF OfType
<1>4. CASE same = None
  <2>1. \A f \in Members(list) : f \notin OfType(from.type)
    BY <1>2, <1>4, FirstOfFinds DEF same, Members
  <2>2. \A f \in Members(list) : f.type # from.type
    BY <2>1, ConfigurationEntries DEF OfType, Members
  <2>3. QED
    BY <1>1, <1>4, <2>2, BestValidIsBest DEF NothingUsable, BestOfOthers
<1>5. QED
  BY <1>3, <1>4

----------------------------------------------------------------------------
(* The ACK is what the choice made of the message's arrival, and nothing is   *)
(* chosen before.                                                             *)
Chosen ==
    IF phase = "handled"
    THEN /\ target = ChooseAckEndpoint(back, received_on)
         /\ sent = (target # None /\ Creatable(target))
    ELSE target = None /\ sent = FALSE

LEMMA ChosenInv == Spec => [](TypeOK /\ Chosen)
<1>1. Init => TypeOK /\ Chosen
  BY DEF Init, TypeOK, Chosen
<1>2. TypeOK /\ Chosen /\ [Next]_vars => TypeOK' /\ Chosen'
  <2> SUFFICES ASSUME TypeOK, Chosen, [Next]_vars PROVE TypeOK' /\ Chosen'
    OBVIOUS
  <2> USE DEF TypeOK, Chosen, configs
  <2>1. CASE InitController
    BY <2>1 DEF InitController
  <2>2. CASE SendToPeer
    BY <2>2 DEF SendToPeer
  <2>3. CASE SkipAck
    BY <2>3 DEF SkipAck
  <2>4. CASE SendAckIfNeeded
    <3>1. target' = ChooseAckEndpoint(back, received_on)
      BY <2>4 DEF SendAckIfNeeded
    <3>2. target' \in Endpoint \cup {None}
      BY <3>1, ChoiceOfAckEndpoint, ConfigurationEntries DEF Members
    <3>3. QED
      BY <2>4, <3>1, <3>2 DEF SendAckIfNeeded
  <2>5. ASSUME NEW i \in 1 .. MaxEndpoints, Receive(i) PROVE TypeOK' /\ Chosen'
    <3>1. i \in DOMAIN own /\ own[i] \in Endpoint
      BY <2>5, ConfigurationEntries DEF Receive
    <3>2. received_on' \in Endpoint \cup {None}
      BY <2>5, <3>1 DEF Receive
    <3>3. QED
      BY <2>5, <3>2 DEF Receive
  <2>6. CASE UNCHANGED vars
    BY <2>6 DEF vars
  <2>7. QED
    BY <2>1, <2>2, <2>3, <2>4, <2>5, <2>6 DEF Next
<1>3. QED
  BY <1>1, <1>2, PTL DEF Spec

(* Every variable keeps its type. *)
THEOREM TypeCorrect == Spec => []TypeOK
BY ChosenInv, PTL

(* An ACK goes back over the family its message came by, if the sender has an *)
(* endpoint of it, and else over the best family the sender has a filled in   *)
(* endpoint of (choose_ack_endpoint, socket.rs:453).                          *)
THEOREM AcksPreferTheArrivalFamily == Spec => []AckPreference
<1>1. TypeOK /\ Chosen => AckPreference
  <2> SUFFICES ASSUME TypeOK, Chosen, sent PROVE AckPreference
    BY DEF AckPreference
  <2>1. target = ChooseAckEndpoint(back, received_on) /\ target # None
    BY DEF Chosen
  <2>2. back \in Configurations /\ Entries = Members(back)
    BY DEF TypeOK, Entries, Members
  <2>3. target.type = received_on.type \/ BestOfOthers(back, received_on, target)
    BY <2>1, <2>2, ChoiceOfAckEndpoint
  <2>4. QED
    BY <2>2, <2>3 DEF AckPreference, BestOfOthers
<1>2. QED
  BY <1>1, ChosenInv, PTL

(* Where every endpoint of the sender is filled in and supported, its         *)
(* messages are acknowledged (send_ack_if_needed_with_endpoint_info).         *)
THEOREM GoodConfigurationsAreAcked == Spec => []GoodConfigsAreAcked
<1>1. TypeOK /\ Chosen => GoodConfigsAreAcked
  <2> SUFFICES ASSUME TypeOK, Chosen, phase = "handled", Entries # {},
                      \A e \in Entries : Creatable(e)
               PROVE  sent
    BY DEF GoodConfigsAreAcked
  <2>1. /\ target = ChooseAckEndpoint(back, received_on)
        /\ sent = (target # None /\ Creatable(target))
    BY DEF Chosen
  <2>2. back \in Configurations /\ Entries = Members(back)
    BY DEF TypeOK, Entries, Members
  <2>3. \A e \in Entries : IsValid(e)
    BY DEF Creatable, IsValid
  <2>4. target \in Members(back)
    BY <2>1, <2>2, <2>3, ChoiceOfAckEndpoint DEF NothingUsable
  <2>5. target \in Endpoint
    BY <2>2, <2>4, ConfigurationEntries DEF Members
  <2>6. QED
    BY <2>1, <2>2, <2>4, <2>5, EndpointParts
<1>2. QED
  BY <1>1, ChosenInv, PTL

(* An endpoint of another family than the one of arrival is chosen only when  *)
(* is_valid accepts it.                                                       *)
LEMMA ChoiceIsAccounted ==
    ASSUME NEW list \in Configurations, NEW from, NEW e \in Members(list),
           e = ChooseAckEndpoint(list, from), ~ Creatable(e)
    PROVE  e.address = "unsupported" \/ e.type = from.type
<1>1. e \in Endpoint /\ e # None
  BY ConfigurationEntries, EndpointParts DEF Members
<1>2. e.type = from.type \/ IsValid(e)
  BY <1>1, ChoiceOfAckEndpoint DEF BestOfOthers
<1>3. QED
  BY <1>1, <1>2, EndpointParts DEF IsValid, Creatable

(* The extent of what NoneIfUnusable gets wrong, and of the other way an ACK  *)
(* is lost to a configuration: it takes an endpoint of the sender that is of  *)
(* the arrival family, or an address that is_valid lets through, to keep the  *)
(* ACK from an endpoint that works (choose_ack_endpoint, socket.rs:453).      *)
THEOREM AckFailures == Spec => []AckFailsOnOneEntry
<1>1. TypeOK /\ Chosen => AckFailsOnOneEntry
  <2> SUFFICES ASSUME TypeOK, Chosen, phase = "handled", ~ sent,
                      NEW e \in Entries, Creatable(e)
               PROVE  /\ target \in Entries /\ ~ Creatable(target)
                      /\ target.address = "unsupported" \/ target.type = received_on.type
    BY DEF AckFailsOnOneEntry
  <2>1. /\ target = ChooseAckEndpoint(back, received_on)
        /\ ~ (target # None /\ Creatable(target))
    BY DEF Chosen
  <2>2. back \in Configurations /\ Entries = Members(back)
    BY DEF TypeOK, Entries, Members
  <2>3. IsValid(e)
    BY DEF Creatable, IsValid
  <2>4. target \in Members(back)
    BY <2>1, <2>2, <2>3, ChoiceOfAckEndpoint DEF NothingUsable
  <2>5. target # None
    BY <2>2, <2>4, ConfigurationEntries, EndpointParts DEF Members
  <2>6. QED
    BY <2>1, <2>2, <2>4, <2>5, ChoiceIsAccounted
<1>2. QED
  BY <1>1, ChosenInv, PTL
=============================================================================
