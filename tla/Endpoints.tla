------------------------------ MODULE Endpoints -------------------------------
(***************************************************************************)
(* Which endpoint carries what (src/src/utils/socket.rs): the listeners a  *)
(* node opens for its own endpoints, the endpoint of a peer a message is   *)
(* sent to, and the one its ACK is sent back to, for every configuration,  *)
(* the ones with endpoints that are not filled in or not supported too.    *)
(* Node a sends a message to node b, which acknowledges it.  Each reads    *)
(* its own endpoints and those of the other in its own configuration file; *)
(* in the demo the two files differ: a node behind an AAP2 bridge reaches  *)
(* by TCP what the other calls its BP endpoint.                            *)
(***************************************************************************)
EXTENDS Naturals, Sequences, SequencesExt

CONSTANT MaxEndpoints       \* bound: endpoints of a peer

ASSUME EndpointsAssumption == MaxEndpoints \in Nat

(* address: "good"; "unsupported", a text that is_valid accepts and no      *)
(* socket address can be made of (dtn:..., ipn:x); "invalid", one is_valid  *)
(* refuses.                                                                 *)
Endpoint ==
    [type : {"Udp", "Tcp"}, address : {"good", "invalid"}]
        \cup [type : {"Bp"}, address : {"good", "unsupported", "invalid"}]

None == [type |-> "None", address |-> "none"]

Configurations == UNION {[1 .. n -> Endpoint] : n \in 0 .. MaxEndpoints}

VARIABLES
    own,            \* b's endpoints in b's configuration
    forth,          \* b's endpoints in a's configuration
    back,           \* a's endpoints in b's configuration
    phase,          \* of b: "starting", "listening", then of the message
    listeners,      \* indexes of the endpoints b listens on
    received_on,    \* endpoint b received the message on, None if unknown
    target,         \* endpoint b chose for the ACK
    sent            \* the ACK was written to the target

configs == <<own, forth, back>>
vars == <<configs, phase, listeners, received_on, target, sent>>

----------------------------------------------------------------------------
IsValid(e) == e.address # "invalid"

(* GenericSocket::new: an address can be made and the socket opened.        *)
Creatable(e) == e.address = "good"

OfType(t) == {e \in Endpoint : e.type = t}

FirstOf(list, choice) ==
    LET i == SelectInSeq(list, LAMBDA e : e \in choice)
    IN  IF i = 0 THEN None ELSE list[i]

(* Mutant: UDP is not considered. *)
StreamFamilies == <<"Bp", "Tcp">>

Families == <<"Bp", "Tcp", "Udp">>

FirstValid(list, t) == FirstOf(list, {e \in OfType(t) : IsValid(e)})

BestValid(list) ==
    LET ranks == {k \in DOMAIN Families : FirstValid(list, Families[k]) # None}
    IN  IF ranks = {} THEN None
        ELSE FirstValid(list, Families[CHOOSE k \in ranks : \A j \in ranks : k <= j])

(* Mutant: the best family, whatever the message arrived on. *)
BestAckEndpoint(list, from) == BestValid(list)

ChooseAckEndpoint(list, from) ==
    LET same == FirstOf(list, OfType(from.type))
    IN  IF same # None THEN same ELSE BestValid(list)

----------------------------------------------------------------------------
Init ==
    /\ own \in Configurations /\ forth \in Configurations /\ back \in Configurations
    /\ phase = "starting" /\ listeners = {}
    /\ received_on = None /\ target = None /\ sent = FALSE

(* Mutant: endpoints counted from zero. *)
InitControllerFromZero ==
    /\ phase = "starting" /\ phase' = "listening"
    /\ listeners' \in SUBSET {i - 1 : i \in DOMAIN own}
    /\ UNCHANGED <<configs, received_on, target, sent>>

(* b's init_controller skips what is not valid, logs what cannot be opened  *)
(* or bound and goes on.                                                    *)
InitController ==
    /\ phase = "starting" /\ phase' = "listening"
    /\ listeners' \in SUBSET {i \in DOMAIN own : IsValid(own[i]) /\ Creatable(own[i])}
    /\ UNCHANGED <<configs, received_on, target, sent>>

(* a's send_to_peer tries the first endpoint of b only.  manage_send leaves *)
(* out peers without one.                                                   *)
SendToPeer ==
    /\ phase = "listening" /\ forth # <<>>
    /\ phase' = IF Creatable(forth[1]) THEN "in_transit" ELSE "send_failed"
    /\ UNCHANGED <<configs, listeners, received_on, target, sent>>

(* b receives it on a listener of the transport it was sent over or, when   *)
(* there is an AAP2 bridge on its way, of the other of BP and TCP.  A TCP   *)
(* endpoint is that of the connection.                                      *)
Relays(t) == IF t = "Udp" THEN {"Udp"} ELSE {"Bp", "Tcp"}

Receive(i) ==
    /\ phase = "in_transit" /\ i \in listeners
    /\ own[i].type \in Relays(forth[1].type)
    /\ phase' = "received"
    /\ received_on' \in IF own[i].type = "Tcp" THEN {None, own[i]} ELSE {own[i]}
    /\ UNCHANGED <<configs, listeners, target, sent>>

(* A text that begins with "[ACK]" is not acknowledged, nor is a sender     *)
(* that is not in the peer list.                                            *)
SkipAck ==
    /\ phase = "received" /\ phase' = "skipped"
    /\ UNCHANGED <<configs, listeners, received_on, target, sent>>

(* send_ack_if_needed_with_endpoint_info for any other message.             *)
SendAckIfNeeded ==
    /\ phase = "received" /\ phase' = "handled"
    /\ target' = ChooseAckEndpoint(back, received_on)
    /\ sent' = (target' # None /\ Creatable(target'))
    /\ UNCHANGED <<configs, listeners, received_on>>

Next ==
    \/ InitController \/ SendToPeer \/ SkipAck \/ SendAckIfNeeded
    \/ \E i \in 1 .. MaxEndpoints : Receive(i)

Spec == Init /\ [][Next]_vars

----------------------------------------------------------------------------
(* Every variable holds a value of its type. *)
TypeOK ==
    /\ own \in Configurations /\ forth \in Configurations /\ back \in Configurations
    /\ phase \in {"starting", "listening", "in_transit", "send_failed", "received", "skipped",
                 "handled"}
    /\ listeners \subseteq DOMAIN own
    /\ received_on \in Endpoint \cup {None} /\ target \in Endpoint \cup {None}
    /\ sent \in BOOLEAN

Entries == {back[i] : i \in DOMAIN back}

(* socket.rs:453 "Prefer the transport the message arrived on, else BP >    *)
(* TCP > UDP": the ACK is never sent over another family than the one the   *)
(* message came by if the sender has an endpoint of it, nor over a family   *)
(* worse than the best one left.                                            *)
Better(e) ==
    CASE e.type = "Bp" -> {}
      [] e.type = "Tcp" -> {"Bp"}
      [] e.type = "Udp" -> {"Bp", "Tcp"}

AckPreference ==
    sent => \/ target.type = received_on.type
            \/ /\ \A e \in Entries : e.type # received_on.type
               /\ \A e \in Entries : IsValid(e) => e.type \notin Better(target)

(* Where every endpoint is filled in and supported, a message that arrived  *)
(* is acknowledged, whatever it arrived on, unless it is one that is to be  *)
(* skipped.                                                                 *)
GoodConfigsAreAcked ==
    phase = "handled" /\ Entries # {} /\ (\A e \in Entries : Creatable(e)) => sent

(* Where an ACK can go wrong: an ACK that fails although one of the         *)
(* sender's endpoints would have carried it was given to another one of     *)
(* them, of the arrival family, for which is_valid is not asked, or with an *)
(* address that is_valid lets through and no socket can be made of.         *)
AckFailsOnOneEntry ==
    phase = "handled" /\ ~ sent /\ (\E e \in Entries : Creatable(e)) =>
        /\ target \in Entries /\ ~ Creatable(target)
        /\ target.address = "unsupported" \/ target.type = received_on.type

(* socket.rs:453-454 "None if the peer has no usable endpoint".  This does  *)
(* not hold: an endpoint of the arrival family is taken without is_valid.   *)
NoneIfUnusable ==
    phase = "handled" /\ (\A e \in Entries : ~ IsValid(e)) => target = None
=============================================================================
