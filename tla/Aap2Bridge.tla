------------------------------ MODULE Aap2Bridge ------------------------------
(***************************************************************************)
(* The sidecar between a DTChat node, which speaks TCP, and its uD3TN,     *)
(* which speaks AAP2 (src/scripts/aap2_bridge/aap2_bridge.py).             *)
(*                                                                         *)
(* Outbound, each connection of DTChat has a handler thread; the handlers  *)
(* share one AAP2 session, opened once, under a lock.  Inbound, one thread *)
(* subscribes, hands each bundle to DTChat's TCP listener with a bounded   *)
(* number of attempts, reports the outcome, and connects again when the    *)
(* session is lost.  uD3TN keeps a bundle until a success is reported, and *)
(* offers it again.                                                        *)
(***************************************************************************)
EXTENDS Naturals, Sequences

CONSTANTS
    Inbound, Outbound,      \* bundles for the node, ADUs it sends
    Attempts,               \* _DELIVER_ATTEMPTS
    NoBundle,
    MaxDrops,               \* bounds: losses of the subscription,
    MaxBreaks,              \*   of the sending session,
    MaxStops,               \*   ends of the bridge
    MaxDeaths,              \*   ends of DTChat
    MaxStalls               \*   and attempts a running DTChat fails

ASSUME AttemptsAssumption == Attempts \in Nat \ {0}
ASSUME NoBundleAssumption == NoBundle \notin Inbound \cup Outbound
ASSUME BudgetAssumption ==
    /\ MaxDrops \in Nat /\ MaxBreaks \in Nat /\ MaxStops \in Nat
    /\ MaxDeaths \in Nat /\ MaxStalls \in Nat

VARIABLES
    bridge,         \* "up", "stopping" (stop is set), "down"
    receiver,       \* the receiving thread: see ReceiverStates
    session,        \* its subscription is intact
    in_hand,        \* the bundle it forwards
    attempt,
    delivered,      \* result of _forward_inbound
    stored,         \* bundles uD3TN holds for the agent
    arrived,        \* those the network brought so far
    succeeded,      \* those a success was reported for
    dtchat,         \* DTChat listens
    backlog,        \* [Inbound -> Nat], connections it has not read yet
    received,       \* [Inbound -> Nat], copies DTChat read
    stranded,       \* [Inbound -> Nat], history: in the backlog of a DTChat
                    \*   that ended
    handler,        \* [Outbound -> HandlerStates], of its connection
    lock,           \* the handler that holds Aap2Sender's lock, or NoBundle
    sending,        \* the sending session is intact
    responses,      \* on it, of uD3TN to the ADUs sent
    response,       \* [Outbound -> the ADU its handler got the response for]
    drops, breaks, stops, deaths, stalls    \* the budgets used

receiverVars == <<receiver, session, in_hand, attempt, delivered>>
uD3TNVars == <<stored, arrived, succeeded>>
dtchatVars == <<dtchat, backlog, received, stranded>>
senderVars == <<handler, lock, sending, responses, response>>
budgets == <<drops, breaks, stops, deaths, stalls>>
vars == <<bridge, receiverVars, uD3TNVars, dtchatVars, senderVars, budgets>>

ReceiverStates == {"offline", "listening", "forwarding", "reporting", "ended"}
HandlerStates ==
    {"none", "queued", "read", "locked", "awaiting", "relayed", "failed", "refused"}

----------------------------------------------------------------------------
Init ==
    /\ bridge = "up"
    /\ receiver = "offline" /\ session = FALSE
    /\ in_hand = NoBundle /\ attempt = 0 /\ delivered = FALSE
    /\ stored = {} /\ arrived = {} /\ succeeded = {}
    /\ dtchat = TRUE
    /\ backlog = [b \in Inbound |-> 0] /\ received = backlog /\ stranded = backlog
    /\ handler = [o \in Outbound |-> "none"] /\ lock = NoBundle
    /\ sending = TRUE /\ responses = <<>>
    /\ response = [o \in Outbound |-> NoBundle]
    /\ drops = 0 /\ breaks = 0 /\ stops = 0 /\ deaths = 0 /\ stalls = 0

----------------------------------------------------------------------------
(* Inbound *)

(* _run_receiver, with the setup that fails left to its next attempt. *)
Connect ==
    /\ bridge = "up" /\ receiver = "offline"
    /\ receiver' = "listening" /\ session' = TRUE
    /\ UNCHANGED <<bridge, in_hand, attempt, delivered, uD3TNVars>>
    /\ UNCHANGED <<dtchatVars, senderVars, budgets>>

ReceiveAdu(b) ==
    /\ receiver = "listening" /\ session /\ b \in stored
    /\ receiver' = "forwarding" /\ in_hand' = b /\ attempt' = 0
    /\ UNCHANGED <<bridge, session, delivered, uD3TNVars>>
    /\ UNCHANGED <<dtchatVars, senderVars, budgets>>

(* Mutant: one disconnect ends the thread. *)
EndAfterSession ==
    /\ receiver = "listening" /\ ~ session
    /\ receiver' = "ended"
    /\ UNCHANGED <<bridge, session, in_hand, attempt, delivered, uD3TNVars>>
    /\ UNCHANGED <<dtchatVars, senderVars, budgets>>

(* receive_msg returns None or raises, or stop is set: _drain is left.      *)
LeaveSession ==
    /\ receiver = "listening" /\ (~ session \/ bridge = "stopping")
    /\ receiver' = IF bridge = "up" THEN "offline" ELSE "ended"
    /\ session' = FALSE
    /\ UNCHANGED <<bridge, in_hand, attempt, delivered, uD3TNVars>>
    /\ UNCHANGED <<dtchatVars, senderVars, budgets>>

(* _forward_inbound is done when the kernel took the bytes, before DTChat   *)
(* read them.                                                               *)
Forward ==
    /\ receiver = "forwarding" /\ bridge = "up" /\ dtchat
    /\ backlog' = [backlog EXCEPT ![in_hand] = @ + 1]
    /\ receiver' = "reporting" /\ delivered' = TRUE
    /\ UNCHANGED <<bridge, session, in_hand, attempt, uD3TNVars>>
    /\ UNCHANGED <<dtchat, received, stranded, senderVars, budgets>>

(* Mutant: no end of the attempts. *)
RetryForever ==
    /\ receiver = "forwarding" /\ bridge = "up" /\ ~ dtchat
    /\ attempt' = attempt + 1
    /\ UNCHANGED <<bridge, receiver, session, in_hand, delivered, uD3TNVars>>
    /\ UNCHANGED <<dtchatVars, senderVars, budgets>>

(* An attempt on a DTChat that does not listen is refused, and one on a     *)
(* DTChat that does may time out, on a full backlog or while it writes: a   *)
(* part of a bundle is no copy of it.                                       *)
ForwardFails ==
    /\ receiver = "forwarding" /\ bridge = "up" /\ (dtchat => stalls < MaxStalls)
    /\ stalls' = IF dtchat THEN stalls + 1 ELSE stalls
    /\ attempt' = attempt + 1
    /\ IF attempt' < Attempts
       THEN UNCHANGED <<receiver, delivered>>
       ELSE receiver' = "reporting" /\ delivered' = FALSE
    /\ UNCHANGED <<bridge, session, in_hand, uD3TNVars>>
    /\ UNCHANGED <<dtchatVars, senderVars, drops, breaks, stops, deaths>>

ForwardStopped ==
    /\ receiver = "forwarding" /\ bridge = "stopping"
    /\ receiver' = "reporting" /\ delivered' = FALSE
    /\ UNCHANGED <<bridge, session, in_hand, attempt, uD3TNVars>>
    /\ UNCHANGED <<dtchatVars, senderVars, budgets>>

(* Mutant: the bundle is acknowledged whatever became of it. *)
ReportSuccess ==
    /\ receiver = "reporting"
    /\ receiver' = IF session THEN "listening" ELSE "offline"
    /\ in_hand' = NoBundle
    /\ IF session
       THEN succeeded' = succeeded \cup {in_hand} /\ stored' = stored \ {in_hand}
       ELSE UNCHANGED <<stored, succeeded>>
    /\ UNCHANGED <<bridge, session, attempt, delivered, arrived>>
    /\ UNCHANGED <<dtchatVars, senderVars, budgets>>

(* Mutant: the two outcomes swapped. *)
ReportSwapped ==
    /\ receiver = "reporting"
    /\ receiver' = IF session THEN "listening" ELSE "offline"
    /\ in_hand' = NoBundle
    /\ IF session /\ ~ delivered
       THEN succeeded' = succeeded \cup {in_hand} /\ stored' = stored \ {in_hand}
       ELSE UNCHANGED <<stored, succeeded>>
    /\ UNCHANGED <<bridge, session, attempt, delivered, arrived>>
    /\ UNCHANGED <<dtchatVars, senderVars, budgets>>

(* send_response_status, which raises on a lost session.                    *)
Report ==
    /\ receiver = "reporting"
    /\ receiver' = IF session THEN "listening"
                   ELSE IF bridge = "up" THEN "offline" ELSE "ended"
    /\ in_hand' = NoBundle
    /\ IF session /\ delivered
       THEN succeeded' = succeeded \cup {in_hand} /\ stored' = stored \ {in_hand}
       ELSE UNCHANGED <<stored, succeeded>>
    /\ UNCHANGED <<bridge, session, attempt, delivered, arrived>>
    /\ UNCHANGED <<dtchatVars, senderVars, budgets>>

----------------------------------------------------------------------------
(* Outbound *)

(* DTChat connects to a route, writes and closes: the kernel takes it all   *)
(* for a bridge that runs, whatever its handlers do.                        *)
Post(o) ==
    /\ handler[o] = "none"
    /\ handler' = [handler EXCEPT ![o] = IF bridge = "down" THEN "refused" ELSE "queued"]
    /\ UNCHANGED <<bridge, receiverVars, uD3TNVars, dtchatVars, budgets>>
    /\ UNCHANGED <<lock, sending, responses, response>>

Handle(o) ==
    /\ handler[o] = "queued" /\ bridge = "up"
    /\ handler' = [handler EXCEPT ![o] = "read"]
    /\ UNCHANGED <<bridge, receiverVars, uD3TNVars, dtchatVars, budgets>>
    /\ UNCHANGED <<lock, sending, responses, response>>

(* Mutant: a session without a lock. *)
AcquireNothing(o) ==
    /\ handler[o] = "read"
    /\ handler' = [handler EXCEPT ![o] = "locked"]
    /\ UNCHANGED <<bridge, receiverVars, uD3TNVars, dtchatVars, budgets>>
    /\ UNCHANGED <<lock, sending, responses, response>>

Acquire(o) ==
    /\ handler[o] = "read" /\ lock = NoBundle
    /\ handler' = [handler EXCEPT ![o] = "locked"] /\ lock' = o
    /\ UNCHANGED <<bridge, receiverVars, uD3TNVars, dtchatVars, budgets>>
    /\ UNCHANGED <<sending, responses, response>>

SendAdu(o) ==
    /\ handler[o] = "locked" /\ sending
    /\ handler' = [handler EXCEPT ![o] = "awaiting"]
    /\ responses' = Append(responses, o)
    /\ UNCHANGED <<bridge, receiverVars, uD3TNVars, dtchatVars, budgets>>
    /\ UNCHANGED <<lock, sending, response>>

(* The status of the response is not looked at.                             *)
ReceiveResponse(o) ==
    /\ handler[o] = "awaiting" /\ sending /\ responses # <<>>
    /\ handler' = [handler EXCEPT ![o] = "relayed"]
    /\ response' = [response EXCEPT ![o] = Head(responses)]
    /\ responses' = Tail(responses)
    /\ lock' = NoBundle
    /\ UNCHANGED <<bridge, receiverVars, uD3TNVars, dtchatVars, budgets, sending>>

(* Mutant: the lock is kept when the client raises. *)
SendRaises(o) ==
    /\ handler[o] \in {"locked", "awaiting"} /\ ~ sending
    /\ handler' = [handler EXCEPT ![o] = "failed"]
    /\ UNCHANGED <<bridge, receiverVars, uD3TNVars, dtchatVars, budgets>>
    /\ UNCHANGED <<lock, sending, responses, response>>

(* The handler logs the exception; the session is not opened again.         *)
SendFails(o) ==
    /\ handler[o] \in {"locked", "awaiting"} /\ ~ sending
    /\ handler' = [handler EXCEPT ![o] = "failed"]
    /\ lock' = NoBundle
    /\ UNCHANGED <<bridge, receiverVars, uD3TNVars, dtchatVars, budgets>>
    /\ UNCHANGED <<sending, responses, response>>

----------------------------------------------------------------------------
(* Around it *)

Arrive(b) ==
    /\ b \notin arrived
    /\ arrived' = arrived \cup {b} /\ stored' = stored \cup {b}
    /\ UNCHANGED <<bridge, receiverVars, succeeded, dtchatVars, senderVars, budgets>>

SessionDrops ==
    /\ session /\ drops < MaxDrops
    /\ session' = FALSE /\ drops' = drops + 1
    /\ UNCHANGED <<bridge, receiver, in_hand, attempt, delivered, uD3TNVars>>
    /\ UNCHANGED <<dtchatVars, senderVars, breaks, stops, deaths, stalls>>

SendingBreaks ==
    /\ bridge # "down" /\ sending /\ breaks < MaxBreaks
    /\ sending' = FALSE /\ responses' = <<>> /\ breaks' = breaks + 1
    /\ UNCHANGED <<bridge, receiverVars, uD3TNVars, dtchatVars>>
    /\ UNCHANGED <<handler, lock, response, drops, stops, deaths, stalls>>

(* main on a KeyboardInterrupt: stop is set, the route servers end.         *)
Interrupt ==
    /\ bridge = "up" /\ stops < MaxStops
    /\ bridge' = "stopping" /\ stops' = stops + 1
    /\ UNCHANGED <<receiverVars, uD3TNVars, dtchatVars, senderVars>>
    /\ UNCHANGED <<drops, breaks, deaths, stalls>>

(* main returns: its daemon threads end wherever they are.                  *)
Exit ==
    /\ bridge = "stopping" /\ bridge' = "down"
    /\ receiver' = "ended" /\ session' = FALSE
    /\ in_hand' = NoBundle /\ attempt' = 0 /\ delivered' = FALSE
    /\ handler' = [o \in Outbound |->
          IF handler[o] \in {"queued", "read", "locked", "awaiting"} THEN "failed" ELSE handler[o]]
    /\ lock' = NoBundle /\ sending' = FALSE /\ responses' = <<>>
    /\ UNCHANGED <<uD3TNVars, dtchatVars, response, budgets>>

Restart ==
    /\ bridge = "down" /\ bridge' = "up"
    /\ receiver' = "offline" /\ sending' = TRUE
    /\ UNCHANGED <<session, in_hand, attempt, delivered, uD3TNVars, dtchatVars>>
    /\ UNCHANGED <<handler, lock, responses, response, budgets>>

(* DTChat's listener accepts, and a task of its own reads to the end of the *)
(* stream: connections are read in any order.                               *)
Read(b) ==
    /\ dtchat /\ backlog[b] > 0
    /\ backlog' = [backlog EXCEPT ![b] = @ - 1]
    /\ received' = [received EXCEPT ![b] = @ + 1]
    /\ UNCHANGED <<bridge, receiverVars, uD3TNVars, dtchat, stranded, senderVars, budgets>>

DTChatEnds ==
    /\ dtchat /\ deaths < MaxDeaths
    /\ dtchat' = FALSE /\ deaths' = deaths + 1
    /\ stranded' = [b \in Inbound |-> stranded[b] + backlog[b]]
    /\ backlog' = [b \in Inbound |-> 0]
    /\ UNCHANGED <<bridge, receiverVars, uD3TNVars, received, senderVars>>
    /\ UNCHANGED <<drops, breaks, stops, stalls>>

DTChatStarts ==
    /\ ~ dtchat /\ dtchat' = TRUE
    /\ UNCHANGED <<bridge, receiverVars, uD3TNVars, backlog, received, stranded>>
    /\ UNCHANGED <<senderVars, budgets>>

ReceiverNext ==
    \/ Connect \/ LeaveSession \/ Forward \/ ForwardFails \/ ForwardStopped \/ Report
    \/ \E b \in Inbound : ReceiveAdu(b)

HandlerNext(o) ==
    Handle(o) \/ Acquire(o) \/ SendAdu(o) \/ ReceiveResponse(o) \/ SendFails(o)

Next ==
    \/ ReceiverNext
    \/ \E o \in Outbound : Post(o) \/ HandlerNext(o)
    \/ \E b \in Inbound : Arrive(b) \/ Read(b)
    \/ SessionDrops \/ SendingBreaks \/ Interrupt \/ Exit \/ Restart
    \/ DTChatEnds \/ DTChatStarts

Spec == Init /\ [][Next]_vars

(* The threads of the bridge and DTChat's listener run, main returns once   *)
(* it is interrupted, and whoever operates the node starts what has ended.  *)
Fairness ==
    /\ WF_vars(ReceiverNext)
    /\ \A o \in Outbound : WF_vars(HandlerNext(o))
    /\ WF_vars(Exit) /\ WF_vars(Restart) /\ WF_vars(DTChatStarts)
    /\ \A b \in Inbound : WF_vars(Read(b))

FairSpec == Spec /\ Fairness

----------------------------------------------------------------------------
(* Every variable holds a value of its type. *)
TypeOK ==
    /\ bridge \in {"up", "stopping", "down"}
    /\ receiver \in ReceiverStates /\ session \in BOOLEAN
    /\ in_hand \in Inbound \cup {NoBundle}
    /\ attempt \in 0 .. Attempts /\ delivered \in BOOLEAN
    /\ stored \subseteq Inbound /\ arrived \subseteq Inbound /\ succeeded \subseteq Inbound
    /\ dtchat \in BOOLEAN /\ backlog \in [Inbound -> Nat]
    /\ received \in [Inbound -> Nat] /\ stranded \in [Inbound -> Nat]
    /\ handler \in [Outbound -> HandlerStates]
    /\ lock \in Outbound \cup {NoBundle} /\ sending \in BOOLEAN
    /\ responses \in Seq(Outbound)
    /\ response \in [Outbound -> Outbound \cup {NoBundle}]
    /\ drops \in 0 .. MaxDrops /\ breaks \in 0 .. MaxBreaks
    /\ stops \in 0 .. MaxStops /\ deaths \in 0 .. MaxDeaths
    /\ stalls \in 0 .. MaxStalls

(* Handed to DTChat so far, whatever became of it there. *)
Copies(b) == received[b] + backlog[b] + stranded[b]

(* aap2_bridge.py:194-195 "we never ack a bundle we failed to hand off": a  *)
(* bundle uD3TN was told a success for was handed to DTChat, and one it was *)
(* not told a success for is still with uD3TN.                              *)
AckedMeansHandedOff ==
    \A b \in arrived : IF b \in succeeded THEN Copies(b) > 0 ELSE b \in stored

(* A bundle is handed to DTChat again only if the report of the one before  *)
(* was lost with its session, or with the bridge.                           *)
CopiesNeedLosses ==
    \A b \in Inbound : Copies(b) <= 1 + drops + stops

(* The receiving thread has a step to take, and the handler of an ADU has.  *)
ReceiverCan ==
    \/ receiver = "offline" /\ bridge = "up"
    \/ receiver = "listening" /\ (session => bridge = "stopping" \/ stored # {})
    \/ receiver = "forwarding" /\ bridge # "down"
    \/ receiver = "reporting"

HandlerCan(o) ==
    \/ handler[o] = "queued" /\ bridge = "up"
    \/ handler[o] = "read" /\ lock = NoBundle
    \/ handler[o] = "locked"
    \/ handler[o] = "awaiting" /\ (sending => responses # <<>>)

(* The bridge and DTChat are up, and no thread of theirs has a step.        *)
AtRest ==
    /\ bridge = "up" /\ dtchat /\ ~ ReceiverCan
    /\ \A o \in Outbound : ~ HandlerCan(o)
    /\ \A b \in Inbound : backlog[b] = 0

(* Rest is reached with the work done: every bundle was read by DTChat, or  *)
(* lost in one that ended, and every ADU was relayed or its handler failed. *)
RestMeansSettled ==
    AtRest => /\ \A b \in arrived : received[b] > 0 \/ stranded[b] > 0
              /\ \A o \in Outbound : handler[o] \in {"none", "relayed", "failed", "refused"}

(* _run_receiver: no disconnect ends the receiving thread of a bridge that  *)
(* runs, and with a bundle at uD3TN the thread has a step to take.          *)
InboundGoesOn ==
    bridge = "up" => receiver # "ended" /\ (stored # {} => ReceiverCan)

(* To DTChat the bridge and its uD3TN are a hop that delivers at least      *)
(* once: no copy is made of a bundle that was given up, and none is given   *)
(* up before it was handed over, across lost sessions, ends of the bridge   *)
(* and of DTChat.                                                           *)
Hop == INSTANCE LastHop WITH
    Bundles <- Inbound, seen <- arrived, held <- stored,
    copies <- [b \in Inbound |-> Copies(b)]

ImplementsLastHop == Hop!AtLeastOnce

(* Two handlers are never in the AAP2 exchange together, and each gets the  *)
(* response to its own ADU, however the sending session ends.               *)
OwnResponse ==
    /\ \A o \in Outbound : handler[o] \in {"locked", "awaiting"} => lock = o
    /\ \A o \in Outbound : handler[o] = "relayed" => response[o] = o

(* _run_receiver: "without this loop a single disconnect would kill inbound *)
(* delivery for the rest of the run".  With it every bundle reaches DTChat, *)
(* unless it was in the listener of a DTChat that ended.                    *)
EventuallyReceived ==
    \A b \in Inbound : b \in arrived ~> (received[b] > 0 \/ stranded[b] > 0)

(* No handler waits for the lock for ever: what DTChat posted is relayed or *)
(* fails, even when the sending session breaks in the middle of an exchange.*)
EventuallySettled ==
    \A o \in Outbound : handler[o] = "queued" ~> handler[o] \in {"relayed", "failed"}
=============================================================================
