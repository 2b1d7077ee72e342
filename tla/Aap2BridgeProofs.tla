--------------------------- MODULE Aap2BridgeProofs ---------------------------
(* TLAPS proofs about Aap2Bridge, for any bundles, number of attempts and     *)
(* budgets of losses.                                                         *)
EXTENDS Aap2Bridge, TLAPS

(* The receiver works on a bundle uD3TN still has, and has attempts left.     *)
Receiving ==
    /\ bridge \in {"up", "stopping", "down"}
    /\ receiver \in ReceiverStates /\ session \in BOOLEAN
    /\ in_hand \in Inbound \cup {NoBundle}
    /\ attempt \in 0 .. Attempts /\ delivered \in BOOLEAN
    /\ stored \subseteq arrived /\ succeeded \subseteq arrived /\ arrived \subseteq Inbound
    /\ receiver \in {"forwarding", "reporting"} => in_hand \in stored
    /\ receiver = "forwarding" => attempt < Attempts

Counting ==
    /\ dtchat \in BOOLEAN /\ backlog \in [Inbound -> Nat]
    /\ received \in [Inbound -> Nat] /\ stranded \in [Inbound -> Nat]

Budgeting ==
    /\ drops \in 0 .. MaxDrops /\ breaks \in 0 .. MaxBreaks
    /\ stops \in 0 .. MaxStops /\ deaths \in 0 .. MaxDeaths
    /\ stalls \in 0 .. MaxStalls

(* The session belongs to the handler that holds the lock, and what is on it  *)
(* answers this handler.                                                      *)
Sending ==
    /\ handler \in [Outbound -> HandlerStates]
    /\ lock \in Outbound \cup {NoBundle} /\ sending \in BOOLEAN
    /\ response \in [Outbound -> Outbound \cup {NoBundle}]
    /\ \/ responses = <<>>
       \/ sending /\ lock \in Outbound /\ handler[lock] = "awaiting" /\ responses = <<lock>>
    /\ OwnResponse

Inv == Receiving /\ Counting /\ Budgeting /\ Sending

LEMMA InvTypes == Inv => TypeOK
<1> SUFFICES ASSUME Inv PROVE TypeOK
  OBVIOUS
<1>1. responses \in Seq(Outbound)
  <2>1. responses = <<>> \/ (lock \in Outbound /\ responses = <<lock>>)
    BY DEF Inv, Sending
  <2>2. <<>> \in Seq(Outbound)
    OBVIOUS
  <2>3. \A o \in Outbound : <<o>> \in Seq(Outbound)
    OBVIOUS
  <2>4. QED
    BY <2>1, <2>2, <2>3
<1>2. QED
  BY <1>1 DEF Inv, Receiving, Counting, Budgeting, Sending, TypeOK

(* The steps of the receiving thread, those of the handlers, the rest.        *)
Elsewhere ==
    \/ \E o \in Outbound : Post(o)
    \/ \E b \in Inbound : Arrive(b) \/ Read(b)
    \/ SessionDrops \/ SendingBreaks \/ Interrupt \/ Exit \/ Restart
    \/ DTChatEnds \/ DTChatStarts

LEMMA Cases ==
    [Next]_vars <=> \/ ReceiverNext
                    \/ \E o \in Outbound : HandlerNext(o)
                    \/ Elsewhere
                    \/ UNCHANGED vars
BY DEF Next, Elsewhere

LEMMA InitInv == Init => Inv
<1> SUFFICES ASSUME Init PROVE Inv
  OBVIOUS
<1>a. 0 \in 0 .. Attempts
  BY AttemptsAssumption
<1>1. Receiving
  BY <1>a DEF Init, Receiving, ReceiverStates
<1>2. Counting
  BY DEF Init, Counting
<1>3. Budgeting
  BY BudgetAssumption DEF Init, Budgeting
<1>4. Sending
  BY DEF Init, Sending, OwnResponse, HandlerStates
<1>5. QED
  BY <1>1, <1>2, <1>3, <1>4 DEF Inv

LEMMA ReceivingStep == Receiving /\ [Next]_vars => Receiving'
<1> SUFFICES ASSUME Receiving, [Next]_vars PROVE Receiving'
  OBVIOUS
<1>a. Attempts \in Nat /\ 0 < Attempts /\ 0 \in 0 .. Attempts
  BY AttemptsAssumption
<1> USE NoBundleAssumption DEF Receiving, ReceiverStates, receiverVars, uD3TNVars
<1>1. CASE UNCHANGED <<bridge, receiverVars, uD3TNVars>>
  BY <1>1
<1>2. CASE Connect
  BY <1>2 DEF Connect
<1>3. CASE LeaveSession
  BY <1>3 DEF LeaveSession
<1>4. CASE Forward
  BY <1>4 DEF Forward
<1>5. CASE ForwardFails
  <2>1. attempt' \in 0 .. Attempts /\ (attempt' < Attempts \/ receiver' = "reporting")
    BY <1>5, <1>a DEF ForwardFails
  <2>2. QED
    BY <1>5, <2>1 DEF ForwardFails
<1>6. CASE ForwardStopped
  BY <1>6 DEF ForwardStopped
<1>7. CASE Report
  BY <1>7 DEF Report
<1>8. ASSUME NEW b \in Inbound, ReceiveAdu(b) PROVE Receiving'
  BY <1>8, <1>a DEF ReceiveAdu
<1>9. ASSUME NEW b \in Inbound, Arrive(b) PROVE Receiving'
  BY <1>9 DEF Arrive
<1>10. CASE SessionDrops \/ Interrupt \/ Restart
  BY <1>10 DEF SessionDrops, Interrupt, Restart
<1>11. CASE Exit
  BY <1>11, <1>a DEF Exit
<1>12. QED
  BY <1>1, <1>2, <1>3, <1>4, <1>5, <1>6, <1>7, <1>8, <1>9, <1>10, <1>11, Cases
     DEF ReceiverNext, HandlerNext, Elsewhere, Handle, Acquire, SendAdu, ReceiveResponse,
         SendFails, Post, Read, SendingBreaks, DTChatEnds, DTChatStarts, vars

LEMMA CountingStep == Receiving /\ Counting /\ [Next]_vars => Counting'
<1> SUFFICES ASSUME Receiving, Counting, [Next]_vars PROVE Counting'
  OBVIOUS
<1> USE DEF Counting, dtchatVars
<1>1. CASE UNCHANGED <<backlog, received, stranded>> /\ dtchat' \in BOOLEAN
  BY <1>1
<1>2. CASE Forward
  BY <1>2 DEF Forward, Receiving
<1>3. ASSUME NEW b \in Inbound, Read(b) PROVE Counting'
  BY <1>3 DEF Read
<1>4. CASE DTChatEnds
  <2>1. \A b \in Inbound : stranded[b] + backlog[b] \in Nat
    OBVIOUS
  <2>2. QED
    BY <1>4, <2>1 DEF DTChatEnds
<1>5. QED
  BY <1>1, <1>2, <1>3, <1>4, Cases
     DEF ReceiverNext, HandlerNext, Elsewhere, Connect, LeaveSession, ForwardFails,
         ForwardStopped, Report, ReceiveAdu, Handle, Acquire, SendAdu, ReceiveResponse,
         SendFails, Post, Arrive, SessionDrops, SendingBreaks, Interrupt, Exit, Restart,
         DTChatStarts, vars

LEMMA BudgetingStep == Budgeting /\ [Next]_vars => Budgeting'
<1> SUFFICES ASSUME Budgeting, [Next]_vars PROVE Budgeting'
  OBVIOUS
<1> USE BudgetAssumption DEF Budgeting, budgets
<1>1. CASE UNCHANGED budgets
  BY <1>1
<1>2. CASE SessionDrops \/ SendingBreaks
  BY <1>2 DEF SessionDrops, SendingBreaks
<1>3. CASE Interrupt \/ DTChatEnds
  BY <1>3 DEF Interrupt, DTChatEnds
<1>4. QED
  BY <1>1, <1>2, <1>3, Cases
     DEF ReceiverNext, HandlerNext, Elsewhere, Connect, LeaveSession, Forward, ForwardFails,
         ForwardStopped, Report, ReceiveAdu, Handle, Acquire, SendAdu, ReceiveResponse,
         SendFails, Post, Arrive, Read, Exit, Restart, DTChatStarts, vars

LEMMA SendingStep == Sending /\ [Next]_vars => Sending'
<1> SUFFICES ASSUME Sending, [Next]_vars PROVE Sending'
  OBVIOUS
<1> USE NoBundleAssumption DEF Sending, OwnResponse, HandlerStates, senderVars
<1>1. CASE UNCHANGED senderVars
  BY <1>1
<1>2. ASSUME NEW o \in Outbound, Post(o) \/ Handle(o) PROVE Sending'
  BY <1>2 DEF Post, Handle
<1>3. ASSUME NEW o \in Outbound, Acquire(o) PROVE Sending'
  BY <1>3 DEF Acquire
<1>4. ASSUME NEW o \in Outbound, SendAdu(o) PROVE Sending'
  <2>1. lock = o /\ handler[lock] = "locked"
    BY <1>4 DEF SendAdu
  <2>3. responses = <<>>
    BY <2>1
  <2>4. responses' = <<o>>
    BY <1>4, <2>3 DEF SendAdu
  <2>2. QED
    BY <1>4, <2>1, <2>4 DEF SendAdu
<1>5. ASSUME NEW o \in Outbound, ReceiveResponse(o) PROVE Sending'
  <2>1. lock = o /\ Head(responses) = o /\ responses' = <<>>
    BY <1>5 DEF ReceiveResponse
  <2>2. QED
    BY <1>5, <2>1 DEF ReceiveResponse
<1>6. ASSUME NEW o \in Outbound, SendFails(o) PROVE Sending'
  BY <1>6 DEF SendFails
<1>7. CASE SendingBreaks
  BY <1>7 DEF SendingBreaks
<1>8. CASE Exit
  BY <1>8 DEF Exit
<1>9. CASE Restart
  BY <1>9 DEF Restart
<1>10. QED
  BY <1>1, <1>2, <1>3, <1>4, <1>5, <1>6, <1>7, <1>8, <1>9, Cases
     DEF ReceiverNext, HandlerNext, Elsewhere, Connect, LeaveSession, Forward, ForwardFails,
         ForwardStopped, Report, ReceiveAdu, Arrive, Read, SessionDrops, Interrupt,
         DTChatEnds, DTChatStarts, vars

LEMMA InvStep == Inv /\ [Next]_vars => Inv'
BY ReceivingStep, CountingStep, BudgetingStep, SendingStep DEF Inv

(* Every variable keeps its type: the attempts stay within _DELIVER_ATTEMPTS  *)
(* and nothing is taken from a place it is not in (aap2_bridge.py:159).       *)
THEOREM TypeCorrect == Spec => []TypeOK
BY InvTypes, InitInv, InvStep, PTL DEF Spec

(* Whatever the handlers and the sending session do, the lock keeps the       *)
(* exchanges apart (aap2_bridge.py:110).                                      *)
THEOREM OwnResponses == Spec => []OwnResponse
<1>1. Inv => OwnResponse
  BY DEF Inv, Sending
<1>2. QED
  BY <1>1, InitInv, InvStep, PTL DEF Spec

----------------------------------------------------------------------------
(* Custody *)

(* What a delivered flag stands for, and where the bundles are.               *)
Custody ==
    /\ receiver = "reporting" /\ delivered => Copies(in_hand) > 0
    /\ AckedMeansHandedOff

CopiesOf == [b \in Inbound |-> Copies(b)]

LEMMA CopiesType == Inv => CopiesOf \in [Inbound -> Nat]
BY DEF Inv, Counting, CopiesOf, Copies

(* Only Forward makes a copy; reading it or ending DTChat moves copies about. *)
LEMMA CopiesStep ==
    ASSUME Inv, [Next]_vars
    PROVE  \/ CopiesOf' = CopiesOf
           \/ Forward /\ CopiesOf' = [CopiesOf EXCEPT ![in_hand] = @ + 1]
<1> USE DEF Inv, Counting, CopiesOf, Copies, dtchatVars
<1>1. CASE UNCHANGED <<backlog, received, stranded>>
  BY <1>1
<1>2. CASE Forward
  <2>1. in_hand \in Inbound
    BY <1>2 DEF Forward, Receiving
  <2>2. \A b \in Inbound : Copies(b)' = IF b = in_hand THEN Copies(b) + 1 ELSE Copies(b)
    BY <1>2, <2>1 DEF Forward
  <2>3. QED
    BY <1>2, <2>1, <2>2
<1>3. ASSUME NEW c \in Inbound, Read(c) PROVE CopiesOf' = CopiesOf
  <2>1. \A b \in Inbound : Copies(b)' = Copies(b)
    BY <1>3 DEF Read
  <2>2. QED
    BY <2>1
<1>4. CASE DTChatEnds
  <2>1. \A b \in Inbound : Copies(b)' = Copies(b)
    BY <1>4 DEF DTChatEnds
  <2>2. QED
    BY <2>1
<1>5. QED
  BY <1>1, <1>2, <1>3, <1>4, Cases
     DEF ReceiverNext, HandlerNext, Elsewhere, Connect, LeaveSession, ForwardFails,
         ForwardStopped, Report, ReceiveAdu, Handle, Acquire, SendAdu, ReceiveResponse,
         SendFails, Post, Arrive, SessionDrops, SendingBreaks, Interrupt, Exit, Restart,
         DTChatStarts, vars

LEMMA CustodyStep == Inv /\ Custody /\ [Next]_vars => Custody'
<1> SUFFICES ASSUME Inv, Custody, [Next]_vars PROVE Custody'
  OBVIOUS
<1> USE DEF Custody, AckedMeansHandedOff
<1>1. \A b \in Inbound : Copies(b) \in Nat /\ Copies(b)' \in Nat /\ Copies(b)' >= Copies(b)
  <2>a. Inv'
    BY InvStep
  <2>1. CopiesOf \in [Inbound -> Nat] /\ CopiesOf' \in [Inbound -> Nat]
    BY <2>a, CopiesType DEF Inv, Counting, CopiesOf, Copies
  <2>2. \A b \in Inbound : CopiesOf[b] = Copies(b) /\ CopiesOf'[b] = Copies(b)'
    BY DEF CopiesOf
  <2>3. CASE CopiesOf' = CopiesOf
    BY <2>1, <2>2, <2>3
  <2>4. CASE CopiesOf' = [CopiesOf EXCEPT ![in_hand] = @ + 1]
    BY <2>1, <2>2, <2>4
  <2>5. QED
    BY <2>3, <2>4, CopiesStep
<1>2. stored \subseteq arrived /\ arrived \subseteq Inbound /\ succeeded \subseteq arrived
      /\ (receiver \in {"forwarding", "reporting"} => in_hand \in stored)
  BY DEF Inv, Receiving
<1>3. CASE UNCHANGED <<receiver, delivered, in_hand, stored, arrived, succeeded>>
  BY <1>1, <1>2, <1>3
<1>4. CASE ReceiverNext
  <2> USE DEF uD3TNVars
  <2>1. CASE Connect \/ LeaveSession
    BY <1>1, <1>2, <2>1 DEF Connect, LeaveSession
  <2>2. CASE Forward
    <3>1. Copies(in_hand)' > 0
      <4>1. in_hand \in Inbound
        BY <1>2, <2>2 DEF Forward
      <4>2. backlog'[in_hand] = backlog[in_hand] + 1 /\ UNCHANGED <<received, stranded, in_hand>>
        BY <2>2, <4>1 DEF Forward, Inv, Counting
      <4>3. QED
        BY <4>1, <4>2 DEF Copies, Inv, Counting
    <3>2. QED
      BY <1>1, <1>2, <2>2, <3>1 DEF Forward
  <2>3. CASE ForwardFails \/ ForwardStopped
    BY <1>1, <1>2, <2>3 DEF ForwardFails, ForwardStopped
  <2>4. CASE Report
    BY <1>1, <1>2, <2>4 DEF Report
  <2>5. ASSUME NEW b \in Inbound, ReceiveAdu(b) PROVE Custody'
    BY <1>1, <1>2, <2>5 DEF ReceiveAdu
  <2>6. QED
    BY <1>4, <2>1, <2>2, <2>3, <2>4, <2>5 DEF ReceiverNext
<1>5. ASSUME NEW b \in Inbound, Arrive(b) PROVE Custody'
  BY <1>1, <1>2, <1>5 DEF Arrive, receiverVars
<1>6. CASE Exit \/ Restart
  BY <1>1, <1>2, <1>6 DEF Exit, Restart, uD3TNVars
<1>7. QED
  BY <1>3, <1>4, <1>5, <1>6, Cases
     DEF HandlerNext, Elsewhere, Handle, Acquire, SendAdu, ReceiveResponse, SendFails, Post,
         Read, SessionDrops, SendingBreaks, Interrupt, DTChatEnds, DTChatStarts,
         receiverVars, uD3TNVars, vars

LEMMA HeldInCustody == Spec => [](Inv /\ Custody)
<1>1. Init => Custody
  BY DEF Init, Custody, AckedMeansHandedOff
<1>2. QED
  BY <1>1, InitInv, InvStep, CustodyStep, PTL DEF Spec

(* uD3TN never drops a bundle that was not handed to DTChat, whatever is lost *)
(* or ends in between (aap2_bridge.py:194).                                   *)
THEOREM NoAckWithoutHandOff == Spec => []AckedMeansHandedOff
<1>1. Custody => AckedMeansHandedOff
  BY DEF Custody
<1>2. QED
  BY <1>1, HeldInCustody, PTL

(* The bridge with its uD3TN is an at-least-once hop.                         *)
THEOREM BridgeImplementsLastHop == Spec => ImplementsLastHop
<1> USE DEF Hop!Init, Hop!vars, Hop!AtLeastOnceNext, Hop!Arrive, Hop!Hand, Hop!GiveUp
<1>1. Init => Hop!Init
  BY DEF Init, Copies
<1>2. ASSUME Inv, Custody, [Next]_vars PROVE [Hop!AtLeastOnceNext]_(Hop!vars)
  <2> DEFINE cs == [b \in Inbound |-> Copies(b)]
             cs2 == [b \in Inbound |-> Copies(b)']
  <2>1. cs2 = cs \/ (Forward /\ cs2 = [cs EXCEPT ![in_hand] = @ + 1])
    BY <1>2, CopiesStep DEF CopiesOf
  <2>2. (receiver \in {"forwarding", "reporting"} => in_hand \in stored) /\ stored \subseteq Inbound
    BY <1>2 DEF Inv, Receiving
  <2>3. CASE Forward
    BY <2>1, <2>2, <2>3 DEF Forward, uD3TNVars
  <2>4. CASE UNCHANGED <<stored, arrived>> /\ cs2 = cs
    BY <2>4
  <2>5. CASE Report /\ cs2 = cs
    <3>1. CASE session /\ delivered
      <4>1. in_hand \in stored /\ cs[in_hand] > 0
        BY <1>2, <2>2, <2>5, <3>1 DEF Report, Custody
      <4>2. QED
        BY <2>2, <2>5, <3>1, <4>1 DEF Report
    <3>2. CASE ~ (session /\ delivered)
      BY <2>4, <2>5, <3>2 DEF Report
    <3>3. QED
      BY <3>1, <3>2
  <2>6. ASSUME NEW b \in Inbound, Arrive(b), cs2 = cs PROVE Hop!AtLeastOnceNext
    BY <2>6 DEF Arrive
  <2>7. QED
    BY <1>2, <2>1, <2>3, <2>4, <2>5, <2>6, Cases
       DEF ReceiverNext, HandlerNext, Elsewhere, Connect, LeaveSession, ForwardFails,
           ForwardStopped, ReceiveAdu, Handle, Acquire, SendAdu, ReceiveResponse, SendFails,
           Post, Read, SessionDrops, SendingBreaks, Interrupt, Exit, Restart, DTChatEnds,
           DTChatStarts, uD3TNVars, vars
<1>3. QED
  BY <1>1, <1>2, HeldInCustody, PTL DEF Spec, ImplementsLastHop, Hop!AtLeastOnce

----------------------------------------------------------------------------
(* Copies *)

Losses == drops + stops

Promising(b) == receiver = "reporting" /\ delivered /\ in_hand = b

(* A bundle uD3TN still has was copied once per loss so far; once more while  *)
(* a success waits to be reported over a session that is intact; and once     *)
(* less while it is forwarded after its session was lost.                     *)
Accounted(b) ==
    /\ Copies(b) <= 1 + Losses
    /\ b \notin arrived => Copies(b) = 0
    /\ b \in stored /\ ~ Promising(b) => Copies(b) <= Losses
    /\ Promising(b) /\ (~ session \/ bridge # "up") => Copies(b) <= Losses
    /\ receiver = "forwarding" /\ in_hand = b /\ ~ session => Copies(b) + 1 <= Losses

Accounting == \A b \in Inbound : Accounted(b)

LEMMA AccountingStep == Inv /\ Accounting /\ [Next]_vars => Accounting'
<1> SUFFICES ASSUME Inv, Accounting, [Next]_vars, NEW b \in Inbound PROVE Accounted(b)'
  BY DEF Accounting
<1>1. Copies(b) \in Nat /\ Losses \in Nat /\ Accounted(b)
  BY BudgetAssumption DEF Accounting, Inv, Counting, Budgeting, Copies, Losses
<1>2. CASE Forward
  <2>1. Copies(b)' = IF b = in_hand THEN Copies(b) + 1 ELSE Copies(b)
    BY <1>2 DEF Forward, Inv, Counting, Receiving, Copies
  <2>2. Losses' = Losses /\ UNCHANGED <<session, bridge, stored, in_hand>> /\ bridge = "up"
        /\ receiver' = "reporting" /\ delivered' = TRUE /\ receiver = "forwarding"
    BY <1>2 DEF Forward, budgets, uD3TNVars, Losses
  <2>3. b = in_hand => b \in stored
    BY <2>2 DEF Inv, Receiving
  <2>4. b \in stored => b \in arrived
    BY DEF Inv, Receiving
  <2>5. UNCHANGED arrived
    BY <1>2 DEF Forward, uD3TNVars
  <2>6. QED
    BY <1>1, <2>1, <2>2, <2>3, <2>4, <2>5 DEF Accounted, Promising
<1>3. ASSUME ~ Forward PROVE Copies(b)' = Copies(b)
  <2>1. CopiesOf' = CopiesOf
    BY <1>3, CopiesStep
  <2>2. CopiesOf'[b] = Copies(b)' /\ CopiesOf[b] = Copies(b)
    BY DEF CopiesOf
  <2>3. QED
    BY <2>1, <2>2
<1>4. CASE Connect \/ LeaveSession
  BY <1>1, <1>3, <1>4
     DEF Connect, LeaveSession, Forward, budgets, uD3TNVars, Losses, Accounted, Promising
<1>5. CASE ForwardFails \/ ForwardStopped
  BY <1>1, <1>3, <1>5
     DEF ForwardFails, ForwardStopped, Forward, budgets, uD3TNVars, Losses, Accounted, Promising
<1>6. CASE Report
  BY <1>1, <1>3, <1>6 DEF Report, Forward, budgets, Losses, Accounted, Promising
<1>7. ASSUME NEW c \in Inbound, ReceiveAdu(c) PROVE Accounted(b)'
  BY <1>1, <1>3, <1>7 DEF ReceiveAdu, Forward, budgets, uD3TNVars, Losses, Accounted, Promising
<1>8. ASSUME NEW c \in Inbound, Arrive(c) PROVE Accounted(b)'
  <2>1. UNCHANGED <<receiver, session, bridge, in_hand, delivered, Losses>>
        /\ stored' = stored \cup {c} /\ arrived' = arrived \cup {c} /\ c \notin arrived
    BY <1>8 DEF Arrive, receiverVars, budgets, Losses
  <2>2. Copies(b)' = Copies(b)
    BY <1>8 DEF Arrive, dtchatVars, Copies
  <2>3. receiver \in {"forwarding", "reporting"} /\ in_hand = b => b \in stored
    BY DEF Inv, Receiving
  <2>4. b \in stored' => b \in stored \/ Copies(b) = 0
    BY <1>1, <2>1 DEF Accounted
  <2>5. QED
    BY <1>1, <2>1, <2>2, <2>3, <2>4 DEF Accounted, Promising
<1>9. CASE SessionDrops \/ Interrupt
  <2>1. drops \in Nat /\ stops \in Nat
    BY BudgetAssumption DEF Inv, Budgeting
  <2>2. (drops' = drops + 1 /\ stops' = stops) \/ (drops' = drops /\ stops' = stops + 1)
    BY <1>9 DEF SessionDrops, Interrupt
  <2>3. Losses' = Losses + 1
    BY <2>1, <2>2 DEF Losses
  <2>4. Copies(b)' = Copies(b)
    BY <1>9 DEF SessionDrops, Interrupt, dtchatVars, Copies
  <2>5. UNCHANGED <<receiver, in_hand, delivered, stored, arrived>>
    BY <1>9 DEF SessionDrops, Interrupt, receiverVars, uD3TNVars
  <2>6. receiver = "forwarding" /\ in_hand = b => b \in stored
    BY DEF Inv, Receiving
  <2>7. QED
    BY <1>1, <2>3, <2>4, <2>5, <2>6 DEF Accounted, Promising
<1>10. CASE Exit \/ Restart
  BY <1>1, <1>3, <1>10 DEF Exit, Restart, Forward, budgets, uD3TNVars, Losses, Accounted, Promising
<1>11. CASE UNCHANGED <<bridge, receiverVars, stored, arrived, drops, stops>>
  BY <1>1, <1>3, <1>11 DEF Forward, receiverVars, Losses, Accounted, Promising
<1>12. QED
  BY <1>2, <1>4, <1>5, <1>6, <1>7, <1>8, <1>9, <1>10, <1>11, Cases
     DEF ReceiverNext, HandlerNext, Elsewhere, Handle, Acquire, SendAdu, ReceiveResponse,
         SendFails, Post, Read, SendingBreaks, DTChatEnds, DTChatStarts, receiverVars,
         uD3TNVars, budgets, vars

(* Each further copy of a bundle was paid for with a lost session or an ended *)
(* bridge: the retries of the bridge duplicate nothing by themselves          *)
(* (aap2_bridge.py:197).                                                      *)
THEOREM CopiesAreAccountedFor == Spec => []CopiesNeedLosses
<1>1. Init => Accounting
  <2> SUFFICES ASSUME Init, NEW b \in Inbound PROVE Accounted(b)
    BY DEF Accounting
  <2>1. Copies(b) = 0 /\ Losses = 0
    BY DEF Init, Copies, Losses
  <2>2. stored = {} /\ receiver = "offline"
    BY DEF Init
  <2>3. QED
    BY <2>1, <2>2 DEF Accounted, Promising
<1>2. Inv /\ Accounting => CopiesNeedLosses
  <2> SUFFICES ASSUME Inv, Accounting, NEW b \in Inbound PROVE Copies(b) <= 1 + drops + stops
    BY DEF CopiesNeedLosses
  <2>1. drops \in Nat /\ stops \in Nat
    BY BudgetAssumption DEF Inv, Budgeting
  <2>2. Copies(b) <= 1 + (drops + stops)
    BY DEF Accounting, Accounted, Losses
  <2>3. QED
    BY <2>1, <2>2
<1>3. QED
  BY <1>1, <1>2, InitInv, InvStep, AccountingStep, PTL DEF Spec

----------------------------------------------------------------------------
(* Going on *)

Settled == {"none", "relayed", "failed", "refused"}

(* The receiving thread ends with the bridge and not before; the lock is with *)
(* a handler that is in the exchange, and one that waits for a response over  *)
(* an intact session has it coming; nothing of a bridge that is down is left. *)
Living ==
    /\ receiver = "ended" => bridge # "up"
    /\ lock \in Outbound => handler[lock] \in {"locked", "awaiting"}
    /\ lock \in Outbound /\ sending /\ handler[lock] = "awaiting" => responses = <<lock>>
    /\ bridge = "down" =>
          receiver = "ended" /\ \A o \in Outbound : handler[o] \in Settled

LEMMA LivingStep == Inv /\ Living /\ [Next]_vars => Living'
<1> SUFFICES ASSUME Inv, Living, [Next]_vars PROVE Living'
  OBVIOUS
<1> USE NoBundleAssumption DEF Living, Settled
<1>1. /\ handler \in [Outbound -> HandlerStates] /\ lock \in Outbound \cup {NoBundle}
      /\ \A o \in Outbound : handler[o] \in {"locked", "awaiting"} => lock = o
      /\ bridge \in {"up", "stopping", "down"}
      /\ responses = <<>> \/ responses = <<lock>>
  BY DEF Inv, Sending, OwnResponse, Receiving
<1>2. CASE UNCHANGED <<bridge, receiver, senderVars>>
  BY <1>2 DEF senderVars
<1>3. CASE ReceiverNext
  <2>1. UNCHANGED <<bridge, handler, lock, sending, responses>>
    BY <1>3 DEF ReceiverNext, Connect, LeaveSession, Forward, ForwardFails, ForwardStopped,
                Report, ReceiveAdu, senderVars
  <2>2. receiver # "ended"
    BY <1>3 DEF ReceiverNext, Connect, LeaveSession, Forward, ForwardFails, ForwardStopped,
                Report, ReceiveAdu
  <2>3. receiver' = "ended" => bridge # "up"
    BY <1>3 DEF ReceiverNext, Connect, LeaveSession, Forward, ForwardFails, ForwardStopped,
                Report, ReceiveAdu
  <2>4. QED
    BY <2>1, <2>2, <2>3
<1>4. ASSUME NEW o \in Outbound, Post(o) \/ Handle(o) PROVE Living'
  <2>1. UNCHANGED <<bridge, receiver, lock, sending, responses>>
    BY <1>4 DEF Post, Handle, receiverVars
  <2>2. handler[o] \in {"none", "queued"} /\ (handler[o] = "queued" => bridge = "up")
        /\ \E h \in {"refused", "queued", "read"} :
              handler' = [handler EXCEPT ![o] = h] /\ (bridge = "down" => h = "refused")
    BY <1>4 DEF Post, Handle
  <2>3. QED
    BY <1>1, <2>1, <2>2
<1>5. ASSUME NEW o \in Outbound, Acquire(o) PROVE Living'
  BY <1>1, <1>5 DEF Acquire, receiverVars
<1>6. ASSUME NEW o \in Outbound, SendAdu(o) PROVE Living'
  <2>1. lock = o /\ responses = <<>> /\ bridge # "down"
    <3>1. lock = o
      BY <1>1, <1>6 DEF SendAdu
    <3>2. responses = <<>>
      BY <1>6, <3>1 DEF SendAdu, Inv, Sending
    <3>3. QED
      BY <1>6, <3>1, <3>2 DEF SendAdu
  <2>2. responses' = <<o>>
    BY <1>6, <2>1 DEF SendAdu
  <2>3. QED
    BY <1>1, <1>6, <2>1, <2>2 DEF SendAdu, receiverVars
<1>7. ASSUME NEW o \in Outbound, ReceiveResponse(o) \/ SendFails(o) PROVE Living'
  BY <1>1, <1>7 DEF ReceiveResponse, SendFails, receiverVars
<1>8. CASE SendingBreaks \/ Interrupt
  BY <1>8 DEF SendingBreaks, Interrupt, receiverVars, senderVars
<1>9. CASE Exit
  <2>1. \A o \in Outbound : handler'[o] \in Settled
    BY <1>1, <1>9 DEF Exit, HandlerStates
  <2>2. QED
    BY <1>9, <2>1 DEF Exit
<1>10. CASE Restart
  BY <1>1, <1>10 DEF Restart
<1>11. QED
  BY <1>2, <1>3, <1>4, <1>5, <1>6, <1>7, <1>8, <1>9, <1>10, Cases
     DEF HandlerNext, Elsewhere, Arrive, Read, SessionDrops, DTChatEnds, DTChatStarts,
         receiverVars, vars

LEMMA Lives == Spec => [](Inv /\ Custody /\ Living)
<1>1. Init => Living
  BY NoBundleAssumption DEF Init, Living, Settled
<1>2. QED
  BY <1>1, InitInv, InvStep, HeldInCustody, LivingStep, PTL DEF Spec

(* A disconnect does not end inbound delivery: as long as the bridge runs its *)
(* receiving thread does, and never waits while uD3TN holds a bundle          *)
(* (aap2_bridge.py:180).                                                      *)
THEOREM InboundKeepsGoing == Spec => []InboundGoesOn
<1>1. Inv /\ Living => InboundGoesOn
  BY DEF Inv, Receiving, ReceiverStates, Living, InboundGoesOn, ReceiverCan
<1>2. QED
  BY <1>1, Lives, PTL

(* The exchange never jams: when a handler is inside it or wants to be, one   *)
(* handler has a step, the one with the lock if there is one.                 *)
LEMMA ExchangeMoves ==
    ASSUME Inv, Living, NEW o \in Outbound, handler[o] \in {"read", "locked", "awaiting"}
    PROVE  \E p \in Outbound : HandlerCan(p)
<1>1. CASE lock = NoBundle
  <2>1. handler[o] = "read"
    BY <1>1, NoBundleAssumption DEF Inv, Sending, OwnResponse
  <2>2. QED
    BY <1>1, <2>1 DEF HandlerCan
<1>2. CASE lock \in Outbound
  <2>1. handler[lock] \in {"locked", "awaiting"}
    BY <1>2 DEF Living
  <2>2. handler[lock] = "awaiting" /\ sending => responses # <<>>
    BY <1>2 DEF Living
  <2>3. HandlerCan(lock)
    BY <2>1, <2>2 DEF HandlerCan
  <2>4. QED
    BY <1>2, <2>3
<1>3. QED
  BY <1>1, <1>2 DEF Inv, Sending

(* When the bridge and DTChat have nothing left to do, nothing was forgotten: *)
(* each bundle reached DTChat and each ADU of DTChat has an outcome, whatever *)
(* was lost on the way.  It is what EventuallyReceived and EventuallySettled  *)
(* say of the state they lead to.                                             *)
THEOREM RestIsSettled == Spec => []RestMeansSettled
<1>1. ASSUME Inv, Custody, Living, AtRest PROVE RestMeansSettled
  <2>1. stored = {}
    BY <1>1 DEF Inv, Receiving, ReceiverStates, Living, AtRest, ReceiverCan
  <2>2. ASSUME NEW b \in arrived PROVE received[b] > 0 \/ stranded[b] > 0
    <3>1. Copies(b) > 0
      BY <1>1, <2>1 DEF Custody, AckedMeansHandedOff
    <3>2. b \in Inbound
      BY <1>1 DEF Inv, Receiving
    <3>3. received[b] \in Nat /\ stranded[b] \in Nat /\ backlog[b] = 0
      BY <1>1, <3>2 DEF Inv, Counting, AtRest
    <3>4. QED
      BY <3>1, <3>3 DEF Copies
  <2>3. ASSUME NEW o \in Outbound PROVE handler[o] \in {"none", "relayed", "failed", "refused"}
    <3>1. handler[o] \in HandlerStates
      BY <1>1 DEF Inv, Sending
    <3>2. handler[o] \notin {"read", "locked", "awaiting"}
      BY <1>1, ExchangeMoves DEF AtRest
    <3>3. handler[o] # "queued"
      BY <1>1 DEF AtRest, HandlerCan
    <3>4. QED
      BY <3>1, <3>2, <3>3 DEF HandlerStates
  <2>4. QED
    BY <2>2, <2>3 DEF RestMeansSettled
<1>2. Inv /\ Custody /\ Living => RestMeansSettled
  BY <1>1 DEF RestMeansSettled
<1>3. QED
  BY <1>2, Lives, PTL

(* How far the connection of an ADU has come.                                 *)
Stage(o) ==
    CASE handler[o] = "none" -> 0
      [] handler[o] = "queued" -> 1
      [] handler[o] = "read" -> 2
      [] handler[o] = "locked" -> 3
      [] handler[o] = "awaiting" -> 4
      [] OTHER -> 5

(* The attempts the bundle in hand has left, its report included.             *)
Left ==
    CASE receiver = "forwarding" -> 1 + (Attempts - attempt)
      [] receiver = "reporting" -> 1
      [] OTHER -> 0

HandlersAdvance ==
    /\ \A o \in Outbound : handler'[o] = handler[o] \/ Stage(o)' > Stage(o)
    /\ \A o \in Outbound : HandlerNext(o) => Stage(o)' > Stage(o)

RoundAdvances ==
    receiver \in {"forwarding", "reporting"} =>
        /\ Left \in 1 .. 1 + Attempts
        /\ Left' <= Left
        /\ ReceiverNext => Left' < Left

LEMMA HandlersStep == Inv /\ Living /\ [Next]_vars => HandlersAdvance
<1> SUFFICES ASSUME Inv, Living, [Next]_vars PROVE HandlersAdvance
  OBVIOUS
<1>1. handler \in [Outbound -> HandlerStates]
  BY DEF Inv, Sending
<1>2. ASSUME NEW o \in Outbound, HandlerNext(o)
      PROVE  /\ Stage(o)' > Stage(o)
             /\ \A p \in Outbound \ {o} : handler'[p] = handler[p]
  <2>1. PICK h \in HandlerStates : handler' = [handler EXCEPT ![o] = h]
    BY <1>2 DEF HandlerNext, Handle, Acquire, SendAdu, ReceiveResponse, SendFails, HandlerStates
  <2>2. handler'[o] = h /\ \A p \in Outbound \ {o} : handler'[p] = handler[p]
    BY <1>1, <2>1
  <2>3. \/ handler[o] = "queued" /\ handler'[o] = "read"
        \/ handler[o] = "read" /\ handler'[o] = "locked"
        \/ handler[o] = "locked" /\ handler'[o] = "awaiting"
        \/ handler[o] \in {"locked", "awaiting"} /\ handler'[o] \in {"relayed", "failed"}
    BY <1>1, <1>2 DEF HandlerNext, Handle, Acquire, SendAdu, ReceiveResponse, SendFails
  <2>4. Stage(o)' > Stage(o)
    BY <2>3 DEF Stage
  <2>5. QED
    BY <2>2, <2>4
<1>3. ASSUME ~ \E o \in Outbound : HandlerNext(o), NEW o \in Outbound
      PROVE  handler'[o] = handler[o] \/ Stage(o)' > Stage(o)
  <2>1. CASE UNCHANGED handler
    BY <2>1
  <2>2. ASSUME NEW p \in Outbound, Post(p)
        PROVE  handler'[o] = handler[o] \/ Stage(o)' > Stage(o)
    <3>1. CASE o = p
      <4>1. handler[o] = "none" /\ handler'[o] \in {"refused", "queued"}
        BY <1>1, <2>2, <3>1 DEF Post
      <4>2. QED
        BY <4>1 DEF Stage
    <3>2. CASE o # p
      BY <1>1, <2>2, <3>2 DEF Post
    <3>3. QED
      BY <3>1, <3>2
  <2>3. CASE Exit
    <3>1. handler'[o] = handler[o]
          \/ (handler[o] \in {"queued", "read", "locked", "awaiting"} /\ handler'[o] = "failed")
      BY <2>3 DEF Exit
    <3>2. QED
      BY <3>1 DEF Stage
  <2>4. QED
    BY <1>3, <2>1, <2>2, <2>3, Cases
       DEF ReceiverNext, Elsewhere, Connect, LeaveSession, Forward, ForwardFails,
           ForwardStopped, Report, ReceiveAdu, Arrive, Read, SessionDrops, SendingBreaks,
           Interrupt, Restart, DTChatEnds, DTChatStarts, senderVars, vars
<1>4. QED
  BY <1>2, <1>3 DEF HandlersAdvance

LEMMA RoundStep == Inv /\ Living /\ [Next]_vars => RoundAdvances
<1> SUFFICES ASSUME Inv, Living, [Next]_vars, receiver \in {"forwarding", "reporting"}
             PROVE  Left \in 1 .. 1 + Attempts /\ Left' <= Left /\ (ReceiverNext => Left' < Left)
  BY DEF RoundAdvances
<1>1. Attempts \in Nat /\ attempt \in 0 .. Attempts
      /\ (receiver = "forwarding" => attempt < Attempts)
  BY AttemptsAssumption DEF Inv, Receiving
<1>2. Left \in 1 .. 1 + Attempts
  BY <1>1 DEF Left
<1>3. CASE ReceiverNext
  <2>1. CASE Forward \/ ForwardStopped
    <3>1. receiver = "forwarding" /\ receiver' = "reporting"
      BY <2>1 DEF Forward, ForwardStopped
    <3>2. QED
      BY <1>1, <1>2, <3>1 DEF Left
  <2>2. CASE ForwardFails
    <3>1. receiver = "forwarding" /\ attempt' = attempt + 1
          /\ (receiver' = "reporting" \/ (receiver' = "forwarding" /\ attempt' < Attempts))
      BY <2>2 DEF ForwardFails
    <3>2. QED
      BY <1>1, <1>2, <3>1 DEF Left
  <2>3. CASE Report
    <3>1. receiver = "reporting" /\ receiver' \in {"listening", "offline", "ended"}
      BY <2>3 DEF Report
    <3>2. QED
      BY <1>2, <3>1 DEF Left
  <2>4. QED
    BY <1>2, <1>3, <2>1, <2>2, <2>3 DEF ReceiverNext, Connect, LeaveSession, ReceiveAdu
<1>4. CASE ~ ReceiverNext
  <2>1. CASE UNCHANGED <<receiver, attempt>>
    BY <1>1, <1>2, <1>4, <2>1 DEF Left
  <2>2. CASE Exit
    BY <1>1, <1>2, <1>4, <2>2 DEF Exit, Left
  <2>3. receiver # "offline" /\ receiver # "ended"
    OBVIOUS
  <2>4. ~ Restart
    BY <2>3 DEF Living, Restart
  <2>5. QED
    BY <1>4, <2>1, <2>2, <2>4, Cases
       DEF HandlerNext, Elsewhere, Handle, Acquire, SendAdu, ReceiveResponse, SendFails, Post,
           Arrive, Read, SessionDrops, SendingBreaks, Interrupt, DTChatEnds, DTChatStarts,
           receiverVars, vars
<1>5. QED
  BY <1>2, <1>3, <1>4

(* Every ADU passes its handler once: no step takes a connection back, and    *)
(* each step of a handler brings it nearer its end (aap2_bridge.py:110).  And *)
(* a bundle in hand is let go after at most _DELIVER_ATTEMPTS attempts and a  *)
(* report, however DTChat, the session and main behave in between             *)
(* (aap2_bridge.py:159).  With HandlerCan and ReceiverCan, which hold until   *)
(* then, it is what the two liveness properties rest on.                      *)
THEOREM ThreadsAdvance == Spec => [][HandlersAdvance /\ RoundAdvances]_vars
<1>1. Inv /\ Custody /\ Living /\ [Next]_vars => HandlersAdvance /\ RoundAdvances
  BY HandlersStep, RoundStep
<1>2. QED
  BY <1>1, Lives, PTL DEF Spec
=============================================================================
