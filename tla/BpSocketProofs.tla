---------------------------- MODULE BpSocketProofs ----------------------------
(* TLAPS proofs about BpSocket, for any sockets, addresses, bundles and       *)
(* messages, and any number of kills, faults and restarts of the daemon.      *)
EXTENDS BpSocket, FiniteSetTheorems, FunctionTheorems, SequenceTheorems, WellFoundedInduction, TLAPS

(* Sequences and their elements.                                              *)
LEMMA Appended ==
    ASSUME NEW S, NEW q \in Seq(S), NEW x \in S
    PROVE  /\ Append(q, x) \in Seq(S) /\ ToSet(Append(q, x)) = ToSet(q) \cup {x}
           /\ IsInjective(q) /\ x \notin ToSet(q) => IsInjective(Append(q, x))
<1>1. /\ Append(q, x) \in Seq(S) /\ Len(Append(q, x)) = Len(q) + 1 /\ Len(q) \in Nat
      /\ DOMAIN q = 1 .. Len(q) /\ DOMAIN Append(q, x) = 1 .. Len(q) + 1
      /\ \A i \in 1 .. Len(q) : Append(q, x)[i] = q[i]
      /\ Append(q, x)[Len(q) + 1] = x
  OBVIOUS
<1>2. \A i \in 1 .. Len(q) + 1 : i \in 1 .. Len(q) \/ i = Len(q) + 1
  BY <1>1
<1>3. 1 .. Len(q) \subseteq 1 .. Len(q) + 1 /\ Len(q) + 1 \in 1 .. Len(q) + 1
  BY <1>1
<1> DEFINE r == Append(q, x)
<1> HIDE DEF r
<1>4. ToSet(r) = ToSet(q) \cup {x}
  BY <1>1, <1>2, <1>3 DEF ToSet, r
<1>5. ASSUME IsInjective(q), x \notin ToSet(q) PROVE IsInjective(r)
  BY <1>1, <1>2, <1>5 DEF IsInjective, ToSet, r
<1>6. QED
  BY <1>1, <1>4, <1>5 DEF r

LEMMA Tailed ==
    ASSUME NEW S, NEW q \in Seq(S), q # <<>>
    PROVE  /\ Tail(q) \in Seq(S) /\ Head(q) \in S
           /\ ToSet(q) = ToSet(Tail(q)) \cup {Head(q)}
           /\ IsInjective(q) => IsInjective(Tail(q)) /\ Head(q) \notin ToSet(Tail(q))
<1>1. /\ Tail(q) \in Seq(S) /\ Len(Tail(q)) = Len(q) - 1 /\ Len(q) \in Nat /\ Len(q) > 0
      /\ DOMAIN q = 1 .. Len(q) /\ DOMAIN Tail(q) = 1 .. Len(q) - 1
      /\ \A i \in 1 .. Len(q) - 1 : Tail(q)[i] = q[i + 1]
      /\ Head(q) = q[1] /\ Head(q) \in S
  OBVIOUS
<1>2. /\ \A i \in 1 .. Len(q) : i = 1 \/ (i - 1 \in 1 .. Len(q) - 1 /\ i = i - 1 + 1)
      /\ \A i \in 1 .. Len(q) - 1 : i + 1 \in 1 .. Len(q) /\ i + 1 # 1
      /\ \A i, j \in 1 .. Len(q) - 1 : i + 1 = j + 1 => i = j
      /\ 1 \in 1 .. Len(q)
  BY <1>1
<1> DEFINE r == Tail(q)
<1> HIDE DEF r
<1>3. ToSet(q) = ToSet(r) \cup {Head(q)}
  <2>1. ASSUME NEW x \in ToSet(q) PROVE x \in ToSet(r) \cup {Head(q)}
    <3>1. PICK i \in 1 .. Len(q) : x = q[i]
      BY <1>1, <2>1 DEF ToSet
    <3>2. i = 1 \/ r[i - 1] = q[i]
      BY <1>1, <1>2 DEF r
    <3>3. QED
      BY <1>1, <1>2, <3>1, <3>2 DEF ToSet, r
  <2>2. ASSUME NEW x \in ToSet(r) \cup {Head(q)} PROVE x \in ToSet(q)
    BY <1>1, <1>2, <2>2 DEF ToSet, r
  <2>3. QED
    BY <2>1, <2>2
<1>4. ASSUME IsInjective(q) PROVE IsInjective(r) /\ Head(q) \notin ToSet(r)
  BY <1>1, <1>2, <1>4 DEF IsInjective, ToSet, r
<1>5. QED
  BY <1>1, <1>3, <1>4 DEF r

LEMMA Pushed ==
    ASSUME NEW S, NEW q \in Seq(S), NEW x \in S
    PROVE  /\ <<x>> \o q \in Seq(S) /\ ToSet(<<x>> \o q) = ToSet(q) \cup {x}
           /\ IsInjective(q) /\ x \notin ToSet(q) => IsInjective(<<x>> \o q)
<1> DEFINE r == <<x>> \o q
<1>1. /\ r \in Seq(S) /\ Len(r) = Len(q) + 1 /\ Len(q) \in Nat
      /\ DOMAIN q = 1 .. Len(q) /\ DOMAIN r = 1 .. Len(q) + 1
      /\ \A i \in 1 .. Len(q) + 1 : r[i] = IF i = 1 THEN x ELSE q[i - 1]
  OBVIOUS
<1>2. /\ \A i \in 1 .. Len(q) + 1 : i = 1 \/ i - 1 \in 1 .. Len(q)
      /\ \A i \in 1 .. Len(q) : i + 1 \in 1 .. Len(q) + 1 /\ i + 1 # 1 /\ i + 1 - 1 = i
      /\ \A i, j \in 1 .. Len(q) + 1 : i - 1 = j - 1 => i = j
      /\ 1 \in 1 .. Len(q) + 1
  BY <1>1
<1> HIDE DEF r
<1>3. ToSet(r) = ToSet(q) \cup {x}
  <2>1. ASSUME NEW y \in ToSet(r) PROVE y \in ToSet(q) \cup {x}
    BY <1>1, <1>2, <2>1 DEF ToSet
  <2>2. ASSUME NEW y \in ToSet(q) PROVE y \in ToSet(r)
    <3>1. PICK i \in 1 .. Len(q) : y = q[i]
      BY <1>1, <2>2 DEF ToSet
    <3>2. r[i + 1] = y
      BY <1>1, <1>2, <3>1
    <3>3. QED
      BY <1>1, <1>2, <3>2 DEF ToSet
  <2>3. x \in ToSet(r)
    BY <1>1, <1>2 DEF ToSet
  <2>4. QED
    BY <2>1, <2>2, <2>3
<1>4. ASSUME IsInjective(q), x \notin ToSet(q) PROVE IsInjective(r)
  <2>1. ASSUME NEW i \in DOMAIN r, NEW j \in DOMAIN r, r[i] = r[j] PROVE i = j
    <3>1. \A k \in DOMAIN r : k # 1 => r[k] \in ToSet(q) /\ k - 1 \in DOMAIN q /\ r[k] = q[k - 1]
      BY <1>1, <1>2 DEF ToSet
    <3>2. r[1] = x
      BY <1>1, <1>2
    <3>3. i = 1 <=> j = 1
      BY <1>4, <2>1, <3>1, <3>2
    <3>4. i # 1 /\ j # 1 => i - 1 = j - 1
      BY <1>4, <2>1, <3>1 DEF IsInjective
    <3>5. QED
      BY <1>1, <1>2, <3>3, <3>4
  <2>2. QED
    BY <2>1 DEF IsInjective
<1>5. QED
  BY <1>1, <1>3, <1>4 DEF r

LEMMA LeastExists ==
    ASSUME NEW S \in SUBSET Nat, S # {}
    PROVE  Min(S) \in S
<1>1. PICK x \in S : \A y \in S : ~ (<<y, x>> \in OpToRel(<, Nat))
  <2>1. IsWellFoundedOn(OpToRel(<, Nat), Nat)
    BY NatLessThanWellFounded
  <2>2. QED
    BY <2>1, WFMin
<1>2. \A y \in S : ~ (y < x)
  BY <1>1 DEF OpToRel
<1>3. \A y \in S : x <= y
  BY <1>2
<1>4. QED
  BY <1>3 DEF Min

LEMMA Removed ==
    ASSUME NEW S, NEW q \in Seq(S), NEW x, IsInjective(q)
    PROVE  /\ RemoveFirst(q, x) \in Seq(S) /\ IsInjective(RemoveFirst(q, x))
           /\ ToSet(RemoveFirst(q, x)) = ToSet(q) \ {x}
<1> DEFINE I == {i \in 1 .. Len(q) : q[i] = x}
           k == SelectInSeq(q, LAMBDA v : v = x)
           r == RemoveFirst(q, x)
<1>1. Len(q) \in Nat /\ DOMAIN q = 1 .. Len(q)
  OBVIOUS
<1>2. CASE I = {}
  <2>1. r = q
    BY <1>2 DEF RemoveFirst
  <2>2. x \notin ToSet(q)
    BY <1>1, <1>2 DEF ToSet
  <2>3. QED
    BY <2>1, <2>2
<1>3. CASE I # {}
  <2>1. k = Min(I)
    BY <1>3 DEF SelectInSeq
  <2>2. k \in 1 .. Len(q) /\ q[k] = x
    <3>1. I \in SUBSET Nat
      BY <1>1
    <3>2. k \in I
      BY <1>3, <2>1, <3>1, LeastExists
    <3>3. QED
      BY <3>2
  <2>3. r = SubSeq(q, 1, k - 1) \o SubSeq(q, k + 1, Len(q))
    BY <1>3 DEF RemoveFirst, RemoveAt
  <2> HIDE DEF k, I
  <2>4. /\ r \in Seq(S) /\ Len(r) = Len(q) - 1
        /\ \A i \in 1 .. Len(q) - 1 : r[i] = IF i < k THEN q[i] ELSE q[i + 1]
    <3> DEFINE front == SubSeq(q, 1, k - 1)
               back == SubSeq(q, k + 1, Len(q))
    <3>1. /\ front \in Seq(S) /\ Len(front) = k - 1
          /\ \A i \in 1 .. k - 1 : front[i] = q[i]
      BY <1>1, <2>2
    <3>2. /\ back \in Seq(S) /\ Len(back) = Len(q) - k
          /\ \A i \in 1 .. Len(q) - k : back[i] = q[k + i]
      <4>1. /\ k + 1 \in Int /\ Len(q) \in Int /\ k <= Len(q)
            /\ \A i \in k + 1 .. Len(q) : q[i] \in S
        BY <1>1, <2>2
      <4>2. /\ back \in Seq(S)
            /\ Len(back) = IF k + 1 <= Len(q) THEN Len(q) - (k + 1) + 1 ELSE 0
            /\ \A i \in 1 .. Len(q) - (k + 1) + 1 : back[i] = q[k + 1 + i - 1]
        BY <4>1, SubSeqProperties
      <4> HIDE DEF back
      <4>3. Len(back) = Len(q) - k /\ 1 .. Len(q) - (k + 1) + 1 = 1 .. Len(q) - k
        BY <4>1, <4>2, <1>1, <2>2
      <4>4. \A i \in 1 .. Len(q) - k : k + 1 + i - 1 = k + i
        BY <1>1, <2>2
      <4>5. QED
        BY <4>2, <4>3, <4>4
    <3>3. r = front \o back
      BY <2>3
    <3> HIDE DEF front, back, r
    <3>4. /\ r \in Seq(S) /\ Len(r) = Len(front) + Len(back)
          /\ \A i \in 1 .. Len(front) + Len(back) :
                r[i] = IF i <= Len(front) THEN front[i] ELSE back[i - Len(front)]
      BY <3>1, <3>2, <3>3, ConcatProperties
    <3>5. ASSUME NEW i \in 1 .. Len(q) - 1
          PROVE  r[i] = IF i < k THEN q[i] ELSE q[i + 1]
      <4>1. r[i] = IF i <= k - 1 THEN front[i] ELSE back[i - (k - 1)]
        BY <1>1, <2>2, <3>1, <3>2, <3>4
      <4>2. CASE i < k
        BY <1>1, <2>2, <3>1, <4>1, <4>2
      <4>3. CASE ~ (i < k)
        <5>1. i - (k - 1) \in 1 .. Len(q) - k /\ k + (i - (k - 1)) = i + 1
          BY <1>1, <2>2, <4>3
        <5>2. QED
          BY <2>2, <3>2, <4>1, <4>3, <5>1
      <4>4. QED
        BY <4>2, <4>3
    <3>6. Len(r) = Len(q) - 1
      BY <1>1, <2>2, <3>1, <3>2, <3>4
    <3>7. QED
      BY <3>4, <3>5, <3>6
  <2> HIDE DEF r
  <2>5. DOMAIN r = 1 .. Len(q) - 1
    BY <1>1, <2>4
  <2> DEFINE Old(i) == IF i < k THEN i ELSE i + 1
  <2>6. \A i \in DOMAIN r : Old(i) \in DOMAIN q /\ Old(i) # k /\ r[i] = q[Old(i)]
    BY <1>1, <2>2, <2>4, <2>5
  <2>7. \A i, j \in DOMAIN r : Old(i) = Old(j) => i = j
    BY <2>2, <2>5
  <2>8. \A j \in DOMAIN q : j # k => \E i \in DOMAIN r : Old(i) = j
    <3>1. ASSUME NEW j \in 1 .. Len(q), j < k PROVE j \in DOMAIN r /\ Old(j) = j
      BY <1>1, <2>2, <2>5, <3>1
    <3>2. ASSUME NEW j \in 1 .. Len(q), j > k PROVE j - 1 \in DOMAIN r /\ Old(j - 1) = j
      BY <1>1, <2>2, <2>5, <3>2
    <3>3. QED
      BY <1>1, <2>2, <3>1, <3>2
  <2> HIDE DEF Old
  <2>9. IsInjective(r)
    BY <2>6, <2>7 DEF IsInjective
  <2>10. ASSUME NEW y \in ToSet(r) PROVE y \in ToSet(q) \ {x}
    BY <2>2, <2>6, <2>10, <1>1 DEF ToSet, IsInjective
  <2>11. ASSUME NEW y \in ToSet(q) \ {x} PROVE y \in ToSet(r)
    <3>1. PICK j \in DOMAIN q : q[j] = y /\ j # k
      BY <2>2, <2>11 DEF ToSet
    <3>2. QED
      BY <2>6, <2>8, <3>1 DEF ToSet
  <2>12. QED
    BY <2>4, <2>9, <2>10, <2>11 DEF r
<1>4. QED
  BY <1>2, <1>3

----------------------------------------------------------------------------
(* The socket list: a socket is in it exactly while it is bound.              *)
SocketInv ==
    /\ state \in [Sockets -> States]
    /\ bp_list \in Seq(Sockets) /\ IsInjective(bp_list)
    /\ queue \in [Sockets -> Seq(Inbound)]
    /\ read \in [Sockets -> SUBSET Inbound]
    /\ \A s \in Sockets : s \in Bound <=> state[s] \in {"bound", "waiting"}

(* A call of the daemon fails, or it ends.                                    *)
Fault ==
    \/ CommandFails \/ DaemonStops
    \/ (\E v \in Services : ThreadFails(v)) \/ \E b \in Inbound : BundleFails(b)

DaemonTypes ==
    /\ toDaemon \in Seq(Commands) /\ opening \in [Services -> Nat]
    /\ receiving \subseteq Services /\ held \subseteq Inbound /\ daemonUp \in BOOLEAN

IonTypes ==
    /\ ion \in [Services -> Seq(Inbound)] /\ arrived \subseteq Inbound
    /\ accepted \subseteq Outbound /\ posted \subseteq Outbound

BudgetTypes ==
    /\ raced \in BOOLEAN /\ abandoned \in [Sockets -> Nat]
    /\ kills \in 0 .. MaxKills /\ faults \in 0 .. MaxFaults
    /\ interrupts \in 0 .. MaxInterrupts

LEMMA InvTypes == SocketInv /\ DaemonTypes /\ IonTypes /\ BudgetTypes => TypeOK
BY DEF SocketInv, DaemonTypes, IonTypes, BudgetTypes, TypeOK

LEMMA ServicesOfSockets == \A s \in Sockets : Service(s) \in Services
BY SocketsAssumption DEF Service

LEMMA ReleaseEffect ==
    ASSUME SocketInv, NEW s \in Sockets, Release(s)
    PROVE  /\ state' = [state EXCEPT ![s] = "closed"]
           /\ bp_list' \in Seq(Sockets) /\ IsInjective(bp_list')
           /\ Bound' = Bound \ {s}
           /\ queue' = [queue EXCEPT ![s] = <<>>] /\ queue' \in [Sockets -> Seq(Inbound)]
BY Removed DEF SocketInv, Release, Bound

LEMMA DeliverEffect ==
    ASSUME SocketInv, NEW b \in Inbound, Deliver(b)
    PROVE  \/ queue' = queue /\ \A s \in Bound : Service(s) # Dest[b]
           \/ \E s \in Bound :
                 /\ s \in Sockets /\ Service(s) = Dest[b]
                 /\ queue' = [queue EXCEPT ![s] = Append(@, b)]
<1> DEFINE I == {i \in 1 .. Len(bp_list) : Service(bp_list[i]) = Dest[b]}
           k == FirstOn(Dest[b])
<1>1. Len(bp_list) \in Nat /\ DOMAIN bp_list = 1 .. Len(bp_list)
  BY DEF SocketInv
<1>2. k = IF I # {} THEN Min(I) ELSE 0
  BY DEF FirstOn, SelectInSeq
<1>3. queue' = IF k = 0 THEN queue ELSE [queue EXCEPT ![bp_list[k]] = Append(@, b)]
  BY DEF Deliver
<1>4. CASE I = {}
  BY <1>1, <1>2, <1>3, <1>4 DEF Bound, ToSet
<1>5. CASE I # {}
  <2>1. I \in SUBSET Nat
    BY <1>1
  <2>2. k \in I
    BY <1>2, <1>5, <2>1, LeastExists
  <2> HIDE DEF k
  <2>3. /\ k \in DOMAIN bp_list /\ k # 0 /\ bp_list[k] \in Sockets
        /\ Service(bp_list[k]) = Dest[b]
    BY <1>1, <2>2 DEF SocketInv
  <2>4. QED
    BY <1>3, <2>3 DEF Bound, ToSet
<1>6. QED
  BY <1>4, <1>5

LEMMA SocketStep == SocketInv /\ [Next]_vars => SocketInv'
<1>1. SUFFICES ASSUME SocketInv, [Next]_vars PROVE SocketInv'
  OBVIOUS
<1> USE DEF SocketInv
<1>2. CASE UNCHANGED socketVars
  BY <1>1, <1>2 DEF socketVars, Bound
<1>3. ASSUME NEW s \in Sockets, Create(s) \/ BindCheck(s) \/ Recv(s) \/ Interrupt(s)
      PROVE  SocketInv'
  <2>1. UNCHANGED <<bp_list, queue, read, Bound>>
    BY <1>3 DEF Create, BindCheck, Recv, Interrupt, Bound
  <2>2. /\ state' \in [Sockets -> States]
        /\ \A t \in Sockets : state'[t] \in {"bound", "waiting"} <=> state[t] \in {"bound", "waiting"}
    BY <1>1, <1>3 DEF Create, BindCheck, Recv, Interrupt, States
  <2>3. QED
    BY <1>1, <2>1, <2>2
<1>4. ASSUME NEW s \in Sockets, BindAdd(s) PROVE SocketInv'
  <2>1. s \notin Bound
    BY <1>1, <1>4 DEF BindAdd
  <2>2. bp_list' \in Seq(Sockets) /\ IsInjective(bp_list') /\ Bound' = Bound \cup {s}
    BY <1>1, <1>4, <2>1, Pushed DEF BindAdd, Bound
  <2>3. QED
    BY <1>1, <1>4, <2>2 DEF BindAdd, States
<1>5. ASSUME NEW s \in Sockets, Release(s), read' = read PROVE SocketInv'
  BY <1>1, <1>5, ReleaseEffect DEF States
<1>6. ASSUME NEW s \in Sockets, Wake(s) PROVE SocketInv'
  <2>1. CASE Release(s) /\ UNCHANGED read
    BY <1>5, <2>1
  <2>2. CASE ~ (Release(s) /\ UNCHANGED read)
    <3>1. queue[s] \in Seq(Inbound) /\ queue[s] # <<>>
      BY <1>1, <1>6 DEF Wake
    <3>2. Head(queue[s]) \in Inbound /\ Tail(queue[s]) \in Seq(Inbound)
      BY <3>1, Tailed
    <3>3. /\ state' = [state EXCEPT ![s] = "bound"] /\ bp_list' = bp_list
          /\ queue' = [queue EXCEPT ![s] = Tail(@)]
          /\ read' = [read EXCEPT ![s] = @ \cup {Head(queue[s])}] /\ state[s] = "waiting"
      BY <1>6, <2>2 DEF Wake
    <3>4. QED
      BY <1>1, <3>2, <3>3 DEF States, Bound
  <2>3. QED
    BY <2>1, <2>2
<1>7. ASSUME NEW b \in Inbound, Deliver(b) PROVE SocketInv'
  <2>1. UNCHANGED <<state, bp_list, read, Bound>>
    BY <1>7 DEF Deliver, Bound
  <2>2. queue' \in [Sockets -> Seq(Inbound)]
    <3>1. CASE queue' = queue
      BY <1>1, <3>1
    <3>2. ASSUME NEW s \in Sockets, queue' = [queue EXCEPT ![s] = Append(@, b)]
          PROVE  queue' \in [Sockets -> Seq(Inbound)]
      <4>1. Append(queue[s], b) \in Seq(Inbound)
        BY <1>1, Appended
      <4>2. QED
        BY <1>1, <3>2, <4>1
    <3>3. QED
      BY <1>1, <1>7, <3>1, <3>2, DeliverEffect
  <2>3. QED
    BY <1>1, <2>1, <2>2
<1>8. QED
  BY <1>1, <1>2, <1>3, <1>4, <1>5, <1>6, <1>7
     DEF Next, SocketNext, DaemonNext, vars, Kill, HandleCommand, CommandFails, BundleFails,
         DaemonStops, DaemonStarts, ThreadOpen, ThreadReceive, ThreadFails, Arrive, SendMsg

LEMMA DaemonStep ==
    DaemonTypes /\ IonTypes /\ [Next]_vars => DaemonTypes' /\ IonTypes'
<1>1. SUFFICES ASSUME DaemonTypes, IonTypes, [Next]_vars PROVE DaemonTypes' /\ IonTypes'
  OBVIOUS
<1> USE DEF DaemonTypes, IonTypes
<1>2. CASE UNCHANGED <<daemonVars, ionVars, posted>>
  BY <1>1, <1>2 DEF daemonVars, ionVars
<1>3. ASSUME NEW msg \in Commands, Unicast(msg) PROVE toDaemon' \in Seq(Commands)
  BY <1>1, <1>3, Appended DEF Unicast
<1>4. ASSUME NEW s \in Sockets, Recv(s) PROVE DaemonTypes' /\ IonTypes'
  <2>1. Request(Service(s)) \in Commands
    BY ServicesOfSockets DEF Commands, Request
  <2>2. QED
    BY <1>1, <1>3, <1>4, <2>1 DEF Recv, ionVars, otherVars, budgetVars
<1>5. ASSUME NEW o \in Outbound, SendMsg(o) PROVE DaemonTypes' /\ IonTypes'
  <2>1. [cmd |-> "send", arg |-> o] \in Commands
    BY DEF Commands
  <2>2. QED
    BY <1>1, <1>3, <1>5, <2>1 DEF SendMsg, ionVars
<1>6. CASE HandleCommand
  <2>1. /\ Head(toDaemon) \in Commands /\ Tail(toDaemon) \in Seq(Commands)
    BY <1>1, <1>6, Tailed DEF HandleCommand
  <2>2. CASE Head(toDaemon).cmd = "send"
    <3>1. Head(toDaemon).arg \in Outbound
      BY <2>1, <2>2 DEF Commands
    <3>2. QED
      BY <1>1, <1>6, <2>1, <2>2, <3>1 DEF HandleCommand, otherVars, budgetVars
  <2>3. CASE Head(toDaemon).cmd # "send"
    <3>1. Head(toDaemon).arg \in Services
      BY <2>1, <2>3 DEF Commands
    <3>2. /\ opening' = [opening EXCEPT ![Head(toDaemon).arg] = @ + 1]
          /\ toDaemon' = Tail(toDaemon)
          /\ UNCHANGED <<receiving, held, daemonUp, ion, arrived, accepted, posted>>
      BY <1>6, <2>3 DEF HandleCommand, otherVars, budgetVars
    <3>3. opening' \in [Services -> Nat]
      BY <1>1, <3>1, <3>2
    <3>4. QED
      BY <1>1, <2>1, <3>2, <3>3
  <2>4. QED
    BY <2>2, <2>3
<1>7. CASE DaemonStops \/ DaemonStarts
  <2>1. IonTypes'
    BY <1>1, <1>7 DEF DaemonStops, DaemonStarts, ionVars, otherVars, budgetVars
  <2>2. toDaemon' \in Seq(Commands) /\ opening' \in [Services -> Nat]
    <3>1. CASE DaemonStops
      <4>1. toDaemon' = <<>> /\ opening' = [v \in Services |-> 0]
        BY <3>1 DEF DaemonStops
      <4>2. QED
        BY <4>1
    <3>2. CASE DaemonStarts
      BY <1>1, <3>2 DEF DaemonStarts
    <3>3. QED
      BY <1>7, <3>1, <3>2
  <2>3. receiving' \subseteq Services /\ held' \subseteq Inbound /\ daemonUp' \in BOOLEAN
    BY <1>1, <1>7 DEF DaemonStops, DaemonStarts
  <2>4. QED
    BY <2>1, <2>2, <2>3
<1>8. ASSUME NEW v \in Services, ThreadOpen(v) \/ ThreadFails(v) PROVE DaemonTypes' /\ IonTypes'
  <2>1. UNCHANGED <<toDaemon, held, daemonUp, ionVars, posted>>
    BY <1>8 DEF ThreadOpen, ThreadFails, otherVars, budgetVars
  <2>2. opening' \in [Services -> Nat]
    <3>1. CASE ThreadOpen(v)
      <4>1. opening[v] - 1 \in Nat
        BY <1>1, <3>1 DEF ThreadOpen
      <4>2. QED
        BY <1>1, <3>1, <4>1 DEF ThreadOpen
    <3>2. CASE ThreadFails(v)
      BY <1>1, <3>2 DEF ThreadFails
    <3>3. QED
      BY <1>8, <3>1, <3>2
  <2>3. receiving' \subseteq Services
    BY <1>1, <1>8 DEF ThreadOpen, ThreadFails
  <2>4. QED
    BY <1>1, <2>1, <2>2, <2>3 DEF ionVars
<1>9. ASSUME NEW v \in Services, ThreadReceive(v) PROVE DaemonTypes' /\ IonTypes'
  <2>1. Head(ion[v]) \in Inbound /\ Tail(ion[v]) \in Seq(Inbound)
    BY <1>1, <1>9, Tailed DEF ThreadReceive
  <2>2. QED
    BY <1>1, <1>9, <2>1 DEF ThreadReceive, otherVars, budgetVars
<1>10. ASSUME NEW b \in Inbound, Deliver(b) PROVE DaemonTypes' /\ IonTypes'
  BY <1>1, <1>10 DEF Deliver, ionVars, otherVars, budgetVars
<1>11. ASSUME NEW b \in Inbound, Arrive(b) PROVE DaemonTypes' /\ IonTypes'
  <2>1. Dest[b] \in Services /\ Append(ion[Dest[b]], b) \in Seq(Inbound)
    BY <1>1, SocketsAssumption, Appended
  <2>2. QED
    BY <1>1, <1>11, <2>1 DEF Arrive, daemonVars, otherVars, budgetVars
<1>12. CASE CommandFails
  <2>1. toDaemon' \in Seq(Commands)
    BY <1>1, <1>12, Tailed DEF CommandFails
  <2>2. QED
    BY <1>1, <1>12, <2>1 DEF CommandFails, ionVars
<1>13. ASSUME NEW b \in Inbound, BundleFails(b) PROVE DaemonTypes' /\ IonTypes'
  BY <1>1, <1>13 DEF BundleFails, ionVars
<1>14. QED
  BY <1>1, <1>2, <1>4, <1>5, <1>6, <1>7, <1>8, <1>9, <1>10, <1>11, <1>12, <1>13
     DEF Next, SocketNext, DaemonNext, vars, otherVars, budgetVars, Create, BindCheck, BindAdd,
         Wake, Interrupt, Kill

LEMMA BudgetStep == BudgetTypes /\ [Next]_vars => BudgetTypes'
<1>1. SUFFICES ASSUME BudgetTypes, [Next]_vars PROVE BudgetTypes'
  OBVIOUS
<1> USE DEF BudgetTypes
<1>2. CASE UNCHANGED <<raced, abandoned, budgetVars>>
  BY <1>1, <1>2 DEF budgetVars
<1>3. ASSUME NEW s \in Sockets, BindCheck(s) PROVE BudgetTypes'
  <2>1. raced' \in BOOLEAN
    BY <1>3 DEF BindCheck
  <2>2. UNCHANGED <<abandoned, kills, faults, interrupts>>
    BY <1>3 DEF BindCheck, budgetVars
  <2>3. QED
    BY <1>1, <2>1, <2>2
<1>4. ASSUME NEW s \in Sockets, Kill(s) \/ Interrupt(s) PROVE BudgetTypes'
  <2>1. abandoned' \in [Sockets -> Nat] /\ UNCHANGED <<raced, faults>>
    BY <1>1, <1>4 DEF Kill, Interrupt
  <2>2. kills' \in 0 .. MaxKills /\ interrupts' \in 0 .. MaxInterrupts
    BY <1>1, <1>4, BudgetAssumption DEF Kill, Interrupt
  <2>3. QED
    BY <1>1, <2>1, <2>2
<1>5. CASE Fault
  <2>1. faults' \in 0 .. MaxFaults /\ UNCHANGED <<raced, abandoned, kills, interrupts>>
    BY <1>1, <1>5, BudgetAssumption
       DEF Fault, CommandFails, DaemonStops, ThreadFails, BundleFails
  <2>2. QED
    BY <1>1, <2>1
<1>6. QED
  BY <1>1, <1>2, <1>3, <1>4, <1>5
     DEF Next, SocketNext, DaemonNext, Fault, vars, otherVars, Create, BindAdd, Recv, Wake,
         HandleCommand, DaemonStarts, ThreadOpen, ThreadReceive, Deliver, Arrive, SendMsg

Inv == SocketInv /\ DaemonTypes /\ IonTypes /\ BudgetTypes

LEMMA InitInv == Init => Inv
<1> SUFFICES ASSUME Init PROVE Inv
  OBVIOUS
<1>1. SocketInv
  BY DEF Init, SocketInv, States, Bound, ToSet, IsInjective
<1>2. DaemonTypes /\ IonTypes
  BY DEF Init, DaemonTypes, IonTypes
<1>3. BudgetTypes
  <2>1. kills \in 0 .. MaxKills /\ faults \in 0 .. MaxFaults /\ interrupts \in 0 .. MaxInterrupts
    BY BudgetAssumption DEF Init
  <2>2. raced \in BOOLEAN /\ abandoned \in [Sockets -> Nat]
    BY DEF Init
  <2>3. QED
    BY <2>1, <2>2 DEF BudgetTypes
<1>4. QED
  BY <1>1, <1>2, <1>3 DEF Inv

LEMMA Always == Spec => []Inv
<1>1. Inv /\ [Next]_vars => Inv'
  BY SocketStep, DaemonStep, BudgetStep DEF Inv
<1>2. QED
  BY <1>1, InitInv, PTL DEF Spec

(* Every variable keeps its type. *)
THEOREM TypeCorrect == Spec => []TypeOK
<1>1. Inv => TypeOK
  BY InvTypes DEF Inv
<1>2. QED
  BY <1>1, Always, PTL

----------------------------------------------------------------------------
(* A socket that found its address free still has it for itself, unless two   *)
(* binds overlapped.                                                          *)
Reserved ==
    raced \/
        /\ \A s, t \in Bound : s # t => Addresses[s] # Addresses[t]
        /\ \A s, t \in Sockets :
              s # t /\ state[s] = "checked" /\ (state[t] = "checked" \/ t \in Bound)
                  => Addresses[s] # Addresses[t]

LEMMA ReservedStep == Inv /\ Reserved /\ [Next]_vars => Reserved'
<1>1. SUFFICES ASSUME Inv, Reserved, [Next]_vars PROVE Reserved'
  OBVIOUS
<1>2. /\ SocketInv /\ state \in [Sockets -> States] /\ Bound \subseteq Sockets
      /\ \A s \in Sockets : s \in Bound <=> state[s] \in {"bound", "waiting"}
  BY <1>1 DEF Inv, SocketInv, Bound, ToSet
<1>3. CASE /\ raced => raced'
           /\ Bound' \subseteq Bound
           /\ \A s \in Sockets : state'[s] = "checked" => state[s] = "checked"
  BY <1>1, <1>2, <1>3 DEF Reserved
<1>4. ASSUME NEW s \in Sockets, Create(s) \/ Recv(s) \/ Interrupt(s) PROVE Reserved'
  <2>1. UNCHANGED <<raced, Bound>>
    BY <1>4 DEF Create, Recv, Interrupt, otherVars, Bound
  <2>2. \A t \in Sockets : state'[t] = "checked" => state[t] = "checked"
    BY <1>2, <1>4 DEF Create, Recv, Interrupt
  <2>3. QED
    BY <1>3, <2>1, <2>2
<1>5. ASSUME NEW s \in Sockets, BindCheck(s) PROVE Reserved'
  <2>1. Bound' = Bound
    BY <1>5 DEF BindCheck, Bound
  <2>2. raced => raced'
    BY <1>5 DEF BindCheck
  <2>3. CASE \E t \in Bound : Addresses[t] = Addresses[s]
    <3>1. state' = [state EXCEPT ![s] = "closed"]
      BY <1>5, <2>3 DEF BindCheck
    <3>2. QED
      BY <1>2, <1>3, <2>1, <2>2, <3>1
  <2>4. CASE ~ \E t \in Bound : Addresses[t] = Addresses[s]
    <3>1. state' = [state EXCEPT ![s] = "checked"] /\ state[s] = "created"
      BY <1>5, <2>4 DEF BindCheck
    <3>2. CASE raced \/ \E t \in Sockets : state[t] = "checked" /\ Addresses[t] = Addresses[s]
      BY <1>5, <3>2 DEF BindCheck, Reserved
    <3>3. CASE ~ raced /\ \A t \in Sockets : state[t] = "checked" => Addresses[t] # Addresses[s]
      BY <1>1, <1>2, <2>1, <2>4, <3>1, <3>3 DEF Reserved
    <3>4. QED
      BY <3>2, <3>3
  <2>5. QED
    BY <2>3, <2>4
<1>6. ASSUME NEW s \in Sockets, BindAdd(s) PROVE Reserved'
  <2>1. Bound' = Bound \cup {s} /\ raced' = raced
    BY <1>2, <1>6, Pushed DEF BindAdd, Bound, SocketInv, otherVars, budgetVars
  <2>2. state[s] = "checked" /\ state' = [state EXCEPT ![s] = "bound"]
    BY <1>6 DEF BindAdd
  <2>3. QED
    BY <1>1, <1>2, <2>1, <2>2 DEF Reserved
<1>7. ASSUME NEW s \in Sockets, Release(s), raced' = raced PROVE Reserved'
  BY <1>2, <1>3, <1>7, ReleaseEffect
<1>8. ASSUME NEW s \in Sockets, Wake(s) PROVE Reserved'
  <2>1. raced' = raced
    BY <1>8 DEF Wake, otherVars, budgetVars
  <2>2. CASE Release(s)
    BY <1>7, <2>1, <2>2
  <2>3. CASE ~ Release(s)
    <3>1. state' = [state EXCEPT ![s] = "bound"] /\ bp_list' = bp_list
      BY <1>8, <2>3 DEF Wake
    <3>2. QED
      BY <1>2, <1>3, <2>1, <3>1 DEF Bound
  <2>4. QED
    BY <2>2, <2>3
<1>9. CASE UNCHANGED <<state, bp_list, raced>>
  BY <1>3, <1>9 DEF Bound
<1>10. QED
  BY <1>1, <1>4, <1>5, <1>6, <1>7, <1>8, <1>9
     DEF Next, SocketNext, DaemonNext, vars, socketVars, otherVars, Kill, HandleCommand,
         CommandFails, BundleFails, DaemonStops, DaemonStarts, ThreadOpen, ThreadReceive,
         ThreadFails, Deliver, Arrive, SendMsg

(* As long as no two binds of an address overlap no address is bound twice,   *)
(* whatever sockets come and go (bp_bind, af_bp.c:133-155).                   *)
THEOREM BindsAreUnique == Spec => []UniqueUnlessRaced
<1>1. Init => Reserved
  BY DEF Init, Reserved, Bound, ToSet
<1>2. Inv /\ Reserved => UniqueUnlessRaced
  <2> SUFFICES ASSUME Inv, Reserved, ~ raced,
                      NEW i \in DOMAIN bp_list, NEW j \in DOMAIN bp_list, i # j
               PROVE  Addresses[bp_list[i]] # Addresses[bp_list[j]]
    BY DEF UniqueUnlessRaced, NoDuplicateBinding
  <2>1. bp_list[i] # bp_list[j] /\ bp_list[i] \in Bound /\ bp_list[j] \in Bound
    BY DEF Inv, SocketInv, IsInjective, Bound, ToSet
  <2>2. QED
    BY <2>1 DEF Reserved
<1>3. QED
  BY <1>1, <1>2, Always, ReservedStep, PTL DEF Spec

----------------------------------------------------------------------------
(* A bundle is in one place: with ION, with a thread, or with one socket,     *)
(* whose queue has it once or whose listener has read it.                     *)
InIon(b) == b \in ToSet(ion[Dest[b]])

Has(s, b) == b \in ToSet(queue[s]) \/ b \in read[s]

Waiting ==
    \A v \in Services :
        IsInjective(ion[v]) /\ \A b \in ToSet(ion[v]) : b \in arrived /\ Dest[b] = v

Taken ==
    /\ held \subseteq arrived
    /\ \A s \in Sockets :
          /\ IsInjective(queue[s]) /\ ToSet(queue[s]) \cap read[s] = {}
          /\ \A b \in Inbound : Has(s, b) => b \in arrived

Apart ==
    \A b \in Inbound :
        /\ InIon(b) => b \notin held
        /\ \A s \in Sockets : Has(s, b) => ~ InIon(b) /\ b \notin held
        /\ \A s, t \in Sockets : Has(s, b) /\ Has(t, b) => s = t

Places == Waiting /\ Taken /\ Apart

(* What the steps that move a bundle do to the places.                        *)
LEMMA ArriveEffect ==
    ASSUME Inv, Waiting, NEW b \in Inbound, Arrive(b)
    PROVE  /\ b \notin arrived /\ arrived' = arrived \cup {b}
           /\ Waiting' /\ \A c \in Inbound : InIon(c)' <=> InIon(c) \/ c = b
           /\ UNCHANGED <<queue, read, held>>
<1>1. /\ b \notin arrived /\ arrived' = arrived \cup {b} /\ UNCHANGED <<queue, read, held>>
      /\ ion' = [ion EXCEPT ![Dest[b]] = Append(ion[Dest[b]], b)]
  BY DEF Arrive, socketVars, daemonVars
<1>2. /\ ion \in [Services -> Seq(Inbound)] /\ Dest \in [Inbound -> Services]
      /\ ion[Dest[b]] \in Seq(Inbound)
  BY SocketsAssumption DEF Inv, IonTypes
<1>3. b \notin ToSet(ion[Dest[b]])
  BY <1>1, <1>2 DEF Waiting
<1> DEFINE r == Append(ion[Dest[b]], b)
<1>4. ToSet(r) = ToSet(ion[Dest[b]]) \cup {b} /\ IsInjective(r)
  BY <1>2, <1>3, Appended DEF Waiting
<1> HIDE DEF r
<1>5. \A v \in Services : ion'[v] = IF v = Dest[b] THEN r ELSE ion[v]
  BY <1>1, <1>2 DEF r
<1>6. Waiting'
  BY <1>1, <1>2, <1>4, <1>5 DEF Waiting
<1>7. ASSUME NEW c \in Inbound PROVE InIon(c)' <=> InIon(c) \/ c = b
  BY <1>2, <1>4, <1>5 DEF InIon
<1>8. QED
  BY <1>1, <1>6, <1>7

LEMMA ReceiveEffect ==
    ASSUME Inv, Waiting, NEW v \in Services, ThreadReceive(v)
    PROVE  \E h \in Inbound :
               /\ InIon(h) /\ h \in arrived /\ Dest[h] = v /\ held' = held \cup {h}
               /\ Waiting' /\ \A c \in Inbound : InIon(c)' <=> InIon(c) /\ c # h
               /\ UNCHANGED <<queue, read, arrived>>
<1> DEFINE h == Head(ion[v])
           r == Tail(ion[v])
<1>1. /\ ion[v] # <<>> /\ held' = held \cup {h} /\ ion' = [ion EXCEPT ![v] = r]
      /\ UNCHANGED <<queue, read, arrived>>
  BY DEF ThreadReceive, socketVars
<1>2. /\ ion \in [Services -> Seq(Inbound)] /\ Dest \in [Inbound -> Services]
      /\ ion[v] \in Seq(Inbound)
  BY SocketsAssumption DEF Inv, IonTypes
<1>3. /\ h \in Inbound /\ ToSet(ion[v]) = ToSet(r) \cup {h}
      /\ IsInjective(r) /\ h \notin ToSet(r)
  BY <1>1, <1>2, Tailed DEF Waiting
<1> HIDE DEF h, r
<1>4. h \in arrived /\ Dest[h] = v /\ InIon(h)
  BY <1>3 DEF Waiting, InIon
<1>5. \A u \in Services : ion'[u] = IF u = v THEN r ELSE ion[u]
  BY <1>1, <1>2
<1>6. Waiting'
  BY <1>1, <1>3, <1>5 DEF Waiting
<1>7. ASSUME NEW c \in Inbound PROVE InIon(c)' <=> InIon(c) /\ c # h
  BY <1>2, <1>3, <1>4, <1>5 DEF InIon
<1>8. QED
  BY <1>1, <1>3, <1>4, <1>6, <1>7

(* A reader takes a bundle out of its queue, or loses its queue.              *)
LEMMA WakeEffect ==
    ASSUME Inv, Taken, NEW s \in Sockets, Wake(s)
    PROVE  /\ UNCHANGED <<ion, held, arrived>>
           /\ \E h \in Inbound :
                 /\ h \in ToSet(queue[s]) /\ h \notin read[s] /\ h \in arrived
                 /\ IF h \in Oversize THEN Release(s) /\ read' = read
                    ELSE \E r : /\ queue' = [queue EXCEPT ![s] = r] /\ IsInjective(r)
                                /\ ToSet(r) = ToSet(queue[s]) \ {h}
                                /\ read' = [read EXCEPT ![s] = @ \cup {h}]
                                /\ bp_list' = bp_list
                                /\ state' = [state EXCEPT ![s] = "bound"]
<1> DEFINE h == Head(queue[s])
           r == Tail(queue[s])
<1>1. /\ UNCHANGED <<ion, held, arrived>> /\ queue[s] # <<>>
      /\ IF h \in Oversize THEN Release(s) /\ read' = read
         ELSE /\ queue' = [queue EXCEPT ![s] = r] /\ bp_list' = bp_list
              /\ read' = [read EXCEPT ![s] = @ \cup {h}]
              /\ state' = [state EXCEPT ![s] = "bound"]
  BY DEF Wake, daemonVars, ionVars
<1>2. queue[s] \in Seq(Inbound)
  BY DEF Inv, SocketInv
<1>3. /\ h \in Inbound /\ ToSet(queue[s]) = ToSet(r) \cup {h}
      /\ IsInjective(r) /\ h \notin ToSet(r)
  BY <1>1, <1>2, Tailed DEF Taken
<1> HIDE DEF h, r
<1>4. h \in ToSet(queue[s]) /\ h \notin read[s] /\ h \in arrived
  BY <1>3 DEF Taken, Has
<1>5. ToSet(r) = ToSet(queue[s]) \ {h}
  BY <1>3
<1>6. QED
  BY <1>1, <1>3, <1>4, <1>5

LEMMA EmptySequence == ToSet(<<>>) = {} /\ IsInjective(<<>>)
BY DEF ToSet, IsInjective

LEMMA PlacesStep == Inv /\ Places /\ [Next]_vars => Places'
<1>1. SUFFICES ASSUME Inv, Places, [Next]_vars PROVE Places'
  OBVIOUS
<1>2. /\ queue \in [Sockets -> Seq(Inbound)] /\ read \in [Sockets -> SUBSET Inbound]
      /\ Waiting /\ Taken /\ Apart /\ held \subseteq Inbound
  BY <1>1 DEF Inv, SocketInv, DaemonTypes, Places
<1>3. CASE UNCHANGED <<ion, held, arrived, queue, read>>
  BY <1>2, <1>3 DEF Places, Waiting, Taken, Apart, InIon, Has
<1>4. ASSUME NEW b \in Inbound, Arrive(b) PROVE Places'
  <2>1. /\ b \notin arrived /\ arrived' = arrived \cup {b}
        /\ Waiting' /\ \A c \in Inbound : InIon(c)' <=> InIon(c) \/ c = b
        /\ UNCHANGED <<queue, read, held>>
    BY <1>1, <1>2, <1>4, ArriveEffect
  <2>2. Taken'
    BY <1>2, <2>1 DEF Taken, Has
  <2>3. Apart'
    BY <1>2, <2>1 DEF Taken, Apart, Has
  <2>4. QED
    BY <2>1, <2>2, <2>3 DEF Places
<1>5. ASSUME NEW v \in Services, ThreadReceive(v) PROVE Places'
  <2>1. PICK h \in Inbound :
            /\ InIon(h) /\ h \in arrived /\ Dest[h] = v /\ held' = held \cup {h}
            /\ Waiting' /\ \A c \in Inbound : InIon(c)' <=> InIon(c) /\ c # h
            /\ UNCHANGED <<queue, read, arrived>>
    BY <1>1, <1>2, <1>5, ReceiveEffect
  <2>2. Taken'
    BY <1>2, <2>1 DEF Taken, Has
  <2>3. Apart'
    BY <1>2, <2>1 DEF Apart, Has
  <2>4. QED
    BY <2>1, <2>2, <2>3 DEF Places
<1>6. ASSUME NEW b \in Inbound, Deliver(b) PROVE Places'
  <2>1. UNCHANGED <<ion, arrived, read>> /\ held' = held \ {b} /\ b \in held
    BY <1>6 DEF Deliver, ionVars
  <2>2. b \in arrived /\ ~ InIon(b) /\ \A s \in Sockets : ~ Has(s, b)
    BY <1>2, <2>1 DEF Taken, Apart
  <2>3. Waiting' /\ \A c \in Inbound : InIon(c)' <=> InIon(c)
    BY <1>2, <2>1 DEF Waiting, InIon
  <2>4. CASE queue' = queue
    BY <1>2, <2>1, <2>3, <2>4 DEF Places, Taken, Apart, Has
  <2>5. ASSUME NEW s \in Sockets, queue' = [queue EXCEPT ![s] = Append(@, b)] PROVE Places'
    <3> DEFINE r == Append(queue[s], b)
    <3>1. ToSet(r) = ToSet(queue[s]) \cup {b} /\ IsInjective(r)
      BY <1>2, <2>2, Appended DEF Taken, Has
    <3>2. \A t \in Sockets : queue'[t] = IF t = s THEN r ELSE queue[t]
      BY <1>2, <2>5
    <3> HIDE DEF r
    <3>3. \A t \in Sockets, c \in Inbound : Has(t, c)' <=> Has(t, c) \/ (t = s /\ c = b)
      BY <2>1, <3>1, <3>2 DEF Has
    <3>4. Taken'
      <4>1. \A t \in Sockets : IsInjective(queue'[t]) /\ ToSet(queue'[t]) \cap read'[t] = {}
        BY <1>2, <2>1, <2>2, <3>1, <3>2 DEF Taken, Has
      <4>2. QED
        BY <1>2, <2>1, <2>2, <3>3, <4>1 DEF Taken
    <3>5. Apart'
      BY <1>2, <2>1, <2>2, <2>3, <3>3 DEF Apart
    <3>6. QED
      BY <2>3, <3>4, <3>5 DEF Places
  <2>6. QED
    BY <1>1, <1>6, <2>4, <2>5, DeliverEffect DEF Inv
<1>7. ASSUME NEW s \in Sockets, Release(s), UNCHANGED <<ion, held, arrived, read>>
      PROVE  Places'
  <2>1. \A t \in Sockets : queue'[t] = IF t = s THEN <<>> ELSE queue[t]
    BY <1>2, <1>7 DEF Release
  <2>2. \A t \in Sockets : IsInjective(queue'[t]) /\ ToSet(queue'[t]) \subseteq ToSet(queue[t])
    BY <1>2, <2>1, EmptySequence DEF Taken
  <2>3. Waiting' /\ \A c \in Inbound : InIon(c)' <=> InIon(c)
    BY <1>2, <1>7 DEF Waiting, InIon
  <2>4. \A t \in Sockets, c \in Inbound : Has(t, c)' => Has(t, c)
    BY <1>7, <2>2 DEF Has
  <2>5. Taken'
    BY <1>2, <1>7, <2>2, <2>4 DEF Taken
  <2>6. Apart'
    BY <1>2, <1>7, <2>3, <2>4 DEF Apart
  <2>7. QED
    BY <2>3, <2>5, <2>6 DEF Places
<1>8. ASSUME NEW s \in Sockets, Wake(s) PROVE Places'
  <2>1. UNCHANGED <<ion, held, arrived>>
    BY <1>1, <1>2, <1>8, WakeEffect
  <2>2. PICK h \in Inbound :
            /\ h \in ToSet(queue[s]) /\ h \notin read[s] /\ h \in arrived
            /\ IF h \in Oversize THEN Release(s) /\ read' = read
               ELSE \E r : /\ queue' = [queue EXCEPT ![s] = r] /\ IsInjective(r)
                           /\ ToSet(r) = ToSet(queue[s]) \ {h}
                           /\ read' = [read EXCEPT ![s] = @ \cup {h}]
    BY <1>1, <1>2, <1>8, WakeEffect
  <2>3. CASE h \in Oversize
    BY <1>7, <2>1, <2>2, <2>3
  <2>4. CASE h \notin Oversize
    <3>1. PICK r : /\ queue' = [queue EXCEPT ![s] = r] /\ IsInjective(r)
                   /\ ToSet(r) = ToSet(queue[s]) \ {h}
                   /\ read' = [read EXCEPT ![s] = @ \cup {h}]
      BY <2>2, <2>4
    <3>2. \A t \in Sockets :
              /\ queue'[t] = IF t = s THEN r ELSE queue[t]
              /\ read'[t] = IF t = s THEN read[s] \cup {h} ELSE read[t]
      BY <1>2, <3>1
    <3>3. \A t \in Sockets, c \in Inbound : Has(t, c)' <=> Has(t, c)
      BY <2>2, <3>1, <3>2 DEF Has
    <3>4. Waiting' /\ \A c \in Inbound : InIon(c)' <=> InIon(c)
      BY <1>2, <2>1 DEF Waiting, InIon
    <3>5. Taken'
      <4>1. \A t \in Sockets : IsInjective(queue'[t]) /\ ToSet(queue'[t]) \cap read'[t] = {}
        BY <1>2, <3>1, <3>2 DEF Taken
      <4>2. QED
        BY <1>2, <2>1, <3>3, <4>1 DEF Taken
    <3>6. Apart'
      BY <1>2, <2>1, <3>3, <3>4 DEF Apart
    <3>7. QED
      BY <3>4, <3>5, <3>6 DEF Places
  <2>5. QED
    BY <2>3, <2>4
<1>9. CASE DaemonStops
  <2>1. UNCHANGED <<ion, arrived, queue, read>> /\ held' = {}
    BY <1>9 DEF DaemonStops, socketVars, ionVars
  <2>2. QED
    BY <1>2, <2>1 DEF Places, Waiting, Taken, Apart, InIon, Has
<1>10. ASSUME NEW b \in Inbound, BundleFails(b) PROVE Places'
  <2>1. UNCHANGED <<ion, arrived, queue, read>> /\ held' = held \ {b}
    BY <1>10 DEF BundleFails, socketVars, ionVars
  <2>2. QED
    BY <1>2, <2>1 DEF Places, Waiting, Taken, Apart, InIon, Has
<1>11. QED
  BY <1>1, <1>3, <1>4, <1>5, <1>6, <1>7, <1>8, <1>9, <1>10
     DEF Next, SocketNext, DaemonNext, vars, socketVars, daemonVars, ionVars, Create, BindCheck,
         BindAdd, Recv, Interrupt, Kill, HandleCommand, CommandFails, DaemonStarts, ThreadOpen,
         ThreadFails, SendMsg

LEMMA PlacesInvariant == Spec => [](Inv /\ Places)
<1>1. Init => Places
  BY EmptySequence, SocketsAssumption
     DEF Init, Places, Waiting, Taken, Apart, InIon, Has
<1>2. QED
  BY <1>1, Always, PlacesStep, PTL DEF Spec

LEMMA AtMostOne ==
    ASSUME NEW S, \A s, t \in S : s = t
    PROVE  /\ Cardinality(S) <= 1 /\ Cardinality(S) \in Nat
           /\ S = {} => Cardinality(S) = 0
           /\ S # {} => Cardinality(S) = 1
<1>1. CASE S = {}
  BY <1>1, FS_EmptySet
<1>2. CASE S # {}
  <2>1. PICK s : S = {s}
    BY <1>2
  <2>2. Cardinality(S) = 1
    BY <2>1, FS_Singleton
  <2>3. QED
    BY <1>2, <2>2
<1>3. QED
  BY <1>1, <1>2

(* A bundle is in one place at a time and read by one socket: delivery by     *)
(* service (bp_genl.c:186-199) shares bundles among sockets, and copies none. *)
THEOREM BundlesAreShared == Spec => []OneReader
<1>1. Inv /\ Places => OneReader
  <2> SUFFICES ASSUME Inv, Places, NEW b \in Inbound
               PROVE  /\ Cardinality(Queued(b) \cup Readers(b)) <= 1
                      /\ b \in held \/ b \in ToSet(ion[Dest[b]]) => Queued(b) \cup Readers(b) = {}
    BY DEF OneReader
  <2>1. Queued(b) \cup Readers(b) = {s \in Sockets : Has(s, b)}
    BY DEF Queued, Readers, Has
  <2>2. \A s, t \in Queued(b) \cup Readers(b) : s = t
    BY <2>1 DEF Places, Apart
  <2>3. b \in held \/ InIon(b) => Queued(b) \cup Readers(b) = {}
    BY <2>1 DEF Places, Apart
  <2>4. QED
    BY <2>2, <2>3, AtMostOne DEF InIon
<1>2. QED
  BY <1>1, PlacesInvariant, PTL

----------------------------------------------------------------------------
(* What the abstract hop sees of the host.                                    *)
InIonSet == {b \in Inbound : b \in ToSet(ion[Dest[b]])}
CopiesRead == [b \in Inbound |-> Cardinality(Readers(b))]

LEMMA OneReaderEach ==
    ASSUME Places, NEW b \in Inbound
    PROVE  \A s, t \in Readers(b) : s = t
BY DEF Places, Apart, Readers, Has

LEMMA StepIsHopStep ==
    Inv /\ Places /\ [Next]_vars => [Hop!AtMostOnceNext]_(Hop!vars)
<1>1. SUFFICES ASSUME Inv, Places, [Next]_vars
               PROVE  Hop!AtMostOnceNext \/ UNCHANGED <<arrived, InIonSet, CopiesRead>>
  BY DEF Hop!vars, InIonSet, CopiesRead
<1>2. /\ queue \in [Sockets -> Seq(Inbound)] /\ read \in [Sockets -> SUBSET Inbound]
      /\ Waiting /\ Taken /\ Apart
  BY <1>1 DEF Inv, SocketInv, Places
<1>3. CASE UNCHANGED <<ion, arrived, read>>
  BY <1>3 DEF InIonSet, CopiesRead, Readers
<1>4. ASSUME NEW b \in Inbound, Arrive(b) PROVE Hop!AtMostOnceNext
  <2>1. /\ b \notin arrived /\ arrived' = arrived \cup {b} /\ read' = read
        /\ \A c \in Inbound : InIon(c)' <=> InIon(c) \/ c = b
    BY <1>1, <1>2, <1>4, ArriveEffect
  <2>2. InIonSet' = InIonSet \cup {b} /\ CopiesRead' = CopiesRead
    BY <2>1 DEF InIonSet, InIon, CopiesRead, Readers
  <2>3. Hop!Arrive(b)
    BY <2>1, <2>2 DEF Hop!Arrive, InIonSet, CopiesRead
  <2>4. QED
    BY <2>3 DEF Hop!AtMostOnceNext
<1>5. ASSUME NEW v \in Services, ThreadReceive(v) PROVE Hop!AtMostOnceNext
  <2>1. PICK h \in Inbound :
            /\ InIon(h) /\ UNCHANGED <<read, arrived>>
            /\ \A c \in Inbound : InIon(c)' <=> InIon(c) /\ c # h
    BY <1>1, <1>2, <1>5, ReceiveEffect
  <2>2. h \in InIonSet /\ InIonSet' = InIonSet \ {h} /\ CopiesRead' = CopiesRead
    BY <2>1 DEF InIonSet, InIon, CopiesRead, Readers
  <2>3. Hop!GiveUp(h)
    BY <2>1, <2>2 DEF Hop!GiveUp, InIonSet, CopiesRead
  <2>4. QED
    BY <2>3 DEF Hop!AtMostOnceNext
<1>6. ASSUME NEW s \in Sockets, Wake(s)
      PROVE  Hop!AtMostOnceNext \/ UNCHANGED <<arrived, InIonSet, CopiesRead>>
  <2>1. UNCHANGED <<ion, arrived>>
    BY <1>1, <1>2, <1>6, WakeEffect
  <2>2. PICK h \in Inbound :
            /\ h \in ToSet(queue[s]) /\ h \notin read[s] /\ h \in arrived
            /\ read' = read \/ read' = [read EXCEPT ![s] = @ \cup {h}]
    BY <1>1, <1>2, <1>6, WakeEffect
  <2>3. CASE read' = read
    BY <1>3, <2>1, <2>3
  <2>4. CASE read' = [read EXCEPT ![s] = @ \cup {h}]
    <3>1. Has(s, h) /\ ~ InIon(h) /\ \A t \in Sockets : Has(t, h) => t = s
      BY <1>2, <2>2 DEF Apart, Has
    <3>2. Readers(h) = {} /\ Readers(h)' = {s}
      BY <1>2, <2>2, <2>4, <3>1 DEF Readers, Has
    <3>3. \A c \in Inbound : c # h => Readers(c)' = Readers(c)
      BY <1>2, <2>4 DEF Readers
    <3>4. /\ CopiesRead[h] = 0 /\ CopiesRead'[h] = 1
          /\ \A c \in Inbound : c # h => CopiesRead'[c] = CopiesRead[c]
      BY <3>2, <3>3, FS_EmptySet, FS_Singleton DEF CopiesRead
    <3>5. CopiesRead' = [CopiesRead EXCEPT ![h] = @ + 1]
      <4>1. /\ CopiesRead = [c \in Inbound |-> CopiesRead[c]]
            /\ CopiesRead' = [c \in Inbound |-> CopiesRead'[c]]
        BY DEF CopiesRead
      <4>2. QED
        BY <3>4, <4>1
    <3>6. InIonSet' = InIonSet /\ h \in arrived \ InIonSet
      BY <2>1, <2>2, <3>1 DEF InIonSet, InIon
    <3>7. Hop!Hand(h)
      BY <2>1, <3>5, <3>6 DEF Hop!Hand, InIonSet, CopiesRead
    <3>8. QED
      BY <3>4, <3>6, <3>7 DEF Hop!AtMostOnceNext, InIonSet, CopiesRead
  <2>5. QED
    BY <2>2, <2>3, <2>4
<1>7. ASSUME NEW s \in Sockets, Kill(s) PROVE UNCHANGED <<ion, arrived, read>>
  BY <1>7 DEF Kill, ionVars
<1>8. QED
  BY <1>1, <1>3, <1>4, <1>5, <1>6, <1>7
     DEF Next, SocketNext, DaemonNext, vars, socketVars, ionVars, Create, BindCheck, BindAdd,
         Recv, Interrupt, HandleCommand, CommandFails, BundleFails, DaemonStops, DaemonStarts,
         ThreadOpen, ThreadFails, Deliver, SendMsg

(* To DTChat the bp-socket host is a hop that delivers at most once: every    *)
(* step is a step of it or shows nothing, through kills, failed receptions    *)
(* and restarts of the daemon (bp_genl.c:186-199, daemon/ion.c:64-99).        *)
THEOREM HostImplementsLastHop == Spec => ImplementsLastHop
<1>1. Init => Hop!Init
  <2> SUFFICES ASSUME Init PROVE Hop!Init
    OBVIOUS
  <2>1. \A b \in Inbound : Readers(b) = {} /\ b \notin ToSet(ion[Dest[b]])
    BY EmptySequence, SocketsAssumption DEF Init, Readers
  <2>2. \A b \in Inbound : Cardinality(Readers(b)) = 0
    BY <2>1, FS_EmptySet
  <2>3. QED
    BY <2>1, <2>2 DEF Init, Hop!Init
<1>2. QED
  BY <1>1, StepIsHopStep, PlacesInvariant, PTL DEF Spec, ImplementsLastHop, Hop!AtMostOnce

----------------------------------------------------------------------------
(* What the daemon has to do for a service.                                   *)
DaemonKept == faults = 0 => daemonUp

LEMMA DaemonKeptStep == Inv /\ DaemonKept /\ [Next]_vars => DaemonKept'
<1>1. SUFFICES ASSUME Inv, DaemonKept, [Next]_vars PROVE DaemonKept'
  OBVIOUS
<1>2. faults \in Nat
  BY <1>1, BudgetAssumption DEF Inv, BudgetTypes
<1>3. CASE Fault
  BY <1>2, <1>3 DEF Fault, CommandFails, DaemonStops, ThreadFails, BundleFails, DaemonKept
<1>4. CASE DaemonStarts
  BY <1>4 DEF DaemonStarts, DaemonKept
<1>5. CASE UNCHANGED <<faults, daemonUp>>
  BY <1>1, <1>5 DEF DaemonKept
<1>6. QED
  BY <1>1, <1>3, <1>4, <1>5
     DEF Next, SocketNext, DaemonNext, Fault, vars, daemonVars, otherVars, budgetVars, Create,
         BindCheck, BindAdd, Recv, Wake, Interrupt, Kill, HandleCommand, ThreadOpen,
         ThreadReceive, Deliver, Arrive, SendMsg

(* A failure is never taken back. *)
LEMMA CalmBefore ==
    ASSUME Inv, [Next]_vars
    PROVE  /\ faults' = 0 => faults = 0 /\ ~ Fault
           /\ kills' = 0 => kills = 0 /\ \A s \in Sockets : ~ Kill(s)
           /\ arrived \subseteq arrived'
           /\ Calm' => Calm
<1>1. faults \in Nat /\ kills \in Nat
  BY BudgetAssumption DEF Inv, BudgetTypes
<1>2. CASE Fault
  <2>1. faults' = faults + 1 /\ UNCHANGED <<kills, arrived>>
    BY <1>2 DEF Fault, CommandFails, DaemonStops, ThreadFails, BundleFails, ionVars
  <2>2. faults' # 0
    BY <1>1, <2>1
  <2>3. ~ \E s \in Sockets : Kill(s)
    BY <1>1, <2>1 DEF Kill
  <2>4. QED
    BY <2>1, <2>2, <2>3 DEF Calm
<1>3. ASSUME NEW s \in Sockets, Kill(s)
      PROVE  kills' # 0 /\ UNCHANGED <<faults, arrived>>
  BY <1>1, <1>3 DEF Kill, ionVars
<1>4. CASE ~ Fault /\ ~ \E s \in Sockets : Kill(s)
  <2>1. UNCHANGED <<kills, faults>> /\ arrived \subseteq arrived'
    BY <1>4 DEF Next, SocketNext, DaemonNext, Fault, vars, daemonVars, otherVars, budgetVars,
           ionVars, Create, BindCheck, BindAdd, Recv, Wake, Interrupt, HandleCommand, DaemonStarts,
           ThreadOpen, ThreadReceive, Deliver, Arrive, SendMsg
  <2>2. QED
    BY <1>4, <2>1 DEF Calm
<1>5. QED
  BY <1>1, <1>2, <1>3, <1>4 DEF Calm

LEMMA RequestsAreMessages ==
    ASSUME NEW v \in Services
    PROVE  Request(v) \in Commands /\ Request(v).cmd = "request" /\ Request(v).arg = v
BY DEF Request, Commands

LEMMA HandleEffect ==
    ASSUME Inv, HandleCommand
    PROVE  /\ ToSet(toDaemon) = ToSet(toDaemon') \cup {Head(toDaemon)}
           /\ \A v \in Services :
                 opening'[v] = IF Head(toDaemon) = Request(v) THEN opening[v] + 1 ELSE opening[v]
           /\ UNCHANGED <<state, bp_list, queue, receiving, held, arrived, daemonUp, ion, read>>
<1> DEFINE msg == Head(toDaemon)
<1>1. /\ toDaemon # <<>> /\ toDaemon' = Tail(toDaemon)
      /\ IF msg.cmd = "send" THEN opening' = opening
         ELSE opening' = [opening EXCEPT ![msg.arg] = @ + 1]
      /\ UNCHANGED <<state, bp_list, queue, receiving, held, arrived, daemonUp, ion, read>>
  BY DEF HandleCommand, socketVars
<1>2. toDaemon \in Seq(Commands) /\ opening \in [Services -> Nat]
  BY DEF Inv, DaemonTypes
<1>3. msg \in Commands /\ ToSet(toDaemon) = ToSet(toDaemon') \cup {msg}
  BY <1>1, <1>2, Tailed
<1> HIDE DEF msg
<1>4. ASSUME NEW v \in Services
      PROVE  opening'[v] = IF msg = Request(v) THEN opening[v] + 1 ELSE opening[v]
  <2>1. CASE msg.cmd = "send"
    BY <1>1, <2>1, RequestsAreMessages
  <2>2. CASE msg.cmd # "send"
    <3>1. msg.arg \in Services /\ msg = Request(msg.arg)
      BY <1>3, <2>2 DEF Commands, Request
    <3>2. msg = Request(v) <=> msg.arg = v
      BY <3>1, RequestsAreMessages
    <3>3. QED
      BY <1>1, <1>2, <2>2, <3>1, <3>2
  <2>3. QED
    BY <2>1, <2>2
<1>5. QED
  BY <1>1, <1>3, <1>4 DEF msg

(* What is under way for a service stays so until it is delivered...          *)
LEMMA EngagedKept ==
    ASSUME Inv, Places, DaemonKept, [Next]_vars, faults' = 0, NEW v \in Services, Engaged(v)
    PROVE  Engaged(v)' \/ \E b \in Inbound : Deliver(b) /\ Dest[b] = v
<1>1. /\ faults = 0 /\ daemonUp /\ ~ Fault
      /\ toDaemon \in Seq(Commands) /\ opening \in [Services -> Nat]
      /\ Waiting
  BY CalmBefore DEF DaemonKept, Inv, DaemonTypes, Places
<1> USE DEF Engaged
<1>2. CASE UNCHANGED <<toDaemon, opening, receiving, held>>
  BY <1>2
<1>3. ASSUME NEW msg \in Commands, Unicast(msg), UNCHANGED <<opening, receiving, held>>
      PROVE  Engaged(v)'
  <2>1. ToSet(toDaemon) \subseteq ToSet(toDaemon')
    BY <1>1, <1>3, Appended DEF Unicast
  <2>2. QED
    BY <1>3, <2>1
<1>4. ASSUME NEW s \in Sockets, Recv(s) PROVE Engaged(v)'
  BY <1>3, <1>4, ServicesOfSockets, RequestsAreMessages DEF Recv
<1>5. ASSUME NEW o \in Outbound, SendMsg(o) PROVE Engaged(v)'
  <2>1. [cmd |-> "send", arg |-> o] \in Commands
    BY DEF Commands
  <2>2. QED
    BY <1>3, <1>5, <2>1 DEF SendMsg
<1>6. CASE HandleCommand
  BY <1>1, <1>6, HandleEffect
<1>7. ASSUME NEW u \in Services, ThreadOpen(u) PROVE Engaged(v)'
  BY <1>1, <1>7 DEF ThreadOpen
<1>8. ASSUME NEW u \in Services, ThreadReceive(u) PROVE Engaged(v)'
  <2>1. \E h \in Inbound : Dest[h] = u /\ held' = held \cup {h}
    BY <1>1, <1>8, ReceiveEffect
  <2>2. receiving' = receiving \ {u} /\ UNCHANGED <<toDaemon, opening>>
    BY <1>8 DEF ThreadReceive
  <2>3. QED
    BY <2>1, <2>2
<1>9. ASSUME NEW b \in Inbound, Deliver(b), Dest[b] # v PROVE Engaged(v)'
  <2>1. held' = held \ {b} /\ UNCHANGED <<toDaemon, opening, receiving>>
    BY <1>9 DEF Deliver
  <2>2. QED
    BY <1>9, <2>1
<1>10. QED
  BY <1>1, <1>2, <1>4, <1>5, <1>6, <1>7, <1>8, <1>9
     DEF Next, SocketNext, DaemonNext, Fault, vars, daemonVars, Create, BindCheck, BindAdd, Wake,
         Interrupt, Kill, DaemonStarts, Arrive

(* ... and is begun by nobody but a reader.                                   *)
LEMMA EngagedByReader ==
    ASSUME Inv, Places, [Next]_vars, NEW v \in Services, Engaged(v)'
    PROVE  Engaged(v) \/ \E s \in Sockets : Recv(s) /\ Service(s) = v
<1>1. /\ toDaemon \in Seq(Commands) /\ opening \in [Services -> Nat] /\ Waiting
  BY DEF Inv, DaemonTypes, Places
<1> USE DEF Engaged
<1>2. CASE UNCHANGED <<toDaemon, opening, receiving, held>>
  BY <1>2
<1>3. ASSUME NEW msg \in Commands, Unicast(msg) PROVE ToSet(toDaemon') \subseteq ToSet(toDaemon) \cup {msg}
  BY <1>1, <1>3, Appended DEF Unicast
<1>4. ASSUME NEW s \in Sockets, Recv(s), Service(s) # v PROVE Engaged(v)
  <2>1. Request(Service(s)) \in Commands /\ Request(Service(s)) # Request(v)
    BY <1>4, ServicesOfSockets, RequestsAreMessages
  <2>2. QED
    BY <1>3, <1>4, <2>1 DEF Recv
<1>5. ASSUME NEW o \in Outbound, SendMsg(o) PROVE Engaged(v)
  <2>1. [cmd |-> "send", arg |-> o] \in Commands /\ [cmd |-> "send", arg |-> o] # Request(v)
    BY DEF Commands, Request
  <2>2. QED
    BY <1>3, <1>5, <2>1 DEF SendMsg
<1>6. CASE HandleCommand
  BY <1>1, <1>6, HandleEffect
<1>7. ASSUME NEW u \in Services, ThreadOpen(u) PROVE Engaged(v)
  <2>1. /\ opening[u] > 0
        /\ opening'[v] > 0 => opening[v] > 0
        /\ receiving' = receiving \cup {u} /\ UNCHANGED <<toDaemon, held>>
    BY <1>1, <1>7 DEF ThreadOpen
  <2>2. QED
    BY <2>1
<1>8. ASSUME NEW u \in Services, ThreadReceive(u) PROVE Engaged(v)
  <2>1. \E h \in Inbound : Dest[h] = u /\ held' = held \cup {h}
    BY <1>1, <1>8, ReceiveEffect
  <2>2. u \in receiving /\ receiving' = receiving \ {u} /\ UNCHANGED <<toDaemon, opening>>
    BY <1>8 DEF ThreadReceive
  <2>3. QED
    BY <2>1, <2>2
<1>9. ASSUME NEW u \in Services, ThreadFails(u) PROVE Engaged(v)
  BY <1>9 DEF ThreadFails
<1>10. ASSUME NEW b \in Inbound, Deliver(b) PROVE Engaged(v)
  BY <1>10 DEF Deliver
<1>11. ~ DaemonStops
  BY EmptySequence DEF DaemonStops
<1>12. CASE CommandFails
  <2>1. ToSet(toDaemon') \subseteq ToSet(toDaemon) /\ UNCHANGED <<opening, receiving, held>>
    BY <1>1, <1>12, Tailed DEF CommandFails
  <2>2. QED
    BY <2>1
<1>13. ASSUME NEW b \in Inbound, BundleFails(b) PROVE Engaged(v)
  BY <1>13 DEF BundleFails
<1>14. QED
  BY <1>2, <1>4, <1>5, <1>6, <1>7, <1>8, <1>9, <1>10, <1>11, <1>12, <1>13
     DEF Next, SocketNext, DaemonNext, vars, daemonVars, Create, BindCheck, BindAdd, Wake,
         Interrupt, Kill, DaemonStarts, Arrive

----------------------------------------------------------------------------
(* A reader's own steps. *)
LEMMA RecvEffect ==
    ASSUME Inv, daemonUp, NEW s \in Sockets, Recv(s)
    PROVE  Engaged(Service(s))'
<1>1. /\ toDaemon \in Seq(Commands) /\ toDaemon' = Append(toDaemon, Request(Service(s)))
      /\ Request(Service(s)) \in Commands
  BY ServicesOfSockets, RequestsAreMessages DEF Inv, DaemonTypes, Recv, Unicast
<1>2. Request(Service(s)) \in ToSet(toDaemon')
  BY <1>1, Appended
<1>3. QED
  BY <1>2 DEF Engaged, Service, Request

(* A sleeping reader was asleep before, or asks now. *)
LEMMA AsleepBefore ==
    ASSUME Inv, [Next]_vars, NEW s \in Sockets, state'[s] = "waiting"
    PROVE  state[s] = "waiting" \/ Recv(s)
<1>1. state \in [Sockets -> States]
  BY DEF Inv, SocketInv
<1>2. ASSUME NEW t \in Sockets, NEW x, x # "waiting", state' = [state EXCEPT ![t] = x]
      PROVE  state[s] = "waiting"
  BY <1>1, <1>2
<1>3. ASSUME NEW t \in Sockets, Recv(t) PROVE state[s] = "waiting" \/ Recv(s)
  BY <1>1, <1>3 DEF Recv
<1>4. ASSUME NEW t \in Sockets, BindCheck(t) PROVE state[s] = "waiting"
  BY <1>2, <1>4 DEF BindCheck
<1>5. ASSUME NEW t \in Sockets,
             Create(t) \/ BindAdd(t) \/ Wake(t) \/ Interrupt(t) \/ Kill(t)
      PROVE  state[s] = "waiting"
  BY <1>2, <1>5 DEF Create, BindAdd, Wake, Interrupt, Kill, Release
<1>6. CASE state' = state
  BY <1>6
<1>7. QED
  BY <1>3, <1>4, <1>5, <1>6
     DEF Next, SocketNext, DaemonNext, vars, socketVars, HandleCommand, CommandFails, BundleFails,
         DaemonStops, DaemonStarts, ThreadOpen, ThreadReceive, ThreadFails, Deliver, Arrive, SendMsg

(* A reader that sleeps has an empty queue again only because nothing came. *)
LEMMA EmptyBefore ==
    ASSUME Inv, Places, [Next]_vars, NEW s \in Sockets, state'[s] = "waiting", state[s] = "waiting",
           queue'[s] = <<>>
    PROVE  queue[s] = <<>>
<1>1. /\ state \in [Sockets -> States] /\ queue \in [Sockets -> Seq(Inbound)] /\ SocketInv
  BY DEF Inv, SocketInv
<1>2. ASSUME NEW t \in Sockets, state' = [state EXCEPT ![t] = "closed"], queue' = [queue EXCEPT ![t] = <<>>]
      PROVE  queue[s] = <<>>
  <2>1. t # s
    BY <1>1, <1>2
  <2>2. QED
    BY <1>1, <1>2, <2>1
<1>3. ASSUME NEW t \in Sockets, Wake(t) PROVE queue[s] = <<>>
  <2>1. CASE Release(t)
    BY <1>2, <2>1 DEF Release
  <2>2. CASE ~ Release(t)
    <3>1. state' = [state EXCEPT ![t] = "bound"] /\ queue' = [queue EXCEPT ![t] = Tail(@)]
      BY <1>3, <2>2 DEF Wake
    <3>2. t # s
      BY <1>1, <3>1
    <3>3. QED
      BY <1>1, <3>1, <3>2
  <2>3. QED
    BY <2>1, <2>2
<1>4. ASSUME NEW t \in Sockets, Kill(t) PROVE queue[s] = <<>>
  BY <1>2, <1>4 DEF Kill, Release
<1>5. ASSUME NEW b \in Inbound, Deliver(b) PROVE queue[s] = <<>>
  <2>1. CASE queue' = queue
    BY <2>1
  <2>2. ASSUME NEW t \in Sockets, queue' = [queue EXCEPT ![t] = Append(@, b)]
        PROVE  queue[s] = <<>>
    <3>1. queue[t] \in Seq(Inbound)
      BY <1>1
    <3>2. Append(queue[t], b) # <<>>
      BY <3>1
    <3>3. QED
      BY <1>1, <2>2, <3>2
  <2>3. QED
    BY <1>1, <1>5, <2>1, <2>2, DeliverEffect
<1>6. CASE queue' = queue
  BY <1>6
<1>7. QED
  BY <1>3, <1>4, <1>5, <1>6
     DEF Next, SocketNext, DaemonNext, vars, socketVars, Create, BindCheck, BindAdd, Recv,
         Interrupt, HandleCommand, CommandFails, BundleFails, DaemonStops, DaemonStarts,
         ThreadOpen, ThreadReceive, ThreadFails, Arrive, SendMsg

(* The bundle a thread delivers to a service of one socket wakes that socket. *)
LEMMA DeliveryWakes ==
    ASSUME Inv, NEW s \in Sockets, OwnService(s), s \in Bound,
           NEW b \in Inbound, Deliver(b), Dest[b] = Service(s)
    PROVE  queue'[s] = Append(queue[s], b) /\ queue'[s] # <<>>
<1>1. SocketInv /\ queue[s] \in Seq(Inbound) /\ queue \in [Sockets -> Seq(Inbound)]
  BY DEF Inv, SocketInv
<1>2. PICK t \in Sockets : Service(t) = Dest[b] /\ queue' = [queue EXCEPT ![t] = Append(@, b)]
  BY <1>1, DeliverEffect
<1>3. t = s
  BY <1>2 DEF OwnService
<1>4. Append(queue[s], b) # <<>>
  BY <1>1
<1>5. QED
  BY <1>1, <1>2, <1>3, <1>4

(* A sleeping reader has a request or a thread working for it, as long as the *)
(* daemon never failed (bp_recvmsg, af_bp.c:401-459; bp_genl.c:170-199).      *)
THEOREM SleepersAreServed == Spec => []ReaderHasHelp
<1>1. Init => DaemonKept /\ ReaderHasHelp
  BY DEF Init, DaemonKept, ReaderHasHelp
<1>2. ASSUME Inv, Places, DaemonKept, ReaderHasHelp, [Next]_vars,
             NEW s \in Sockets, state'[s] = "waiting", queue'[s] = <<>>, OwnService(s), faults' = 0
      PROVE  Engaged(Service(s))'
  <2>1. faults = 0 /\ daemonUp
    BY <1>2, CalmBefore DEF DaemonKept
  <2>2. CASE Recv(s)
    BY <1>2, <2>1, <2>2, RecvEffect
  <2>3. CASE state[s] = "waiting"
    <3>1. queue[s] = <<>>
      BY <1>2, <2>3, EmptyBefore
    <3>2. Engaged(Service(s)) /\ Service(s) \in Services
      BY <1>2, <2>1, <2>3, <3>1, ServicesOfSockets DEF ReaderHasHelp
    <3>3. s \in Bound
      BY <1>2, <2>3 DEF Inv, SocketInv
    <3>4. ~ \E b \in Inbound : Deliver(b) /\ Dest[b] = Service(s)
      BY <1>2, <3>3, DeliveryWakes
    <3>5. QED
      BY <1>2, <3>2, <3>4, EngagedKept
  <2>4. QED
    BY <1>2, <2>2, <2>3, AsleepBefore
<1>3. Inv /\ Places /\ DaemonKept /\ ReaderHasHelp /\ [Next]_vars => DaemonKept' /\ ReaderHasHelp'
  BY <1>2, DaemonKeptStep DEF ReaderHasHelp, OwnService, Service
<1>4. QED
  BY <1>1, <1>3, PlacesInvariant, PTL DEF Spec

----------------------------------------------------------------------------
(* On a host where nothing failed what is under way for a service has a       *)
(* socket to go to.                                                           *)
Attended ==
    Calm => \A v \in Services : Engaged(v) => \E s \in Bound : Service(s) = v

Reads(s) ==
    \E h \in Inbound : \E r :
        /\ queue' = [queue EXCEPT ![s] = r] /\ ToSet(r) = ToSet(queue[s]) \ {h}
        /\ read' = [read EXCEPT ![s] = @ \cup {h}]

(* There no socket leaves the list, and a reader that wakes up reads. *)
LEMMA BoundStays ==
    ASSUME Inv, Places, [Next]_vars, Calm'
    PROVE  /\ Bound \subseteq Bound'
           /\ \A s \in Sockets : Wake(s) => Reads(s)
<1>1. SocketInv /\ Taken /\ bp_list \in Seq(Sockets)
  BY DEF Inv, Places, SocketInv
<1>2. /\ ~ Fault /\ \A s \in Sockets : ~ Kill(s)
      /\ \A b \in arrived : b \notin Oversize
  BY CalmBefore DEF Calm
<1>3. ASSUME NEW s \in Sockets, Wake(s)
      PROVE  Reads(s) /\ bp_list' = bp_list
  BY <1>1, <1>2, <1>3, WakeEffect DEF Reads
<1>4. ASSUME NEW s \in Sockets, BindAdd(s) PROVE Bound \subseteq Bound'
  BY <1>1, <1>4, Pushed DEF BindAdd, Bound
<1>5. bp_list' = bp_list => Bound \subseteq Bound'
  BY DEF Bound
<1>6. Bound \subseteq Bound'
  <2>1. (\E s \in Sockets : Wake(s)) => bp_list' = bp_list
    BY <1>3
  <2>2. QED
    BY <1>2, <1>4, <1>5, <2>1
       DEF Next, SocketNext, DaemonNext, Fault, vars, socketVars, Create, BindCheck, Recv,
           Interrupt, HandleCommand, DaemonStarts, ThreadOpen, ThreadReceive, Deliver, Arrive,
           SendMsg
<1>7. QED
  BY <1>3, <1>6

LEMMA AttendedStep == Inv /\ Places /\ Attended /\ [Next]_vars => Attended'
<1>1. SUFFICES ASSUME Inv, Places, Attended, [Next]_vars, Calm', NEW v \in Services, Engaged(v)'
               PROVE  \E s \in Bound' : Service(s) = v
  BY DEF Attended, Service
<1>2. Calm /\ Bound \subseteq Bound'
  BY <1>1, CalmBefore, BoundStays
<1>3. CASE Engaged(v)
  BY <1>1, <1>2, <1>3 DEF Attended
<1>4. ASSUME NEW s \in Sockets, Recv(s), Service(s) = v PROVE s \in Bound
  BY <1>1, <1>4 DEF Recv, Inv, SocketInv
<1>5. QED
  BY <1>1, <1>2, <1>3, <1>4, EngagedByReader

Located(b) == InIon(b) \/ b \in held \/ \E s \in Sockets : Has(s, b)

LEMMA LocatedStep ==
    ASSUME Inv, Places, Attended, [Next]_vars, Calm',
           NEW b \in Inbound, b \in arrived', b \in arrived => Located(b)
    PROVE  Located(b)'
<1>1. /\ Calm /\ SocketInv /\ Waiting /\ held \subseteq Inbound
      /\ queue \in [Sockets -> Seq(Inbound)] /\ read \in [Sockets -> SUBSET Inbound]
  BY CalmBefore DEF Inv, SocketInv, DaemonTypes, Places
<1>2. ~ Fault /\ \A s \in Sockets : ~ Kill(s)
  BY CalmBefore DEF Calm
<1>3. CASE UNCHANGED <<ion, held, arrived, queue, read>>
  BY <1>3 DEF Located, InIon, Has
<1>4. ASSUME NEW c \in Inbound, Arrive(c) PROVE Located(b)'
  <2>1. /\ arrived' = arrived \cup {c} /\ UNCHANGED <<queue, read, held>>
        /\ InIon(b)' <=> InIon(b) \/ b = c
    BY <1>1, <1>4, ArriveEffect
  <2>2. QED
    BY <2>1 DEF Located, Has
<1>5. ASSUME NEW v \in Services, ThreadReceive(v) PROVE Located(b)'
  <2>1. PICK h \in Inbound : /\ held' = held \cup {h} /\ UNCHANGED <<queue, read, arrived>>
                             /\ InIon(b)' <=> InIon(b) /\ b # h
    BY <1>1, <1>5, ReceiveEffect
  <2>2. QED
    BY <2>1 DEF Located, Has
<1>6. ASSUME NEW c \in Inbound, Deliver(c) PROVE Located(b)'
  <2>1. c \in held /\ held' = held \ {c} /\ UNCHANGED <<ion, arrived, read>>
    BY <1>6 DEF Deliver, ionVars
  <2>2. \E s \in Bound : Service(s) = Dest[c]
    <3>1. Dest[c] \in Services /\ Engaged(Dest[c])
      BY <2>1, SocketsAssumption DEF Engaged
    <3>2. QED
      BY <1>1, <3>1 DEF Attended
  <2>3. PICK s \in Sockets : queue' = [queue EXCEPT ![s] = Append(@, c)]
    BY <1>1, <1>6, <2>2, DeliverEffect
  <2> DEFINE r == Append(queue[s], c)
  <2>4. ToSet(r) = ToSet(queue[s]) \cup {c}
    BY <1>1, Appended
  <2>5. \A t \in Sockets : queue'[t] = IF t = s THEN r ELSE queue[t]
    BY <1>1, <2>3
  <2> HIDE DEF r
  <2>6. /\ \A t \in Sockets : Has(t, b) => Has(t, b)'
        /\ Has(s, c)'
    BY <2>1, <2>4, <2>5 DEF Has
  <2>7. QED
    BY <2>1, <2>6 DEF Located, InIon
<1>7. ASSUME NEW s \in Sockets, Wake(s) PROVE Located(b)'
  <2>1. UNCHANGED <<ion, held, arrived>>
    BY <1>7 DEF Wake, daemonVars, ionVars
  <2>0. PICK h \in Inbound : \E r :
            /\ queue' = [queue EXCEPT ![s] = r] /\ ToSet(r) = ToSet(queue[s]) \ {h}
            /\ read' = [read EXCEPT ![s] = @ \cup {h}]
    BY <1>7, BoundStays DEF Reads
  <2>2. PICK r :
            /\ queue' = [queue EXCEPT ![s] = r] /\ ToSet(r) = ToSet(queue[s]) \ {h}
            /\ read' = [read EXCEPT ![s] = @ \cup {h}]
    BY <2>0
  <2>3. \A t \in Sockets : /\ queue'[t] = IF t = s THEN r ELSE queue[t]
                           /\ read'[t] = IF t = s THEN read[s] \cup {h} ELSE read[t]
    BY <1>1, <2>2
  <2>4. \A t \in Sockets : Has(t, b) => Has(t, b)'
    BY <2>2, <2>3 DEF Has
  <2>5. QED
    BY <2>1, <2>4 DEF Located, InIon
<1>8. QED
  BY <1>2, <1>3, <1>4, <1>5, <1>6, <1>7
     DEF Next, SocketNext, DaemonNext, Fault, vars, socketVars, daemonVars, ionVars, Create,
         BindCheck, BindAdd, Recv, Interrupt, HandleCommand, DaemonStarts, ThreadOpen, SendMsg

(* On a host where nothing failed no bundle the network brought is gone: a    *)
(* thread takes one out of ION only when a socket has asked, and finds it     *)
(* bound (daemon/bp_genl_handlers.c, bp_socket/bp_genl.c:186-199).            *)
THEOREM BundlesAreKept == Spec => []NothingLost
<1>1. Init => Attended /\ NothingLost
  <2> SUFFICES ASSUME Init PROVE Attended /\ NothingLost
    OBVIOUS
  <2>1. \A v \in Services : ~ Engaged(v)
    BY EmptySequence DEF Init, Engaged
  <2>2. QED
    BY <2>1 DEF Init, Attended, NothingLost
<1>2. Inv => \A b \in arrived : b \in Inbound
  BY DEF Inv, IonTypes
<1>3. \A b \in Inbound :
          Located(b) <=> \/ b \in ToSet(ion[Dest[b]]) \/ b \in held
                         \/ Queued(b) # {} \/ Readers(b) # {}
  BY DEF Located, InIon, Has, Queued, Readers
<1>4. ASSUME Inv, Inv', Places, Attended, NothingLost, [Next]_vars, Calm', NEW b \in arrived'
      PROVE  \/ b \in ToSet(ion'[Dest[b]]) \/ b \in held'
             \/ Queued(b)' # {} \/ Readers(b)' # {}
  <2>1. b \in Inbound /\ Calm
    BY <1>4, CalmBefore DEF Inv, IonTypes
  <2>2. b \in arrived => Located(b)
    BY <1>3, <1>4, <2>1 DEF NothingLost
  <2>3. Located(b)'
    BY <1>4, <2>1, <2>2, LocatedStep
  <2>4. QED
    BY <2>1, <2>3 DEF Located, InIon, Has, Queued, Readers
<1>5. Inv /\ Inv' /\ Places /\ Attended /\ NothingLost /\ [Next]_vars => Attended' /\ NothingLost'
  BY <1>4, AttendedStep DEF NothingLost
<1>6. QED
  BY <1>1, <1>5, PlacesInvariant, PTL DEF Spec

----------------------------------------------------------------------------
(* How often an element occurs in a sequence.                                 *)
Occurrences(q, x) == {i \in DOMAIN q : q[i] = x}

LEMMA OccurrencesAreFinite ==
    ASSUME NEW S, NEW q \in Seq(S), NEW x
    PROVE  /\ IsFiniteSet(Occurrences(q, x)) /\ Cardinality(Occurrences(q, x)) \in Nat
           /\ Occurrences(q, x) \subseteq 1 .. Len(q)
<1>1. Len(q) \in Nat /\ Occurrences(q, x) \in SUBSET (1 .. Len(q))
  BY DEF Occurrences
<1>2. IsFiniteSet(1 .. Len(q))
  BY <1>1, FS_Interval
<1>3. IsFiniteSet(Occurrences(q, x))
  BY <1>1, <1>2, FS_Subset
<1>4. QED
  BY <1>1, <1>3, FS_CardinalityType

LEMMA OccurrencesAppended ==
    ASSUME NEW S, NEW q \in Seq(S), NEW x, NEW y \in S
    PROVE  Cardinality(Occurrences(Append(q, y), x))
             = IF y = x THEN Cardinality(Occurrences(q, x)) + 1 ELSE Cardinality(Occurrences(q, x))
<1> DEFINE r == Append(q, y)
           n == Len(q) + 1
<1>1. /\ Len(q) \in Nat /\ DOMAIN q = 1 .. Len(q) /\ DOMAIN r = 1 .. n
      /\ \A i \in 1 .. Len(q) : r[i] = q[i]
      /\ r[n] = y
  OBVIOUS
<1>2. /\ \A i \in 1 .. n : i \in 1 .. Len(q) \/ i = n
      /\ 1 .. Len(q) \subseteq 1 .. n /\ n \in 1 .. n /\ n \notin 1 .. Len(q)
  BY <1>1
<1> HIDE DEF r, n
<1>3. Occurrences(r, x) = IF y = x THEN Occurrences(q, x) \cup {n} ELSE Occurrences(q, x)
  BY <1>1, <1>2 DEF Occurrences
<1>4. n \notin Occurrences(q, x) /\ IsFiniteSet(Occurrences(q, x))
  BY <1>1, <1>2, OccurrencesAreFinite DEF Occurrences
<1>5. Cardinality(Occurrences(q, x) \cup {n}) = Cardinality(Occurrences(q, x)) + 1
  BY <1>4, FS_AddElement
<1>6. QED
  BY <1>3, <1>5 DEF r

LEMMA OccurrencesTailed ==
    ASSUME NEW S, NEW q \in Seq(S), NEW x, q # <<>>
    PROVE  Cardinality(Occurrences(Tail(q), x))
             = IF Head(q) = x THEN Cardinality(Occurrences(q, x)) - 1
               ELSE Cardinality(Occurrences(q, x))
<1> DEFINE r == Tail(q)
           A == Occurrences(r, x)
           B == Occurrences(q, x) \ {1}
           f == [i \in A |-> i + 1]
<1>1. /\ r \in Seq(S) /\ Len(q) \in Nat /\ Len(q) > 0 /\ DOMAIN q = 1 .. Len(q)
      /\ DOMAIN r = 1 .. Len(q) - 1
      /\ \A i \in 1 .. Len(q) - 1 : r[i] = q[i + 1]
      /\ Head(q) = q[1]
  OBVIOUS
<1> HIDE DEF r
<1>2. /\ \A i \in 1 .. Len(q) - 1 : i \in Nat /\ i + 1 \in 1 .. Len(q) /\ i + 1 # 1
      /\ \A j \in 1 .. Len(q) : j # 1 => j - 1 \in 1 .. Len(q) - 1 /\ j - 1 + 1 = j
      /\ \A i, j \in 1 .. Len(q) - 1 : i + 1 = j + 1 => i = j
      /\ 1 \in 1 .. Len(q)
  BY <1>1
<1>3. A \subseteq 1 .. Len(q) - 1 /\ IsFiniteSet(A) /\ IsFiniteSet(Occurrences(q, x))
  BY <1>1, OccurrencesAreFinite DEF Occurrences
<1>4. \A i \in A : i + 1 \in B
  BY <1>1, <1>2, <1>3 DEF Occurrences
<1>5. \A j \in B : j - 1 \in A /\ j - 1 + 1 = j
  BY <1>1, <1>2 DEF Occurrences
<1>6. f \in Bijection(A, B)
  <2>1. f \in [A -> B]
    BY <1>4
  <2>2. \A i, j \in A : f[i] = f[j] => i = j
    BY <1>2, <1>3
  <2>3. \A j \in B : \E i \in A : f[i] = j
    <3>1. \A j \in B : j - 1 \in A /\ f[j - 1] = j
      BY <1>5
    <3>2. QED
      BY <3>1
  <2> HIDE DEF f, A, B
  <2>4. QED
    BY <2>1, <2>2, <2>3, Fun_IsBij
<1>7. Cardinality(A) = Cardinality(B)
  <2> HIDE DEF f, A, B
  <2>1. QED
    BY <1>3, <1>6, FS_Bijection DEF ExistsBijection
<1>8. 1 \in Occurrences(q, x) <=> Head(q) = x
  BY <1>1, <1>2 DEF Occurrences
<1>9. Cardinality(B) = IF Head(q) = x THEN Cardinality(Occurrences(q, x)) - 1
                       ELSE Cardinality(Occurrences(q, x))
  BY <1>3, <1>8, FS_RemoveElement
<1>10. QED
  BY <1>7, <1>9 DEF r

----------------------------------------------------------------------------
(* What is under way for the service of a socket, by its stage: requests in   *)
(* the netlink queue, threads that are to open the endpoint, the one that has *)
(* it open, bundles taken out of ION, and bundles queued at the socket.       *)
Carried(s) == {b \in held : Dest[b] = Service(s)}

Asked(s) == Cardinality(Requests(Service(s)))
Opening(s) == opening[Service(s)]
Opened(s) == Cardinality(receiving \cap {Service(s)})
Fetched(s) == Cardinality(Carried(s))
Filled(s) == Len(queue[s])

CarriedFinite == \A s \in Sockets : IsFiniteSet(Carried(s))

LEMMA AskedCounts ==
    ASSUME Inv, NEW s \in Sockets
    PROVE  /\ Asked(s) = Cardinality(Occurrences(toDaemon, Request(Service(s))))
           /\ Asked(s)' = Cardinality(Occurrences(toDaemon', Request(Service(s))))
           /\ Asked(s) \in Nat
<1>1. toDaemon \in Seq(Commands)
  BY DEF Inv, DaemonTypes
<1>2. Requests(Service(s)) = Occurrences(toDaemon, Request(Service(s)))
  BY DEF Requests, Occurrences
<1>3. Requests(Service(s))' = Occurrences(toDaemon', Request(Service(s)))
  BY DEF Requests, Occurrences, Request, Service
<1>4. QED
  BY <1>1, <1>2, <1>3, OccurrencesAreFinite DEF Asked

LEMMA OpenedIsOneOrNone ==
    ASSUME NEW s \in Sockets
    PROVE  /\ Opened(s) = IF Service(s) \in receiving THEN 1 ELSE 0
           /\ Opened(s)' = IF Service(s) \in receiving' THEN 1 ELSE 0
<1> DEFINE v == Service(s)
<1>1. \A R : R \cap {v} = IF v \in R THEN {v} ELSE {}
  OBVIOUS
<1>2. Cardinality({v}) = 1 /\ Cardinality({}) = 0
  BY FS_Singleton, FS_EmptySet
<1>3. \A R : Cardinality(R \cap {v}) = IF v \in R THEN 1 ELSE 0
  BY <1>1, <1>2
<1>4. QED
  BY <1>3 DEF Opened, Service

LEMMA CountsAreNumbers ==
    ASSUME Inv, CarriedFinite, NEW s \in Sockets
    PROVE  /\ Asked(s) \in Nat /\ Opening(s) \in Nat /\ Opened(s) \in Nat
           /\ Fetched(s) \in Nat /\ Filled(s) \in Nat
<1>1. Asked(s) \in Nat /\ Opened(s) \in Nat
  BY AskedCounts, OpenedIsOneOrNone
<1>2. Opening(s) \in Nat
  BY ServicesOfSockets DEF Inv, DaemonTypes, Opening
<1>3. Fetched(s) \in Nat
  BY FS_CardinalityType DEF CarriedFinite, Fetched
<1>4. queue[s] \in Seq(Inbound)
  BY DEF Inv, SocketInv
<1>5. QED
  BY <1>1, <1>2, <1>3, <1>4 DEF Filled

(* What a step does to the stages: one of what is there goes one stage on, or *)
(* the stages lose something, or nothing happens to them.                     *)
Lose(s) ==
    /\ Asked(s)' <= Asked(s) /\ Opening(s)' <= Opening(s) /\ Opened(s)' <= Opened(s)
    /\ Fetched(s)' <= Fetched(s) /\ Filled(s)' <= Filled(s)

MoveOn(s) ==
    \/ /\ Asked(s)' = Asked(s) - 1 /\ Opening(s)' = Opening(s) + 1
       /\ UNCHANGED <<Opened(s), Fetched(s), Filled(s)>>
    \/ /\ Opening(s)' = Opening(s) - 1 /\ Opened(s)' <= Opened(s) + 1
       /\ Opened(s)' >= Opened(s) /\ UNCHANGED <<Asked(s), Fetched(s), Filled(s)>>
    \/ /\ Opened(s)' = Opened(s) - 1 /\ Fetched(s)' <= Fetched(s) + 1
       /\ UNCHANGED <<Asked(s), Opening(s), Filled(s)>>
    \/ /\ Fetched(s)' = Fetched(s) - 1 /\ Filled(s)' <= Filled(s) + 1
       /\ UNCHANGED <<Asked(s), Opening(s), Opened(s)>>

(* A step that leaves what the stages are made of leaves the stages.          *)
LEMMA StagesLeft ==
    ASSUME NEW s \in Sockets
    PROVE  /\ toDaemon' = toDaemon => Asked(s)' = Asked(s)
           /\ opening' = opening => Opening(s)' = Opening(s)
           /\ receiving' = receiving => Opened(s)' = Opened(s)
           /\ held' = held => Carried(s)' = Carried(s) /\ Fetched(s)' = Fetched(s)
           /\ queue'[s] = queue[s] => Filled(s)' = Filled(s)
BY DEF Asked, Requests, Request, Opening, Opened, Carried, Fetched, Filled, Service

LEMMA NoneLost ==
    ASSUME Inv, CarriedFinite, NEW s \in Sockets,
           UNCHANGED <<toDaemon, opening, receiving, held>>, queue'[s] = queue[s]
    PROVE  Lose(s)
BY StagesLeft, CountsAreNumbers DEF Lose

(* A message adds a request if it is one, a command taken from the queue      *)
(* removes it.                                                                *)
LEMMA MessageAsks ==
    ASSUME Inv, NEW s \in Sockets, NEW msg \in Commands, Unicast(msg)
    PROVE  \/ Asked(s)' = Asked(s)
           \/ msg = Request(Service(s)) /\ Asked(s)' = Asked(s) + 1
<1>1. toDaemon \in Seq(Commands)
  BY DEF Inv, DaemonTypes
<1>2. CASE toDaemon' = toDaemon
  BY <1>2, StagesLeft
<1>3. CASE toDaemon' = Append(toDaemon, msg)
  BY <1>1, <1>3, AskedCounts, OccurrencesAppended
<1>4. QED
  BY <1>2, <1>3 DEF Unicast

LEMMA CommandTaken ==
    ASSUME Inv, NEW s \in Sockets, toDaemon # <<>>, toDaemon' = Tail(toDaemon)
    PROVE  Asked(s)' = IF Head(toDaemon) = Request(Service(s)) THEN Asked(s) - 1 ELSE Asked(s)
<1>1. toDaemon \in Seq(Commands)
  BY DEF Inv, DaemonTypes
<1>2. QED
  BY <1>1, AskedCounts, OccurrencesTailed

LEMMA HandleMovesOn ==
    ASSUME Inv, CarriedFinite, NEW s \in Sockets, HandleCommand
    PROVE  MoveOn(s) \/ Lose(s)
<1>1. /\ toDaemon # <<>> /\ toDaemon' = Tail(toDaemon) /\ UNCHANGED <<receiving, held, queue>>
  BY DEF HandleCommand, socketVars
<1>2. Opening(s)' = IF Head(toDaemon) = Request(Service(s)) THEN Opening(s) + 1 ELSE Opening(s)
  BY HandleEffect, ServicesOfSockets DEF Opening, Service
<1>3. Asked(s)' = IF Head(toDaemon) = Request(Service(s)) THEN Asked(s) - 1 ELSE Asked(s)
  BY <1>1, CommandTaken
<1>4. UNCHANGED <<Opened(s), Fetched(s), Filled(s)>>
  BY <1>1, StagesLeft
<1>5. QED
  BY <1>2, <1>3, <1>4, CountsAreNumbers DEF MoveOn, Lose

LEMMA OpenMovesOn ==
    ASSUME Inv, CarriedFinite, NEW s \in Sockets, NEW v \in Services, ThreadOpen(v)
    PROVE  MoveOn(s) \/ Lose(s)
<1>1. /\ opening[v] > 0 /\ opening' = [opening EXCEPT ![v] = @ - 1]
      /\ receiving' = receiving \cup {v} /\ UNCHANGED <<toDaemon, held, queue>>
      /\ opening \in [Services -> Nat]
  BY DEF ThreadOpen, socketVars, Inv, DaemonTypes
<1>2. UNCHANGED <<Asked(s), Fetched(s), Filled(s)>>
  BY <1>1, StagesLeft
<1>3. CASE v = Service(s)
  <2>1. Opening(s)' = Opening(s) - 1
    BY <1>1, <1>3 DEF Opening, Service
  <2>2. Opened(s)' <= Opened(s) + 1 /\ Opened(s)' >= Opened(s)
    BY <1>1, OpenedIsOneOrNone
  <2>3. QED
    BY <1>2, <2>1, <2>2 DEF MoveOn
<1>4. CASE v # Service(s)
  <2>1. Opening(s)' = Opening(s) /\ Opened(s)' = Opened(s)
    BY <1>1, <1>4, ServicesOfSockets, OpenedIsOneOrNone DEF Opening, Service
  <2>2. QED
    BY <1>2, <2>1, CountsAreNumbers DEF Lose
<1>5. QED
  BY <1>3, <1>4

LEMMA ReceiveMovesOn ==
    ASSUME Inv, Places, CarriedFinite, NEW s \in Sockets, NEW v \in Services, ThreadReceive(v)
    PROVE  /\ MoveOn(s) \/ Lose(s)
           /\ IsFiniteSet(Carried(s))'
<1>1. /\ v \in receiving /\ receiving' = receiving \ {v}
      /\ UNCHANGED <<toDaemon, opening, queue>>
  BY DEF ThreadReceive, socketVars
<1>2. PICK h \in Inbound : Dest[h] = v /\ held' = held \cup {h}
  BY ReceiveEffect DEF Places
<1>3. UNCHANGED <<Asked(s), Opening(s), Filled(s)>>
  BY <1>1, StagesLeft
<1>4. CASE v = Service(s)
  <2>1. Carried(s)' = Carried(s) \cup {h}
    BY <1>2, <1>4 DEF Carried, Service
  <2>2. /\ IsFiniteSet(Carried(s) \cup {h})
        /\ \/ Cardinality(Carried(s) \cup {h}) = Cardinality(Carried(s))
           \/ Cardinality(Carried(s) \cup {h}) = Cardinality(Carried(s)) + 1
    BY FS_AddElement DEF CarriedFinite
  <2>3. Fetched(s)' <= Fetched(s) + 1
    BY <2>1, <2>2, CountsAreNumbers DEF Fetched
  <2>4. Opened(s)' = Opened(s) - 1
    BY <1>1, <1>4, OpenedIsOneOrNone
  <2>5. QED
    BY <1>3, <2>1, <2>2, <2>3, <2>4 DEF MoveOn
<1>5. CASE v # Service(s)
  <2>1. Carried(s)' = Carried(s)
    BY <1>2, <1>5 DEF Carried, Service
  <2>2. Opened(s)' = Opened(s)
    BY <1>1, <1>5, OpenedIsOneOrNone
  <2>3. Fetched(s)' = Fetched(s)
    BY <2>1 DEF Fetched
  <2>4. QED
    BY <1>3, <2>1, <2>2, <2>3, CountsAreNumbers DEF Lose, CarriedFinite
<1>6. QED
  BY <1>4, <1>5

(* A bundle that leaves a thread of the service is one bundle.                *)
LEMMA BundleLeaves ==
    ASSUME Inv, CarriedFinite, NEW s \in Sockets, NEW b \in held, held' = held \ {b}
    PROVE  /\ Fetched(s)' = IF Dest[b] = Service(s) THEN Fetched(s) - 1 ELSE Fetched(s)
           /\ IsFiniteSet(Carried(s))'
<1>1. Carried(s)' = Carried(s) \ {b} /\ (b \in Carried(s) <=> Dest[b] = Service(s))
  BY DEF Carried, Service
<1>2. /\ IsFiniteSet(Carried(s) \ {b})
      /\ Cardinality(Carried(s) \ {b}) = IF b \in Carried(s) THEN Cardinality(Carried(s)) - 1
                                         ELSE Cardinality(Carried(s))
  BY FS_RemoveElement DEF CarriedFinite
<1>3. QED
  BY <1>1, <1>2 DEF Fetched

LEMMA DeliverMovesOn ==
    ASSUME Inv, CarriedFinite, NEW s \in Sockets, OwnService(s), NEW b \in Inbound, Deliver(b)
    PROVE  MoveOn(s) \/ Lose(s)
<1>1. /\ b \in held /\ held' = held \ {b} /\ UNCHANGED <<toDaemon, opening, receiving>>
      /\ queue \in [Sockets -> Seq(Inbound)] /\ SocketInv
  BY DEF Deliver, Inv, SocketInv
<1>2. UNCHANGED <<Asked(s), Opening(s), Opened(s)>>
  BY <1>1, StagesLeft
<1>3. Fetched(s)' = IF Dest[b] = Service(s) THEN Fetched(s) - 1 ELSE Fetched(s)
  BY <1>1, BundleLeaves
<1>4. \/ queue'[s] = queue[s]
      \/ Dest[b] = Service(s) /\ queue'[s] = Append(queue[s], b)
  BY <1>1, DeliverEffect DEF OwnService
<1>5. \/ Filled(s)' = Filled(s)
      \/ Dest[b] = Service(s) /\ Filled(s)' = Filled(s) + 1
  <2>1. queue[s] \in Seq(Inbound)
    BY <1>1
  <2>2. CASE queue'[s] = Append(queue[s], b) /\ Dest[b] = Service(s)
    BY <2>1, <2>2 DEF Filled
  <2>3. QED
    BY <1>4, <2>2 DEF Filled
<1>6. QED
  BY <1>2, <1>3, <1>5, CountsAreNumbers DEF MoveOn, Lose

LEMMA FaultLoses ==
    ASSUME Inv, CarriedFinite, NEW s \in Sockets, Fault
    PROVE  /\ Lose(s)
           /\ IsFiniteSet(Carried(s))'
<1>1. /\ Asked(s) \in Nat /\ Opening(s) \in Nat /\ Opened(s) \in Nat
      /\ Fetched(s) \in Nat /\ Filled(s) \in Nat /\ IsFiniteSet(Carried(s))
  BY CountsAreNumbers DEF CarriedFinite
<1>2. CASE CommandFails
  <2>1. /\ toDaemon # <<>> /\ toDaemon' = Tail(toDaemon)
        /\ UNCHANGED <<opening, receiving, held, queue>>
    BY <1>2 DEF CommandFails, socketVars
  <2>2. Asked(s)' <= Asked(s)
    BY <1>1, <2>1, CommandTaken
  <2>3. QED
    BY <1>1, <2>1, <2>2, StagesLeft DEF Lose
<1>3. ASSUME NEW v \in Services, ThreadFails(v) PROVE Lose(s) /\ IsFiniteSet(Carried(s))'
  <2>1. receiving' = receiving \ {v} /\ UNCHANGED <<toDaemon, opening, held, queue>>
    BY <1>3 DEF ThreadFails, socketVars
  <2>2. Opened(s)' <= Opened(s)
    BY <2>1, OpenedIsOneOrNone
  <2>3. QED
    BY <1>1, <2>1, <2>2, StagesLeft DEF Lose
<1>4. ASSUME NEW b \in Inbound, BundleFails(b) PROVE Lose(s) /\ IsFiniteSet(Carried(s))'
  <2>1. b \in held /\ held' = held \ {b} /\ UNCHANGED <<toDaemon, opening, receiving, queue>>
    BY <1>4 DEF BundleFails, socketVars
  <2>2. Fetched(s)' <= Fetched(s) /\ IsFiniteSet(Carried(s))'
    BY <1>1, <2>1, BundleLeaves
  <2>3. QED
    BY <1>1, <2>1, <2>2, StagesLeft DEF Lose
<1>5. CASE DaemonStops
  <2>1. /\ toDaemon' = <<>> /\ opening' = [v \in Services |-> 0] /\ receiving' = {} /\ held' = {}
        /\ queue' = queue
    BY <1>5 DEF DaemonStops, socketVars
  <2>2. Asked(s)' = 0
    <3>1. Occurrences(toDaemon', Request(Service(s))) = {}
      BY <2>1 DEF Occurrences
    <3>2. QED
      BY <3>1, AskedCounts, FS_EmptySet
  <2>3. Opening(s)' = 0 /\ Opened(s)' = 0
    BY <2>1, ServicesOfSockets, OpenedIsOneOrNone DEF Opening, Service
  <2>4. Carried(s)' = {} /\ Fetched(s)' = 0 /\ IsFiniteSet(Carried(s))'
    <3>1. Carried(s)' = {}
      BY <2>1 DEF Carried
    <3>2. QED
      BY <3>1, FS_EmptySet DEF Fetched
  <2>5. QED
    BY <1>1, <2>1, <2>2, <2>3, <2>4, StagesLeft DEF Lose
<1>6. QED
  BY <1>2, <1>3, <1>4, <1>5 DEF Fault

(* A socket that wakes up, dies or is closed has less queued than before.     *)
LEMMA ReleaseLoses ==
    ASSUME Inv, CarriedFinite, NEW s \in Sockets, NEW t \in Sockets, Release(t),
           UNCHANGED daemonVars
    PROVE  Lose(s) /\ (t = s => Filled(s)' = 0)
<1>1. /\ queue \in [Sockets -> Seq(Inbound)] /\ queue' = [queue EXCEPT ![t] = <<>>]
      /\ UNCHANGED <<toDaemon, opening, receiving, held>>
  BY DEF Inv, SocketInv, Release, daemonVars
<1>2. CASE t = s
  <2>1. queue'[s] = <<>>
    BY <1>1, <1>2
  <2>2. Filled(s)' = 0
    BY <2>1 DEF Filled
  <2>3. QED
    BY <1>1, <2>2, StagesLeft, CountsAreNumbers DEF Lose
<1>3. CASE t # s
  BY <1>1, <1>3, NoneLost
<1>4. QED
  BY <1>2, <1>3

LEMMA WakeLoses ==
    ASSUME Inv, CarriedFinite, NEW s \in Sockets, NEW t \in Sockets, Wake(t)
    PROVE  Lose(s) /\ (t = s => Filled(s)' <= Filled(s) - 1)
<1>1. /\ queue \in [Sockets -> Seq(Inbound)] /\ queue[t] # <<>> /\ UNCHANGED daemonVars
  BY DEF Inv, SocketInv, Wake
<1>2. t = s => Filled(s) \in Nat /\ Filled(s) > 0
  <2>1. t = s => queue[s] \in Seq(Inbound) /\ queue[s] # <<>>
    BY <1>1
  <2>2. QED
    BY <2>1 DEF Filled
<1>3. CASE Release(t)
  BY <1>1, <1>2, <1>3, ReleaseLoses
<1>4. CASE ~ Release(t)
  <2>1. queue' = [queue EXCEPT ![t] = Tail(@)] /\ UNCHANGED <<toDaemon, opening, receiving, held>>
    BY <1>4 DEF Wake, daemonVars
  <2>2. CASE t = s
    <3>1. queue[s] \in Seq(Inbound) /\ queue[s] # <<>> /\ queue'[s] = Tail(queue[s])
      BY <1>1, <2>1, <2>2
    <3>2. Filled(s)' = Filled(s) - 1
      BY <3>1 DEF Filled
    <3>3. QED
      BY <1>2, <2>1, <2>2, <3>2, StagesLeft, CountsAreNumbers DEF Lose
  <2>3. CASE t # s
    BY <1>1, <2>1, <2>3, NoneLost
  <2>4. QED
    BY <2>2, <2>3
<1>5. QED
  BY <1>3, <1>4

(* Only the reader's own bp_recvmsg adds to what is under way for it, and it  *)
(* adds one request.                                                          *)
Asks(s) ==
    /\ Recv(s) /\ Asked(s)' = Asked(s) + 1
    /\ UNCHANGED <<Opening(s), Opened(s), Fetched(s), Filled(s)>>

LEMMA RecvAsks ==
    ASSUME Inv, CarriedFinite, NEW s \in Sockets, OwnService(s), NEW t \in Sockets, Recv(t)
    PROVE  Lose(s) \/ Asks(s)
<1>1. /\ UNCHANGED <<opening, receiving, held, queue>> /\ Unicast(Request(Service(t)))
      /\ Request(Service(t)) \in Commands
  BY ServicesOfSockets, RequestsAreMessages DEF Recv
<1>2. UNCHANGED <<Opening(s), Opened(s), Fetched(s), Filled(s)>>
  BY <1>1, StagesLeft
<1>3. \/ Asked(s)' = Asked(s)
      \/ Request(Service(t)) = Request(Service(s)) /\ Asked(s)' = Asked(s) + 1
  BY <1>1, MessageAsks
<1>4. Request(Service(t)) = Request(Service(s)) => t = s
  BY ServicesOfSockets, RequestsAreMessages DEF OwnService
<1>5. QED
  BY <1>2, <1>3, <1>4, CountsAreNumbers DEF Lose, Asks

LEMMA SendAsksNothing ==
    ASSUME Inv, CarriedFinite, NEW s \in Sockets, NEW o \in Outbound, SendMsg(o)
    PROVE  Lose(s)
<1> DEFINE msg == [cmd |-> "send", arg |-> o]
<1>1. /\ UNCHANGED <<opening, receiving, held, queue>> /\ Unicast(msg)
      /\ msg \in Commands /\ msg # Request(Service(s))
  BY DEF SendMsg, Commands, Request, socketVars
<1> HIDE DEF msg
<1>2. Asked(s)' = Asked(s)
  BY <1>1, MessageAsks
<1>3. QED
  BY <1>1, <1>2, StagesLeft, CountsAreNumbers DEF Lose

LEMMA StagesStep ==
    ASSUME Inv, Places, CarriedFinite, [Next]_vars, NEW s \in Sockets, OwnService(s)
    PROVE  MoveOn(s) \/ Lose(s) \/ Asks(s)
<1>1. ASSUME UNCHANGED <<toDaemon, opening, receiving, held, queue>> PROVE Lose(s)
  BY <1>1, NoneLost
<1>2. ASSUME NEW t \in Sockets, Create(t) \/ BindCheck(t) \/ BindAdd(t) \/ Interrupt(t)
      PROVE  Lose(s)
  BY <1>1, <1>2 DEF Create, BindCheck, BindAdd, Interrupt, daemonVars
<1>3. ASSUME NEW t \in Sockets, Kill(t) PROVE Lose(s)
  BY <1>3, ReleaseLoses DEF Kill
<1>4. ASSUME SocketNext PROVE Lose(s) \/ Asks(s)
  BY <1>2, <1>3, <1>4, RecvAsks, WakeLoses DEF SocketNext
<1>5. ASSUME DaemonNext PROVE MoveOn(s) \/ Lose(s)
  <2>1. CASE Fault
    BY <2>1, FaultLoses
  <2>2. CASE DaemonStarts
    BY <1>1, <2>2 DEF DaemonStarts, socketVars
  <2>3. QED
    BY <1>5, <2>1, <2>2, HandleMovesOn, OpenMovesOn, ReceiveMovesOn, DeliverMovesOn
       DEF DaemonNext, Fault
<1>6. ASSUME (\E b \in Inbound : Arrive(b)) \/ UNCHANGED vars PROVE Lose(s)
  BY <1>1, <1>6 DEF Arrive, vars, socketVars, daemonVars
<1>7. QED
  BY <1>4, <1>5, <1>6, SendAsksNothing DEF Next

LEMMA CarriedStep ==
    Inv /\ Places /\ CarriedFinite /\ [Next]_vars => CarriedFinite'
<1> SUFFICES ASSUME Inv, Places, CarriedFinite, [Next]_vars, NEW s \in Sockets
             PROVE  IsFiniteSet(Carried(s))'
  BY DEF CarriedFinite
<1>1. CASE held' = held
  BY <1>1, StagesLeft DEF CarriedFinite
<1>2. ASSUME NEW b \in Inbound, Deliver(b) PROVE IsFiniteSet(Carried(s))'
  BY <1>2, BundleLeaves DEF Deliver
<1>3. QED
  BY <1>1, <1>2, ReceiveMovesOn, FaultLoses
     DEF Next, SocketNext, DaemonNext, Fault, vars, daemonVars, Create, BindCheck, BindAdd, Recv,
         Wake, Interrupt, Kill, HandleCommand, DaemonStarts, ThreadOpen, Arrive, SendMsg

----------------------------------------------------------------------------
(* The waits of a socket that may have something under way: those it left     *)
(* without a bundle, and the one it is in.                                    *)
Waits(s) == abandoned[s] + (IF state[s] = "waiting" THEN 1 ELSE 0)

LEMMA WaitsStep ==
    ASSUME Inv, [Next]_vars, NEW s \in Sockets
    PROVE  /\ Waits(s) \in Nat
           /\ Recv(s) => Waits(s)' = Waits(s) + 1
           /\ Wake(s) => Waits(s)' = Waits(s) - 1
           /\ ~ Wake(s) => Waits(s)' >= Waits(s)
<1>1. /\ state \in [Sockets -> States] /\ abandoned \in [Sockets -> Nat]
      /\ abandoned[s] \in Nat
  BY DEF Inv, SocketInv, BudgetTypes
<1>2. ASSUME abandoned'[s] = abandoned[s], state[s] # "waiting" \/ state'[s] = "waiting"
      PROVE  Waits(s)' >= Waits(s)
  BY <1>1, <1>2 DEF Waits
<1>3. ASSUME NEW t \in Sockets, Recv(t)
      PROVE  Waits(s)' >= Waits(s) /\ (t = s => Waits(s)' = Waits(s) + 1)
  <2>1. /\ state[t] = "bound" /\ state' = [state EXCEPT ![t] = "waiting"] /\ abandoned' = abandoned
    BY <1>3 DEF Recv, otherVars
  <2>2. QED
    BY <1>1, <2>1 DEF Waits
<1>4. ASSUME NEW t \in Sockets, Wake(t)
      PROVE  (t # s => Waits(s)' >= Waits(s)) /\ (t = s => Waits(s)' = Waits(s) - 1)
  <2>1. /\ state[t] = "waiting" /\ abandoned' = abandoned
        /\ \E x \in {"closed", "bound"} : state' = [state EXCEPT ![t] = x]
    BY <1>4 DEF Wake, Release, otherVars
  <2>2. QED
    BY <1>1, <2>1 DEF Waits
<1>5. ASSUME NEW t \in Sockets, Create(t) \/ BindCheck(t) \/ BindAdd(t)
      PROVE  Waits(s)' >= Waits(s)
  <2>1. /\ state[t] # "waiting" /\ abandoned' = abandoned
        /\ \E x \in {"closed", "created", "checked", "bound"} : state' = [state EXCEPT ![t] = x]
    BY <1>5 DEF Create, BindCheck, BindAdd, otherVars
  <2>2. QED
    BY <1>1, <1>2, <2>1
<1>6. ASSUME NEW t \in Sockets, Interrupt(t) \/ Kill(t) PROVE Waits(s)' >= Waits(s)
  <2>1. /\ \E x \in {"closed", "bound"} : state' = [state EXCEPT ![t] = x]
        /\ abandoned' = IF state[t] = "waiting" THEN [abandoned EXCEPT ![t] = @ + 1]
                        ELSE abandoned
    BY <1>6 DEF Interrupt, Kill, Release
  <2>2. CASE t = s
    BY <1>1, <2>1, <2>2 DEF Waits
  <2>3. CASE t # s
    BY <1>1, <1>2, <2>1, <2>3
  <2>4. QED
    BY <2>2, <2>3
<1>7. ASSUME UNCHANGED <<state, abandoned>> PROVE Waits(s)' >= Waits(s)
  BY <1>1, <1>2, <1>7
<1>8. QED
  <2>1. Waits(s) \in Nat
    BY <1>1 DEF Waits
  <2>2. ~ Wake(s) => Waits(s)' >= Waits(s)
    BY <1>3, <1>4, <1>5, <1>6, <1>7
       DEF Next, SocketNext, DaemonNext, vars, socketVars, otherVars, HandleCommand, CommandFails,
           BundleFails, DaemonStops, DaemonStarts, ThreadOpen, ThreadReceive, ThreadFails,
           Deliver, Arrive, SendMsg
  <2>3. Recv(s) => Waits(s)' = Waits(s) + 1
    BY <1>3
  <2>4. Wake(s) => Waits(s)' = Waits(s) - 1
    BY <1>4
  <2>5. QED
    BY <2>1, <2>2, <2>3, <2>4

LEMMA CountsAreNumbersNext ==
    ASSUME Inv, Inv', CarriedFinite', NEW s \in Sockets
    PROVE  /\ Asked(s)' \in Nat /\ Opening(s)' \in Nat /\ Opened(s)' \in Nat
           /\ Fetched(s)' \in Nat /\ Filled(s)' \in Nat
<1>1. /\ Asked(s)' \in Nat
  BY FS_CardinalityType, OccurrencesAreFinite, AskedCounts DEF Inv, DaemonTypes
<1>2. Opened(s)' \in Nat
  BY OpenedIsOneOrNone
<1>3. Opening(s)' \in Nat
  BY ServicesOfSockets DEF Inv, DaemonTypes, Opening, Service
<1>4. Fetched(s)' \in Nat
  BY FS_CardinalityType DEF CarriedFinite, Fetched
<1>5. queue'[s] \in Seq(Inbound)
  BY DEF Inv, SocketInv
<1>6. QED
  BY <1>1, <1>2, <1>3, <1>4, <1>5 DEF Filled

UnderWay(s) == Asked(s) + Opening(s) + Opened(s) + Fetched(s) + Filled(s)

Accounted == \A s \in Sockets : OwnService(s) => UnderWay(s) <= Waits(s)

LEMMA AccountedStep ==
    Inv /\ Inv' /\ Places /\ CarriedFinite /\ CarriedFinite' /\ Accounted /\ [Next]_vars
        => Accounted'
<1> SUFFICES ASSUME Inv, Inv', Places, CarriedFinite, CarriedFinite', Accounted, [Next]_vars,
                    NEW s \in Sockets, OwnService(s)
             PROVE  UnderWay(s)' <= Waits(s)'
  BY DEF Accounted, OwnService, Service
<1>1. /\ Asked(s) \in Nat /\ Opening(s) \in Nat /\ Opened(s) \in Nat
      /\ Fetched(s) \in Nat /\ Filled(s) \in Nat
  BY CountsAreNumbers
<1>2. /\ Asked(s)' \in Nat /\ Opening(s)' \in Nat /\ Opened(s)' \in Nat
      /\ Fetched(s)' \in Nat /\ Filled(s)' \in Nat
  BY CountsAreNumbersNext
<1>3. UnderWay(s) <= Waits(s) /\ Waits(s) \in Nat
  BY WaitsStep DEF Accounted
<1>4. Waits(s)' \in Int
  BY DEF Waits, Inv, BudgetTypes
<1>5. CASE Wake(s)
  <2>1. Lose(s) /\ Filled(s)' <= Filled(s) - 1 /\ Waits(s)' = Waits(s) - 1
    BY <1>5, WakeLoses, WaitsStep
  <2>2. QED
    BY <1>1, <1>2, <1>3, <2>1 DEF Lose, UnderWay
<1>6. CASE Asks(s)
  <2>1. Waits(s)' = Waits(s) + 1
    BY <1>6, WaitsStep DEF Asks
  <2>2. QED
    BY <1>1, <1>3, <1>6, <2>1 DEF Asks, UnderWay
<1>7. CASE ~ Wake(s) /\ (MoveOn(s) \/ Lose(s))
  <2>1. UnderWay(s)' <= UnderWay(s)
    <3>1. CASE Lose(s)
      BY <1>1, <1>2, <3>1 DEF Lose, UnderWay
    <3>2. CASE MoveOn(s)
      BY <1>1, <1>2, <3>2 DEF MoveOn, UnderWay
    <3>3. QED
      BY <1>7, <3>1, <3>2
  <2>2. Waits(s)' >= Waits(s) /\ UnderWay(s) \in Nat /\ UnderWay(s)' \in Nat
    BY <1>1, <1>2, <1>7, WaitsStep DEF UnderWay
  <2>3. QED
    BY <1>3, <1>4, <2>1, <2>2
<1>8. QED
  BY <1>5, <1>6, <1>7, StagesStep

LEMMA AccountedInvariant == Spec => [](CarriedFinite /\ Accounted)
<1>1. Init => CarriedFinite /\ Accounted
  <2> SUFFICES ASSUME Init, NEW s \in Sockets
               PROVE  IsFiniteSet(Carried(s)) /\ UnderWay(s) <= Waits(s)
    BY DEF CarriedFinite, Accounted
  <2>1. Carried(s) = {} /\ Requests(Service(s)) = {} /\ receiving \cap {Service(s)} = {}
    BY DEF Init, Carried, Requests
  <2>2. IsFiniteSet(Carried(s)) /\ Fetched(s) = 0 /\ Asked(s) = 0 /\ Opened(s) = 0
    BY <2>1, FS_EmptySet DEF Fetched, Asked, Opened
  <2>3. Opening(s) = 0 /\ Filled(s) = 0 /\ Waits(s) = 0
    BY ServicesOfSockets DEF Init, Opening, Filled, Waits
  <2>4. QED
    BY <2>2, <2>3 DEF UnderWay
<1>2. QED
  BY <1>1, CarriedStep, AccountedStep, PlacesInvariant, PTL DEF Spec

(* The requests, threads and bundles under way for the service of a socket    *)
(* are never more than one for the wait it is in and one for each it left     *)
(* without a bundle.  With no interrupted wait and no reader killed asleep it *)
(* is one, and no bundle can overtake another although every request has a    *)
(* thread of its own (af_bp.c:401-459, bp_genl_handlers.c:49-66), whatever    *)
(* call of the daemon fails and however often it restarts.                    *)
THEOREM NothingOvertakes == Spec => []OneUnderWay
<1>1. ASSUME Inv, CarriedFinite, Accounted, NEW s \in Sockets, OwnService(s)
      PROVE  UnderWay(s) <= 1 + abandoned[s]
  <2>1. UnderWay(s) <= Waits(s) /\ UnderWay(s) \in Nat
    BY <1>1, CountsAreNumbers DEF Accounted, UnderWay
  <2>2. abandoned[s] \in Nat
    BY <1>1 DEF Inv, BudgetTypes
  <2>3. QED
    BY <2>1, <2>2 DEF Waits
<1>2. Inv /\ CarriedFinite /\ Accounted => OneUnderWay
  BY <1>1 DEF OneUnderWay, UnderWay, Asked, Opening, Opened, Fetched, Filled, Carried
<1>3. QED
  BY <1>2, AccountedInvariant, PlacesInvariant, PTL

(* What is left to do for the service of a socket: the steps each request,    *)
(* thread and bundle still has before it.                                     *)
WorkLeft(s) == 5 * Asked(s) + 4 * Opening(s) + 3 * Opened(s) + 2 * Fetched(s) + Filled(s)

StagesAreLeft(s) == UNCHANGED <<Asked(s), Opening(s), Opened(s), Fetched(s), Filled(s)>>

(* No step sends a request, thread or bundle of a service back a stage, none  *)
(* answers a request twice: whatever touches them leaves less to do, but for  *)
(* a bp_recvmsg of the reader, which asks for one bundle.  So between two of  *)
(* those the daemon, its threads and the reader's wake-ups come to an end,    *)
(* through interrupted waits, kills, failed calls and restarts.               *)
THEOREM RequestsMoveOn ==
    Spec => [][\A s \in Sockets : OwnService(s) =>
                   \/ WorkLeft(s)' < WorkLeft(s)
                   \/ StagesAreLeft(s)
                   \/ Recv(s) /\ WorkLeft(s)' = WorkLeft(s) + 5]_vars
<1>1. ASSUME Inv, Inv', Places, CarriedFinite, CarriedFinite', [Next]_vars,
             NEW s \in Sockets, OwnService(s)
      PROVE  \/ WorkLeft(s)' < WorkLeft(s)
             \/ StagesAreLeft(s)
             \/ Recv(s) /\ WorkLeft(s)' = WorkLeft(s) + 5
  <2>1. /\ Asked(s) \in Nat /\ Opening(s) \in Nat /\ Opened(s) \in Nat
        /\ Fetched(s) \in Nat /\ Filled(s) \in Nat
    BY <1>1, CountsAreNumbers
  <2>2. /\ Asked(s)' \in Nat /\ Opening(s)' \in Nat /\ Opened(s)' \in Nat
        /\ Fetched(s)' \in Nat /\ Filled(s)' \in Nat
    BY <1>1, CountsAreNumbersNext
  <2>3. CASE Lose(s)
    BY <2>1, <2>2, <2>3 DEF Lose, WorkLeft, StagesAreLeft
  <2>4. CASE MoveOn(s)
    BY <2>1, <2>2, <2>4 DEF MoveOn, WorkLeft
  <2>5. CASE Asks(s)
    BY <2>1, <2>5 DEF Asks, WorkLeft
  <2>6. QED
    BY <1>1, <2>3, <2>4, <2>5, StagesStep
<1>2. Inv /\ Inv' /\ Places /\ CarriedFinite /\ CarriedFinite' /\ [Next]_vars =>
          \A s \in Sockets : OwnService(s) =>
              \/ WorkLeft(s)' < WorkLeft(s)
              \/ StagesAreLeft(s)
              \/ Recv(s) /\ WorkLeft(s)' = WorkLeft(s) + 5
  BY <1>1
<1>3. QED
  BY <1>2, AccountedInvariant, PlacesInvariant, PTL DEF Spec

----------------------------------------------------------------------------
(* The daemon handles its commands in their order, and drops none without a   *)
(* failure but a send that is too long.                                       *)
Send(o) == [cmd |-> "send", arg |-> o]

LEMMA SendsKeptStep ==
    Inv /\ Inv' /\ DaemonKept /\ SendsAreKept /\ [Next]_vars => SendsAreKept'
<1>1. SUFFICES ASSUME Inv, Inv', DaemonKept, SendsAreKept, [Next]_vars, faults' = 0,
                      NEW o \in posted', o \notin TooLong
               PROVE  o \in accepted' \/ Send(o) \in ToSet(toDaemon')
  BY DEF SendsAreKept, Send
<1>2. /\ faults = 0 /\ daemonUp /\ ~ Fault /\ toDaemon \in Seq(Commands)
  BY <1>1, CalmBefore DEF DaemonKept, Inv, DaemonTypes
<1>3. o \in posted => o \in accepted \/ Send(o) \in ToSet(toDaemon)
  BY <1>1, <1>2 DEF SendsAreKept, Send
<1>4. \A msg \in Commands : Unicast(msg) => ToSet(toDaemon') = ToSet(toDaemon) \cup {msg}
  BY <1>2, Appended DEF Unicast
<1>5. ASSUME NEW q \in Outbound, SendMsg(q) PROVE o \in accepted' \/ Send(o) \in ToSet(toDaemon')
  <2>1. Send(q) \in Commands /\ Unicast(Send(q)) /\ accepted' = accepted
        /\ posted' = posted \cup {q}
    BY <1>5 DEF SendMsg, Send, Commands, ionVars
  <2>2. ToSet(toDaemon') = ToSet(toDaemon) \cup {Send(q)}
    BY <1>4, <2>1
  <2>3. QED
    BY <1>1, <1>3, <2>1, <2>2
<1>6. ASSUME NEW s \in Sockets, Recv(s) PROVE o \in accepted' \/ Send(o) \in ToSet(toDaemon')
  <2>1. Request(Service(s)) \in Commands /\ Unicast(Request(Service(s)))
        /\ UNCHANGED <<accepted, posted>>
    BY <1>6, ServicesOfSockets, RequestsAreMessages DEF Recv, ionVars, otherVars, budgetVars
  <2>2. ToSet(toDaemon') = ToSet(toDaemon) \cup {Request(Service(s))}
    BY <1>4, <2>1
  <2>3. QED
    BY <1>1, <1>3, <2>1, <2>2
<1>7. CASE HandleCommand
  <2>1. /\ ToSet(toDaemon) = ToSet(toDaemon') \cup {Head(toDaemon)}
        /\ posted' = posted /\ accepted \subseteq accepted'
    BY <1>1, <1>7, HandleEffect DEF HandleCommand, otherVars, budgetVars
  <2>2. Head(toDaemon) = Send(o) => o \in accepted'
    BY <1>1, <1>7 DEF HandleCommand, Send
  <2>3. QED
    BY <1>1, <1>3, <2>1, <2>2
<1>8. CASE UNCHANGED <<toDaemon, accepted, posted>>
  BY <1>1, <1>3, <1>8
<1>9. QED
  BY <1>1, <1>2, <1>5, <1>6, <1>7, <1>8
     DEF Next, SocketNext, DaemonNext, Fault, vars, socketVars, daemonVars, ionVars, otherVars,
         Create, BindCheck, BindAdd, Wake, Interrupt, Kill, DaemonStarts, ThreadOpen,
         ThreadReceive, Deliver, Arrive

(* As long as no call of the daemon failed and it did not stop, what an       *)
(* application was told is sent and is not too long for ION is with ION or on *)
(* its way there (bp_sendmsg, af_bp.c; on_netlink; ion.c:4-38).               *)
THEOREM PostedIsKept == Spec => []SendsAreKept
<1>1. Init => DaemonKept /\ SendsAreKept
  BY DEF Init, DaemonKept, SendsAreKept
<1>2. Inv /\ Inv' /\ DaemonKept /\ SendsAreKept /\ [Next]_vars => DaemonKept' /\ SendsAreKept'
  BY DaemonKeptStep, SendsKeptStep
<1>3. QED
  BY <1>1, <1>2, Always, PTL DEF Spec

----------------------------------------------------------------------------
(* A socket only ever gets the bundles of its service.                        *)
Homed == \A s \in Sockets, b \in Inbound : Has(s, b) => Service(s) = Dest[b]

LEMMA HomedStep == Inv /\ Places /\ Homed /\ [Next]_vars => Homed'
<1>1. SUFFICES ASSUME Inv, Places, Homed, [Next]_vars,
                      NEW t \in Sockets, NEW c \in Inbound, Has(t, c)'
               PROVE  Service(t) = Dest[c]
  BY DEF Homed, Service
<1>2. /\ queue \in [Sockets -> Seq(Inbound)] /\ read \in [Sockets -> SUBSET Inbound]
      /\ Taken /\ SocketInv
      /\ Has(t, c) => Service(t) = Dest[c]
  BY <1>1 DEF Inv, SocketInv, Places, Homed
<1>3. CASE UNCHANGED <<queue, read>>
  BY <1>1, <1>2, <1>3 DEF Has
<1>4. ASSUME NEW b \in Inbound, Deliver(b) PROVE Service(t) = Dest[c]
  <2>1. CASE queue' = queue
    BY <1>1, <1>2, <1>4, <2>1 DEF Deliver, Has
  <2>2. ASSUME NEW s \in Sockets, Service(s) = Dest[b], queue' = [queue EXCEPT ![s] = Append(@, b)]
        PROVE  Service(t) = Dest[c]
    <3> DEFINE r == Append(queue[s], b)
    <3>1. ToSet(r) = ToSet(queue[s]) \cup {b}
      BY <1>2, Appended
    <3>2. queue'[t] = (IF t = s THEN r ELSE queue[t]) /\ read' = read
      BY <1>2, <1>4, <2>2 DEF Deliver
    <3> HIDE DEF r
    <3>3. Has(t, c) \/ (t = s /\ c = b)
      BY <1>1, <3>1, <3>2 DEF Has
    <3>4. QED
      BY <1>2, <2>2, <3>3
  <2>3. QED
    BY <1>2, <1>4, <2>1, <2>2, DeliverEffect
<1>5. ASSUME NEW s \in Sockets, Release(s), read' = read PROVE Service(t) = Dest[c]
  <2>1. queue'[t] = IF t = s THEN <<>> ELSE queue[t]
    BY <1>2, <1>5 DEF Release
  <2>2. QED
    BY <1>1, <1>2, <1>5, <2>1, EmptySequence DEF Has
<1>6. ASSUME NEW s \in Sockets, Wake(s) PROVE Service(t) = Dest[c]
  <2>1. PICK h \in Inbound :
            /\ h \in ToSet(queue[s])
            /\ IF h \in Oversize THEN Release(s) /\ read' = read
               ELSE \E r : /\ queue' = [queue EXCEPT ![s] = r]
                           /\ ToSet(r) = ToSet(queue[s]) \ {h}
                           /\ read' = [read EXCEPT ![s] = @ \cup {h}]
    BY <1>1, <1>2, <1>6, WakeEffect
  <2>2. CASE h \in Oversize
    BY <1>5, <2>1, <2>2
  <2>3. CASE h \notin Oversize
    <3>1. PICK r : /\ queue' = [queue EXCEPT ![s] = r]
                   /\ ToSet(r) = ToSet(queue[s]) \ {h}
                   /\ read' = [read EXCEPT ![s] = @ \cup {h}]
      BY <2>1, <2>3
    <3>2. /\ queue'[t] = IF t = s THEN r ELSE queue[t]
          /\ read'[t] = IF t = s THEN read[s] \cup {h} ELSE read[t]
      BY <1>2, <3>1
    <3>3. Has(t, c)
      BY <1>1, <2>1, <3>1, <3>2 DEF Has
    <3>4. QED
      BY <1>2, <3>3
  <2>4. QED
    BY <2>2, <2>3
<1>7. QED
  BY <1>1, <1>3, <1>4, <1>5, <1>6
     DEF Next, SocketNext, DaemonNext, vars, socketVars, Create, BindCheck, BindAdd, Recv,
         Interrupt, Kill, HandleCommand, CommandFails, BundleFails, DaemonStops, DaemonStarts,
         ThreadOpen, ThreadReceive, ThreadFails, Arrive, SendMsg

(* On a host where nothing failed, a reader asleep beside an idle daemon has  *)
(* read all there was: no bundle waits in ION for a reader nobody will wake,  *)
(* although a request is asked for one bundle only and a refused bp_open      *)
(* takes a request with it (af_bp.c:401-459, bp_genl_handlers.c:49-66).       *)
THEOREM RestIsRead == Spec => []RestMeansRead
<1>1. Init => Homed
  BY EmptySequence DEF Init, Homed, Has
<1>2. ASSUME Inv, Places, Homed, ReaderHasHelp, NothingLost, Calm,
             NEW s \in Sockets, OwnService(s), AtRest(s), NEW b \in arrived, Dest[b] = Service(s)
      PROVE  b \in read[s]
  <2>1. b \in Inbound
    BY <1>2 DEF Inv, IonTypes
  <2>2. Service(s) \in receiving /\ ion[Service(s)] = <<>> /\ b \notin held
    BY <1>2, ServicesOfSockets DEF AtRest, ReaderHasHelp, Engaged, Calm
  <2>3. ~ InIon(b)
    BY <1>2, <2>2, EmptySequence DEF InIon
  <2>4. PICK t \in Sockets : Has(t, b)
    BY <1>2, <2>2, <2>3 DEF NothingLost, InIon, Queued, Readers, Has
  <2>5. t = s
    BY <1>2, <2>1, <2>4 DEF Homed, OwnService
  <2>6. QED
    BY <1>2, <2>4, <2>5, EmptySequence DEF Has, AtRest
<1>3. Inv /\ Places /\ Homed /\ ReaderHasHelp /\ NothingLost => RestMeansRead
  BY <1>2 DEF RestMeansRead
<1>4. QED
  BY <1>1, <1>3, HomedStep, PlacesInvariant, SleepersAreServed, BundlesAreKept, PTL DEF Spec
=============================================================================
